----------------------------- MODULE StateStore -----------------------------
(***************************************************************************)
(* The blocking snapshot store of src/mimo_halo/state_tier/store.py.       *)
(* Each client is one run of the CLI (put, get or inspect) against a       *)
(* shared root, one action per step another process, the caller, the disk  *)
(* or a crash can come between.  The store has three kinds of state: the   *)
(* SQLite index (a committed row is durable: synchronous = FULL), the      *)
(* content-addressed blobs (a renamed blob is visible at once but survives *)
(* a power loss only after its directory is fsynced) and the caller's own  *)
(* files: state files, restore destinations and receipts.                  *)
(***************************************************************************)
EXTENDS Naturals

CONSTANTS
    Clients,        \* CLI processes
    Namespaces, Fingerprints, Sessions, Generations, Tokens, Contents,
    Files,          \* caller files, outside the root
    NoDirectory,    \* those of them whose directory does not exist
    Start,          \* the caller files before the first command
    Puts, Gets, Inspects,   \* the commands that may be issued
    Limits,         \* how many events of each kind a behaviour may have
    Absent, Nil

Identities  == [namespace : Namespaces, fingerprint : Fingerprints]
SnapshotIds == Namespaces \X Sessions \X Generations
BlobPaths   == Namespaces \X Contents
PutArgs     == [op : {"put"}, identity : Identities, session : Sessions,
                generation : Generations, tokens : Tokens,
                state : Files, output : Files]
GetArgs     == [op : {"get"}, id : SnapshotIds, identity : Identities,
                output : Files]
InspectArgs == [op : {"inspect"}, id : SnapshotIds]
Commands    == Puts \cup Gets \cup Inspects
StateFiles  == {a.state : a \in Puts}

(* command: CLI runs; edit: the caller rewrites a state file; rot: a blob  *)
(* changes or vanishes on disk; death: a process is killed or an I/O call  *)
(* raises; outage: power loss; tick: the clock moves by a second.          *)
Kinds == {"command", "edit", "rot", "death", "outage", "tick"}

ASSUME ArgsAssumption ==
    /\ Puts \subseteq PutArgs /\ Gets \subseteq GetArgs
    /\ Inspects \subseteq InspectArgs
    /\ \A a \in Puts, b \in Puts \cup Gets : a.state # b.output
ASSUME LimitAssumption == Limits # {} /\ Limits \subseteq [Kinds -> Nat]
ASSUME StartAssumption == Start \in [Files -> Contents \cup {Absent}]
ASSUME NilAssumption   == Absent \notin Contents /\ Nil \notin Clients

Row     == [content : Contents, identity : Identities, tokens : Tokens,
            created : Nat, accessed : Nat]
Receipt == [id : SnapshotIds, row : Row]

ASSUME SentinelAssumption ==
    /\ Nil \notin Row /\ Nil \notin Contents \cup {Absent}
    /\ \A c \in Contents \cup {Absent} : c \notin Receipt

VARIABLES
    index,      \* committed rows of index.sqlite
    blobs,      \* blob names as processes see them
    onDisk,     \* blob names that survive a power loss
    user,       \* the caller's files
    lock,       \* holder of active-index/store.lock
    clock,      \* time.time() in seconds
    pc, job,    \* where each client is, and its local variables
    result,     \* how its last command ended
    spent       \* events of each kind so far

vars == <<index, blobs, onDisk, user, lock, clock, pc, job, result, spent>>
-----------------------------------------------------------------------------
NoJob == [arg |-> Nil, hash |-> Nil, seen |-> Nil, staged |-> Nil, now |-> 0]

Locked == {"prehash", "probe", "stage", "publish", "sync", "commit",
           "find", "restore", "replace", "touch", "inspect"}

(* _snapshot_id: a digest of (namespace, session, generation).             *)
SnapshotId(a) ==
    IF a.op = "put" THEN <<a.identity.namespace, a.session, a.generation>>
                    ELSE a.id

(* blobs/<namespace shard>/<sha256>.bin                                    *)
BlobPath(identity, content) == <<identity.namespace, content>>

Init ==
    /\ index  = [i \in SnapshotIds |-> Nil]
    /\ blobs  = [b \in BlobPaths |-> Absent]
    /\ onDisk = [b \in BlobPaths |-> Absent]
    /\ user   = Start
    /\ lock   = Nil
    /\ clock  = 0
    /\ pc     = [p \in Clients |-> "idle"]
    /\ job    = [p \in Clients |-> NoJob]
    /\ result = [p \in Clients |-> "none"]
    /\ spent  = [k \in Kinds |-> 0]

(* A behaviour stays within one of the budgets.                            *)
Spend(k) == /\ \E limit \in Limits : /\ spent[k] < limit[k]
                                     /\ \A e \in Kinds : spent[e] <= limit[e]
            /\ spent' = [spent EXCEPT ![k] = @ + 1]

Goto(p, step) == pc' = [pc EXCEPT ![p] = step]

(* Mutant: a refused command returns without leaving the lock's block.     *)
KeptLock(p) == lock
FreedLock(p) == IF lock = p THEN Nil ELSE lock

(* The command ends: its locals are gone, and the lock's with block, if it *)
(* is inside one, is left.                                                 *)
End(p, outcome) ==
    /\ Goto(p, "idle")
    /\ job'    = [job EXCEPT ![p] = NoJob]
    /\ result' = [result EXCEPT ![p] = outcome]
    /\ lock'   = FreedLock(p)

Refuse(p) == End(p, "refused") /\ UNCHANGED <<index, blobs, onDisk, user>>

-----------------------------------------------------------------------------
(* Argument checks made before the lock is taken.                          *)
Invoke(p, a) ==
    /\ pc[p] = "idle"
    /\ Spend("command")
    /\ IF a.op = "put" /\ user[a.state] = Absent
         THEN Refuse(p)
         ELSE /\ Goto(p, "wait")
              /\ job'    = [job EXCEPT ![p].arg = a]
              /\ result' = [result EXCEPT ![p] = "none"]
              /\ UNCHANGED <<index, blobs, onDisk, user, lock>>
    /\ UNCHANGED clock

(* Mutant: flock with LOCK_SH.                                             *)
SharedLockFree == TRUE
LockFree == lock = Nil

(* flock(LOCK_EX), which the kernel drops when its holder dies.            *)
Lock(p) ==
    /\ pc[p] = "wait"
    /\ LockFree
    /\ lock' = p
    /\ Goto(p, IF job[p].arg.op = "put" THEN "prehash"
               ELSE IF job[p].arg.op = "get" THEN "find" ELSE "inspect")
    /\ UNCHANGED <<index, blobs, onDisk, user, clock, job, result, spent>>

(* Mutant: the generation check compares metadata but not the bytes.       *)
UnchangedMetadata(row, a, content) ==
    row.identity = a.identity /\ row.tokens = a.tokens

Unchanged(row, a, content) ==
    /\ row.content = content
    /\ row.identity = a.identity
    /\ row.tokens = a.tokens

(* Mutant: a state file that cannot be read counts as empty.               *)
ReadAnyhow(content) == TRUE
Readable(content) == content # Absent

(* put: hash the state file, then the generation check.                    *)
Prehash(p) ==
    LET a       == job[p].arg
        content == user[a.state]
        row     == index[SnapshotId(a)]
    IN  /\ pc[p] = "prehash"
        /\ IF ~Readable(content) \/ (row # Nil /\ ~Unchanged(row, a, content))
             THEN Refuse(p)
             ELSE /\ job' = [job EXCEPT ![p].hash = content,
                                        ![p].seen = row,
                                        ![p].now  = clock]
                  /\ Goto(p, "probe")
                  /\ UNCHANGED <<index, blobs, onDisk, user, lock, result>>
        /\ UNCHANGED <<clock, spent>>

(* put: a blob that already holds these bytes is reused as it is.          *)
PutBlob(p) == BlobPath(job[p].arg.identity, job[p].hash)

Probe(p) ==
    /\ pc[p] = "probe"
    /\ Goto(p, IF blobs[PutBlob(p)] = job[p].hash THEN "commit" ELSE "stage")
    /\ UNCHANGED <<index, blobs, onDisk, user, lock, clock, job, result, spent>>

(* Mutant: the copy is not compared with the prehash.                      *)
CopyOfAnything(p, copy) == TRUE
CopyVerified(p, copy) == copy = job[p].hash

(* put: copy the state file aside and compare the copy with the prehash.   *)
Stage(p) ==
    LET copy == user[job[p].arg.state] IN
    /\ pc[p] = "stage"
    /\ IF ~Readable(copy) \/ ~CopyVerified(p, copy)
         THEN Refuse(p)
         ELSE /\ job' = [job EXCEPT ![p].staged = copy]
              /\ Goto(p, "publish")
              /\ UNCHANGED <<index, blobs, onDisk, user, lock, result>>
    /\ UNCHANGED <<clock, spent>>

(* put: rename the copy into place ...                                     *)
Publish(p) ==
    /\ pc[p] = "publish"
    /\ blobs' = [blobs EXCEPT ![PutBlob(p)] = job[p].staged]
    /\ Goto(p, "sync")
    /\ UNCHANGED <<index, onDisk, user, lock, clock, job, result, spent>>

(* Mutant: the directory is not fsynced.                                   *)
SyncNothing(p) ==
    /\ pc[p] = "sync"
    /\ Goto(p, "commit")
    /\ UNCHANGED <<index, blobs, onDisk, user, lock, clock, job, result, spent>>

(* ... and fsync the namespace directory.                                  *)
Sync(p) ==
    /\ pc[p] = "sync"
    /\ onDisk' = [b \in BlobPaths |->
                     IF b[1] = job[p].arg.identity.namespace
                       THEN blobs[b] ELSE onDisk[b]]
    /\ Goto(p, "commit")
    /\ UNCHANGED <<index, blobs, user, lock, clock, job, result, spent>>

NewRow(j) == [content |-> j.hash, identity |-> j.arg.identity,
              tokens |-> j.arg.tokens, created |-> j.now, accessed |-> j.now]

(* Mutant: INSERT OR REPLACE whether or not the row existed.               *)
ReplaceRow(j) == [index EXCEPT ![SnapshotId(j.arg)] = NewRow(j)]
UpsertRow(j) ==
    IF j.seen = Nil THEN [index EXCEPT ![SnapshotId(j.arg)] = NewRow(j)]
                    ELSE [index EXCEPT ![SnapshotId(j.arg)].accessed = j.now]

(* put: chmod the blob, insert or touch the row, commit, leave the lock.   *)
(* The insert meets the UNIQUE constraint if the row came to exist.        *)
Commit(p) ==
    LET j == job[p] IN
        /\ pc[p] = "commit"
        /\ IF blobs[PutBlob(p)] = Absent
             THEN End(p, "failed") /\ UNCHANGED <<index, blobs, onDisk, user>>
           ELSE IF j.seen = Nil /\ index[SnapshotId(j.arg)] # Nil
             THEN Refuse(p)
             ELSE /\ index' = UpsertRow(j)
                  /\ Goto(p, "receipt")
                  /\ lock' = Nil
                  /\ UNCHANGED <<blobs, onDisk, user, job, result>>
        /\ UNCHANGED <<clock, spent>>

Created(j) == IF j.seen = Nil THEN j.now ELSE j.seen.created

ReceiptOf(j) ==
    [id  |-> SnapshotId(j.arg),
     row |-> [content |-> j.hash, identity |-> j.arg.identity,
              tokens |-> j.arg.tokens, created |-> Created(j),
              accessed |-> j.now]]

(* put: the receipt replaces the output file, without the lock.            *)
WriteReceipt(p) ==
    LET j == job[p] IN
    /\ pc[p] = "receipt"
    /\ IF j.arg.output \in NoDirectory
         THEN Refuse(p)
         ELSE /\ user' = [user EXCEPT ![j.arg.output] = ReceiptOf(j)]
              /\ End(p, "ok")
              /\ UNCHANGED <<index, blobs, onDisk>>
    /\ UNCHANGED <<clock, spent>>
-----------------------------------------------------------------------------
(* Mutant: the identity is not compared.                                   *)
KnownToAnyone(row, a) == row # Nil
KnownTo(row, a) == row # Nil /\ row.identity = a.identity

(* get: look the row up and compare identities.                            *)
Find(p) ==
    LET a   == job[p].arg
        row == index[a.id]
    IN  /\ pc[p] = "find"
        /\ IF ~KnownTo(row, a) \/ a.output \in NoDirectory
             THEN Refuse(p)
             ELSE /\ job' = [job EXCEPT ![p].seen = row]
                  /\ Goto(p, "restore")
                  /\ UNCHANGED <<index, blobs, onDisk, user, lock, result>>
        /\ UNCHANGED <<clock, spent>>

(* Mutant: any readable blob is restored.                                  *)
BlobReadable(row, copy) == TRUE
BlobVerified(row, copy) == copy = row.content

(* get: copy the blob beside the destination and verify the copy.          *)
Restore(p) ==
    LET row  == job[p].seen
        copy == blobs[BlobPath(row.identity, row.content)]
    IN  /\ pc[p] = "restore"
        /\ IF copy = Absent \/ ~BlobVerified(row, copy)
             THEN Refuse(p)
             ELSE /\ job' = [job EXCEPT ![p].staged = copy]
                  /\ Goto(p, "replace")
                  /\ UNCHANGED <<index, blobs, onDisk, user, lock, result>>
        /\ UNCHANGED <<clock, spent>>

Replace(p) ==
    /\ pc[p] = "replace"
    /\ user' = [user EXCEPT ![job[p].arg.output] = job[p].staged]
    /\ Goto(p, "touch")
    /\ UNCHANGED <<index, blobs, onDisk, lock, clock, job, result, spent>>

(* get: bump last_accessed, commit, leave the lock.                        *)
Touch(p) ==
    /\ pc[p] = "touch"
    /\ index' = [index EXCEPT ![job[p].arg.id].accessed = clock]
    /\ End(p, "ok")
    /\ UNCHANGED <<blobs, onDisk, user, clock, spent>>

Inspect(p) ==
    /\ pc[p] = "inspect"
    /\ End(p, IF index[job[p].arg.id] = Nil THEN "refused" ELSE "ok")
    /\ UNCHANGED <<index, blobs, onDisk, user, clock, spent>>
-----------------------------------------------------------------------------
(* The caller rewrites or removes a state file between two commands, or    *)
(* under a running one.                                                    *)
Edit ==
    /\ Spend("edit")
    /\ \E f \in StateFiles : \E c \in (Contents \cup {Absent}) \ {user[f]} :
          user' = [user EXCEPT ![f] = c]
    /\ UNCHANGED <<index, blobs, onDisk, lock, clock, pc, job, result>>

(* A blob is damaged or removed behind the store's back.                   *)
Rot ==
    /\ Spend("rot")
    /\ \E b \in BlobPaths : \E c \in (Contents \cup {Absent}) \ {blobs[b]} :
          /\ blobs[b] # Absent
          /\ blobs'  = [blobs EXCEPT ![b] = c]
          /\ onDisk' = [onDisk EXCEPT ![b] = c]
    /\ UNCHANGED <<index, user, lock, clock, pc, job, result>>

(* The process is killed, or an I/O or SQLite call raises, at any step.    *)
Die(p) ==
    /\ pc[p] # "idle"
    /\ Spend("death")
    /\ End(p, "failed")
    /\ UNCHANGED <<index, blobs, onDisk, user, clock>>

(* Power is lost: every process is gone, and each renamed blob whose       *)
(* directory was not fsynced may or may not have reached the disk.         *)
Outage ==
    /\ Spend("outage")
    /\ \E kept \in SUBSET {b \in BlobPaths : blobs[b] # onDisk[b]} :
          blobs' = [b \in BlobPaths |-> IF b \in kept THEN blobs[b] ELSE onDisk[b]]
    /\ onDisk' = blobs'
    /\ lock'   = Nil
    /\ pc'     = [p \in Clients |-> "idle"]
    /\ job'    = [p \in Clients |-> NoJob]
    /\ result' = [p \in Clients |-> IF pc[p] = "idle" THEN result[p] ELSE "failed"]
    /\ UNCHANGED <<index, user, clock>>

Tick ==
    /\ Spend("tick")
    /\ clock' = clock + 1
    /\ UNCHANGED <<index, blobs, onDisk, user, lock, pc, job, result>>

(* Nothing is running; the callers may be done with the store.             *)
Rest == (\A p \in Clients : pc[p] = "idle") /\ UNCHANGED vars
-----------------------------------------------------------------------------
Step(p) ==
    \/ Lock(p)
    \/ Prehash(p) \/ Probe(p) \/ Stage(p) \/ Publish(p) \/ Sync(p)
    \/ Commit(p) \/ WriteReceipt(p)
    \/ Find(p) \/ Restore(p) \/ Replace(p) \/ Touch(p)
    \/ Inspect(p)

Next ==
    \/ \E p \in Clients : \E a \in Commands : Invoke(p, a)
    \/ \E p \in Clients : Step(p) \/ Die(p)
    \/ Edit \/ Rot \/ Outage \/ Tick
    \/ Rest

Spec     == Init /\ [][Next]_vars
FairSpec == Spec /\ \A p \in Clients : WF_vars(Step(p))
-----------------------------------------------------------------------------
(* Every variable has its type.                                            *)
Jobs == [arg : Commands \cup {Nil}, hash : Contents \cup {Nil},
         seen : Row \cup {Nil}, staged : Contents \cup {Nil}, now : Nat]

TypeOK ==
    /\ index  \in [SnapshotIds -> Row \cup {Nil}]
    /\ blobs  \in [BlobPaths -> Contents \cup {Absent}]
    /\ onDisk \in [BlobPaths -> Contents \cup {Absent}]
    /\ user   \in [Files -> Contents \cup {Absent} \cup Receipt]
    /\ \A f \in StateFiles : user[f] \in Contents \cup {Absent}
    /\ lock   \in Clients \cup {Nil}
    /\ clock  \in Nat
    /\ pc     \in [Clients -> {"idle", "wait", "receipt"} \cup Locked]
    /\ job    \in [Clients -> Jobs]
    /\ result \in [Clients -> {"none", "ok", "refused", "failed"}]
    /\ spent  \in [Kinds -> Nat]

(* One command at a time is between taking and leaving the store lock, so  *)
(* what a command read there still holds when it writes.                   *)
Serialized == \A p \in Clients : pc[p] \in Locked <=> lock = p

(* A row is published only once the blob it names survives a power loss    *)
(* (the ordering in docs/state-store.md, steps 4 and 5).  It is the lock,  *)
(* the prehash check and the directory fsync together that give this.      *)
DurablePublication ==
    \A i \in SnapshotIds :
        index[i] # Nil =>
            onDisk[BlobPath(index[i].identity, index[i].content)] = index[i].content

(* As long as no process dies in a command, through any number of power    *)
(* losses and edits.                                                       *)
DurableUnlessKilled ==
    spent["rot"] = 0 /\ spent["death"] = 0 => DurablePublication

PutSteps == {"prehash", "probe", "stage", "publish", "sync", "commit", "receipt"}
GetSteps == {"find", "restore", "replace", "touch"}

(* What holds at each step of the commands in flight: the inductive part.  *)
JobOK(p) ==
    LET j   == job[p]
        row == index[SnapshotId(j.arg)]
    IN  /\ pc[p] = "wait" => j.arg \in Commands
        /\ pc[p] \in PutSteps => j.arg \in Puts
        /\ pc[p] \in GetSteps => j.arg \in Gets
        /\ pc[p] = "inspect" => j.arg \in Inspects
        /\ pc[p] \in PutSteps \ {"prehash"} => j.hash \in Contents /\ j.now <= clock
        /\ pc[p] \in PutSteps \ {"prehash", "receipt"} =>
               j.seen = row /\ (row # Nil => /\ Unchanged(row, j.arg, j.hash)
                                            /\ row.accessed <= j.now)
        /\ pc[p] = "publish" => j.staged = j.hash
        /\ pc[p] = "receipt" =>
               /\ row # Nil
               /\ Unchanged(row, j.arg, j.hash)
               /\ row.created = Created(j)
               /\ j.now <= row.accessed
        /\ pc[p] \in GetSteps \ {"find"} =>
               row # Nil /\ j.seen = row /\ row.identity = j.arg.identity
        /\ pc[p] = "replace" => j.staged = row.content

RowsOK ==
    \A i \in SnapshotIds :
        index[i] # Nil =>
            /\ index[i].identity.namespace = i[1]
            /\ index[i].created <= index[i].accessed /\ index[i].accessed <= clock

(* The inductive invariant: a command in flight still agrees with the row  *)
(* it looked up, so nobody else wrote it between lookup and commit.        *)
StoreInv == TypeOK /\ Serialized /\ RowsOK /\ \A p \in Clients : JobOK(p)

(* As long as the disk neither damaged a blob nor lost power, what a       *)
(* process sees under a row's blob name are the row's bytes, through edits *)
(* of the state file and deaths of processes.                              *)
RowsReadBack ==
    \A i \in SnapshotIds :
        index[i] # Nil =>
            blobs[BlobPath(index[i].identity, index[i].content)] = index[i].content
IntactBlobs == spent["rot"] = 0 /\ spent["outage"] = 0 => RowsReadBack

(* A receipt in the caller's hands describes a committed row exactly: its  *)
(* content, identity, token metadata and creation time, and an access time *)
(* the row has reached.                                                    *)
ReceiptsTellTruth ==
    \A f \in Files :
        user[f] \in Receipt =>
            LET r == user[f].row
                row == index[user[f].id]
            IN  /\ row # Nil
                /\ r = [row EXCEPT !.accessed = r.accessed]
                /\ r.accessed <= row.accessed

(* The generation fence: once committed, a generation is never deleted and *)
(* its content, identity, tokens and creation time never change, whatever  *)
(* later or concurrent commands try; its access time never moves back.     *)
GenerationFence ==
    [][\A i \in SnapshotIds :
           index[i] # Nil =>
               /\ index'[i] # Nil
               /\ index'[i] = [index[i] EXCEPT !.accessed = index'[i].accessed]
               /\ index'[i].accessed >= index[i].accessed]_vars

(* Every command ends, and with it the lock is passed on, though commands  *)
(* compete for the lock and one of them may die holding it.                *)
CommandsEnd == \A p \in Clients : pc[p] # "idle" ~> pc[p] = "idle"

(* The readings of the clock.                                              *)
Moments == UNION {0 .. limit["tick"] : limit \in Limits}

(* The store implements the abstract registry.                             *)
Registry == INSTANCE SnapshotRegistry WITH
                registry <- index, files <- user, Inputs <- StateFiles,
                Ids <- SnapshotIds, Times <- Moments
RegistrySpec == Registry!Spec

(* The bytes of a committed row are there: in memory through deaths and    *)
(* edits, on disk through power losses (the order of rename, fsync         *)
(* and commit in put).                                                     *)
BlobsKept == IntactBlobs /\ DurableUnlessKilled
=============================================================================
