-------------------------- MODULE StateStoreProofs --------------------------
(* Theorems about StateStore, for every choice of its constants.           *)
EXTENDS StateStore, TLAPS

(* The id a command names is one of the snapshot ids.                      *)
LEMMA SnapshotIdType ==
    ASSUME NEW a \in Commands
    PROVE  SnapshotId(a) \in SnapshotIds
<1>1. CASE a \in Puts
  BY <1>1, ArgsAssumption DEF PutArgs, Identities, SnapshotIds, SnapshotId
<1>2. CASE a \in Gets \cup Inspects
  BY <1>2, ArgsAssumption DEF GetArgs, InspectArgs, SnapshotIds, SnapshotId
<1> QED
  BY <1>1, <1>2 DEF Commands

(* Fresh locals have their type.                                           *)
LEMMA NoJobType == NoJob \in Jobs
BY DEF NoJob, Jobs

(* Ending a command keeps the types of what it sets.                       *)
LEMMA EndType ==
    ASSUME TypeOK, NEW p \in Clients, NEW r \in {"ok", "refused", "failed"}, End(p, r)
    PROVE  /\ pc' \in [Clients -> {"idle", "wait", "receipt"} \cup Locked]
           /\ job' \in [Clients -> Jobs]
           /\ result' \in [Clients -> {"none", "ok", "refused", "failed"}]
           /\ lock' \in Clients \cup {Nil}
BY NoJobType DEF TypeOK, End, FreedLock, Goto

(* Refusing a command keeps every type.                                    *)
LEMMA RefuseType ==
    ASSUME TypeOK, NEW p \in Clients, Refuse(p), clock' \in Nat,
           spent' \in [Kinds -> Nat]
    PROVE  TypeOK'
BY EndType DEF Refuse, TypeOK

(* Counting an event keeps the counters natural.                           *)
LEMMA SpendType ==
    ASSUME TypeOK, NEW k \in Kinds, Spend(k)
    PROVE  spent' \in [Kinds -> Nat]
BY LimitAssumption DEF TypeOK, Spend

(* Moving to another step keeps pc in its type.                            *)
LEMMA GotoType ==
    ASSUME TypeOK, NEW p \in Clients,
           NEW s \in {"idle", "wait", "receipt"} \cup Locked, Goto(p, s)
    PROVE  pc' \in [Clients -> {"idle", "wait", "receipt"} \cup Locked]
BY DEF TypeOK, Goto

(* An accepted invocation keeps every type.                                *)
LEMMA InvokeType ==
    ASSUME TypeOK, NEW p \in Clients, NEW a \in Commands, Invoke(p, a),
           ~(a.op = "put" /\ user[a.state] = Absent)
    PROVE  TypeOK'
<1>1. spent' \in [Kinds -> Nat] /\ clock' \in Nat
  BY SpendType DEF Invoke, TypeOK, Kinds
<1>2. pc' \in [Clients -> {"idle", "wait", "receipt"} \cup Locked]
  BY GotoType DEF Invoke
<1>3. [job[p] EXCEPT !.arg = a] \in Jobs
  BY DEF TypeOK, Jobs
<1>4. job' \in [Clients -> Jobs]
  BY <1>3 DEF Invoke, TypeOK
<1>5. result' \in [Clients -> {"none", "ok", "refused", "failed"}]
  BY DEF Invoke, TypeOK
<1> QED
  BY <1>1, <1>2, <1>4, <1>5 DEF Invoke, TypeOK

(* Taking the lock keeps every type.                                       *)
LEMMA LockType ==
    ASSUME TypeOK, NEW p \in Clients, Lock(p)
    PROVE  TypeOK'
<1>1. pc' \in [Clients -> {"idle", "wait", "receipt"} \cup Locked]
  BY DEF Lock, Goto, TypeOK, Locked
<1> QED
  BY <1>1 DEF Lock, TypeOK

(* A job keeps what it knows while its own step, locals and row stand.     *)
LEMMA JobFrame ==
    ASSUME NEW q \in Clients, JobOK(q), TypeOK, clock' \in Nat, clock <= clock',
           pc'[q] = pc[q], job'[q] = job[q], index' = index
    PROVE  JobOK(q)'
<1>1. job[q].now \in Nat /\ clock \in Nat
  BY DEF TypeOK, Jobs
<1>2. job[q].now <= clock => job[q].now <= clock'
  BY <1>1
<1> QED
  BY <1>2 DEF JobOK, Unchanged, Created

(* A row that was only accessed since.                                     *)
Grows(old, new) ==
    /\ new # Nil
    /\ new.content = old.content /\ new.identity = old.identity
    /\ new.tokens = old.tokens /\ new.created = old.created
    /\ old.accessed <= new.accessed

(* A job outside the lock survives another command's update.               *)
LEMMA JobOutside ==
    ASSUME NEW q \in Clients, JobOK(q), TypeOK, TypeOK', clock <= clock',
           pc[q] \notin Locked, pc'[q] = pc[q], job'[q] = job[q],
           \A i \in SnapshotIds : index[i] # Nil => Grows(index[i], index'[i])
    PROVE  JobOK(q)'
<1>1. CASE pc[q] = "receipt"
  <2>1. job[q].arg \in Puts /\ job[q].now \in Nat
    BY <1>1 DEF JobOK, TypeOK, Jobs, PutSteps
  <2>2. SnapshotId(job[q].arg) \in SnapshotIds
    BY <2>1, SnapshotIdType DEF Commands
  <2> QED
    BY <1>1, <2>1, <2>2 DEF JobOK, Unchanged, Created, Grows, TypeOK, Row, PutSteps, GetSteps
<1>2. CASE pc[q] = "wait" \/ pc[q] = "idle"
  BY <1>2 DEF JobOK, PutSteps, GetSteps
<1> QED
  BY <1>1, <1>2 DEF TypeOK

(* One client moves: its own parts of the invariant are enough.            *)
LEMMA StepInv ==
    ASSUME StoreInv, NEW p \in Clients, TypeOK', Serialized', RowsOK', JobOK(p)',
           clock <= clock',
           \A q \in Clients \ {p} : pc'[q] = pc[q] /\ job'[q] = job[q],
           \/ index' = index
           \/ /\ lock = p
              /\ \A i \in SnapshotIds : index[i] # Nil => Grows(index[i], index'[i])
    PROVE  StoreInv'
<1>1. ASSUME NEW q \in Clients, q # p PROVE JobOK(q)'
  <2>1. CASE index' = index
    BY <1>1, <2>1, JobFrame DEF StoreInv, TypeOK
  <2>2. CASE lock = p /\ \A i \in SnapshotIds : index[i] # Nil => Grows(index[i], index'[i])
    <3>1. pc[q] \notin Locked
      BY <1>1, <2>2, NilAssumption DEF StoreInv, Serialized
    <3> QED
      BY <1>1, <2>2, <3>1, JobOutside DEF StoreInv
  <2> QED
    BY <2>1, <2>2
<1> QED
  BY <1>1 DEF StoreInv

(* A step from one locked place to another.                                *)
LEMMA LockedStepInv ==
    ASSUME StoreInv, NEW p \in Clients, NEW s \in Locked, pc[p] \in Locked,
           Goto(p, s), lock' = lock, index' = index, clock' = clock,
           \A q \in Clients \ {p} : job'[q] = job[q], TypeOK', JobOK(p)'
    PROVE  StoreInv'
<1>1. pc'[p] = s /\ \A q \in Clients \ {p} : pc'[q] = pc[q]
  BY DEF StoreInv, TypeOK, Goto
<1>2. Serialized'
  BY <1>1 DEF StoreInv, Serialized
<1>3. RowsOK' /\ clock <= clock'
  BY DEF StoreInv, RowsOK, TypeOK
<1> QED
  BY <1>1, <1>2, <1>3, StepInv

(* A step that ends the command and lets go of the lock.                   *)
LEMMA EndInv ==
    ASSUME StoreInv, NEW p \in Clients, NEW r \in {"ok", "refused", "failed"},
           End(p, r), clock' = clock, TypeOK', RowsOK',
           \/ index' = index
           \/ /\ lock = p
              /\ \A i \in SnapshotIds : index[i] # Nil => Grows(index[i], index'[i])
    PROVE  StoreInv'
<1>1. /\ pc'[p] = "idle" /\ lock' = FreedLock(p)
      /\ \A q \in Clients \ {p} : pc'[q] = pc[q] /\ job'[q] = job[q]
  BY DEF StoreInv, TypeOK, End, Goto
<1>2. Serialized'
  BY <1>1, NilAssumption DEF StoreInv, Serialized, FreedLock, Locked
<1>3. JobOK(p)'
  BY <1>1 DEF JobOK, PutSteps, GetSteps
<1>4. clock <= clock'
  BY DEF StoreInv, TypeOK
<1> QED
  BY <1>1, <1>2, <1>3, <1>4, StepInv

(* Refusing a command preserves the invariant.                             *)
LEMMA RefuseInv ==
    ASSUME StoreInv, NEW p \in Clients, Refuse(p), clock' = clock,
           spent' \in [Kinds -> Nat]
    PROVE  StoreInv'
<1>1. TypeOK'
  BY RefuseType DEF StoreInv, TypeOK
<1>2. RowsOK' /\ index' = index /\ End(p, "refused")
  BY DEF StoreInv, RowsOK, Refuse
<1> QED
  BY <1>1, <1>2, EndInv

(* Invoking a command preserves the invariant.                             *)
LEMMA InvokeInv ==
    ASSUME StoreInv, NEW p \in Clients, NEW a \in Commands, Invoke(p, a)
    PROVE  StoreInv'
<1>0. spent' \in [Kinds -> Nat] /\ clock' = clock
  BY SpendType DEF Invoke, Kinds, StoreInv
<1>1. CASE a.op = "put" /\ user[a.state] = Absent
  BY <1>0, <1>1, RefuseInv DEF Invoke
<1>2. CASE ~(a.op = "put" /\ user[a.state] = Absent)
  <2>1. TypeOK'
    BY <1>2, InvokeType DEF StoreInv
  <2>2. /\ pc[p] = "idle" /\ pc'[p] = "wait" /\ job'[p].arg = a /\ lock' = lock
        /\ index' = index
        /\ \A q \in Clients \ {p} : pc'[q] = pc[q] /\ job'[q] = job[q]
    BY <1>2 DEF Invoke, Goto, StoreInv, TypeOK, Jobs
  <2>3. Serialized' /\ RowsOK' /\ clock <= clock'
    BY <1>0, <2>2 DEF StoreInv, Serialized, RowsOK, Locked, TypeOK
  <2>4. JobOK(p)'
    BY <2>2 DEF JobOK, PutSteps, GetSteps
  <2> QED
    BY <2>1, <2>2, <2>3, <2>4, StepInv
<1> QED
  BY <1>1, <1>2

(* Taking the lock preserves the invariant.                                *)
LEMMA LockInv ==
    ASSUME StoreInv, NEW p \in Clients, Lock(p)
    PROVE  StoreInv'
<1>1. TypeOK'
  BY LockType DEF StoreInv
<1>2. /\ pc[p] = "wait" /\ lock = Nil /\ lock' = p
      /\ index' = index /\ job' = job /\ clock' = clock
      /\ \A q \in Clients \ {p} : pc'[q] = pc[q]
      /\ pc'[p] = IF job[p].arg.op = "put" THEN "prehash"
                  ELSE IF job[p].arg.op = "get" THEN "find" ELSE "inspect"
  BY DEF Lock, LockFree, Goto, StoreInv, TypeOK
<1>3. Serialized' /\ RowsOK' /\ clock <= clock'
  BY <1>2, NilAssumption DEF StoreInv, Serialized, RowsOK, Locked, TypeOK
<1>4. JobOK(p)'
  <2>1. job[p].arg \in Commands
    BY <1>2 DEF StoreInv, JobOK
  <2> QED
    BY <1>2, <2>1, ArgsAssumption DEF JobOK, PutSteps, GetSteps, Commands,
       PutArgs, GetArgs, InspectArgs
<1> QED
  BY <1>1, <1>2, <1>3, <1>4, StepInv

(* The type of a job after one of its locals is set.                       *)
LEMMA JobType ==
    ASSUME TypeOK, NEW p \in Clients, NEW j \in Jobs, job' = [job EXCEPT ![p] = j]
    PROVE  job' \in [Clients -> Jobs]
BY DEF TypeOK

(* The prehash and generation check preserve the invariant.                *)
LEMMA PrehashInv ==
    ASSUME StoreInv, NEW p \in Clients, Prehash(p)
    PROVE  StoreInv'
<1> DEFINE j       == job[p]
           content == user[j.arg.state]
           row     == index[SnapshotId(j.arg)]
           refused == content = Absent \/ (row # Nil /\ ~Unchanged(row, j.arg, content))
<1>1. spent' \in [Kinds -> Nat] /\ clock' = clock /\ pc[p] = "prehash"
  BY DEF Readable, Prehash, StoreInv, TypeOK
<1>2. CASE refused
  BY <1>1, <1>2, RefuseInv DEF Readable, Prehash
<1>3. CASE ~refused
  <2>1. j.arg \in Puts /\ j \in Jobs
    BY <1>1 DEF StoreInv, JobOK, PutSteps, TypeOK
  <2>2. content \in Contents
    BY <1>3, <2>1 DEF StoreInv, TypeOK, StateFiles
  <2>3. row \in Row \cup {Nil}
    BY <2>1, SnapshotIdType DEF StoreInv, TypeOK, Commands
  <2>4. /\ UNCHANGED <<index, blobs, onDisk, user, lock, result, clock>>
        /\ Goto(p, "probe")
        /\ job' = [job EXCEPT ![p] = [j EXCEPT !.hash = content, !.seen = row,
                                              !.now = clock]]
    BY <1>3 DEF Readable, Prehash, StoreInv, TypeOK, Jobs
  <2>5. [j EXCEPT !.hash = content, !.seen = row, !.now = clock] \in Jobs
    BY <2>1, <2>2, <2>3 DEF StoreInv, TypeOK, Jobs
  <2>6. TypeOK'
    <3>1. job' \in [Clients -> Jobs]
      BY <2>4, <2>5, JobType DEF StoreInv
    <3>2. pc' \in [Clients -> {"idle", "wait", "receipt"} \cup Locked]
      BY <2>4, GotoType DEF StoreInv, Locked
    <3> QED
      BY <1>1, <2>4, <3>1, <3>2 DEF StoreInv, TypeOK
  <2>7. JobOK(p)'
    <3>1. /\ job'[p].arg = j.arg /\ job'[p].hash = content /\ job'[p].seen = row
          /\ job'[p].now = clock /\ pc'[p] = "probe"
      BY <2>1, <2>4 DEF StoreInv, TypeOK, Jobs, Goto
    <3>2. row # Nil => row.accessed <= clock
      BY <2>1, SnapshotIdType DEF StoreInv, RowsOK, Commands
    <3>3. clock <= clock
      BY DEF StoreInv, TypeOK
    <3> QED
      BY <1>3, <2>1, <2>2, <2>4, <3>1, <3>2, <3>3 DEF JobOK, PutSteps, GetSteps
  <2>8. \A q \in Clients \ {p} : job'[q] = job[q]
    BY <2>4 DEF StoreInv, TypeOK
  <2> QED
    BY <1>1, <2>4, <2>6, <2>7, <2>8, LockedStepInv DEF Locked
<1> QED
  BY <1>2, <1>3

(* Steps of a put that change neither the index nor the lock.              *)
LEMMA PutStepInv ==
    ASSUME StoreInv, NEW p \in Clients, pc[p] \in PutSteps \ {"prehash", "receipt"},
           NEW s \in {"stage", "sync", "commit"},
           Goto(p, s), UNCHANGED <<index, user, lock, clock, job, result, spent>>,
           blobs' \in [BlobPaths -> Contents \cup {Absent}],
           onDisk' \in [BlobPaths -> Contents \cup {Absent}]
    PROVE  StoreInv'
<1>1. TypeOK'
  BY GotoType DEF StoreInv, TypeOK, Locked
<1>2. pc'[p] = s
  BY DEF StoreInv, TypeOK, Goto
<1>3. JobOK(p)'
  BY <1>2 DEF StoreInv, JobOK, PutSteps, GetSteps
<1> QED
  BY <1>1, <1>3, LockedStepInv DEF Locked, PutSteps

(* Probing for a blob to reuse preserves the invariant.                    *)
LEMMA ProbeInv ==
    ASSUME StoreInv, NEW p \in Clients, Probe(p)
    PROVE  StoreInv'
BY PutStepInv DEF Probe, PutSteps, StoreInv, TypeOK

(* Copying and comparing the state file preserves the invariant.           *)
LEMMA StageInv ==
    ASSUME StoreInv, NEW p \in Clients, Stage(p)
    PROVE  StoreInv'
<1> DEFINE j    == job[p]
           copy == user[j.arg.state]
<1>1. spent' \in [Kinds -> Nat] /\ clock' = clock /\ pc[p] = "stage"
  BY DEF Readable, Stage, StoreInv, TypeOK
<1>2. CASE copy = Absent \/ copy # j.hash
  BY <1>1, <1>2, RefuseInv DEF Readable, Stage, CopyVerified
<1>3. CASE copy = j.hash /\ copy # Absent
  <2>1. j \in Jobs /\ copy \in Contents
    BY <1>1, <1>3 DEF StoreInv, JobOK, PutSteps, TypeOK
  <2>2. /\ UNCHANGED <<index, blobs, onDisk, user, lock, result, clock>>
        /\ Goto(p, "publish")
        /\ job' = [job EXCEPT ![p] = [j EXCEPT !.staged = copy]]
    BY <1>3 DEF Readable, Stage, CopyVerified, StoreInv, TypeOK, Jobs
  <2>3. [j EXCEPT !.staged = copy] \in Jobs
    BY <2>1 DEF Jobs
  <2>4. TypeOK'
    <3>1. job' \in [Clients -> Jobs]
      BY <2>2, <2>3, JobType DEF StoreInv
    <3>2. pc' \in [Clients -> {"idle", "wait", "receipt"} \cup Locked]
      BY <2>2, GotoType DEF StoreInv, Locked
    <3> QED
      BY <1>1, <2>2, <3>1, <3>2 DEF StoreInv, TypeOK
  <2>5. JobOK(p)'
    <3>1. /\ job'[p].arg = j.arg /\ job'[p].hash = j.hash /\ job'[p].seen = j.seen
          /\ job'[p].now = j.now /\ job'[p].staged = j.hash /\ pc'[p] = "publish"
      BY <1>3, <2>1, <2>2 DEF StoreInv, TypeOK, Jobs, Goto
    <3> QED
      BY <1>1, <2>2, <3>1 DEF StoreInv, JobOK, PutSteps, GetSteps
  <2>6. \A q \in Clients \ {p} : job'[q] = job[q]
    BY <2>2 DEF StoreInv, TypeOK
  <2> QED
    BY <1>1, <2>2, <2>4, <2>5, <2>6, LockedStepInv DEF Locked
<1> QED
  BY <1>2, <1>3

(* Renaming the blob into place preserves the invariant.                   *)
LEMMA PublishInv ==
    ASSUME StoreInv, NEW p \in Clients, Publish(p)
    PROVE  StoreInv'
<1>1. job[p].staged \in Contents
  BY DEF Publish, StoreInv, JobOK, PutSteps
<1> QED
  BY <1>1, PutStepInv DEF Publish, PutSteps, StoreInv, TypeOK

(* The directory fsync preserves the invariant.                            *)
LEMMA SyncInv ==
    ASSUME StoreInv, NEW p \in Clients, Sync(p)
    PROVE  StoreInv'
BY PutStepInv DEF Sync, PutSteps, StoreInv, TypeOK

(* State files are caller files.                                           *)
LEMMA StateFilesAreFiles == StateFiles \subseteq Files
BY ArgsAssumption DEF StateFiles, PutArgs

(* The receipt about to be written is the row, at this put's access time.  *)
LEMMA ReceiptMatches ==
    ASSUME StoreInv, NEW p \in Clients, pc[p] = "receipt"
    PROVE  LET j  == job[p]
               id == SnapshotId(j.arg)
           IN  /\ id \in SnapshotIds /\ index[id] \in Row
               /\ j.now \in Nat /\ j.now <= index[id].accessed
               /\ ReceiptOf(j) = [id |-> id, row |-> [index[id] EXCEPT !.accessed = j.now]]
               /\ ReceiptOf(j) \in Receipt
<1> DEFINE j  == job[p]
           id == SnapshotId(j.arg)
<1>1. /\ j.arg \in Puts /\ j.now \in Nat /\ index[id] # Nil
      /\ Unchanged(index[id], j.arg, j.hash) /\ index[id].created = Created(j)
      /\ j.now <= index[id].accessed
  BY DEF StoreInv, JobOK, PutSteps, TypeOK, Jobs
<1>2. id \in SnapshotIds /\ index[id] \in Row
  BY <1>1, SnapshotIdType DEF StoreInv, TypeOK, Commands
<1>3. ReceiptOf(j).row = [index[id] EXCEPT !.accessed = j.now]
  BY <1>1, <1>2 DEF ReceiptOf, Unchanged, Row
<1>4. ReceiptOf(j) = [id |-> id, row |-> [index[id] EXCEPT !.accessed = j.now]]
  BY <1>3 DEF ReceiptOf
<1>5. [index[id] EXCEPT !.accessed = j.now] \in Row
  BY <1>1, <1>2 DEF Row
<1> QED
  BY <1>1, <1>2, <1>4, <1>5 DEF Receipt

(* What a commit does to the index: the row is there, says what was asked, *)
(* and every older row grows.                                              *)
LEMMA UpsertGrows ==
    ASSUME StoreInv, NEW p \in Clients, pc[p] = "commit",
           index' = UpsertRow(job[p])
    PROVE  LET id == SnapshotId(job[p].arg) IN
           /\ index' \in [SnapshotIds -> Row \cup {Nil}]
           /\ \A i \in SnapshotIds : i # id => index'[i] = index[i]
           /\ index'[id] \in Row
           /\ Unchanged(index'[id], job[p].arg, job[p].hash)
           /\ index'[id].identity.namespace = id[1]
           /\ index'[id].created = Created(job[p])
           /\ index'[id].accessed = job[p].now
           /\ index'[id].created <= index'[id].accessed
           /\ index[id] # Nil => Grows(index[id], index'[id])
<1> DEFINE j  == job[p]
           id == SnapshotId(j.arg)
<1>1. /\ j.arg \in Puts /\ j.hash \in Contents /\ j.now \in Nat
      /\ j.seen = index[id]
      /\ index[id] # Nil => /\ Unchanged(index[id], j.arg, j.hash)
                           /\ index[id].accessed <= j.now
  BY DEF StoreInv, JobOK, PutSteps, TypeOK, Jobs
<1>2. j.arg \in PutArgs /\ id \in SnapshotIds /\ id[1] = j.arg.identity.namespace
  BY <1>1, SnapshotIdType, ArgsAssumption DEF SnapshotId, PutArgs, Commands
<1>3. CASE j.seen = Nil
  <2>1. index' = [index EXCEPT ![id] = NewRow(j)]
    BY <1>3 DEF UpsertRow
  <2>2. NewRow(j) \in Row
    BY <1>1, <1>2 DEF NewRow, Row, PutArgs
  <2> QED
    BY <1>1, <1>2, <1>3, <2>1, <2>2 DEF StoreInv, TypeOK, NewRow, Unchanged, Created
<1>4. CASE j.seen # Nil
  <2>1. index[id] \in Row /\ index' = [index EXCEPT ![id] = [index[id] EXCEPT !.accessed = j.now]]
    BY <1>1, <1>2, <1>4 DEF UpsertRow, StoreInv, TypeOK, Row
  <2>2. [index[id] EXCEPT !.accessed = j.now] \in Row
    BY <1>1, <2>1 DEF Row
  <2>3. /\ index[id].created <= index[id].accessed
        /\ index[id].created \in Nat /\ index[id].accessed \in Nat
    BY <1>1, <1>2, <1>4, <2>1 DEF StoreInv, RowsOK, Row
  <2>4. index'[id] = [index[id] EXCEPT !.accessed = j.now]
    BY <1>2, <2>1 DEF StoreInv, TypeOK
  <2>5. /\ index'[id].content = index[id].content
        /\ index'[id].identity = index[id].identity
        /\ index'[id].tokens = index[id].tokens
        /\ index'[id].created = index[id].created
        /\ index'[id].accessed = j.now
    BY <2>1, <2>4 DEF Row
  <2>6. Grows(index[id], index'[id])
    BY <1>1, <1>4, <2>2, <2>4, <2>5, SentinelAssumption DEF Grows
  <2>7. index[id].created <= j.now
    BY <1>1, <1>4, <2>3
  <2> QED
    BY <1>1, <1>2, <1>4, <2>1, <2>2, <2>4, <2>5, <2>6, <2>7
    DEF StoreInv, TypeOK, Unchanged, Created
<1> QED
  BY <1>3, <1>4

(* Committing the row preserves the invariant.                             *)
LEMMA CommitInv ==
    ASSUME StoreInv, NEW p \in Clients, Commit(p)
    PROVE  StoreInv'
<1> DEFINE j  == job[p]
           id == SnapshotId(j.arg)
<1>1. spent' \in [Kinds -> Nat] /\ clock' = clock /\ pc[p] = "commit"
  BY DEF Commit, StoreInv, TypeOK
<1>2. CASE blobs[PutBlob(p)] = Absent
  <2>1. End(p, "failed") /\ UNCHANGED <<index, blobs, onDisk, user>>
    BY <1>2 DEF Commit
  <2>2. TypeOK'
    BY <1>1, <2>1, EndType DEF StoreInv, TypeOK
  <2>3. RowsOK'
    BY <1>1, <2>1 DEF StoreInv, RowsOK
  <2> QED
    BY <1>1, <2>1, <2>2, <2>3, EndInv
<1>3. CASE blobs[PutBlob(p)] # Absent /\ j.seen = Nil /\ index[id] # Nil
  BY <1>1, <1>3, RefuseInv DEF Commit
<1>4. CASE blobs[PutBlob(p)] # Absent /\ ~(j.seen = Nil /\ index[id] # Nil)
  <2>1. /\ index' = UpsertRow(j) /\ Goto(p, "receipt") /\ lock' = Nil
        /\ UNCHANGED <<blobs, onDisk, user, job, result>>
    BY <1>4 DEF Commit
  <2>2. j.arg \in Puts /\ j.hash \in Contents /\ j.now \in Nat /\ j.now <= clock
        /\ id \in SnapshotIds
    BY <1>1, SnapshotIdType DEF StoreInv, JobOK, PutSteps, TypeOK, Jobs, Commands
  <2>3. TypeOK'
    BY <1>1, <2>1, UpsertGrows, GotoType DEF StoreInv, TypeOK
  <2>4. pc'[p] = "receipt" /\ lock = p /\ \A q \in Clients \ {p} : pc'[q] = pc[q]
    BY <1>1, <2>1 DEF StoreInv, TypeOK, Goto, Serialized, Locked
  <2>5. Serialized'
    BY <2>1, <2>4, NilAssumption DEF StoreInv, Serialized, Locked
  <2>6. RowsOK'
    BY <1>1, <2>1, <2>2, UpsertGrows DEF StoreInv, RowsOK
  <2>7. JobOK(p)'
    <3>1. job'[p] = j /\ index'[id] # Nil /\ j.now <= j.now
      BY <1>1, <2>1, <2>2, UpsertGrows, SentinelAssumption
    <3> QED
      BY <1>1, <2>1, <2>2, <2>4, <3>1, UpsertGrows DEF JobOK, PutSteps, GetSteps
  <2>8. \A i \in SnapshotIds : index[i] # Nil => Grows(index[i], index'[i])
    <3> SUFFICES ASSUME NEW i \in SnapshotIds, index[i] # Nil
                 PROVE  Grows(index[i], index'[i])
      OBVIOUS
    <3>1. CASE i = id
      BY <1>1, <2>1, <3>1, UpsertGrows
    <3>2. CASE i # id
      <4>1. index'[i] = index[i] /\ index[i].accessed \in Nat
        BY <1>1, <2>1, <3>2, UpsertGrows DEF StoreInv, TypeOK, Row
      <4> QED
        BY <4>1 DEF Grows
    <3> QED
      BY <3>1, <3>2
  <2>9. clock <= clock' /\ job' = job
    BY <1>1, <2>1 DEF StoreInv, TypeOK
  <2> QED
    BY <2>3, <2>4, <2>5, <2>6, <2>7, <2>8, <2>9, StepInv
<1> QED
  BY <1>2, <1>3, <1>4

(* Writing the receipt preserves the invariant.                            *)
LEMMA WriteReceiptInv ==
    ASSUME StoreInv, NEW p \in Clients, WriteReceipt(p)
    PROVE  StoreInv'
<1> DEFINE j == job[p]
<1>1. /\ spent' \in [Kinds -> Nat] /\ clock' = clock /\ pc[p] = "receipt"
      /\ j.arg \in Puts
  BY DEF WriteReceipt, StoreInv, TypeOK, JobOK, PutSteps
<1>2. CASE j.arg.output \in NoDirectory
  BY <1>1, <1>2, RefuseInv DEF WriteReceipt
<1>3. CASE j.arg.output \notin NoDirectory
  <2>1. /\ user' = [user EXCEPT ![j.arg.output] = ReceiptOf(j)]
        /\ End(p, "ok") /\ UNCHANGED <<index, blobs, onDisk>>
    BY <1>3 DEF WriteReceipt
  <2>2. ReceiptOf(j) = [id |-> SnapshotId(j.arg),
                        row |-> [index[SnapshotId(j.arg)] EXCEPT !.accessed = j.now]]
        /\ ReceiptOf(j) \in Receipt
    BY <1>1, ReceiptMatches DEF StoreInv
  <2>3. user' \in [Files -> Contents \cup {Absent} \cup Receipt]
    BY <2>1, <2>2 DEF StoreInv, TypeOK
  <2>4. j.arg.output \notin StateFiles
    BY <1>1, ArgsAssumption DEF StateFiles
  <2>5. TypeOK'
    BY <1>1, <2>1, <2>3, <2>4, EndType, StateFilesAreFiles DEF StoreInv, TypeOK
  <2>6. RowsOK'
    BY <1>1, <2>1 DEF StoreInv, RowsOK
  <2> QED
    BY <1>1, <2>1, <2>5, <2>6, EndInv
<1> QED
  BY <1>2, <1>3

(* The lookup of a get preserves the invariant.                            *)
LEMMA FindInv ==
    ASSUME StoreInv, NEW p \in Clients, Find(p)
    PROVE  StoreInv'
<1> DEFINE j       == job[p]
           row     == index[j.arg.id]
           refused == ~KnownTo(row, j.arg) \/ j.arg.output \in NoDirectory
<1>1. /\ spent' \in [Kinds -> Nat] /\ clock' = clock /\ pc[p] = "find"
      /\ j.arg \in Gets /\ j \in Jobs
  BY DEF Find, StoreInv, TypeOK, JobOK, GetSteps
<1>2. CASE refused
  BY <1>1, <1>2, RefuseInv DEF Find
<1>3. CASE ~refused
  <2>1. SnapshotId(j.arg) = j.arg.id /\ j.arg.id \in SnapshotIds
    BY <1>1, ArgsAssumption DEF SnapshotId, GetArgs
  <2>2. row \in Row /\ row # Nil /\ row.identity = j.arg.identity
    BY <1>3, <2>1 DEF KnownTo, StoreInv, TypeOK
  <2>3. /\ UNCHANGED <<index, blobs, onDisk, user, lock, result, clock>>
        /\ Goto(p, "restore")
        /\ job' = [job EXCEPT ![p] = [j EXCEPT !.seen = row]]
    BY <1>3 DEF Find, StoreInv, TypeOK, Jobs
  <2>4. [j EXCEPT !.seen = row] \in Jobs
    BY <1>1, <2>2 DEF Jobs
  <2>5. TypeOK'
    <3>1. job' \in [Clients -> Jobs]
      BY <2>3, <2>4, JobType DEF StoreInv
    <3>2. pc' \in [Clients -> {"idle", "wait", "receipt"} \cup Locked]
      BY <2>3, GotoType DEF StoreInv, Locked
    <3> QED
      BY <1>1, <2>3, <3>1, <3>2 DEF StoreInv, TypeOK
  <2>6. JobOK(p)'
    <3>1. job'[p].arg = j.arg /\ job'[p].seen = row /\ pc'[p] = "restore"
      BY <1>1, <2>3 DEF StoreInv, TypeOK, Jobs, Goto
    <3> QED
      BY <1>1, <2>1, <2>2, <2>3, <3>1 DEF JobOK, PutSteps, GetSteps
  <2>7. \A q \in Clients \ {p} : job'[q] = job[q]
    BY <2>3 DEF StoreInv, TypeOK
  <2> QED
    BY <1>1, <2>3, <2>5, <2>6, <2>7, LockedStepInv DEF Locked
<1> QED
  BY <1>2, <1>3

(* What a get past its lookup knows of the row.                            *)
LEMMA GetRow ==
    ASSUME StoreInv, NEW p \in Clients, pc[p] \in GetSteps \ {"find"}
    PROVE  /\ job[p].arg \in Gets /\ job[p].arg.id \in SnapshotIds
           /\ SnapshotId(job[p].arg) = job[p].arg.id
           /\ index[job[p].arg.id] \in Row /\ job[p].seen = index[job[p].arg.id]
           /\ job[p].seen.identity = job[p].arg.identity
           /\ lock = p
<1>1. /\ job[p].arg \in Gets
      /\ index[SnapshotId(job[p].arg)] # Nil
      /\ job[p].seen = index[SnapshotId(job[p].arg)]
      /\ index[SnapshotId(job[p].arg)].identity = job[p].arg.identity
  BY DEF StoreInv, JobOK, GetSteps
<1>2. job[p].arg.id \in SnapshotIds /\ SnapshotId(job[p].arg) = job[p].arg.id
  BY <1>1, ArgsAssumption DEF SnapshotId, GetArgs
<1>3. index[job[p].arg.id] \in Row
  BY <1>1, <1>2 DEF StoreInv, TypeOK
<1>4. lock = p
  BY DEF StoreInv, Serialized, Locked, GetSteps
<1> QED
  BY <1>1, <1>2, <1>3, <1>4

(* Copying and verifying a blob preserves the invariant.                   *)
LEMMA RestoreInv ==
    ASSUME StoreInv, NEW p \in Clients, Restore(p)
    PROVE  StoreInv'
<1> DEFINE j    == job[p]
           row  == j.seen
           copy == blobs[BlobPath(row.identity, row.content)]
<1>1. /\ spent' \in [Kinds -> Nat] /\ clock' = clock /\ pc[p] = "restore"
      /\ j \in Jobs
  BY DEF Restore, StoreInv, TypeOK
<1>2. j.arg \in Gets /\ SnapshotId(j.arg) = j.arg.id /\ row \in Row
      /\ row = index[j.arg.id] /\ row.identity = j.arg.identity
  BY <1>1, GetRow DEF GetSteps
<1>3. CASE copy = Absent \/ ~BlobVerified(row, copy)
  BY <1>1, <1>3, RefuseInv DEF Restore
<1>4. CASE ~(copy = Absent \/ ~BlobVerified(row, copy))
  <2>1. copy = row.content /\ row.content \in Contents
    BY <1>2, <1>4 DEF BlobVerified, Row
  <2>2. /\ UNCHANGED <<index, blobs, onDisk, user, lock, result, clock>>
        /\ Goto(p, "replace")
        /\ job' = [job EXCEPT ![p] = [j EXCEPT !.staged = copy]]
    BY <1>4 DEF Restore, StoreInv, TypeOK, Jobs
  <2>3. [j EXCEPT !.staged = copy] \in Jobs
    BY <1>1, <2>1 DEF Jobs
  <2>4. TypeOK'
    <3>1. job' \in [Clients -> Jobs]
      BY <2>2, <2>3, JobType DEF StoreInv
    <3>2. pc' \in [Clients -> {"idle", "wait", "receipt"} \cup Locked]
      BY <2>2, GotoType DEF StoreInv, Locked
    <3> QED
      BY <1>1, <2>2, <3>1, <3>2 DEF StoreInv, TypeOK
  <2>5. JobOK(p)'
    <3>1. /\ job'[p].arg = j.arg /\ job'[p].seen = row /\ job'[p].staged = row.content
          /\ pc'[p] = "replace"
      BY <1>1, <2>1, <2>2 DEF StoreInv, TypeOK, Jobs, Goto
    <3> QED
      BY <1>2, <2>2, <3>1, SentinelAssumption DEF JobOK, PutSteps, GetSteps
  <2>6. \A q \in Clients \ {p} : job'[q] = job[q]
    BY <2>2 DEF StoreInv, TypeOK
  <2> QED
    BY <1>1, <2>2, <2>4, <2>5, <2>6, LockedStepInv DEF Locked
<1> QED
  BY <1>3, <1>4

(* Replacing the destination preserves the invariant.                      *)
LEMMA ReplaceInv ==
    ASSUME StoreInv, NEW p \in Clients, Replace(p)
    PROVE  StoreInv'
<1> DEFINE j == job[p]
<1>1. /\ spent' = spent /\ clock' = clock /\ pc[p] = "replace"
      /\ index' = index /\ lock' = lock /\ job' = job /\ blobs' = blobs
      /\ onDisk' = onDisk /\ result' = result /\ Goto(p, "touch")
      /\ user' = [user EXCEPT ![j.arg.output] = j.staged]
  BY DEF Replace
<1>2. j.arg \in Gets /\ SnapshotId(j.arg) = j.arg.id /\ index[j.arg.id] \in Row
      /\ j.seen = index[j.arg.id] /\ j.seen.identity = j.arg.identity
  BY <1>1, GetRow DEF GetSteps
<1>3. j.staged = index[j.arg.id].content
  BY <1>1, <1>2 DEF StoreInv, JobOK, GetSteps
<1>4. TypeOK'
  <2>1. j.staged \in Contents
    BY <1>2, <1>3 DEF Row
  <2>2. pc' \in [Clients -> {"idle", "wait", "receipt"} \cup Locked]
    BY <1>1, GotoType DEF StoreInv, Locked
  <2>3. /\ user' \in [Files -> Contents \cup {Absent} \cup Receipt]
        /\ \A f \in StateFiles : user'[f] \in Contents \cup {Absent}
    BY <1>1, <2>1, StateFilesAreFiles DEF StoreInv, TypeOK
  <2> QED
    BY <1>1, <2>2, <2>3 DEF StoreInv, TypeOK
<1>5. JobOK(p)'
  <2>1. pc'[p] = "touch"
    BY <1>1 DEF StoreInv, TypeOK, Goto
  <2> QED
    BY <1>1, <1>2, <2>1, SentinelAssumption DEF JobOK, PutSteps, GetSteps
<1> QED
  BY <1>1, <1>4, <1>5, LockedStepInv DEF Locked

(* Bumping the access time preserves the invariant.                        *)
LEMMA TouchInv ==
    ASSUME StoreInv, NEW p \in Clients, Touch(p)
    PROVE  /\ StoreInv'
           /\ \A i \in SnapshotIds : index[i] # Nil => Grows(index[i], index'[i])
<1> DEFINE id == job[p].arg.id
           row == [index[id] EXCEPT !.accessed = clock]
<1>1. /\ spent' = spent /\ clock' = clock /\ pc[p] = "touch"
      /\ UNCHANGED <<blobs, onDisk, user>> /\ End(p, "ok")
  BY DEF Touch
<1>2. id \in SnapshotIds /\ index[id] \in Row /\ lock = p
  BY <1>1, GetRow DEF GetSteps
<1>3. index' = [index EXCEPT ![id] = row]
  BY <1>2 DEF Touch, Row
<1>4. row \in Row
  BY <1>2 DEF Row, StoreInv, TypeOK
<1>5. index' \in [SnapshotIds -> Row \cup {Nil}]
  BY <1>2, <1>3, <1>4 DEF StoreInv, TypeOK
<1>6. TypeOK'
  BY <1>1, <1>5, EndType DEF StoreInv, TypeOK
<1>7. \A i \in SnapshotIds : i # id => index'[i] = index[i]
  BY <1>3 DEF StoreInv, TypeOK
<1>8. index'[id] = row
  BY <1>2, <1>3 DEF StoreInv, TypeOK
<1>9. /\ row.content = index[id].content /\ row.identity = index[id].identity
      /\ row.tokens = index[id].tokens /\ row.created = index[id].created
      /\ row.accessed = clock
  BY <1>2 DEF Row
<1>10. /\ index[id].accessed <= clock /\ index[id].created <= index[id].accessed
       /\ index[id].created \in Nat /\ index[id].accessed \in Nat /\ clock \in Nat
       /\ index[id].identity.namespace = id[1]
  BY <1>2, SentinelAssumption DEF StoreInv, RowsOK, TypeOK, Row
<1>11. \A i \in SnapshotIds : index[i] # Nil => Grows(index[i], index'[i])
  <2>1. Grows(index[id], index'[id])
    BY <1>4, <1>8, <1>9, <1>10, SentinelAssumption DEF Grows
  <2>2. ASSUME NEW i \in SnapshotIds, i # id, index[i] # Nil
        PROVE  Grows(index[i], index'[i])
    <3>1. index[i].accessed \in Nat
      BY <2>2 DEF StoreInv, TypeOK, Row
    <3> QED
      BY <1>7, <2>2, <3>1 DEF Grows
  <2> QED
    BY <2>1, <2>2
<1>12. RowsOK'
  <2> SUFFICES ASSUME NEW i \in SnapshotIds, index'[i] # Nil
               PROVE  /\ index'[i].identity.namespace = i[1]
                      /\ index'[i].created <= index'[i].accessed
                      /\ index'[i].accessed <= clock'
    BY DEF RowsOK
  <2>1. CASE i = id
    <3>1. index[id].created <= clock /\ clock <= clock
      BY <1>10
    <3>2. index'[i] = row /\ clock' = clock
      BY <1>1, <1>8, <2>1
    <3> QED
      BY <1>9, <1>10, <2>1, <3>1, <3>2
  <2>2. CASE i # id
    BY <1>1, <1>7, <2>2 DEF StoreInv, RowsOK
  <2> QED
    BY <2>1, <2>2
<1> QED
  BY <1>1, <1>2, <1>6, <1>11, <1>12, EndInv

(* An inspect preserves the invariant.                                     *)
LEMMA InspectInv ==
    ASSUME StoreInv, NEW p \in Clients, Inspect(p)
    PROVE  StoreInv'
<1> DEFINE r == IF index[job[p].arg.id] = Nil THEN "refused" ELSE "ok"
<1>1. /\ UNCHANGED <<index, blobs, onDisk, user, clock, spent>> /\ End(p, r)
      /\ r \in {"ok", "refused", "failed"}
  BY DEF Inspect
<1>2. TypeOK'
  BY <1>1, EndType DEF StoreInv, TypeOK
<1>3. RowsOK'
  BY <1>1 DEF StoreInv, RowsOK
<1> QED
  BY <1>1, <1>2, <1>3, EndInv

(* The death of a process preserves the invariant.                         *)
LEMMA DieInv ==
    ASSUME StoreInv, NEW p \in Clients, Die(p)
    PROVE  StoreInv'
<1>1. /\ UNCHANGED <<index, blobs, onDisk, user, clock>> /\ End(p, "failed")
      /\ spent' \in [Kinds -> Nat]
  BY SpendType DEF Die, StoreInv, Kinds
<1>2. TypeOK'
  BY <1>1, EndType DEF StoreInv, TypeOK
<1>3. RowsOK'
  BY <1>1 DEF StoreInv, RowsOK
<1> QED
  BY <1>1, <1>2, <1>3, EndInv

(* Events outside the commands.                                            *)
LEMMA OutsideInv ==
    ASSUME StoreInv, TypeOK', UNCHANGED <<index, lock, pc, job>>, clock <= clock'
    PROVE  StoreInv'
<1>1. Serialized'
  BY DEF StoreInv, Serialized
<1>2. RowsOK'
  <2> SUFFICES ASSUME NEW i \in SnapshotIds, index'[i] # Nil
               PROVE  /\ index'[i].identity.namespace = i[1]
                      /\ index'[i].created <= index'[i].accessed
                      /\ index'[i].accessed <= clock'
    BY DEF RowsOK
  <2>1. /\ index' = index /\ index[i] # Nil
        /\ index[i].identity.namespace = i[1]
        /\ index[i].created <= index[i].accessed /\ index[i].accessed <= clock
    BY DEF StoreInv, RowsOK
  <2>2. index[i].accessed \in Nat /\ clock \in Nat /\ clock' \in Nat
    BY <2>1 DEF StoreInv, TypeOK, Row
  <2> QED
    BY <2>1, <2>2
<1>3. \A q \in Clients : JobOK(q)'
  BY JobFrame DEF StoreInv, TypeOK
<1> QED
  BY <1>1, <1>2, <1>3 DEF StoreInv

(* Edits, rot, outages and the clock preserve the invariant.               *)
LEMMA EnvironmentInv ==
    ASSUME StoreInv, Edit \/ Rot \/ Outage \/ Tick
    PROVE  StoreInv'
<1>1. CASE Edit
  <2>1. spent' \in [Kinds -> Nat]
    BY <1>1, SpendType DEF Edit, Kinds, StoreInv
  <2>2. PICK f \in StateFiles : \E c \in (Contents \cup {Absent}) \ {user[f]} :
            user' = [user EXCEPT ![f] = c]
    BY <1>1 DEF Edit
  <2>3. TypeOK' /\ clock <= clock'
    BY <1>1, <2>1, <2>2, StateFilesAreFiles DEF Edit, StoreInv, TypeOK
  <2> QED
    BY <1>1, <2>3, OutsideInv DEF Edit
<1>2. CASE Rot
  <2>1. spent' \in [Kinds -> Nat]
    BY <1>2, SpendType DEF Rot, Kinds, StoreInv
  <2>2. TypeOK' /\ clock <= clock'
    BY <1>2, <2>1 DEF Rot, StoreInv, TypeOK
  <2> QED
    BY <1>2, <2>2, OutsideInv DEF Rot
<1>3. CASE Outage
  <2>1. spent' \in [Kinds -> Nat]
    BY <1>3, SpendType DEF Outage, Kinds, StoreInv
  <2>2. TypeOK'
    BY <1>3, <2>1, NoJobType DEF Outage, StoreInv, TypeOK
  <2>3. Serialized'
    BY <1>3, NilAssumption DEF Outage, Serialized, Locked
  <2>4. RowsOK'
    BY <1>3 DEF Outage, StoreInv, RowsOK
  <2>5. \A q \in Clients : JobOK(q)'
    BY <1>3 DEF Outage, JobOK, PutSteps, GetSteps
  <2> QED
    BY <2>2, <2>3, <2>4, <2>5 DEF StoreInv
<1>4. CASE Tick
  <2>1. spent' \in [Kinds -> Nat]
    BY <1>4, SpendType DEF Tick, Kinds, StoreInv
  <2>2. TypeOK' /\ clock <= clock'
    BY <1>4, <2>1 DEF Tick, StoreInv, TypeOK
  <2> QED
    BY <1>4, <2>2, OutsideInv DEF Tick
<1> QED
  BY <1>1, <1>2, <1>3, <1>4

(* The empty store satisfies the invariant.                                *)
LEMMA StoreInvInit == Init => StoreInv
<1> SUFFICES ASSUME Init PROVE StoreInv
  OBVIOUS
<1>1. TypeOK
  BY NoJobType, ArgsAssumption, StartAssumption, StateFilesAreFiles DEF Init, TypeOK
<1>2. Serialized /\ RowsOK
  BY NilAssumption DEF Init, Serialized, RowsOK, Locked
<1>3. \A p \in Clients : JobOK(p)
  BY DEF Init, JobOK, PutSteps, GetSteps
<1> QED
  BY <1>1, <1>2, <1>3 DEF StoreInv

(* Every step preserves the invariant.                                     *)
LEMMA StoreInvStep == StoreInv /\ [Next]_vars => StoreInv'
<1> SUFFICES ASSUME StoreInv, [Next]_vars PROVE StoreInv'
  OBVIOUS
<1>1. ASSUME NEW p \in Clients, NEW a \in Commands, Invoke(p, a) PROVE StoreInv'
  BY <1>1, InvokeInv
<1>2. ASSUME NEW p \in Clients, Step(p) PROVE StoreInv'
  BY <1>2, LockInv, PrehashInv, ProbeInv, StageInv, PublishInv, SyncInv, CommitInv,
     WriteReceiptInv, FindInv, RestoreInv, ReplaceInv, TouchInv, InspectInv DEF Step
<1>3. ASSUME NEW p \in Clients, Die(p) PROVE StoreInv'
  BY <1>3, DieInv
<1>4. ASSUME Rest \/ UNCHANGED vars PROVE StoreInv'
  <2>1. UNCHANGED vars
    BY <1>4 DEF Rest
  <2>2. TypeOK' /\ clock <= clock'
    BY <2>1 DEF vars, StoreInv, TypeOK
  <2> QED
    BY <2>1, <2>2, OutsideInv DEF vars
<1> QED
  BY <1>1, <1>2, <1>3, <1>4, EnvironmentInv DEF Next

(* The inductive invariant holds in every reachable state.                 *)
THEOREM StoreInvariant == Spec => []StoreInv
BY StoreInvInit, StoreInvStep, PTL DEF Spec

(* Type correctness of every variable.                                     *)
THEOREM TypeCorrect == Spec => []TypeOK
<1>1. StoreInv => TypeOK
  BY DEF StoreInv
<1> QED
  BY <1>1, StoreInvariant, PTL

(* One command at a time is inside the lock.                               *)
THEOREM MutualExclusion == Spec => []Serialized
<1>1. StoreInv => Serialized
  BY DEF StoreInv
<1> QED
  BY <1>1, StoreInvariant, PTL
-----------------------------------------------------------------------------
(* What any step can do to the index.                                      *)
LEMMA RowsGrow ==
    ASSUME StoreInv, [Next]_vars
    PROVE  \A i \in SnapshotIds : index[i] # Nil => Grows(index[i], index'[i])
<1>1. ASSUME index' = index
      PROVE  \A i \in SnapshotIds : index[i] # Nil => Grows(index[i], index'[i])
  BY <1>1 DEF Grows, StoreInv, TypeOK, Row
<1>2. ASSUME NEW p \in Clients, NEW a \in Commands, Invoke(p, a) PROVE index' = index
  BY <1>2 DEF Invoke, Refuse
<1>3. ASSUME NEW p \in Clients, Commit(p), index' # index
      PROVE  \A i \in SnapshotIds : index[i] # Nil => Grows(index[i], index'[i])
  <2>1. pc[p] = "commit" /\ index' = UpsertRow(job[p])
    BY <1>3 DEF Commit, Refuse
  <2>2. \A i \in SnapshotIds : i # SnapshotId(job[p].arg) => index'[i] = index[i]
    BY <2>1, UpsertGrows
  <2>3. index[SnapshotId(job[p].arg)] # Nil =>
            Grows(index[SnapshotId(job[p].arg)], index'[SnapshotId(job[p].arg)])
    BY <2>1, UpsertGrows
  <2>4. \A i \in SnapshotIds : index[i] # Nil => index[i].accessed <= index[i].accessed
    BY DEF StoreInv, TypeOK, Row
  <2> QED
    BY <2>2, <2>3, <2>4 DEF Grows
<1>4. ASSUME NEW p \in Clients, Touch(p)
      PROVE  \A i \in SnapshotIds : index[i] # Nil => Grows(index[i], index'[i])
  BY <1>4, TouchInv
<1>5. ASSUME NEW p \in Clients, Step(p), ~Commit(p), ~Touch(p) PROVE index' = index
  BY <1>5 DEF Readable, Step, Lock, Prehash, Probe, Stage, Publish, Sync, WriteReceipt, Find,
     Restore, Replace, Inspect, Refuse
<1>6. ASSUME NEW p \in Clients, Die(p) PROVE index' = index
  BY <1>6 DEF Die
<1>7. ASSUME Edit \/ Rot \/ Outage \/ Tick \/ Rest \/ UNCHANGED vars PROVE index' = index
  BY <1>7 DEF Edit, Rot, Outage, Tick, Rest, vars
<1> QED
  BY <1>1, <1>2, <1>3, <1>4, <1>5, <1>6, <1>7 DEF Next

(* A committed generation is never deleted, never changes its content,     *)
(* identity, tokens or creation time, and its access time never falls.     *)
THEOREM GenerationsFenced == Spec => GenerationFence
<1>1. ASSUME StoreInv, [Next]_vars
      PROVE  [\A i \in SnapshotIds :
                 index[i] # Nil =>
                     /\ index'[i] # Nil
                     /\ index'[i] = [index[i] EXCEPT !.accessed = index'[i].accessed]
                     /\ index'[i].accessed >= index[i].accessed]_vars
  <2> SUFFICES ASSUME NEW i \in SnapshotIds, index[i] # Nil
               PROVE  /\ index'[i] # Nil
                      /\ index'[i] = [index[i] EXCEPT !.accessed = index'[i].accessed]
                      /\ index'[i].accessed >= index[i].accessed
    OBVIOUS
  <2>1. Grows(index[i], index'[i])
    BY <1>1, RowsGrow
  <2>2. StoreInv'
    BY <1>1, StoreInvStep
  <2>3. index[i] \in Row /\ index'[i] \in Row
    BY <1>1, <2>1, <2>2 DEF StoreInv, TypeOK, Grows
  <2> QED
    BY <2>1, <2>3 DEF Grows, Row
<1> QED
  BY <1>1, StoreInvariant, PTL DEF Spec, GenerationFence
-----------------------------------------------------------------------------
(* A receipt file changes only to a receipt that is true when written, and *)
(* the row it describes can only grow.                                     *)
LEMMA ReceiptStep ==
    ASSUME StoreInv, [Next]_vars, NEW f \in Files, user'[f] \in Receipt,
           user'[f] # user[f]
    PROVE  \E p \in Clients :
               /\ pc[p] = "receipt" /\ index' = index
               /\ user'[f] = ReceiptOf(job[p])
<1>1. ASSUME NEW p \in Clients, Replace(p) PROVE FALSE
  <2>1. job[p].staged \in Contents
    BY <1>1, GetRow DEF Replace, GetSteps, StoreInv, JobOK, Row
  <2>2. user'[f] \in {user[f], job[p].staged}
    BY <1>1 DEF Replace, StoreInv, TypeOK
  <2> QED
    BY <2>1, <2>2, SentinelAssumption
<1>2. ASSUME Edit PROVE FALSE
  <2>1. PICK g \in StateFiles : \E c \in (Contents \cup {Absent}) \ {user[g]} :
            user' = [user EXCEPT ![g] = c]
    BY <1>2 DEF Edit
  <2>2. user'[f] \in {user[f]} \cup Contents \cup {Absent}
    BY <2>1 DEF StoreInv, TypeOK
  <2> QED
    BY <2>2, SentinelAssumption
<1>3. ASSUME NEW p \in Clients, WriteReceipt(p)
      PROVE  pc[p] = "receipt" /\ index' = index /\ user'[f] = ReceiptOf(job[p])
  BY <1>3 DEF WriteReceipt, Refuse, StoreInv, TypeOK
<1>4. ASSUME NEW p \in Clients, NEW a \in Commands, Invoke(p, a) PROVE FALSE
  BY <1>4 DEF Invoke, Refuse
<1>5. ASSUME NEW p \in Clients, Step(p), ~Replace(p), ~WriteReceipt(p) PROVE FALSE
  BY <1>5 DEF Readable, Step, Lock, Prehash, Probe, Stage, Publish, Sync, Commit, Find,
     Restore, Touch, Inspect, Refuse
<1>6. ASSUME NEW p \in Clients, Die(p) PROVE FALSE
  BY <1>6 DEF Die
<1>7. ASSUME Rot \/ Outage \/ Tick \/ Rest \/ UNCHANGED vars PROVE FALSE
  BY <1>7 DEF Rot, Outage, Tick, Rest, vars
<1> QED
  BY <1>1, <1>2, <1>3, <1>4, <1>5, <1>6, <1>7 DEF Next

(* No receipts at the start.                                               *)
LEMMA ReceiptsInit == Init => ReceiptsTellTruth
BY StartAssumption, SentinelAssumption DEF Init, ReceiptsTellTruth

(* Every step keeps every receipt true.                                    *)
LEMMA ReceiptsStep ==
    StoreInv /\ ReceiptsTellTruth /\ [Next]_vars => ReceiptsTellTruth'
<1> SUFFICES ASSUME StoreInv, ReceiptsTellTruth, [Next]_vars, NEW f \in Files,
                    user'[f] \in Receipt
             PROVE  LET r   == user'[f].row
                        row == index'[user'[f].id]
                    IN  /\ row # Nil
                        /\ r = [row EXCEPT !.accessed = r.accessed]
                        /\ r.accessed <= row.accessed
  BY DEF ReceiptsTellTruth
<1>1. CASE user'[f] = user[f]
  <2> DEFINE r   == user[f].row
             i   == user[f].id
  <2>1. user[f] \in Receipt /\ i \in SnapshotIds /\ r \in Row
    BY <1>1 DEF Receipt
  <2>2. index[i] # Nil /\ r = [index[i] EXCEPT !.accessed = r.accessed]
        /\ r.accessed <= index[i].accessed
    BY <2>1 DEF ReceiptsTellTruth
  <2>3. Grows(index[i], index'[i])
    BY <2>1, <2>2, RowsGrow
  <2>4. index[i] \in Row /\ index'[i] \in Row
    BY <2>1, <2>2, <2>3, StoreInvStep DEF StoreInv, TypeOK, Grows
  <2>5. r.content = index'[i].content /\ r.identity = index'[i].identity
        /\ r.tokens = index'[i].tokens /\ r.created = index'[i].created
    BY <2>2, <2>3, <2>4 DEF Grows, Row
  <2>6. r = [index'[i] EXCEPT !.accessed = r.accessed]
    BY <2>1, <2>4, <2>5 DEF Row
  <2>7. r.accessed <= index'[i].accessed
    BY <2>1, <2>2, <2>3, <2>4 DEF Grows, Row
  <2> QED
    BY <1>1, <2>3, <2>6, <2>7 DEF Grows
<1>2. CASE user'[f] # user[f]
  <2>1. PICK p \in Clients : /\ pc[p] = "receipt" /\ index' = index
                             /\ user'[f] = ReceiptOf(job[p])
    BY <1>2, ReceiptStep
  <2> DEFINE j  == job[p]
             id == SnapshotId(j.arg)
  <2>2. /\ id \in SnapshotIds /\ index[id] \in Row /\ j.now \in Nat
        /\ j.now <= index[id].accessed
        /\ ReceiptOf(j) = [id |-> id, row |-> [index[id] EXCEPT !.accessed = j.now]]
    BY <2>1, ReceiptMatches
  <2>3. user'[f].id = id /\ user'[f].row = [index[id] EXCEPT !.accessed = j.now]
    BY <2>1, <2>2
  <2>4. user'[f].row.accessed = j.now
    BY <2>2, <2>3 DEF Row
  <2> QED
    BY <2>1, <2>2, <2>3, <2>4, SentinelAssumption
<1> QED
  BY <1>1, <1>2

(* Every receipt a caller holds describes a committed row exactly.         *)
THEOREM ReceiptsAreTrue == Spec => []ReceiptsTellTruth
BY ReceiptsInit, ReceiptsStep, StoreInvariant, PTL DEF Spec
-----------------------------------------------------------------------------
(* Blobs are content-addressed while nothing damages them, and a put about *)
(* to fsync or commit sees its own bytes under its blob name.              *)
ContentAddressed ==
    \A b \in BlobPaths : blobs[b] \in {Absent, b[2]} /\ onDisk[b] \in {Absent, b[2]}
PutSeesBlob(p) ==
    pc[p] \in {"sync", "commit"} => blobs[PutBlob(p)] = job[p].hash
BlobInv == ContentAddressed /\ \A p \in Clients : PutSeesBlob(p)

(* The blob a put names is one of the blob paths.                          *)
LEMMA PutBlobType ==
    ASSUME StoreInv, NEW p \in Clients, pc[p] \in PutSteps \ {"prehash"}
    PROVE  /\ PutBlob(p) \in BlobPaths /\ PutBlob(p)[2] = job[p].hash
           /\ PutBlob(p)[1] = job[p].arg.identity.namespace
           /\ job[p].hash \in Contents
<1>1. job[p].arg \in PutArgs /\ job[p].hash \in Contents
  BY ArgsAssumption DEF StoreInv, JobOK, PutSteps
<1> QED
  BY <1>1 DEF PutBlob, BlobPath, BlobPaths, PutArgs, Identities

(* If no damage has been counted, none happens.                            *)
LEMMA NoRot == ASSUME StoreInv, spent'["rot"] = 0 PROVE ~Rot
BY DEF Rot, Spend, StoreInv, TypeOK, Kinds

(* If no death has been counted, none happens.                             *)
LEMMA NoDeath == ASSUME StoreInv, spent'["death"] = 0, NEW p \in Clients PROVE ~Die(p)
BY DEF Die, Spend, StoreInv, TypeOK, Kinds

(* If no outage has been counted, none happens.                            *)
LEMMA NoOutage == ASSUME StoreInv, spent'["outage"] = 0 PROVE ~Outage
BY DEF Outage, Spend, StoreInv, TypeOK, Kinds

(* What has been counted stays counted.                                    *)
LEMMA SpentGrows ==
    ASSUME StoreInv, [Next]_vars, NEW k \in Kinds, spent'[k] = 0
    PROVE  spent[k] = 0
<1>1. ASSUME NEW e \in Kinds, Spend(e) PROVE spent[k] = 0
  BY <1>1 DEF Spend, StoreInv, TypeOK
<1>2. ASSUME NEW p \in Clients, Step(p) PROVE spent' = spent
  BY <1>2 DEF Readable, Step, Lock, Prehash, Probe, Stage, Publish, Sync, Commit, WriteReceipt,
     Find, Restore, Replace, Touch, Inspect
<1>3. ASSUME NEW p \in Clients, (\E a \in Commands : Invoke(p, a)) \/ Die(p)
      PROVE  Spend("command") \/ Spend("death")
  BY <1>3 DEF Invoke, Die
<1>4. ASSUME Edit \/ Rot \/ Outage \/ Tick
      PROVE  Spend("edit") \/ Spend("rot") \/ Spend("outage") \/ Spend("tick")
  BY <1>4 DEF Edit, Rot, Outage, Tick
<1>5. ASSUME Rest \/ UNCHANGED vars PROVE spent' = spent
  BY <1>5 DEF Rest, vars
<1> QED
  BY <1>1, <1>2, <1>3, <1>4, <1>5 DEF Next, Kinds

(* A put that goes on from a step it was not at sees its blob unchanged.   *)
LEMMA PutSeesFrame ==
    ASSUME NEW q \in Clients, PutSeesBlob(q), blobs' = blobs,
           job'[q] = job[q] /\ pc'[q] = pc[q]
    PROVE  PutSeesBlob(q)'
BY DEF PutSeesBlob, PutBlob

(* A step that goes nowhere near a put's fsync or commit.                  *)
LEMMA PutSeesElsewhere ==
    ASSUME NEW q \in Clients, pc'[q] \notin {"sync", "commit"}
    PROVE  PutSeesBlob(q)'
BY DEF PutSeesBlob

(* Which other commands a step of one client leaves alone.                 *)
LEMMA OthersStand ==
    ASSUME StoreInv, NEW p \in Clients,
           (\E a \in Commands : Invoke(p, a)) \/ Step(p) \/ Die(p)
    PROVE  \A q \in Clients \ {p} : pc'[q] = pc[q] /\ job'[q] = job[q]
<1>1. ASSUME NEW a \in Commands, Invoke(p, a)
      PROVE  \A q \in Clients \ {p} : pc'[q] = pc[q] /\ job'[q] = job[q]
  BY <1>1 DEF Invoke, Refuse, End, Goto, StoreInv, TypeOK
<1>2. ASSUME Step(p)
      PROVE  \A q \in Clients \ {p} : pc'[q] = pc[q] /\ job'[q] = job[q]
  BY <1>2 DEF Readable, Step, Lock, Prehash, Probe, Stage, Publish, Sync, Commit, WriteReceipt,
     Find, Restore, Replace, Touch, Inspect, Refuse, End, Goto, StoreInv, TypeOK
<1>3. ASSUME Die(p)
      PROVE  \A q \in Clients \ {p} : pc'[q] = pc[q] /\ job'[q] = job[q]
  BY <1>3 DEF Die, End, Goto, StoreInv, TypeOK
<1> QED
  BY <1>1, <1>2, <1>3

(* Every step but rot and outages keeps blobs content-addressed.           *)
LEMMA BlobInvStep ==
    ASSUME spent'["rot"] = 0, StoreInv, BlobInv, [Next]_vars
    PROVE  BlobInv'
<1>1. ASSUME NEW p \in Clients, Publish(p) PROVE BlobInv'
  <2>1. /\ pc[p] = "publish" /\ lock = p /\ job' = job /\ onDisk' = onDisk
        /\ job[p].staged = job[p].hash
        /\ blobs' = [blobs EXCEPT ![PutBlob(p)] = job[p].hash]
    BY <1>1 DEF Publish, StoreInv, Serialized, Locked, JobOK
  <2>2. PutBlob(p) \in BlobPaths /\ PutBlob(p)[2] = job[p].hash
    BY <2>1, PutBlobType DEF PutSteps
  <2>3. ContentAddressed'
    BY <2>1, <2>2 DEF BlobInv, ContentAddressed, StoreInv, TypeOK
  <2>4. PutSeesBlob(p)'
    BY <2>1, <2>2 DEF PutSeesBlob, PutBlob, StoreInv, TypeOK
  <2>5. ASSUME NEW q \in Clients \ {p} PROVE PutSeesBlob(q)'
    <3>1. pc'[q] = pc[q] /\ pc[q] \notin Locked
      BY <1>1, <2>1, NilAssumption DEF Publish, Goto, StoreInv, TypeOK, Serialized
    <3> QED
      BY <3>1, PutSeesElsewhere DEF Locked
  <2> QED
    BY <2>3, <2>4, <2>5 DEF BlobInv
<1>2. ASSUME NEW p \in Clients, Sync(p) PROVE BlobInv'
  <2>1. ContentAddressed'
    BY <1>2 DEF Sync, BlobInv, ContentAddressed
  <2>2. PutSeesBlob(p)'
    BY <1>2 DEF Sync, BlobInv, PutSeesBlob, PutBlob
  <2>3. ASSUME NEW q \in Clients \ {p} PROVE PutSeesBlob(q)'
    BY <1>2, PutSeesFrame DEF Sync, BlobInv, Goto, StoreInv, TypeOK
  <2> QED
    BY <2>1, <2>2, <2>3 DEF BlobInv
<1>3. ASSUME NEW p \in Clients,
             \/ \E a \in Commands : Invoke(p, a)
             \/ Step(p) /\ ~Publish(p) /\ ~Sync(p)
             \/ Die(p)
      PROVE  BlobInv'
  <2>1. blobs' = blobs /\ onDisk' = onDisk
    BY <1>3 DEF Readable, Invoke, Die, Step, Lock, Prehash, Probe, Stage, Commit, WriteReceipt,
       Find, Restore, Replace, Touch, Inspect, Refuse
  <2>2. ContentAddressed'
    BY <2>1 DEF BlobInv, ContentAddressed
  <2>3. ASSUME NEW q \in Clients \ {p} PROVE PutSeesBlob(q)'
    BY <1>3, <2>1, OthersStand, PutSeesFrame DEF BlobInv
  <2>4. CASE Probe(p)
    <3>1. job' = job /\ (pc'[p] \in {"sync", "commit"} => blobs[PutBlob(p)] = job[p].hash)
      BY <2>4 DEF Probe, Goto, StoreInv, TypeOK
    <3>2. PutSeesBlob(p)'
      BY <2>1, <3>1 DEF PutSeesBlob, PutBlob
    <3> QED
      BY <2>2, <2>3, <3>2 DEF BlobInv
  <2>5. CASE ~Probe(p)
    <3>1. pc'[p] \notin {"sync", "commit"}
      BY <1>3, <2>5 DEF Readable, Invoke, Die, Step, Lock, Prehash, Stage, Commit,
         WriteReceipt, Find, Restore, Replace, Touch, Inspect, Refuse, End, Goto,
         StoreInv, TypeOK
    <3> QED
      BY <2>2, <2>3, <3>1, PutSeesElsewhere DEF BlobInv
  <2> QED
    BY <2>4, <2>5
<1>4. ASSUME Edit \/ Tick \/ Rest \/ UNCHANGED vars PROVE BlobInv'
  <2>1. UNCHANGED <<blobs, onDisk, pc, job>>
    BY <1>4 DEF Edit, Tick, Rest, vars
  <2> QED
    BY <2>1, PutSeesFrame DEF BlobInv, ContentAddressed
<1>5. ASSUME Outage PROVE BlobInv'
  <2>1. ContentAddressed'
    BY <1>5 DEF Outage, BlobInv, ContentAddressed
  <2>2. \A q \in Clients : pc'[q] = "idle"
    BY <1>5 DEF Outage
  <2> QED
    BY <2>1, <2>2, PutSeesElsewhere DEF BlobInv
<1> QED
  BY <1>1, <1>2, <1>3, <1>4, <1>5, NoRot DEF Next

(* Where a row comes from: it stood before, or a put inserted it whose     *)
(* blob is the one the row names.                                          *)
LEMMA RowOrigin ==
    ASSUME StoreInv, [Next]_vars, NEW i \in SnapshotIds, index'[i] # Nil
    PROVE  \/ /\ index[i] # Nil
              /\ index'[i].identity = index[i].identity
              /\ index'[i].content = index[i].content
           \/ \E p \in Clients :
                 /\ pc[p] = "commit" /\ blobs' = blobs /\ onDisk' = onDisk
                 /\ BlobPath(index'[i].identity, index'[i].content) = PutBlob(p)
                 /\ index'[i].content = job[p].hash
<1>1. CASE index[i] # Nil
  BY <1>1, RowsGrow DEF Grows
<1>2. CASE index[i] = Nil
  <2>1. ASSUME NEW p \in Clients, Commit(p)
        PROVE  /\ pc[p] = "commit" /\ blobs' = blobs /\ onDisk' = onDisk
               /\ BlobPath(index'[i].identity, index'[i].content) = PutBlob(p)
               /\ index'[i].content = job[p].hash
    <3>1. pc[p] = "commit" /\ blobs' = blobs /\ onDisk' = onDisk
          /\ index' = UpsertRow(job[p])
      BY <1>2, <2>1 DEF Commit, Refuse
    <3>2. i = SnapshotId(job[p].arg)
      BY <1>2, <3>1, UpsertGrows
    <3>3. Unchanged(index'[i], job[p].arg, job[p].hash)
      BY <3>1, <3>2, UpsertGrows
    <3> QED
      BY <3>1, <3>3 DEF Unchanged, PutBlob
  <2>2. ASSUME NEW p \in Clients, Touch(p) PROVE FALSE
    <3>1. index[job[p].arg.id] \in Row
      BY <2>2, GetRow DEF Touch, GetSteps
    <3> QED
      BY <1>2, <2>2, <3>1, SentinelAssumption DEF Touch, StoreInv, TypeOK
  <2>3. ASSUME NEW p \in Clients, Step(p), ~Commit(p), ~Touch(p) PROVE FALSE
    BY <1>2, <2>3 DEF Readable, Step, Lock, Prehash, Probe, Stage, Publish, Sync, WriteReceipt,
       Find, Restore, Replace, Inspect, Refuse
  <2>4. ASSUME NEW p \in Clients, (\E a \in Commands : Invoke(p, a)) \/ Die(p)
        PROVE  FALSE
    BY <1>2, <2>4 DEF Invoke, Die, Refuse
  <2>5. ASSUME Edit \/ Rot \/ Outage \/ Tick \/ Rest \/ UNCHANGED vars PROVE FALSE
    BY <1>2, <2>5 DEF Edit, Rot, Outage, Tick, Rest, vars
  <2> QED
    BY <2>1, <2>2, <2>3, <2>4, <2>5 DEF Next
<1> QED
  BY <1>1, <1>2

(* The blob names change only when a put publishes, or power is lost.      *)
LEMMA BlobsChange ==
    ASSUME spent'["rot"] = 0, StoreInv, [Next]_vars, ~Outage
    PROVE  \/ blobs' = blobs
           \/ \E p \in Clients : /\ Publish(p) /\ pc[p] = "publish"
                                 /\ blobs' = [blobs EXCEPT ![PutBlob(p)] = job[p].hash]
<1>1. ASSUME NEW p \in Clients, Publish(p)
      PROVE  pc[p] = "publish" /\ blobs' = [blobs EXCEPT ![PutBlob(p)] = job[p].hash]
  BY <1>1 DEF Publish, StoreInv, JobOK
<1>2. ASSUME NEW p \in Clients, Step(p), ~Publish(p) PROVE blobs' = blobs
  BY <1>2 DEF Readable, Step, Lock, Prehash, Probe, Stage, Sync, Commit, WriteReceipt, Find,
     Restore, Replace, Touch, Inspect, Refuse
<1>3. ASSUME NEW p \in Clients, (\E a \in Commands : Invoke(p, a)) \/ Die(p)
      PROVE  blobs' = blobs
  BY <1>3 DEF Invoke, Die, Refuse
<1>4. ASSUME Edit \/ Tick \/ Rest \/ UNCHANGED vars PROVE blobs' = blobs
  BY <1>4 DEF Edit, Tick, Rest, vars
<1> QED
  BY <1>1, <1>2, <1>3, <1>4, NoRot DEF Next

(* The blob of a row is one of the blob paths.                             *)
LEMMA RowPath ==
    ASSUME StoreInv, NEW i \in SnapshotIds, index[i] # Nil
    PROVE  LET b == BlobPath(index[i].identity, index[i].content) IN
           b \in BlobPaths /\ b[2] = index[i].content /\ b[2] \in Contents
BY DEF StoreInv, TypeOK, Row, Identities, BlobPath, BlobPaths

(* Every step but rot and outages keeps the rows' blobs.                   *)
LEMMA IntactStep ==
    ASSUME spent'["rot"] = 0, spent'["outage"] = 0, StoreInv, BlobInv, RowsReadBack,
           [Next]_vars
    PROVE  RowsReadBack'
<1> SUFFICES ASSUME NEW i \in SnapshotIds, index'[i] # Nil
             PROVE  blobs'[BlobPath(index'[i].identity, index'[i].content)]
                        = index'[i].content
  BY DEF RowsReadBack, BlobPath
<1>1. CASE /\ index[i] # Nil /\ index'[i].identity = index[i].identity
           /\ index'[i].content = index[i].content
  <2> DEFINE b == BlobPath(index[i].identity, index[i].content)
  <2>1. blobs[b] = b[2] /\ b \in BlobPaths /\ b[2] = index[i].content
    BY <1>1, RowPath DEF RowsReadBack
  <2>2. ASSUME NEW p \in Clients, pc[p] = "publish",
               blobs' = [blobs EXCEPT ![PutBlob(p)] = job[p].hash]
        PROVE  blobs'[b] = b[2]
    BY <2>1, <2>2, PutBlobType DEF StoreInv, TypeOK, PutSteps
  <2> QED
    BY <1>1, <2>1, <2>2, BlobsChange, NoOutage
<1>2. CASE \E p \in Clients :
              /\ pc[p] = "commit" /\ blobs' = blobs /\ onDisk' = onDisk
              /\ BlobPath(index'[i].identity, index'[i].content) = PutBlob(p)
              /\ index'[i].content = job[p].hash
  BY <1>2 DEF BlobInv, PutSeesBlob
<1> QED
  BY <1>1, <1>2, RowOrigin

(* The empty store has intact, durable rows.                               *)
LEMMA BlobInit == Init => BlobInv /\ RowsReadBack /\ DurablePublication
BY DEF Init, BlobInv, ContentAddressed, PutSeesBlob, RowsReadBack, DurablePublication

(* If nothing damages the blobs and power is kept, every row's blob holds  *)
(* the row's bytes, whatever processes die and whatever callers edit.      *)
THEOREM RowsIntact == Spec => []IntactBlobs
<1> DEFINE Calm == spent["rot"] = 0 /\ spent["outage"] = 0
           Inv  == Calm => BlobInv /\ RowsReadBack
<1>1. Init => Inv
  BY BlobInit
<1>2. StoreInv /\ Inv /\ [Next]_vars => Inv'
  BY BlobInvStep, IntactStep, SpentGrows DEF Kinds
<1>3. Inv => IntactBlobs
  BY DEF IntactBlobs
<1> QED
  BY <1>1, <1>2, <1>3, StoreInvariant, PTL DEF Spec
-----------------------------------------------------------------------------
(* Without deaths, a blob not yet on disk belongs to a put about to fsync  *)
(* its directory, and a put about to commit has its blob on disk.          *)
DiskBehind ==
    \A b \in BlobPaths :
        /\ onDisk[b] \in {Absent, blobs[b]}
        /\ blobs[b] # onDisk[b] =>
               \E p \in Clients : pc[p] = "sync" /\ PutBlob(p)[1] = b[1]
CommitOnDisk(p) == pc[p] = "commit" => onDisk[PutBlob(p)] = job[p].hash
DiskInv == DiskBehind /\ \A p \in Clients : CommitOnDisk(p)

(* The empty store has nothing waiting for an fsync.                       *)
LEMMA DiskInit == Init => DiskInv
BY DEF Init, DiskInv, DiskBehind, CommitOnDisk

(* With a locked command away from its fsync, everything visible is on     *)
(* disk.                                                                   *)
LEMMA NobodySyncing ==
    ASSUME StoreInv, DiskInv, NEW p \in Clients, pc[p] \in Locked \ {"sync"}
    PROVE  \A b \in BlobPaths : onDisk[b] = blobs[b]
<1>1. \A q \in Clients : pc[q] # "sync"
  BY NilAssumption DEF StoreInv, Serialized, Locked
<1> QED
  BY <1>1 DEF DiskInv, DiskBehind

(* Without deaths and rot only a put about to fsync is ahead of the disk.  *)
LEMMA DiskInvStep ==
    ASSUME spent'["rot"] = 0, spent'["death"] = 0, StoreInv, BlobInv, DiskInv,
           [Next]_vars
    PROVE  DiskInv'
<1>1. ASSUME NEW p \in Clients, Publish(p) PROVE DiskInv'
  <2>1. /\ pc[p] = "publish" /\ lock = p /\ job' = job /\ onDisk' = onDisk
        /\ blobs' = [blobs EXCEPT ![PutBlob(p)] = job[p].hash]
        /\ pc' = [pc EXCEPT ![p] = "sync"]
    BY <1>1 DEF Publish, Goto, StoreInv, Serialized, Locked, JobOK
  <2>2. PutBlob(p) \in BlobPaths /\ PutBlob(p)[2] = job[p].hash
    BY <2>1, PutBlobType DEF PutSteps
  <2>3. pc'[p] = "sync" /\ PutBlob(p)' = PutBlob(p)
    BY <2>1 DEF PutBlob, StoreInv, TypeOK
  <2>4. \A b \in BlobPaths : onDisk[b] = blobs[b]
    BY <2>1, NobodySyncing DEF Locked
  <2>5. ASSUME NEW b \in BlobPaths
        PROVE  /\ onDisk'[b] \in {Absent, blobs'[b]}
               /\ blobs'[b] # onDisk'[b] =>
                      \E q \in Clients : pc'[q] = "sync" /\ PutBlob(q)'[1] = b[1]
    <3>1. CASE b = PutBlob(p)
      BY <2>1, <2>2, <2>3, <3>1 DEF BlobInv, ContentAddressed, StoreInv, TypeOK
    <3>2. CASE b # PutBlob(p)
      BY <2>1, <2>4, <3>2 DEF StoreInv, TypeOK
    <3> QED
      BY <3>1, <3>2
  <2>6. DiskBehind'
    BY <2>5 DEF DiskBehind
  <2>7. ASSUME NEW q \in Clients PROVE CommitOnDisk(q)'
    <3>1. pc'[q] # "commit"
      BY <2>1, NilAssumption DEF StoreInv, TypeOK, Serialized, Locked
    <3> QED
      BY <3>1 DEF CommitOnDisk
  <2> QED
    BY <2>6, <2>7 DEF DiskInv
<1>2. ASSUME NEW p \in Clients, Sync(p) PROVE DiskInv'
  <2>1. /\ pc[p] = "sync" /\ lock = p /\ job' = job /\ blobs' = blobs
        /\ pc' = [pc EXCEPT ![p] = "commit"]
        /\ onDisk' = [b \in BlobPaths |->
                         IF b[1] = PutBlob(p)[1] THEN blobs[b] ELSE onDisk[b]]
    BY <1>2, PutBlobType DEF Sync, Goto, StoreInv, Serialized, Locked, PutSteps
  <2>2. PutBlob(p) \in BlobPaths /\ PutBlob(p)' = PutBlob(p)
    BY <2>1, PutBlobType DEF PutBlob, PutSteps
  <2>3. \A q \in Clients : pc[q] = "sync" => q = p
    BY <2>1, NilAssumption DEF StoreInv, Serialized, Locked
  <2>4. \A b \in BlobPaths : onDisk'[b] = blobs'[b]
    BY <2>1, <2>3 DEF DiskInv, DiskBehind
  <2>5. DiskBehind'
    BY <2>4 DEF DiskBehind
  <2>6. ASSUME NEW q \in Clients PROVE CommitOnDisk(q)'
    <3>1. CASE q = p
      BY <2>1, <2>2, <2>4, <3>1 DEF CommitOnDisk, BlobInv, PutSeesBlob
    <3>2. CASE q # p
      <4>1. pc'[q] # "commit"
        BY <2>1, <3>2, NilAssumption DEF StoreInv, TypeOK, Serialized, Locked
      <4> QED
        BY <4>1 DEF CommitOnDisk
    <3> QED
      BY <3>1, <3>2
  <2> QED
    BY <2>5, <2>6 DEF DiskInv
<1>3. ASSUME NEW p \in Clients,
             \/ \E a \in Commands : Invoke(p, a)
             \/ Step(p) /\ ~Publish(p) /\ ~Sync(p)
      PROVE  DiskInv'
  <2>1. blobs' = blobs /\ onDisk' = onDisk /\ pc[p] # "sync"
    BY <1>3 DEF Readable, Invoke, Step, Lock, Prehash, Probe, Stage, Commit, WriteReceipt,
       Find, Restore, Replace, Touch, Inspect, Refuse
  <2>2. \A q \in Clients \ {p} : pc'[q] = pc[q] /\ PutBlob(q)' = PutBlob(q)
                                 /\ job'[q] = job[q]
    BY <1>3, OthersStand DEF PutBlob
  <2>3. DiskBehind'
    <3> SUFFICES ASSUME NEW b \in BlobPaths
                 PROVE  /\ onDisk'[b] \in {Absent, blobs'[b]}
                        /\ blobs'[b] # onDisk'[b] =>
                               \E q \in Clients : pc'[q] = "sync" /\ PutBlob(q)'[1] = b[1]
      BY DEF DiskBehind
    <3> QED
      BY <2>1, <2>2 DEF DiskInv, DiskBehind
  <2>4. ASSUME NEW q \in Clients \ {p} PROVE CommitOnDisk(q)'
    BY <2>1, <2>2 DEF DiskInv, CommitOnDisk
  <2>5. CommitOnDisk(p)'
    <3>1. CASE Probe(p)
      <4>1. pc[p] = "probe" /\ job' = job
            /\ pc' = [pc EXCEPT ![p] = IF blobs[PutBlob(p)] = job[p].hash
                                          THEN "commit" ELSE "stage"]
        BY <3>1 DEF Probe, Goto
      <4>2. pc'[p] = "commit" => blobs[PutBlob(p)] = job[p].hash
        BY <4>1 DEF StoreInv, TypeOK
      <4>3. onDisk[PutBlob(p)] = blobs[PutBlob(p)]
        BY <4>1, NobodySyncing, PutBlobType DEF Locked, PutSteps
      <4> QED
        BY <2>1, <4>1, <4>2, <4>3 DEF CommitOnDisk, PutBlob
    <3>2. CASE ~Probe(p)
      <4>1. pc'[p] # "commit"
        BY <1>3, <3>2 DEF Readable, Invoke, Step, Lock, Prehash, Stage, Commit,
           WriteReceipt, Find, Restore, Replace, Touch, Inspect, Refuse, End, Goto,
           StoreInv, TypeOK
      <4> QED
        BY <4>1 DEF CommitOnDisk
    <3> QED
      BY <3>1, <3>2
  <2> QED
    BY <2>3, <2>4, <2>5 DEF DiskInv
<1>4. ASSUME Edit \/ Tick \/ Rest \/ UNCHANGED vars PROVE DiskInv'
  <2>1. UNCHANGED <<blobs, onDisk, pc, job>>
    BY <1>4 DEF Edit, Tick, Rest, vars
  <2> QED
    BY <2>1 DEF DiskInv, DiskBehind, CommitOnDisk, PutBlob
<1>5. ASSUME Outage PROVE DiskInv'
  <2>1. onDisk' = blobs' /\ \A q \in Clients : pc'[q] = "idle"
    BY <1>5 DEF Outage
  <2> QED
    BY <2>1 DEF DiskInv, DiskBehind, CommitOnDisk
<1> QED
  BY <1>1, <1>2, <1>3, <1>4, <1>5, NoRot, NoDeath DEF Next

(* Every step keeps the published rows durable.                            *)
LEMMA DurableStep ==
    ASSUME spent'["rot"] = 0, StoreInv, BlobInv, DiskInv, DurablePublication,
           [Next]_vars
    PROVE  DurablePublication'
<1> SUFFICES ASSUME NEW i \in SnapshotIds, index'[i] # Nil
             PROVE  onDisk'[BlobPath(index'[i].identity, index'[i].content)]
                        = index'[i].content
  BY DEF DurablePublication, BlobPath
<1>1. CASE /\ index[i] # Nil /\ index'[i].identity = index[i].identity
           /\ index'[i].content = index[i].content
  <2> DEFINE b == BlobPath(index[i].identity, index[i].content)
  <2>1. onDisk[b] = b[2] /\ b \in BlobPaths /\ b[2] = index[i].content
        /\ b[2] # Absent
    BY <1>1, RowPath, NilAssumption DEF DurablePublication
  <2>2. blobs[b] = onDisk[b]
    BY <2>1 DEF DiskInv, DiskBehind
  <2>3. CASE Outage
    BY <1>1, <2>1, <2>2, <2>3 DEF Outage
  <2>4. ASSUME NEW p \in Clients, Sync(p) PROVE onDisk'[b] = onDisk[b]
    BY <2>1, <2>2, <2>4 DEF Sync
  <2>5. ASSUME NEW p \in Clients, Step(p), ~Sync(p) PROVE onDisk' = onDisk
    BY <2>5 DEF Readable, Step, Lock, Prehash, Probe, Stage, Publish, Commit, WriteReceipt,
       Find, Restore, Replace, Touch, Inspect, Refuse
  <2>6. ASSUME NEW p \in Clients, (\E a \in Commands : Invoke(p, a)) \/ Die(p)
        PROVE  onDisk' = onDisk
    BY <2>6 DEF Invoke, Die, Refuse
  <2>7. ASSUME Edit \/ Tick \/ Rest \/ UNCHANGED vars PROVE onDisk' = onDisk
    BY <2>7 DEF Edit, Tick, Rest, vars
  <2> QED
    BY <1>1, <2>1, <2>3, <2>4, <2>5, <2>6, <2>7, NoRot DEF Next
<1>2. CASE \E p \in Clients :
              /\ pc[p] = "commit" /\ blobs' = blobs /\ onDisk' = onDisk
              /\ BlobPath(index'[i].identity, index'[i].content) = PutBlob(p)
              /\ index'[i].content = job[p].hash
  BY <1>2 DEF DiskInv, CommitOnDisk
<1> QED
  BY <1>1, <1>2, RowOrigin

(* If no process dies and nothing damages the blobs, a row names a blob    *)
(* that is already on disk, through any number of power losses.  The run   *)
(* StoreReuse shows that a process's death is enough to break this.        *)
THEOREM PublicationDurable == Spec => []DurableUnlessKilled
<1> DEFINE Alive == spent["rot"] = 0 /\ spent["death"] = 0
           Inv   == Alive => BlobInv /\ DiskInv /\ DurablePublication
<1>1. Init => Inv
  BY BlobInit, DiskInit
<1>2. StoreInv /\ Inv /\ [Next]_vars => Inv'
  BY BlobInvStep, DiskInvStep, DurableStep, SpentGrows DEF Kinds
<1>3. Inv => DurableUnlessKilled
  BY DEF DurableUnlessKilled
<1> QED
  BY <1>1, <1>2, <1>3, StoreInvariant, PTL DEF Spec
-----------------------------------------------------------------------------
(* The clock stays within the instants the abstract registry knows.        *)
ClockInv == clock = spent["tick"] /\ clock \in Moments

(* What came before a reading of the clock is one, too.                    *)
LEMMA MomentsFacts ==
    /\ Moments \subseteq Nat /\ 0 \in Moments
    /\ \A t \in Moments, r \in Nat : r <= t => r \in Moments
<1>1. \A limit \in Limits : limit["tick"] \in Nat
  BY LimitAssumption DEF Kinds
<1>2. \A limit \in Limits : 0 \in 0 .. limit["tick"]
  BY <1>1
<1>3. PICK limit \in Limits : TRUE
  BY LimitAssumption
<1>4. Moments \subseteq Nat /\ 0 \in Moments
  BY <1>1, <1>2, <1>3 DEF Moments
<1>5. ASSUME NEW t \in Moments, NEW r \in Nat, r <= t PROVE r \in Moments
  <2>1. PICK budget \in Limits : t \in 0 .. budget["tick"]
    BY DEF Moments
  <2>2. r \in 0 .. budget["tick"]
    BY <1>1, <1>5, <2>1
  <2> QED
    BY <2>1, <2>2 DEF Moments
<1> QED
  BY <1>4, <1>5

(* The clock never runs backwards.                                         *)
LEMMA ClockStep == ASSUME StoreInv, ClockInv, [Next]_vars PROVE ClockInv'
<1>0. "tick" \in Kinds /\ clock \in Nat /\ spent \in [Kinds -> Nat]
  BY DEF StoreInv, TypeOK, Kinds
<1>1. ASSUME NEW k \in Kinds, k # "tick", Spend(k) PROVE spent'["tick"] = spent["tick"]
  BY <1>0, <1>1 DEF Spend
<1>2. ASSUME NEW p \in Clients, (\E a \in Commands : Invoke(p, a)) \/ Die(p)
      PROVE  clock' = clock /\ spent'["tick"] = spent["tick"]
  BY <1>1, <1>2 DEF Invoke, Die, Kinds
<1>3. ASSUME NEW p \in Clients, Step(p) PROVE clock' = clock /\ spent' = spent
  BY <1>3 DEF Readable, Step, Lock, Prehash, Probe, Stage, Publish, Sync, Commit, WriteReceipt,
     Find, Restore, Replace, Touch, Inspect
<1>4. ASSUME Edit \/ Rot \/ Outage
      PROVE  clock' = clock /\ spent'["tick"] = spent["tick"]
  BY <1>1, <1>4 DEF Edit, Rot, Outage, Kinds
<1>5. ASSUME Tick PROVE ClockInv'
  <2>1. clock' = clock + 1 /\ spent'["tick"] = spent["tick"] + 1
    BY <1>0, <1>5 DEF Tick, Spend
  <2>2. PICK limit \in Limits : clock < limit["tick"]
    BY <1>5 DEF Tick, Spend, ClockInv
  <2>3. clock + 1 \in 0 .. limit["tick"]
    BY <1>0, <2>2, LimitAssumption DEF Kinds
  <2> QED
    BY <2>1, <2>2, <2>3 DEF ClockInv, Moments
<1>6. ASSUME Rest \/ UNCHANGED vars PROVE clock' = clock /\ spent' = spent
  BY <1>6 DEF Rest, vars
<1> QED
  BY <1>2, <1>3, <1>4, <1>5, <1>6 DEF Next, ClockInv

(* The empty store is the empty registry.                                  *)
LEMMA RegistryInit == Init => Registry!Init
BY DEF Init, Registry!Init

(* A commit registers a generation, or moves its access time.              *)
LEMMA CommitRefines ==
    ASSUME StoreInv, ClockInv, NEW p \in Clients, Commit(p)
    PROVE  Registry!Next \/ UNCHANGED <<index, user>>
<1> DEFINE j == job[p]
           a == j.arg
           i == SnapshotId(a)
<1>1. user' = user /\ pc[p] = "commit" /\ (index' = index \/ index' = UpsertRow(j))
  BY DEF Commit, Refuse
<1>2. /\ a \in Puts /\ j.hash \in Contents /\ j.now \in Moments
      /\ j.seen = index[i] /\ i \in SnapshotIds
      /\ index[i] # Nil => index[i].accessed <= j.now
  <2>1. /\ a \in Puts /\ j.hash \in Contents /\ j.now \in Nat /\ j.now <= clock
        /\ j.seen = index[i]
        /\ index[i] # Nil => index[i].accessed <= j.now
    BY <1>1 DEF StoreInv, JobOK, PutSteps, TypeOK, Jobs
  <2> QED
    BY <2>1, SnapshotIdType, MomentsFacts DEF ClockInv, Commands
<1>3. i = Registry!IdOf(a)
  BY <1>2, ArgsAssumption DEF SnapshotId, Registry!IdOf, PutArgs
<1>4. CASE index' = UpsertRow(j) /\ index[i] = Nil
  <2>1. index' = [index EXCEPT ![i] = Registry!RowFor(a, j.hash, j.now)]
    BY <1>2, <1>4 DEF UpsertRow, NewRow, Registry!RowFor
  <2>2. Registry!Register(a)
    BY <1>1, <1>2, <1>3, <1>4, <2>1 DEF Registry!Register
  <2> QED
    BY <1>2, <2>2 DEF Registry!Next
<1>5. CASE index' = UpsertRow(j) /\ index[i] # Nil
  <2>1. index' = [index EXCEPT ![i].accessed = j.now]
    BY <1>2, <1>5 DEF UpsertRow
  <2>2. j.now >= index[i].accessed
    <3>1. index[i].accessed \in Nat /\ j.now \in Nat
      BY <1>2, <1>5, MomentsFacts DEF StoreInv, TypeOK, Row
    <3> QED
      BY <1>2, <1>5, <3>1
  <2>3. Registry!Access(i)
    BY <1>1, <1>2, <1>5, <2>1, <2>2 DEF Registry!Access
  <2> QED
    BY <1>2, <2>3 DEF Registry!Next
<1> QED
  BY <1>1, <1>4, <1>5

(* Writing a receipt is an acknowledgement.                                *)
LEMMA WriteReceiptRefines ==
    ASSUME StoreInv, ClockInv, NEW p \in Clients, WriteReceipt(p)
    PROVE  Registry!Next \/ UNCHANGED <<index, user>>
<1> DEFINE j == job[p]
           a == j.arg
           i == SnapshotId(a)
<1>1. CASE a.output \in NoDirectory
  BY <1>1 DEF WriteReceipt, Refuse
<1>2. CASE a.output \notin NoDirectory
  <2>1. /\ pc[p] = "receipt" /\ index' = index
        /\ user' = [user EXCEPT ![a.output] = ReceiptOf(j)]
    BY <1>2 DEF WriteReceipt
  <2>2. /\ a \in Puts /\ index[i].identity = a.identity /\ index[i].tokens = a.tokens
        /\ index[i] # Nil /\ j.now <= clock
    BY <2>1 DEF StoreInv, JobOK, PutSteps, Unchanged
  <2>3. /\ j.now \in Nat /\ j.now <= index[i].accessed
        /\ ReceiptOf(j) = [id |-> i, row |-> [index[i] EXCEPT !.accessed = j.now]]
    BY <2>1, ReceiptMatches
  <2>4. i = Registry!IdOf(a)
    BY <2>2, ArgsAssumption DEF SnapshotId, Registry!IdOf, PutArgs
  <2>5. j.now \in Moments
    BY <2>2, <2>3, MomentsFacts DEF ClockInv
  <2>6. Registry!Acknowledge(a)
    BY <2>1, <2>2, <2>3, <2>4, <2>5 DEF Registry!Acknowledge
  <2> QED
    BY <2>2, <2>6 DEF Registry!Next
<1> QED
  BY <1>1, <1>2

(* The steps of a get deliver the row, or move its access time.            *)
LEMMA GetRefines ==
    ASSUME StoreInv, ClockInv, NEW p \in Clients, Replace(p) \/ Touch(p)
    PROVE  Registry!Next
<1> DEFINE g == job[p].arg
<1>1. /\ g \in Gets /\ g.id \in SnapshotIds /\ index[g.id] \in Row
      /\ job[p].seen = index[g.id] /\ job[p].seen.identity = g.identity
      /\ SnapshotId(g) = g.id
  BY GetRow DEF Replace, Touch, GetSteps
<1>2. CASE Replace(p)
  <2>1. job[p].staged = index[g.id].content
    BY <1>1, <1>2 DEF Replace, StoreInv, JobOK
  <2>2. user' = [user EXCEPT ![g.output] = index[g.id].content] /\ index' = index
    BY <1>2, <2>1 DEF Replace
  <2>3. Registry!Deliver(g)
    BY <1>1, <2>2, SentinelAssumption DEF Registry!Deliver
  <2> QED
    BY <1>1, <2>3 DEF Registry!Next
<1>3. CASE Touch(p)
  <2>1. index[g.id].accessed <= clock /\ index[g.id].accessed \in Nat
    BY <1>1, SentinelAssumption DEF StoreInv, RowsOK, Row
  <2>2. clock \in Moments /\ clock >= index[g.id].accessed
    BY <2>1 DEF ClockInv
  <2>3. index' = [index EXCEPT ![g.id].accessed = clock] /\ user' = user
    BY <1>3 DEF Touch
  <2>4. Registry!Access(g.id)
    BY <1>1, <2>2, <2>3, SentinelAssumption DEF Registry!Access
  <2> QED
    BY <1>1, <2>4 DEF Registry!Next
<1> QED
  BY <1>2, <1>3

(* Every step of the store is a step of the registry, or a stutter.        *)
LEMMA RegistryStep ==
    ASSUME StoreInv, ClockInv, [Next]_vars
    PROVE  Registry!Next \/ UNCHANGED <<index, user>>
<1>1. ASSUME NEW p \in Clients, Step(p), ~Commit(p), ~WriteReceipt(p), ~Replace(p),
             ~Touch(p)
      PROVE  UNCHANGED <<index, user>>
  BY <1>1 DEF Readable, Step, Lock, Prehash, Probe, Stage, Publish, Sync, Find, Restore,
     Inspect, Refuse
<1>2. ASSUME NEW p \in Clients, (\E a \in Commands : Invoke(p, a)) \/ Die(p)
      PROVE  UNCHANGED <<index, user>>
  BY <1>2 DEF Invoke, Die, Refuse
<1>3. ASSUME Rot \/ Outage \/ Tick \/ Rest \/ UNCHANGED vars
      PROVE  UNCHANGED <<index, user>>
  BY <1>3 DEF Rot, Outage, Tick, Rest, vars
<1>4. ASSUME Edit PROVE Registry!Next
  <2>1. PICK f \in StateFiles : \E c \in (Contents \cup {Absent}) \ {user[f]} :
            user' = [user EXCEPT ![f] = c]
    BY <1>4 DEF Edit
  <2>2. Registry!CallerWrites(f)
    BY <1>4, <2>1 DEF Edit, Registry!CallerWrites
  <2> QED
    BY <2>2 DEF Registry!Next
<1> QED
  BY <1>1, <1>2, <1>3, <1>4, CommitRefines, WriteReceiptRefines, GetRefines DEF Next

(* Every behaviour of the store, with its interleaved steps, deaths, power *)
(* losses and damaged blobs, is one of the atomic registry.                *)
THEOREM StoreImplementsRegistry == Spec => RegistrySpec
<1>1. Init => ClockInv
  BY MomentsFacts DEF Init, ClockInv, Kinds
<1>2. StoreInv /\ ClockInv /\ [Next]_vars => ClockInv'
  BY ClockStep
<1>3. StoreInv /\ ClockInv /\ [Next]_vars => [Registry!Next]_(Registry!promised)
  BY RegistryStep DEF Registry!promised
<1> QED
  BY <1>1, <1>2, <1>3, RegistryInit, StoreInvariant, PTL
  DEF Spec, RegistrySpec, Registry!Spec

(* The bytes of every committed row are there, in the conditions under     *)
(* which put promises it.                                                  *)
THEOREM BlobsAreKept == Spec => []BlobsKept
<1>1. IntactBlobs /\ DurableUnlessKilled => BlobsKept
  BY DEF BlobsKept
<1> QED
  BY <1>1, RowsIntact, PublicationDurable, PTL
=============================================================================
