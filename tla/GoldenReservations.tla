------------------------- MODULE GoldenReservations -------------------------
(* The split of task groups and the golden bank: partition, freeze and     *)
(* migrate-reservations of traces/cli.py, over the files of the private    *)
(* output root.  No lock: commands are processes in Procs that read what   *)
(* they need when they start (Partition, Freeze, Migrate), and then write  *)
(* one file after the other, each through a temporary file with a fixed    *)
(* name (Stage, Replace).  A refused command changes nothing, so a refusal *)
(* is a guard.  A process may be killed anywhere (Kill).                   *)
EXTENDS Naturals, FiniteSets

CONSTANTS
    Groups,        \* task groups
    Training,      \* the partitions other than golden
    Home,          \* the partition the salted hash reserves for each group
    MinTasks, MaxTasks,  \* bounds of an executable bank
    Legacy,        \* frozen-assignments files an earlier tool may have left
    Procs,         \* processes
    Second,        \* bound: last value of the clock, in seconds
    Commands,      \* bound: commands started
    Kills,         \* bound: processes killed
    NoFile         \* what a missing file holds

VARIABLES
    disk,     \* the files of the output root
    tmp,      \* the temporary files beside them
    audits,   \* the audit directories, by the second that names them
    proc,     \* the processes
    now,      \* the clock
    sampled,  \* groups whose episodes went out to a labeller
    used,     \* are there results of running the bank
    started, killed

vars == <<disk, tmp, audits, proc, now, sampled, used, started, killed>>

Golden     == "golden"
Partitions == Training \cup {Golden}
Maps       == UNION {[seen -> Partitions] : seen \in SUBSET Groups}
Salts      == {"ours", "other", "none"}
Frozen     == [salt : Salts, map : Maps]
Files      == {"tasks", "frozen", "eligibility", "manifest"}
Stamps     == 1 .. Second

(* eligibility.json is the set of eligible candidates, and the freeze      *)
(* manifest the set of frozen tasks.                                       *)
Contents == [tasks       : {NoFile} \cup Maps,
             frozen      : {NoFile} \cup Frozen,
             eligibility : {NoFile} \cup SUBSET Groups,
             manifest    : {NoFile} \cup SUBSET Groups]
NoFiles  == [tasks |-> NoFile, frozen |-> NoFile,
             eligibility |-> NoFile, manifest |-> NoFile]

ASSUME HashAssumption ==
    /\ Golden \notin Training
    /\ Home \in [Groups -> Partitions]
ASSUME BankAssumption == MinTasks \in Nat /\ MaxTasks \in Nat /\ MinTasks > 0
ASSUME LegacyAssumption == Legacy \subseteq Frozen
ASSUME BoundAssumption == Second \in Nat \ {0} /\ Commands \in Nat /\ Kills \in Nat
ASSUME NoFileAssumption ==
    \A content \in Maps \cup Frozen \cup SUBSET Groups : NoFile # content
-----------------------------------------------------------------------------
Hashed(seen)  == [g \in seen |-> Home[g]]
Reserved(ids) == {g \in ids : Home[g] = Golden}
Changed(map)  == {g \in DOMAIN map : map[g] # Home[g]}
(* Mutant: any divergence is corrected.                                    *)
RestoreAnything(map) == Changed(map) \subseteq Groups
(* Regeneration may only bring reserved groups back.                       *)
Restorable(map) == \A g \in Changed(map) : Home[g] = Golden

Exists(f) == disk[f] # NoFile
Assigned  == IF Exists("frozen") THEN disk.frozen.map ELSE Hashed({})
(* Mutant: a reserved group that is not eligible is redistributed.         *)
Redistributed(seen) ==
    [g \in seen |-> IF Home[g] = Golden /\ Exists("eligibility")
                      THEN IF g \in disk.eligibility THEN Golden ELSE CHOOSE t \in Training : TRUE
                      ELSE Home[g]]
Place(g)    == IF g \in DOMAIN Assigned THEN Assigned[g] ELSE Home[g]
Split(seen) == [g \in seen |-> Place(g)]

(* A bank is executable when its size is within the bounds; a freeze below *)
(* or above them materialises no task.                                     *)
(* Mutant: no upper bound.                                                 *)
LargeEnough(bank) == MinTasks <= Cardinality(bank)
Ready(bank) == MinTasks <= Cardinality(bank) /\ Cardinality(bank) <= MaxTasks
(* Mutant: an eligible training group is imported.                         *)
AnyEligible(ok) == IF Ready(ok) THEN ok ELSE {}
Bank(ok)    == IF Ready(Reserved(ok)) THEN Reserved(ok) ELSE {}
Frozen_tasks == IF Exists("manifest") THEN disk.manifest ELSE {}

(* Whatever lies beside the two producers in traces/golden, or is a golden *)
(* metric: results, and also the temporary files of the producers.         *)
Evidence == used \/ tmp.eligibility # NoFile \/ tmp.manifest # NoFile

Idle == [cmd |-> "none", at |-> "idle", staged |-> FALSE, out |-> NoFiles,
         moved |-> {}, stamp |-> 1]
Begin(p, cmd, at, out, moved) ==
    /\ proc[p].at = "idle" /\ started < Commands
    /\ started' = started + 1
    /\ proc' = [proc EXCEPT ![p] = [Idle EXCEPT !.cmd = cmd, !.at = at, !.out = out,
                                                !.moved = moved]]
    /\ UNCHANGED <<disk, tmp, audits, now, sampled, used, killed>>

(* The groups a run sees depend on the transcripts of the day and on       *)
(* --max-sessions.                                                         *)
Partition(p) ==
    \E seen \in SUBSET Groups :
        Begin(p, "partition", "tasks",
              [NoFiles EXCEPT !.tasks = Split(seen),
                              !.frozen = [salt |-> "ours", map |-> Split(seen)]], {})

(* Eligible are those with an oracle in the index given to this run.       *)
Freeze(p) ==
    \E ok \in SUBSET Groups :
        Begin(p, "freeze", "eligibility",
              [NoFiles EXCEPT !.eligibility = ok, !.manifest = Bank(ok)], {})

Eligible == IF Exists("eligibility") THEN disk.eligibility ELSE {}
(* Mutant: the guard on frozen tasks is missing.                           *)
MigratableUnderBank ==
    /\ Exists("frozen") /\ DOMAIN disk.frozen.map # {}
    /\ ~Evidence /\ disk.frozen.salt # "other"
    /\ Restorable(disk.frozen.map)
    /\ Reserved(DOMAIN disk.frozen.map) \cap Eligible = {}
Migratable ==
    /\ Exists("frozen") /\ DOMAIN disk.frozen.map # {}
    /\ Frozen_tasks = {} /\ ~Evidence
    /\ disk.frozen.salt # "other"
    /\ Restorable(disk.frozen.map)
    /\ Reserved(DOMAIN disk.frozen.map) \cap Eligible = {}
Migrate(p) ==
    /\ Migratable
    /\ LET map == Hashed(DOMAIN disk.frozen.map)
           golden == Exists("eligibility")
       IN  Begin(p, "migrate", "backup",
                 [tasks |-> map, frozen |-> [salt |-> "ours", map |-> map],
                  eligibility |-> disk.eligibility,
                  manifest |-> IF golden THEN Reserved(DOMAIN map) \cap Eligible
                                         ELSE NoFile],
                 Changed(disk.frozen.map))

(* Mutant: task-assignments are not rewritten.                             *)
AfterFrozenOnly(q) ==
    CASE q.at = "backup"      -> "frozen"
      [] q.at = "frozen"      -> IF q.cmd = "migrate" THEN "audit" ELSE "idle"
      [] q.at = "tasks"       -> "first"
      [] q.at = "eligibility" -> "manifest"
      [] OTHER                -> "idle"
(* What a command does after its step `at`.                                *)
After(q) ==
    CASE q.at = "backup"      -> "frozen"
      [] q.at = "frozen"      -> IF q.cmd = "migrate" THEN "tasks" ELSE "idle"
      [] q.at = "tasks"       -> IF q.cmd = "partition" THEN "first"
                                 ELSE IF q.out.manifest # NoFile THEN "eligibility"
                                 ELSE "audit"
      [] q.at = "eligibility" -> "manifest"
      [] q.at = "manifest"    -> IF q.cmd = "migrate" THEN "audit" ELSE "idle"
      [] OTHER                -> "idle"
Advance(q) == IF After(q) = "idle" THEN Idle
              ELSE [q EXCEPT !.at = After(q), !.staged = FALSE]

(* atomic_write_json: write path.tmp, then rename it.                      *)
Stage(p) ==
    /\ proc[p].at \in Files /\ ~proc[p].staged
    /\ tmp' = [tmp EXCEPT ![proc[p].at] = proc[p].out[proc[p].at]]
    /\ proc' = [proc EXCEPT ![p].staged = TRUE]
    /\ UNCHANGED <<disk, audits, now, sampled, used, started, killed>>

Replace(p) ==
    LET f == proc[p].at
    IN  /\ f \in Files /\ proc[p].staged /\ tmp[f] # NoFile
        /\ disk' = [disk EXCEPT ![f] = tmp[f]]
        /\ tmp' = [tmp EXCEPT ![f] = NoFile]
        /\ proc' = [proc EXCEPT ![p] = Advance(@)]
        /\ UNCHANGED <<audits, now, sampled, used, started, killed>>

(* Another process renamed the temporary file away: the command fails.     *)
Robbed(p) ==
    /\ proc[p].at \in Files /\ proc[p].staged /\ tmp[proc[p].at] = NoFile
    /\ proc' = [proc EXCEPT ![p] = Idle]
    /\ UNCHANGED <<disk, tmp, audits, now, sampled, used, started, killed>>

(* The first partition freezes its assignments: checked here, written      *)
(* later.                                                                  *)
FirstFreeze(p) ==
    /\ proc[p].at = "first"
    /\ proc' = [proc EXCEPT ![p] = IF Exists("frozen") THEN Idle
                                   ELSE [@ EXCEPT !.at = "frozen", !.staged = FALSE]]
    /\ UNCHANGED <<disk, tmp, audits, now, sampled, used, started, killed>>

(* Mutant: the directory is made, the file is not copied.                  *)
BackupNothing(p) ==
    /\ proc[p].at = "backup"
    /\ proc' = [proc EXCEPT ![p] = [Advance(@) EXCEPT !.stamp = now]]
    /\ UNCHANGED <<disk, tmp, audits, now, sampled, used, started, killed>>
(* Mutant: the document is kept where its assignments belong.              *)
BackupDocument(p) ==
    /\ proc[p].at = "backup"
    /\ audits' = [audits EXCEPT ![now].kept = disk.frozen]
    /\ proc' = [proc EXCEPT ![p] = [Advance(@) EXCEPT !.stamp = now]]
    /\ UNCHANGED <<disk, tmp, now, sampled, used, started, killed>>

(* A migration copies the assignment files into a directory named by the   *)
(* second, which may exist already; the copy of task-assignments is not    *)
(* modelled.                                                               *)
Backup(p) ==
    /\ proc[p].at = "backup"
    /\ audits' = [audits EXCEPT ![now].kept = disk.frozen.map]
    /\ proc' = [proc EXCEPT ![p] = [Advance(@) EXCEPT !.stamp = now]]
    /\ UNCHANGED <<disk, tmp, now, sampled, used, started, killed>>

(* The audit record comes last.                                            *)
Audit(p) ==
    /\ proc[p].at = "audit"
    /\ audits' = [audits EXCEPT ![proc[p].stamp].moved = proc[p].moved,
                                ![proc[p].stamp].recorded = TRUE]
    /\ proc' = [proc EXCEPT ![p] = Advance(@)]
    /\ UNCHANGED <<disk, tmp, now, sampled, used, started, killed>>

Kill(p) ==
    /\ proc[p].at # "idle" /\ killed < Kills
    /\ proc' = [proc EXCEPT ![p] = Idle]
    /\ killed' = killed + 1
    /\ UNCHANGED <<disk, tmp, audits, now, sampled, used, started>>

(* Episodes of groups outside golden are sampled for labelling.            *)
Sample ==
    /\ Exists("tasks")
    /\ sampled' = sampled \cup {g \in DOMAIN disk.tasks : disk.tasks[g] # Golden}
    /\ UNCHANGED <<disk, tmp, audits, proc, now, used, started, killed>>

(* The executable bank is run and its results lie in traces/golden.        *)
Execute ==
    /\ Frozen_tasks # {} /\ used' = TRUE
    /\ UNCHANGED <<disk, tmp, audits, proc, now, sampled, started, killed>>

Tick ==
    /\ now < Second /\ now' = now + 1
    /\ UNCHANGED <<disk, tmp, audits, proc, sampled, used, started, killed>>

(* When no command runs the operator may stop for good.                    *)
Quiet == \A p \in Procs : proc[p].at = "idle"
Rest  == Quiet /\ UNCHANGED vars
-----------------------------------------------------------------------------
(* An earlier tool wrote both assignment files, or there is nothing yet.   *)
Init ==
    /\ \E old \in Legacy \cup {NoFile} :
           disk = [NoFiles EXCEPT !.frozen = old,
                                  !.tasks = IF old = NoFile THEN NoFile ELSE old.map]
    /\ tmp = NoFiles
    /\ audits = [s \in Stamps |-> [kept |-> NoFile, moved |-> {}, recorded |-> FALSE]]
    /\ proc = [p \in Procs |-> Idle]
    /\ now = 1 /\ sampled = {} /\ used = FALSE /\ started = 0 /\ killed = 0

Step(p) ==
    \/ Partition(p) \/ Freeze(p) \/ Migrate(p)
    \/ Stage(p) \/ Replace(p) \/ Robbed(p) \/ FirstFreeze(p)
    \/ Backup(p) \/ Audit(p) \/ Kill(p)

Next == (\E p \in Procs : Step(p)) \/ Sample \/ Execute \/ Tick \/ Rest
Spec == Init /\ [][Next]_vars
-----------------------------------------------------------------------------
(* The files and the processes have the types the code gives them.         *)
TypeOK ==
    /\ disk \in Contents /\ tmp \in Contents
    /\ audits \in [Stamps -> [kept : {NoFile} \cup Maps, moved : SUBSET Groups,
                               recorded : BOOLEAN]]
    /\ proc \in [Procs -> [cmd : {"none", "partition", "freeze", "migrate"},
                           at : Files \cup {"idle", "first", "backup", "audit"},
                           staged : BOOLEAN, out : Contents,
                           moved : SUBSET Groups, stamp : Stamps]]
    /\ now \in Stamps /\ sampled \subseteq Groups /\ used \in BOOLEAN
    /\ started \in Nat /\ killed \in Nat

(* Frozen assignments are immutable: the file never disappears, and a      *)
(* group in it keeps its partition, or is brought back to golden where the *)
(* hash reserves it.                                                       *)
OnlyRestored ==
    disk.frozen # NoFile =>
        /\ disk'.frozen # NoFile
        /\ \A g \in DOMAIN disk.frozen.map \cap DOMAIN disk'.frozen.map :
               \/ disk'.frozen.map[g] = disk.frozen.map[g]
               \/ disk'.frozen.map[g] = Golden /\ Home[g] = Golden
FrozenOnlyRestored == [][OnlyRestored]_vars

(* Frozen tasks are a bank within its bounds, whichever command wrote the  *)
(* manifest: no fake bank.                                                 *)
BankInBounds ==
    Exists("manifest") /\ disk.manifest # {} =>
        /\ MinTasks <= Cardinality(disk.manifest)
        /\ Cardinality(disk.manifest) <= MaxTasks
        /\ \A g \in disk.manifest : Home[g] = Golden

(* Once a group is golden in task-assignments no command moves it into     *)
(* training, through kills, reruns and migrations.                         *)
GoldenKept ==
    Exists("tasks") =>
        \A g \in DOMAIN disk.tasks \cap DOMAIN disk'.tasks :
            disk.tasks[g] = Golden => disk'.tasks[g] = Golden
GoldenStays == [][GoldenKept]_vars

(* Before the frozen file is rewritten, what it held is in a backup.       *)
BackedUp == \E s \in Stamps : audits[s].kept = disk.frozen.map
BackupKept == Exists("frozen") /\ disk'.frozen # disk.frozen => BackedUp
BackedUpFirst == [][BackupKept]_vars

(* Assignments are never regenerated under a frozen or a used bank.        *)
BankInUse == Frozen_tasks # {} \/ used
AssignmentsFixed == Exists("frozen") /\ BankInUse => disk'.frozen.map = disk.frozen.map
BankFixesAssignments == [][AssignmentsFixed]_vars

(* A group whose episodes were given away for labelling is not in the bank.*)
HoldoutUnseen == Exists("manifest") => disk.manifest \cap sampled = {}

(* A finished migration leaves both assignment files at the reservations   *)
(* of the hash.                                                            *)
MigrationRestores ==
    \A p \in Procs : proc[p].at = "audit" =>
        /\ Exists("frozen") /\ Changed(disk.frozen.map) = {}
        /\ Exists("tasks")  /\ Changed(disk.tasks) = {}

(* Whatever overlaps, is killed or run again, the files hold what their    *)
(* names say, and the manifest a bank (freeze, the manifest is last).      *)
BanksWellFormed == TypeOK /\ BankInBounds

(* A migration is safe to finish and safe to lose: before the frozen file  *)
(* is rewritten its content is in a backup, and whoever writes the audit   *)
(* record has restored both files (cmd_migrate_reservations).              *)
MigrationsKeep == []MigrationRestores /\ BackedUpFirst

(* What was promised to a group is kept through kills, reruns and          *)
(* migrations: golden is not taken away from it (cmd_partition), and under *)
(* a bank it stays where it is (cmd_freeze).                               *)
PlacesKept == GoldenStays /\ BankFixesAssignments
=============================================================================
