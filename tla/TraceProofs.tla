----------------------------- MODULE TraceProofs -----------------------------
(* Theorems about the trace pipeline: the reservations of                  *)
(* GoldenReservations, for any groups, hash, legacy files and number of    *)
(* processes; the groups of TaskGroups, for any transcripts, prompts and   *)
(* indexes; the episodes of TraceEpisodes, for any kinds of events, tools  *)
(* and bounds; and the mix of CalibrationMix, for any records and anchors. *)
EXTENDS GoldenReservations, TaskGroups, TraceEpisodes, CalibrationMix,
        FiniteSums, SequenceTheorems

BankOK(b) ==
    \/ b = NoFile \/ b = {}
    \/ Ready(b) /\ \A g \in b : Home[g] = Golden
BanksOK ==
    /\ BankOK(disk.manifest) /\ BankOK(tmp.manifest)
    /\ \A p \in Procs : BankOK(proc[p].out.manifest)

(* A document of the frozen file that holds what the hash reserves.        *)
IsHashed(doc) == doc \in Frozen /\ Changed(doc.map) = {}

(* Whatever a process is about to write to the frozen file is hashed, and  *)
(* the file it overwrites only lacks reservations.  A partition knows this *)
(* only as long as there is no file: one never disappears.                 *)
FrozenWrites ==
    /\ tmp.frozen # NoFile => IsHashed(tmp.frozen)
    /\ \A p \in Procs :
        /\ proc[p].at \in {"backup", "frozen"} =>
               /\ IsHashed(proc[p].out.frozen)
               /\ Exists("frozen") => Restorable(disk.frozen.map)
        /\ proc[p].at = "backup" => Exists("frozen") /\ proc[p].cmd = "migrate"
        /\ (\/ proc[p].at = "first" /\ disk.frozen = NoFile
            \/ proc[p].at = "tasks" /\ proc[p].cmd = "partition" /\ disk.frozen = NoFile)
               => IsHashed(proc[p].out.frozen)

ReservationInv == TypeOK /\ BanksOK /\ FrozenWrites

-----------------------------------------------------------------------------
(* Documents and maps.                                                     *)
LEMMA NoFilesTyped == NoFiles \in Contents
BY DEF NoFiles, Contents

LEMMA HashedTyped ==
    ASSUME NEW seen \in SUBSET Groups
    PROVE  Hashed(seen) \in Maps /\ Changed(Hashed(seen)) = {}
BY HashAssumption DEF Hashed, Maps, Partitions, Changed

LEMMA MapTyped ==
    ASSUME NEW map \in Maps
    PROVE  /\ DOMAIN map \subseteq Groups
           /\ \A g \in DOMAIN map : map[g] \in Partitions
BY DEF Maps

LEMMA SplitTyped ==
    ASSUME TypeOK, NEW seen \in SUBSET Groups
    PROVE  /\ Split(seen) \in Maps
           /\ disk.frozen = NoFile => Changed(Split(seen)) = {}
<1>1. Assigned \in Maps
  <2>1. disk.frozen \in {NoFile} \cup Frozen
    BY DEF TypeOK, Contents
  <2> QED
    BY <2>1, HashedTyped DEF Assigned, Exists, Frozen
<1>2. \A g \in seen : Place(g) \in Partitions
  BY <1>1, MapTyped, HashAssumption DEF Partitions, Place
<1>3. Split(seen) \in [seen -> Partitions]
  BY <1>2 DEF Split
<1>4. disk.frozen = NoFile => Split(seen) = Hashed(seen)
  BY DEF Split, Place, Assigned, Hashed, Exists
<1> QED
  BY <1>3, <1>4, HashedTyped DEF Maps

LEMMA BankTyped ==
    ASSUME NEW ok \in SUBSET Groups
    PROVE  Bank(ok) \in SUBSET Groups /\ BankOK(Bank(ok))
BY DEF Bank, BankOK, Reserved

(* One file of a root is replaced by the same file of another.             *)
LEMMA FileReplaced ==
    ASSUME NEW d \in Contents, NEW e \in Contents, NEW f \in Files
    PROVE  [d EXCEPT ![f] = e[f]] \in Contents
<1>1. CASE f = "tasks"
  BY <1>1 DEF Contents
<1>2. CASE f = "frozen"
  BY <1>2 DEF Contents
<1>3. CASE f = "eligibility"
  BY <1>3 DEF Contents
<1>4. CASE f = "manifest"
  BY <1>4 DEF Contents
<1> QED
  BY <1>1, <1>2, <1>3, <1>4 DEF Files

LEMMA FileRemoved ==
    ASSUME NEW d \in Contents, NEW f \in Files
    PROVE  [d EXCEPT ![f] = NoFile] \in Contents
<1>1. NoFiles[f] = NoFile
  BY DEF NoFiles, Files
<1> QED
  BY <1>1, NoFilesTyped, FileReplaced

(* What a process is: the type of TypeOK.                                  *)
Process == [cmd : {"none", "partition", "freeze", "migrate"},
            at : Files \cup {"idle", "first", "backup", "audit"},
            staged : BOOLEAN, out : Contents,
            moved : SUBSET Groups, stamp : Stamps]

LEMMA IdleTyped == Idle \in Process
BY NoFilesTyped, BoundAssumption DEF Idle, Process, Stamps

LEMMA AdvanceTyped ==
    ASSUME NEW q \in Process
    PROVE  /\ Advance(q) \in Process
           /\ Advance(q).out \in {q.out, NoFiles}
           /\ Advance(q) # Idle => Advance(q).out = q.out /\ Advance(q).cmd = q.cmd
                                   /\ Advance(q).at = After(q)
<1>1. After(q) \in Files \cup {"idle", "first", "backup", "audit"}
  BY DEF After, Files
<1> QED
  BY <1>1, IdleTyped DEF Advance, Process, Idle

LEMMA ReservationInit == Init => ReservationInv
<1> SUFFICES ASSUME Init PROVE ReservationInv
  OBVIOUS
<1>1. PICK old \in Legacy \cup {NoFile} :
        disk = [NoFiles EXCEPT !.frozen = old,
                               !.tasks = IF old = NoFile THEN NoFile ELSE old.map]
  BY DEF Init
<1>2. disk \in Contents /\ disk.manifest = NoFile
  BY <1>1, LegacyAssumption DEF NoFiles, Contents, Frozen
<1>3. proc \in [Procs -> Process] /\ \A p \in Procs : proc[p] = Idle
  BY IdleTyped DEF Init
<1>7. audits \in [Stamps -> [kept : {NoFile} \cup Maps, moved : SUBSET Groups,
                              recorded : BOOLEAN]]
  <2>1. [kept |-> NoFile, moved |-> {}, recorded |-> FALSE]
            \in [kept : {NoFile} \cup Maps, moved : SUBSET Groups, recorded : BOOLEAN]
    OBVIOUS
  <2> QED
    BY <2>1 DEF Init
<1>8. now \in Stamps /\ started \in Nat /\ killed \in Nat /\ used \in BOOLEAN
      /\ sampled \subseteq Groups
  <2>1. now = 1 /\ started = 0 /\ killed = 0 /\ used = FALSE /\ sampled = {}
    BY Zenon DEF Init
  <2>2. 1 \in Stamps
    BY BoundAssumption DEF Stamps
  <2> QED
    BY <2>1, <2>2
<1>4. TypeOK
  BY <1>2, <1>3, <1>7, <1>8, NoFilesTyped DEF Init, TypeOK, Process
<1>5. BanksOK
  BY <1>2, <1>3 DEF Init, BanksOK, BankOK, NoFiles, Idle
<1>6. FrozenWrites
  BY <1>3 DEF Init, FrozenWrites, NoFiles, Idle
<1> QED
  BY <1>4, <1>5, <1>6 DEF ReservationInv

(* A command begins with documents that respect the invariant.             *)
LEMMA BeginInv ==
    ASSUME ReservationInv, NEW p \in Procs,
           NEW cmd \in {"partition", "freeze", "migrate"},
           NEW at \in {"tasks", "eligibility", "backup"},
           NEW out \in Contents, NEW moved \in SUBSET Groups,
           Begin(p, cmd, at, out, moved), BankOK(out.manifest),
           at = "backup" => /\ IsHashed(out.frozen) /\ cmd = "migrate"
                            /\ Exists("frozen") /\ Restorable(disk.frozen.map),
           at = "tasks" /\ disk.frozen = NoFile => IsHashed(out.frozen)
    PROVE  ReservationInv'
<1> DEFINE q == [Idle EXCEPT !.cmd = cmd, !.at = at, !.out = out, !.moved = moved]
<1>1. q \in Process /\ q.cmd = cmd /\ q.at = at /\ q.out = out
  BY IdleTyped DEF Process, Idle, Files
<1>2. proc' = [proc EXCEPT ![p] = q] /\ proc \in [Procs -> Process]
  BY DEF Begin, ReservationInv, TypeOK, Process
<1> HIDE DEF q
<1>3. /\ \A r \in Procs : r # p => proc'[r] = proc[r]
      /\ proc'[p] = q /\ proc' \in [Procs -> Process]
  BY <1>1, <1>2
<1>4. TypeOK'
  BY <1>3 DEF Begin, ReservationInv, TypeOK, Process
<1>5. BanksOK'
  BY <1>1, <1>3 DEF Begin, ReservationInv, BanksOK
<1>6. FrozenWrites'
  BY <1>1, <1>3 DEF Begin, ReservationInv, FrozenWrites, Exists
<1> QED
  BY <1>4, <1>5, <1>6 DEF ReservationInv

(* A process goes on with what it has, or stops; the files stay.           *)
LEMMA ProcInv ==
    ASSUME ReservationInv, NEW p \in Procs, NEW q \in Process,
           proc' = [proc EXCEPT ![p] = q], UNCHANGED <<disk, tmp, now, sampled, used>>,
           audits' \in [Stamps -> [kept : {NoFile} \cup Maps, moved : SUBSET Groups,
                                    recorded : BOOLEAN]],
           started' \in Nat, killed' \in Nat,
           q.out \in {proc[p].out, NoFiles},
           q.at \in {"first", "backup"} => q = proc[p],
           q.at = "tasks" => q.cmd = proc[p].cmd /\ q.out = proc[p].out
                             /\ (q.cmd = "partition" => proc[p].at = "tasks"),
           q.at = "frozen" => /\ q.out = proc[p].out
                              /\ \/ proc[p].at \in {"backup", "frozen"}
                                 \/ proc[p].at = "first" /\ disk.frozen = NoFile
    PROVE  ReservationInv'
<1>1. /\ \A r \in Procs : r # p => proc'[r] = proc[r]
      /\ proc'[p] = q /\ proc' \in [Procs -> Process]
  BY DEF ReservationInv, TypeOK, Process
<1>2. TypeOK'
  BY <1>1 DEF ReservationInv, TypeOK, Process
<1>3. BanksOK'
  BY <1>1 DEF ReservationInv, BanksOK, BankOK, NoFiles
<1>4. FrozenWrites'
  <2>1. tmp'.frozen # NoFile => IsHashed(tmp'.frozen)
    BY DEF ReservationInv, FrozenWrites
  <2>2. ASSUME NEW r \in Procs
        PROVE  /\ proc'[r].at \in {"backup", "frozen"} =>
                      /\ IsHashed(proc'[r].out.frozen)
                      /\ Exists("frozen") => Restorable(disk.frozen.map)
               /\ proc'[r].at = "backup" => Exists("frozen") /\ proc'[r].cmd = "migrate"
               /\ (\/ proc'[r].at = "first" /\ disk.frozen = NoFile
                   \/ proc'[r].at = "tasks" /\ proc'[r].cmd = "partition" /\ disk.frozen = NoFile)
                      => IsHashed(proc'[r].out.frozen)
    <3>1. CASE r # p
      BY <3>1, <1>1 DEF ReservationInv, FrozenWrites
    <3>2. CASE r = p
      BY <3>2, <1>1 DEF ReservationInv, FrozenWrites, Exists
    <3> QED
      BY <3>1, <3>2
  <2> QED
    BY <2>1, <2>2 DEF FrozenWrites, Exists
<1> QED
  BY <1>2, <1>3, <1>4 DEF ReservationInv

-----------------------------------------------------------------------------
(* The commands begin.                                                     *)
LEMMA PartitionInv == ASSUME ReservationInv, NEW p \in Procs, Partition(p) PROVE ReservationInv'
<1>1. PICK seen \in SUBSET Groups :
        Begin(p, "partition", "tasks",
              [NoFiles EXCEPT !.tasks = Split(seen),
                              !.frozen = [salt |-> "ours", map |-> Split(seen)]], {})
  BY DEF Partition
<1> DEFINE out == [NoFiles EXCEPT !.tasks = Split(seen),
                                  !.frozen = [salt |-> "ours", map |-> Split(seen)]]
<1>2. Split(seen) \in Maps /\ (disk.frozen = NoFile => Changed(Split(seen)) = {})
  BY SplitTyped DEF ReservationInv
<1>3. out.frozen = [salt |-> "ours", map |-> Split(seen)] /\ out.manifest = NoFile
  BY DEF NoFiles
<1>4. out \in Contents
  BY <1>2 DEF NoFiles, Contents, Frozen, Salts
<1>5. disk.frozen = NoFile => IsHashed(out.frozen)
  BY <1>2, <1>3 DEF IsHashed, Frozen, Salts
<1>6. Begin(p, "partition", "tasks", out, {}) /\ BankOK(out.manifest)
  BY <1>1, <1>3 DEF BankOK
<1> HIDE DEF out
<1> QED
  BY <1>4, <1>5, <1>6, BeginInv

LEMMA FreezeInv == ASSUME ReservationInv, NEW p \in Procs, Freeze(p) PROVE ReservationInv'
<1>1. PICK ok \in SUBSET Groups :
        Begin(p, "freeze", "eligibility",
              [NoFiles EXCEPT !.eligibility = ok, !.manifest = Bank(ok)], {})
  BY DEF Freeze
<1> DEFINE out == [NoFiles EXCEPT !.eligibility = ok, !.manifest = Bank(ok)]
<1>2. out \in Contents /\ out.manifest = Bank(ok)
  BY BankTyped DEF NoFiles, Contents
<1>3. Begin(p, "freeze", "eligibility", out, {}) /\ BankOK(out.manifest)
  BY <1>1, <1>2, BankTyped
<1> HIDE DEF out
<1> QED
  BY <1>2, <1>3, BeginInv

LEMMA MigrateInv == ASSUME ReservationInv, NEW p \in Procs, Migrate(p) PROVE ReservationInv'
<1> DEFINE map == Hashed(DOMAIN disk.frozen.map)
           out == [tasks |-> map, frozen |-> [salt |-> "ours", map |-> map],
                   eligibility |-> disk.eligibility,
                   manifest |-> IF Exists("eligibility")
                                THEN Reserved(DOMAIN map) \cap Eligible ELSE NoFile]
<1>1. Exists("frozen") /\ Restorable(disk.frozen.map)
      /\ Reserved(DOMAIN disk.frozen.map) \cap Eligible = {}
  BY DEF Migrate, Migratable
<1>2. Begin(p, "migrate", "backup", out, Changed(disk.frozen.map))
  BY DEF Migrate
<1>3. disk.frozen.map \in Maps /\ disk.eligibility \in {NoFile} \cup SUBSET Groups
  BY <1>1 DEF ReservationInv, TypeOK, Contents, Frozen, Exists
<1>4. DOMAIN disk.frozen.map \in SUBSET Groups /\ Changed(disk.frozen.map) \in SUBSET Groups
  BY <1>3, MapTyped DEF Changed
<1>5. map \in Maps /\ Changed(map) = {} /\ DOMAIN map = DOMAIN disk.frozen.map
  BY <1>4, HashedTyped DEF Hashed
<1>6. out.manifest \in {NoFile, {}}
  BY <1>1, <1>5
<1>7. IsHashed(out.frozen)
  BY <1>5 DEF IsHashed, Frozen, Salts
<1>8. out \in Contents
  BY <1>3, <1>5, <1>6 DEF Contents, Frozen, Salts
<1> HIDE DEF map, out
<1>9. BankOK(out.manifest)
  BY <1>6 DEF BankOK
<1> QED
  BY <1>1, <1>2, <1>4, <1>7, <1>8, <1>9, BeginInv

(* A document is staged: the file beside the one it is meant for.          *)
LEMMA StageInv == ASSUME ReservationInv, NEW p \in Procs, Stage(p) PROVE ReservationInv'
<1> DEFINE f == proc[p].at
<1>1. f \in Files /\ proc[p] \in Process /\ proc[p].out \in Contents
  BY DEF Stage, ReservationInv, TypeOK, Process
<1>2. tmp' = [tmp EXCEPT ![f] = proc[p].out[f]]
  BY DEF Stage
<1>3. tmp' \in Contents
  BY <1>1, <1>2, FileReplaced DEF ReservationInv, TypeOK
<1>4. /\ tmp'.manifest \in {tmp.manifest, proc[p].out.manifest}
      /\ \/ tmp'.frozen = tmp.frozen
         \/ (f = "frozen" /\ tmp'.frozen = proc[p].out.frozen)
  BY <1>1, <1>2 DEF ReservationInv, TypeOK, Contents, Files
<1>5. /\ \A r \in Procs : r # p => proc'[r] = proc[r]
      /\ proc'[p] = [proc[p] EXCEPT !.staged = TRUE] /\ proc' \in [Procs -> Process]
  BY <1>1 DEF Stage, ReservationInv, TypeOK, Process
<1>6. \A r \in Procs : /\ proc'[r].at = proc[r].at /\ proc'[r].cmd = proc[r].cmd
                       /\ proc'[r].out = proc[r].out
  BY <1>1, <1>5 DEF Process
<1>7. TypeOK'
  BY <1>3, <1>5 DEF Stage, ReservationInv, TypeOK, Process
<1>8. BanksOK'
  BY <1>4, <1>6 DEF Stage, ReservationInv, BanksOK
<1>9. FrozenWrites'
  BY <1>1, <1>4, <1>6 DEF Stage, ReservationInv, FrozenWrites, Exists
<1> QED
  BY <1>7, <1>8, <1>9 DEF ReservationInv

(* What a rename does to the frozen file, in any state of the invariant.   *)
LEMMA ReplaceFrozen ==
    ASSUME ReservationInv, NEW p \in Procs, Replace(p)
    PROVE  \/ disk'.frozen = disk.frozen
           \/ /\ proc[p].at = "frozen" /\ IsHashed(disk'.frozen) /\ disk'.frozen # NoFile
              /\ Exists("frozen") => Restorable(disk.frozen.map)
<1>1. proc[p].at \in Files /\ disk \in Contents /\ tmp[proc[p].at] # NoFile
      /\ disk' = [disk EXCEPT ![proc[p].at] = tmp[proc[p].at]]
  BY DEF Replace, ReservationInv, TypeOK
<1>2. CASE proc[p].at = "frozen"
  <2>1. disk'.frozen = tmp.frozen
    BY <1>1, <1>2 DEF Contents
  <2> QED
    BY <1>1, <1>2, <2>1 DEF ReservationInv, FrozenWrites
<1>3. CASE proc[p].at # "frozen"
  BY <1>1, <1>3 DEF Contents
<1> QED
  BY <1>2, <1>3

LEMMA ReplaceInv == ASSUME ReservationInv, NEW p \in Procs, Replace(p) PROVE ReservationInv'
<1> DEFINE f == proc[p].at
           q == Advance(proc[p])
<1>1. f \in Files /\ proc[p] \in Process /\ disk \in Contents /\ tmp \in Contents
  BY DEF Replace, ReservationInv, TypeOK, Process
<1>2. /\ disk' = [disk EXCEPT ![f] = tmp[f]] /\ tmp' = [tmp EXCEPT ![f] = NoFile]
      /\ tmp[f] # NoFile
  BY DEF Replace
<1>3. disk' \in Contents /\ tmp' \in Contents
  BY <1>1, <1>2, FileReplaced, FileRemoved
<1>4. /\ disk'.manifest \in {disk.manifest, tmp.manifest}
      /\ tmp'.manifest \in {tmp.manifest, NoFile} /\ tmp'.frozen \in {tmp.frozen, NoFile}
  BY <1>1, <1>2 DEF Contents, Files
<1>5. q \in Process /\ q.out \in {proc[p].out, NoFiles}
  BY <1>1, AdvanceTyped
<1>6. /\ \A r \in Procs : r # p => proc'[r] = proc[r]
      /\ proc'[p] = q /\ proc' \in [Procs -> Process]
  BY <1>5 DEF Replace, ReservationInv, TypeOK, Process
<1>7. TypeOK'
  BY <1>3, <1>6 DEF Replace, ReservationInv, TypeOK, Process
<1>8. BanksOK'
  BY <1>4, <1>5, <1>6 DEF ReservationInv, BanksOK, BankOK, NoFiles
<1>9. /\ q.at \notin {"backup", "frozen"}
      /\ q.at = "first" => /\ proc[p].at = "tasks" /\ proc[p].cmd = "partition"
                           /\ q.out = proc[p].out
      /\ q.at = "tasks" => q.cmd # "partition"
  BY <1>1, AdvanceTyped DEF After, Idle, Files
<1>10. FrozenWrites'
  <2>1. tmp'.frozen # NoFile => IsHashed(tmp'.frozen)
    BY <1>4 DEF ReservationInv, FrozenWrites
  <2>2. /\ disk.frozen # NoFile => disk'.frozen # NoFile
        /\ disk'.frozen = disk.frozen \/ Changed(disk'.frozen.map) = {}
    BY ReplaceFrozen DEF IsHashed, Exists
  <2>3. Exists("frozen") /\ Restorable(disk.frozen.map) => Restorable(disk'.frozen.map)
    BY <2>2 DEF Restorable, Changed
  <2>4. disk.frozen = NoFile /\ disk'.frozen # NoFile => Restorable(disk'.frozen.map)
    BY <2>2 DEF Restorable
  <2> QED
    BY <1>6, <1>9, <2>1, <2>2, <2>3, <2>4 DEF ReservationInv, FrozenWrites, Exists
<1> QED
  BY <1>7, <1>8, <1>10 DEF ReservationInv

(* The steps that write no file.                                           *)
LEMMA LocalInv ==
    ASSUME ReservationInv, NEW p \in Procs,
           Robbed(p) \/ FirstFreeze(p) \/ Backup(p) \/ Audit(p) \/ Kill(p)
    PROVE  ReservationInv'
<1> DEFINE q == proc'[p]
<1>1. proc[p] \in Process /\ proc \in [Procs -> Process]
  BY DEF ReservationInv, TypeOK, Process
<1>2. ASSUME proc' = [proc EXCEPT ![p] = Idle], UNCHANGED <<disk, tmp, audits, now, sampled, used>>,
             started' = started, killed' \in Nat
      PROVE  ReservationInv'
  BY <1>2, <1>1, IdleTyped, ProcInv DEF ReservationInv, TypeOK, Idle
<1>3. ASSUME Robbed(p) PROVE ReservationInv'
  BY <1>2, <1>3 DEF Robbed, ReservationInv, TypeOK
<1>4. ASSUME Kill(p) PROVE ReservationInv'
  BY <1>2, <1>4 DEF Kill, ReservationInv, TypeOK
<1>5. ASSUME FirstFreeze(p) PROVE ReservationInv'
  <2>1. CASE Exists("frozen")
    BY <2>1, <1>5, <1>2 DEF FirstFreeze, ReservationInv, TypeOK
  <2>2. CASE ~Exists("frozen")
    <3> DEFINE r == [proc[p] EXCEPT !.at = "frozen", !.staged = FALSE]
    <3>1. r \in Process /\ r.at = "frozen" /\ r.out = proc[p].out
      BY <1>1 DEF Process, Files
    <3>2. proc' = [proc EXCEPT ![p] = r]
      BY <2>2, <1>5 DEF FirstFreeze
    <3> HIDE DEF r
    <3> QED
      BY <3>1, <3>2, <2>2, <1>5, ProcInv DEF FirstFreeze, ReservationInv, TypeOK, Exists
  <2> QED
    BY <2>1, <2>2
<1>6. ASSUME Backup(p) PROVE ReservationInv'
  <2> DEFINE r == [Advance(proc[p]) EXCEPT !.stamp = now]
  <2>1. After(proc[p]) = "frozen"
    BY <1>6 DEF Backup, After
  <2>2. r \in Process /\ r.at = "frozen" /\ r.out = proc[p].out
    BY <2>1, <1>1 DEF Advance, ReservationInv, TypeOK, Process, Files
  <2>3. proc' = [proc EXCEPT ![p] = r] /\ proc[p].at = "backup"
    BY <1>6 DEF Backup
  <2> HIDE DEF r
  <2>4. disk.frozen.map \in Maps
    BY <2>3 DEF ReservationInv, FrozenWrites, TypeOK, Contents, Frozen, Exists
  <2>5. audits' \in [Stamps -> [kept : {NoFile} \cup Maps, moved : SUBSET Groups,
                                 recorded : BOOLEAN]]
    BY <1>6, <2>4 DEF Backup, ReservationInv, TypeOK
  <2> QED
    BY <1>6, <2>2, <2>3, <2>5, ProcInv DEF Backup, ReservationInv, TypeOK
<1>7. ASSUME Audit(p) PROVE ReservationInv'
  <2>1. Advance(proc[p]) = Idle
    BY <1>7 DEF Audit, After, Advance, Files
  <2>2. proc[p].moved \in SUBSET Groups /\ proc[p].stamp \in Stamps
    BY <1>1 DEF Process
  <2> DEFINE s == proc[p].stamp
             a == [audits[s] EXCEPT !.moved = proc[p].moved, !.recorded = TRUE]
             AuditType == [kept : {NoFile} \cup Maps, moved : SUBSET Groups, recorded : BOOLEAN]
  <2>4. audits \in [Stamps -> AuditType]
    BY DEF ReservationInv, TypeOK
  <2>5. a \in AuditType
    BY <2>2, <2>4
  <2>6. audits' = [audits EXCEPT ![s] = a]
    BY <1>7, <2>2, <2>4 DEF Audit
  <2>3. audits' \in [Stamps -> AuditType]
    BY <2>2, <2>4, <2>5, <2>6
  <2> QED
    BY <1>1, <1>7, <2>1, <2>3, IdleTyped, ProcInv DEF Audit, ReservationInv, TypeOK, Idle
<1> QED
  BY <1>3, <1>4, <1>5, <1>6, <1>7

(* The steps outside the commands.                                         *)
LEMMA OutsideInv ==
    ASSUME ReservationInv, Sample \/ Execute \/ Tick \/ UNCHANGED vars
    PROVE  ReservationInv'
<1>1. disk' = disk /\ tmp' = tmp /\ proc' = proc /\ audits' = audits
  BY DEF Sample, Execute, Tick, vars
<1>2. started' = started /\ killed' = killed /\ used' \in BOOLEAN
  BY DEF Sample, Execute, Tick, vars, ReservationInv, TypeOK
<1>3. now' \in Stamps
  BY BoundAssumption DEF Sample, Execute, Tick, vars, ReservationInv, TypeOK, Stamps
<1>4. sampled' \subseteq Groups
  <2>1. Exists("tasks") => DOMAIN disk.tasks \subseteq Groups
    BY MapTyped DEF ReservationInv, TypeOK, Contents, Exists
  <2> QED
    BY <2>1 DEF Sample, Execute, Tick, vars, ReservationInv, TypeOK
<1> QED
  BY <1>1, <1>2, <1>3, <1>4 DEF ReservationInv, TypeOK, BanksOK, FrozenWrites, Exists

LEMMA StepInv == ASSUME ReservationInv, [Next]_vars PROVE ReservationInv'
<1>1. ASSUME NEW p \in Procs, Step(p) PROVE ReservationInv'
  BY <1>1, PartitionInv, FreezeInv, MigrateInv, StageInv, ReplaceInv, LocalInv DEF Step
<1> QED
  BY <1>1, OutsideInv DEF Next, Rest

(* The inductive invariant of the reservations.                            *)
THEOREM ReservationInvariant == Spec => []ReservationInv
<1> QED
  BY ReservationInit, StepInv, PTL DEF Spec

(* Files and processes keep their types.                                   *)
THEOREM ReservationTypes == Spec => []TypeOK
<1>1. ReservationInv => TypeOK
  BY DEF ReservationInv
<1> QED
  BY <1>1, ReservationInvariant, PTL

(* No command, and no overlap of commands, publishes a bank that is too    *)
(* small, too large or contains a group the hash did not reserve.          *)
THEOREM BanksInBounds == Spec => []BankInBounds
<1>1. ReservationInv => BankInBounds
  BY DEF ReservationInv, BanksOK, BankOK, BankInBounds, Ready, Exists
<1> QED
  BY <1>1, ReservationInvariant, PTL

(* Any number of commands, killed anywhere, only bring reserved groups     *)
(* back in the frozen file.                                                *)
LEMMA FrozenStep == ASSUME ReservationInv, [Next]_vars PROVE OnlyRestored
<1>1. ASSUME NEW p \in Procs, Replace(p) PROVE OnlyRestored
  <2>1. CASE disk'.frozen = disk.frozen
    BY <2>1 DEF OnlyRestored
  <2>2. CASE /\ IsHashed(disk'.frozen) /\ disk'.frozen # NoFile
             /\ Exists("frozen") => Restorable(disk.frozen.map)
    BY <2>2 DEF OnlyRestored, IsHashed, Restorable, Changed, Exists
  <2> QED
    BY <1>1, <2>1, <2>2, ReplaceFrozen
<1>2. ASSUME UNCHANGED disk PROVE OnlyRestored
  BY <1>2 DEF OnlyRestored
<1>3. ASSUME NEW p \in Procs, Step(p) PROVE Replace(p) \/ UNCHANGED disk
  BY <1>3 DEF Step, Partition, Freeze, Migrate, Begin, Stage, Robbed, FirstFreeze, Backup,
             Audit, Kill
<1> QED
  BY <1>1, <1>2, <1>3 DEF Next, Sample, Execute, Tick, Rest, vars

THEOREM FrozenImmutable == Spec => FrozenOnlyRestored
<1>1. ReservationInv /\ [Next]_vars => [OnlyRestored]_vars
  BY FrozenStep
<1> QED
  BY <1>1, ReservationInvariant, PTL DEF Spec, FrozenOnlyRestored

-----------------------------------------------------------------------------
(* One command at a time.  What the split of today would leave golden      *)
(* covers what task-assignments holds as golden; whatever is about to be   *)
(* written there is today's split.                                         *)
OneAtATime == \A p, q \in Procs : p = q
Covered(map) == \A g \in DOMAIN map : map[g] = Golden => Place(g) = Golden
Follows(map) == map \in Maps /\ \A g \in DOMAIN map : map[g] = Place(g)
SoloInv ==
    /\ disk.tasks # NoFile => Covered(disk.tasks)
    /\ \A p \in Procs :
        /\ proc[p].at = "first" => proc[p].cmd = "partition"
        /\ proc[p].at = "tasks" => Follows(proc[p].out.tasks)
        /\ proc[p].at = "tasks" /\ proc[p].staged => tmp.tasks = proc[p].out.tasks
        /\ proc[p].at \in {"backup", "frozen"} /\ proc[p].cmd = "migrate" =>
               proc[p].out.tasks \in Maps /\ Changed(proc[p].out.tasks) = {}

LEMMA FrozenTyped == ASSUME TypeOK PROVE disk.frozen = NoFile \/ disk.frozen.map \in Maps
BY DEF TypeOK, Contents, Frozen

LEMMA PlaceHashed ==
    ASSUME TypeOK, disk.frozen # NoFile => Changed(disk.frozen.map) = {}, NEW g
    PROVE  Place(g) = Home[g]
<1>1. CASE disk.frozen = NoFile
  BY <1>1 DEF Place, Assigned, Exists, Hashed
<1>2. CASE disk.frozen # NoFile
  BY <1>2 DEF Place, Assigned, Exists, Changed
<1> QED
  BY <1>1, <1>2

LEMMA SoloInit == Init => SoloInv
<1> SUFFICES ASSUME Init PROVE SoloInv
  OBVIOUS
<1>1. PICK old \in Legacy \cup {NoFile} :
        disk = [NoFiles EXCEPT !.frozen = old,
                               !.tasks = IF old = NoFile THEN NoFile ELSE old.map]
  BY DEF Init
<1>2. disk.tasks # NoFile => disk.frozen # NoFile /\ disk.tasks = disk.frozen.map
  BY <1>1 DEF NoFiles
<1>3. \A p \in Procs : proc[p].at = "idle"
  BY DEF Init, Idle
<1> QED
  BY <1>2, <1>3 DEF SoloInv, Covered, Place, Assigned, Exists

(* A rename: of task-assignments, of the frozen file, or of another file.  *)
LEMMA SoloReplace ==
    ASSUME OneAtATime, ReservationInv, SoloInv, NEW p \in Procs, Replace(p)
    PROVE  SoloInv' /\ GoldenKept
<1> DEFINE f == proc[p].at
           q == Advance(proc[p])
<1>1. \A r \in Procs : r = p
  BY DEF OneAtATime
<1>2. /\ proc \in [Procs -> Process] /\ proc[p] \in Process /\ TypeOK
      /\ disk \in Contents /\ f \in Files
  BY DEF ReservationInv, TypeOK, Process, Replace
<1>3. /\ disk' = [disk EXCEPT ![f] = tmp[f]] /\ tmp[f] # NoFile /\ proc[p].staged
      /\ proc'[p] = q
  BY <1>2 DEF Replace
<1>4. TypeOK'
  BY ReplaceInv DEF ReservationInv
<1>5. CASE f = "tasks"
  <2>1. disk'.tasks = proc[p].out.tasks /\ disk'.frozen = disk.frozen
    BY <1>2, <1>3, <1>5 DEF SoloInv, Contents
  <2>2. \A g : Place(g)' = Place(g)
    BY <2>1 DEF Place, Assigned, Exists
  <2>3. q.at \notin {"tasks", "backup", "frozen"} /\ (q.at = "first" => q.cmd = "partition")
    BY <1>2, <1>5, AdvanceTyped DEF After, Idle
  <2>4. Follows(disk'.tasks)
    BY <1>5, <2>1 DEF SoloInv
  <2>5. GoldenKept
    BY <2>4 DEF SoloInv, GoldenKept, Follows, Covered, Exists
  <2>6. Covered(disk.tasks)'
    BY <2>2, <2>4 DEF Follows, Covered
  <2> QED
    BY <1>1, <1>3, <2>3, <2>5, <2>6 DEF SoloInv
<1>6. CASE f = "frozen"
  <2>1. disk'.tasks = disk.tasks /\ disk'.frozen = tmp.frozen
    BY <1>2, <1>3, <1>6 DEF Contents
  <2>2. Changed(disk'.frozen.map) = {}
        /\ (Exists("frozen") => Restorable(disk.frozen.map))
    BY <1>3, <1>6, <2>1 DEF ReservationInv, FrozenWrites, IsHashed
  <2>3. \A g : Place(g)' = Home[g]
    BY <1>4, <2>2, PlaceHashed DEF Place, Assigned, Exists, Changed, Hashed
  <2>4. \A g : Place(g) = Golden => Home[g] = Golden
    BY <2>2 DEF Place, Assigned, Exists, Changed, Restorable, Hashed
  <2>5. /\ q.at \notin {"backup", "frozen", "first"}
        /\ q.at = "tasks" => /\ proc[p].cmd = "migrate" /\ q.out = proc[p].out
                             /\ q.staged = FALSE
    BY <1>2, <1>6, AdvanceTyped DEF After, Idle, Advance, Process
  <2>6. q.at = "tasks" => /\ q.out.tasks \in Maps
                          /\ \A g \in DOMAIN q.out.tasks : q.out.tasks[g] = Home[g]
    BY <1>6, <2>5 DEF SoloInv, Changed
  <2>7. GoldenKept
    BY <2>1 DEF GoldenKept
  <2>8. proc'[p].at = "tasks" => Follows(proc[p].out.tasks)' /\ ~proc'[p].staged
    BY <1>3, <2>3, <2>5, <2>6 DEF Follows
  <2>9. disk'.tasks # NoFile => Covered(disk.tasks)'
    BY <2>1, <2>3, <2>4 DEF SoloInv, Covered
  <2> QED
    BY <1>1, <1>3, <2>5, <2>7, <2>8, <2>9 DEF SoloInv
<1>7. CASE f \in {"eligibility", "manifest"}
  <2>1. disk'.tasks = disk.tasks /\ disk'.frozen = disk.frozen
    BY <1>2, <1>3, <1>7 DEF Contents
  <2>2. \A g : Place(g)' = Place(g)
    BY <2>1 DEF Place, Assigned, Exists
  <2>3. q.at \notin {"tasks", "backup", "frozen", "first"}
    BY <1>2, <1>7, AdvanceTyped DEF After, Idle
  <2> QED
    BY <1>1, <1>3, <2>1, <2>2, <2>3 DEF SoloInv, Covered, GoldenKept
<1> QED
  BY <1>2, <1>5, <1>6, <1>7 DEF Files

(* The steps of a process, one by one.                                     *)
LEMMA SoloStep ==
    ASSUME OneAtATime, ReservationInv, SoloInv, NEW p \in Procs, Step(p)
    PROVE  SoloInv' /\ GoldenKept
<1>1. \A q \in Procs : q = p
  BY DEF OneAtATime
<1>2. proc \in [Procs -> Process] /\ proc[p] \in Process /\ TypeOK
  BY DEF ReservationInv, TypeOK, Process
<1>3. ASSUME UNCHANGED disk PROVE GoldenKept /\ (\A g : Place(g)' = Place(g))
  BY <1>3 DEF GoldenKept, Place, Assigned, Exists
<1>4. ASSUME Partition(p) PROVE SoloInv' /\ GoldenKept
  <2>1. PICK seen \in SUBSET Groups :
          Begin(p, "partition", "tasks",
                [NoFiles EXCEPT !.tasks = Split(seen),
                                !.frozen = [salt |-> "ours", map |-> Split(seen)]], {})
    BY <1>4 DEF Partition
  <2>2. /\ proc'[p].at = "tasks" /\ proc'[p].out.tasks = Split(seen)
        /\ proc'[p].staged = FALSE
    BY <1>2, <2>1 DEF Begin, Idle, NoFiles
  <2>3. Follows(Split(seen)) /\ UNCHANGED disk
    BY <2>1, <1>2, SplitTyped DEF Follows, Split, Begin
  <2> QED
    BY <1>1, <1>3, <2>2, <2>3 DEF SoloInv, Covered, Follows
<1>5. ASSUME Freeze(p) PROVE SoloInv' /\ GoldenKept
  <2>1. proc'[p].at = "eligibility" /\ UNCHANGED disk
    BY <1>2, <1>5 DEF Freeze, Begin, Idle
  <2> QED
    BY <1>1, <1>3, <2>1 DEF SoloInv, Covered
<1>6. ASSUME Migrate(p) PROVE SoloInv' /\ GoldenKept
  <2>1. /\ proc'[p].at = "backup" /\ UNCHANGED disk
        /\ proc'[p].out.tasks = Hashed(DOMAIN disk.frozen.map)
    BY <1>2, <1>6 DEF Migrate, Begin, Idle
  <2>2. DOMAIN disk.frozen.map \in SUBSET Groups
    BY <1>2, <1>6, FrozenTyped, MapTyped DEF Migrate, Migratable, Exists
  <2> QED
    BY <1>1, <1>3, <2>1, <2>2, HashedTyped DEF SoloInv, Covered
<1>7. ASSUME Stage(p) PROVE SoloInv' /\ GoldenKept
  <2>1. /\ proc'[p].at = proc[p].at /\ proc'[p].cmd = proc[p].cmd
        /\ proc'[p].out = proc[p].out /\ UNCHANGED disk
    BY <1>2, <1>7 DEF Stage, Process
  <2>2. proc[p].at = "tasks" => tmp'.tasks = proc[p].out.tasks
    BY <1>2, <1>7 DEF Stage, TypeOK, Contents
  <2> QED
    BY <1>1, <1>3, <2>1, <2>2 DEF SoloInv, Covered, Follows
<1>8. ASSUME proc' = [proc EXCEPT ![p] = Idle], UNCHANGED disk PROVE SoloInv' /\ GoldenKept
  BY <1>1, <1>2, <1>3, <1>8 DEF SoloInv, Covered, Idle
<1>10. ASSUME Robbed(p) \/ Kill(p) PROVE SoloInv' /\ GoldenKept
  BY <1>8, <1>10 DEF Robbed, Kill
<1>11. ASSUME Audit(p) PROVE SoloInv' /\ GoldenKept
  <2>1. Advance(proc[p]) = Idle
    BY <1>11 DEF Audit, After, Advance, Files
  <2> QED
    BY <1>8, <1>11, <2>1 DEF Audit
<1>12. ASSUME FirstFreeze(p) PROVE SoloInv' /\ GoldenKept
  <2>1. CASE Exists("frozen")
    BY <1>8, <1>12, <2>1 DEF FirstFreeze
  <2>2. CASE ~Exists("frozen")
    <3>1. /\ proc'[p].at = "frozen" /\ proc'[p].cmd = proc[p].cmd /\ UNCHANGED disk
          /\ proc[p].at = "first"
      BY <1>2, <1>12, <2>2 DEF FirstFreeze, Process
    <3> QED
      BY <1>1, <1>3, <3>1 DEF SoloInv, Covered
  <2> QED
    BY <2>1, <2>2
<1>9. ASSUME Backup(p) PROVE SoloInv' /\ GoldenKept
  <2>1. /\ proc'[p].at = "frozen" /\ proc'[p].cmd = proc[p].cmd
        /\ proc'[p].out = proc[p].out /\ UNCHANGED disk /\ proc[p].at = "backup"
    BY <1>2, <1>9 DEF Backup, Advance, After, Process
  <2> QED
    BY <1>1, <1>3, <2>1 DEF SoloInv, Covered
<1> QED
  BY <1>4, <1>5, <1>6, <1>7, <1>9, <1>10, <1>11, <1>12, SoloReplace DEF Step

LEMMA SoloNext ==
    ASSUME OneAtATime, ReservationInv, SoloInv, [Next]_vars
    PROVE  SoloInv' /\ GoldenKept
<1>1. ASSUME UNCHANGED <<disk, tmp, proc>> PROVE SoloInv' /\ GoldenKept
  BY <1>1 DEF SoloInv, Covered, Follows, Place, Assigned, Exists, GoldenKept
<1> QED
  BY <1>1, SoloStep DEF Next, Sample, Execute, Tick, Rest, vars

(* Without overlapping commands a golden group is never moved into         *)
(* training, however often commands are killed and run again.              *)
THEOREM HoldoutKept == OneAtATime /\ Spec => GoldenStays
<1>1. OneAtATime /\ Init => SoloInv
  BY SoloInit
<1>2. OneAtATime /\ ReservationInv /\ SoloInv /\ [Next]_vars => SoloInv' /\ [GoldenKept]_vars
  BY SoloNext
<1>3. OneAtATime => []OneAtATime
  <2>1. OneAtATime => OneAtATime'
    BY DEF OneAtATime
  <2> QED
    BY <2>1, PTL
<1> QED
  BY <1>1, <1>2, <1>3, ReservationInvariant, PTL DEF Spec, GoldenStays

(* Any number of overlapping and killed commands leave well-formed files   *)
(* and banks.                                                              *)
THEOREM BanksAreWellFormed == Spec => []BanksWellFormed
<1>1. TypeOK /\ BankInBounds => BanksWellFormed
  BY DEF BanksWellFormed
<1> QED
  BY <1>1, ReservationTypes, BanksInBounds, PTL

-----------------------------------------------------------------------------
(* One command at a time: how far a migration has come.  Until it writes   *)
(* the frozen file no bank is in use, what the file holds is in a backup,  *)
(* and afterwards both assignment files are those of the hash.             *)
Restored(map) == Changed(map) = {}
Resumed == {"tasks", "eligibility", "manifest", "audit"}
MigrationInv ==
    \A p \in Procs :
        /\ proc[p].at = "audit" => proc[p].cmd = "migrate"
        /\ proc[p].at = "tasks" => proc[p].cmd \in {"partition", "migrate"}
        /\ proc[p].at \in {"backup", "frozen"} /\ Exists("frozen") => ~BankInUse
        /\ proc[p].at = "frozen" /\ Exists("frozen") => proc[p].cmd = "migrate" /\ BackedUp
        /\ proc[p].at = "frozen" /\ proc[p].cmd = "migrate" => Exists("frozen")
        /\ proc[p].cmd = "migrate" /\ proc[p].at \in Resumed =>
               Exists("frozen") /\ Restored(disk.frozen.map)
        /\ proc[p].cmd = "migrate" /\ proc[p].at \in Resumed \ {"tasks"} =>
               Exists("tasks") /\ Restored(disk.tasks)

(* Nothing runs at the start.                                              *)
LEMMA MigrationInit == Init => MigrationInv
BY DEF Init, MigrationInv, Idle, Resumed

(* What ends a command ends its obligations.                               *)
LEMMA MigrationIdle ==
    ASSUME OneAtATime, TypeOK, NEW p \in Procs, proc' = [proc EXCEPT ![p] = Idle]
    PROVE  MigrationInv'
<1>1. \A q \in Procs : q = p
  BY DEF OneAtATime
<1>2. proc'[p].at = "idle"
  BY DEF TypeOK, Idle
<1> QED
  BY <1>1, <1>2 DEF MigrationInv, Resumed

(* A command begins.                                                       *)
LEMMA MigrationBegins ==
    ASSUME OneAtATime, ReservationInv, MigrationInv, NEW p \in Procs,
           Partition(p) \/ Freeze(p) \/ Migrate(p)
    PROVE  MigrationInv'
<1>1. \A q \in Procs : q = p
  BY DEF OneAtATime
<1>2. proc \in [Procs -> Process]
  BY DEF ReservationInv, TypeOK, Process
<1>3. CASE Partition(p)
  <2>1. proc'[p].at = "tasks" /\ proc'[p].cmd = "partition"
    BY <1>2, <1>3 DEF Partition, Begin, Idle
  <2> QED
    BY <1>1, <2>1 DEF MigrationInv
<1>4. CASE Freeze(p)
  <2>1. proc'[p].at = "eligibility" /\ proc'[p].cmd = "freeze"
    BY <1>2, <1>4 DEF Freeze, Begin, Idle
  <2> QED
    BY <1>1, <2>1 DEF MigrationInv
<1>5. CASE Migrate(p)
  <2>1. proc'[p].at = "backup" /\ UNCHANGED <<disk, tmp, used>>
    BY <1>2, <1>5 DEF Migrate, Begin, Idle
  <2>2. ~BankInUse
    BY <1>5 DEF Migrate, Migratable, Evidence, BankInUse
  <2>3. ~BankInUse'
    BY <2>1, <2>2 DEF BankInUse, Frozen_tasks, Exists
  <2> QED
    BY <1>1, <2>1, <2>3 DEF MigrationInv, Resumed
<1> QED
  BY <1>3, <1>4, <1>5

(* A file is renamed into its place.                                       *)
LEMMA MigrationReplaces ==
    ASSUME OneAtATime, ReservationInv, SoloInv, MigrationInv, NEW p \in Procs, Replace(p)
    PROVE  MigrationInv' /\ BackupKept /\ AssignmentsFixed
<1> DEFINE f == proc[p].at
           q == Advance(proc[p])
<1>1. \A r \in Procs : r = p
  BY DEF OneAtATime
<1>2. /\ proc \in [Procs -> Process] /\ proc[p] \in Process /\ TypeOK
      /\ disk \in Contents /\ tmp \in Contents /\ f \in Files
  BY DEF ReservationInv, TypeOK, Process, Replace
<1>3. /\ disk' = [disk EXCEPT ![f] = tmp[f]] /\ tmp[f] # NoFile /\ proc[p].staged
      /\ proc'[p] = q /\ audits' = audits /\ used' = used
  BY <1>2 DEF Replace
<1>4. CASE q = Idle
  <2>1. MigrationInv'
    BY <1>2, <1>4, MigrationIdle DEF Replace
  <2>2. f # "frozen" => disk'.frozen = disk.frozen
    BY <1>2, <1>3 DEF Contents, Files
  <2>3. f = "frozen" /\ Exists("frozen") => BackedUp /\ ~BankInUse
    BY DEF MigrationInv
  <2> QED
    BY <2>1, <2>2, <2>3 DEF BackupKept, AssignmentsFixed
<1>5. CASE q # Idle
  <2>1. q.cmd = proc[p].cmd /\ q.at = After(proc[p]) /\ q.out = proc[p].out
    BY <1>2, <1>5, AdvanceTyped
  <2>2. CASE f = "tasks" /\ proc[p].cmd # "migrate"
    <3>1. proc'[p].cmd # "migrate" /\ proc'[p].at = "first"
      BY <1>2, <1>3, <2>1, <2>2 DEF After, Process, MigrationInv
    <3>2. disk'.frozen = disk.frozen
      BY <1>2, <1>3, <2>2 DEF Contents
    <3> QED
      BY <1>1, <3>1, <3>2 DEF MigrationInv, BackupKept, AssignmentsFixed
  <2>3. CASE f = "tasks" /\ proc[p].cmd = "migrate"
    <3>1. proc'[p].at \in Resumed \ {"tasks"}
      BY <1>2, <1>3, <2>1, <2>3 DEF After, Resumed
    <3>2. disk'.frozen = disk.frozen /\ disk'.tasks = proc[p].out.tasks
      BY <1>2, <1>3, <2>3 DEF Contents, SoloInv
    <3>3. Exists("frozen") /\ Restored(disk.frozen.map)
      BY <2>3 DEF MigrationInv, Resumed
    <3>4. \A g \in DOMAIN disk'.tasks : disk'.tasks[g] = Home[g]
      BY <1>2, <2>3, <3>2, <3>3, PlaceHashed DEF Restored, SoloInv, Follows
    <3>5. disk'.tasks # NoFile
      BY <1>3, <2>3, <1>2 DEF Contents
    <3>6. Restored(disk'.tasks)
      BY <3>4 DEF Restored, Changed
    <3>7. Exists("frozen")' /\ Exists("tasks")'
      BY <3>2, <3>3, <3>5 DEF Exists
    <3>8. proc'[p].cmd = "migrate"
      BY <1>3, <2>1, <2>3
    <3> QED
      BY <1>1, <3>1, <3>2, <3>3, <3>6, <3>7, <3>8 DEF MigrationInv, Resumed, BackupKept, AssignmentsFixed
  <2>4. CASE f = "frozen"
    <3>1. proc[p].cmd = "migrate" /\ proc'[p].at = "tasks" /\ proc'[p].cmd = "migrate"
      BY <1>2, <1>3, <1>5, <2>1, <2>4 DEF After, Advance
    <3>2. IsHashed(tmp.frozen) /\ disk'.frozen = tmp.frozen
      BY <1>2, <1>3, <2>4 DEF Contents, ReservationInv, FrozenWrites
    <3>3. Exists("frozen")' /\ Restored(disk.frozen.map)'
      BY <1>3, <2>4, <3>2 DEF IsHashed, Exists, Restored, Changed
    <3>4. BackedUp /\ ~BankInUse
      BY <2>4, <3>1 DEF MigrationInv
    <3> QED
      BY <1>1, <3>1, <3>3, <3>4 DEF MigrationInv, Resumed, BackupKept, AssignmentsFixed
  <2>5. CASE f \in {"eligibility", "manifest"}
    <3>1. proc'[p].cmd = proc[p].cmd /\ proc'[p].at \in {"manifest", "audit"}
          /\ (proc'[p].at = "audit" => proc[p].cmd = "migrate")
      BY <1>2, <1>3, <1>5, <2>1, <2>5 DEF After, Advance
    <3>2. disk'.tasks = disk.tasks /\ disk'.frozen = disk.frozen
      BY <1>2, <1>3, <2>5 DEF Contents
    <3>3. proc[p].cmd = "migrate" => /\ Exists("frozen") /\ Restored(disk.frozen.map)
                                     /\ Exists("tasks") /\ Restored(disk.tasks)
      BY <2>5 DEF MigrationInv, Resumed
    <3> QED
      BY <1>1, <3>1, <3>2, <3>3 DEF MigrationInv, Restored, Changed, Exists, BackupKept, AssignmentsFixed
  <2> QED
    BY <1>2, <2>2, <2>3, <2>4, <2>5 DEF Files
<1> QED
  BY <1>4, <1>5

(* The steps that leave the files alone.                                   *)
LEMMA MigrationGoesOn ==
    ASSUME OneAtATime, ReservationInv, SoloInv, MigrationInv, NEW p \in Procs,
           Stage(p) \/ Robbed(p) \/ FirstFreeze(p) \/ Backup(p) \/ Audit(p) \/ Kill(p)
    PROVE  MigrationInv' /\ UNCHANGED disk
<1>1. \A r \in Procs : r = p
  BY DEF OneAtATime
<1>2. proc \in [Procs -> Process] /\ proc[p] \in Process /\ TypeOK
  BY DEF ReservationInv, TypeOK, Process
<1>3. CASE Robbed(p) \/ Kill(p)
  BY <1>2, <1>3, MigrationIdle DEF Robbed, Kill
<1>4. CASE Stage(p)
  <2>1. /\ proc'[p].at = proc[p].at /\ proc'[p].cmd = proc[p].cmd
        /\ UNCHANGED <<disk, audits, used>>
    BY <1>2, <1>4 DEF Stage, Process
  <2> QED
    BY <1>1, <2>1 DEF MigrationInv, BankInUse, Frozen_tasks, BackedUp, Exists, Restored, Changed
<1>5. CASE Audit(p)
  <2>1. Advance(proc[p]) = Idle
    BY <1>5 DEF Audit, After, Advance, Files
  <2> QED
    BY <1>2, <1>5, <2>1, MigrationIdle DEF Audit
<1>6. CASE FirstFreeze(p)
  <2>1. CASE Exists("frozen")
    BY <1>2, <1>6, <2>1, MigrationIdle DEF FirstFreeze
  <2>2. CASE ~Exists("frozen")
    <3>1. /\ proc'[p].at = "frozen" /\ proc'[p].cmd = proc[p].cmd /\ UNCHANGED disk
          /\ proc[p].cmd = "partition"
      BY <1>2, <1>6, <2>2 DEF FirstFreeze, Process, SoloInv
    <3>2. ~Exists("frozen")'
      BY <2>2, <3>1 DEF Exists
    <3> QED
      BY <1>1, <3>1, <3>2 DEF MigrationInv, Resumed
  <2> QED
    BY <2>1, <2>2
<1>7. CASE Backup(p)
  <2>1. /\ proc'[p].at = "frozen" /\ proc'[p].cmd = "migrate" /\ UNCHANGED <<disk, used>>
        /\ proc[p].at = "backup" /\ Exists("frozen")
    BY <1>2, <1>7 DEF Backup, Advance, After, Process, ReservationInv, FrozenWrites
  <2>2. now \in Stamps /\ audits'[now].kept = disk.frozen.map
    BY <1>2, <1>7 DEF Backup, TypeOK
  <2>3. BackedUp' /\ Exists("frozen")'
    BY <2>1, <2>2 DEF BackedUp, Exists
  <2>4. ~BankInUse'
    BY <2>1 DEF MigrationInv, BankInUse, Frozen_tasks, Exists
  <2> QED
    BY <1>1, <2>1, <2>3, <2>4 DEF MigrationInv, Resumed
<1> QED
  BY <1>3, <1>4, <1>5, <1>6, <1>7

LEMMA MigrationNext ==
    ASSUME OneAtATime, ReservationInv, SoloInv, MigrationInv, [Next]_vars
    PROVE  MigrationInv' /\ BackupKept /\ AssignmentsFixed
<1>1. ASSUME UNCHANGED disk PROVE BackupKept /\ AssignmentsFixed
  BY <1>1 DEF BackupKept, AssignmentsFixed
<1>2. ASSUME NEW p \in Procs, Partition(p) \/ Freeze(p) \/ Migrate(p) PROVE UNCHANGED disk
  BY <1>2 DEF Partition, Freeze, Migrate, Begin
<1>3. ASSUME NEW p \in Procs, Step(p) PROVE MigrationInv' /\ BackupKept /\ AssignmentsFixed
  BY <1>1, <1>2, <1>3, MigrationBegins, MigrationReplaces, MigrationGoesOn DEF Step
<1>4. ASSUME UNCHANGED <<disk, audits, proc, used>> PROVE MigrationInv'
  BY <1>4 DEF MigrationInv, BankInUse, Frozen_tasks, BackedUp, Exists, Restored, Changed
<1>5. ASSUME Execute PROVE MigrationInv'
  <2>1. Frozen_tasks # {} /\ UNCHANGED <<disk, audits, proc>>
    BY <1>5 DEF Execute
  <2>2. \A p \in Procs : ~(proc[p].at \in {"backup", "frozen"} /\ Exists("frozen"))
    BY <2>1 DEF MigrationInv, BankInUse
  <2> QED
    BY <2>1, <2>2 DEF MigrationInv, BackedUp, Exists, Restored, Changed
<1> QED
  BY <1>1, <1>3, <1>4, <1>5 DEF Next, Sample, Execute, Tick, Rest, vars

(* One command at a time, killed anywhere and run again: both invariants.  *)
LEMMA SoloInvariant == OneAtATime /\ Spec => [](OneAtATime /\ ReservationInv /\ SoloInv /\ MigrationInv)
<1>1. OneAtATime /\ Init => SoloInv /\ MigrationInv
  BY SoloInit, MigrationInit
<1>2. OneAtATime /\ ReservationInv /\ SoloInv /\ MigrationInv /\ [Next]_vars => SoloInv' /\ MigrationInv'
  BY SoloNext, MigrationNext
<1>3. OneAtATime => []OneAtATime
  <2>1. OneAtATime => OneAtATime'
    BY DEF OneAtATime
  <2> QED
    BY <2>1, PTL
<1> QED
  BY <1>1, <1>2, <1>3, ReservationInvariant, PTL DEF Spec

(* Without overlapping commands a migration is safe to finish and safe to  *)
(* lose: what it overwrites is in a backup, and whoever writes the audit   *)
(* record has restored both assignment files.                              *)
THEOREM MigrationsAreSafe == OneAtATime /\ Spec => MigrationsKeep
<1>1. OneAtATime /\ ReservationInv /\ SoloInv /\ MigrationInv /\ [Next]_vars => [BackupKept]_vars
  BY MigrationNext
<1>2. MigrationInv => MigrationRestores
  BY DEF MigrationInv, MigrationRestores, Resumed, Restored
<1> QED
  BY <1>1, <1>2, SoloInvariant, PTL DEF Spec, MigrationsKeep, BackedUpFirst

(* Without overlapping commands no assignment is regenerated under a bank  *)
(* that is frozen or in use.                                               *)
THEOREM AssignmentsStay == OneAtATime /\ Spec => BankFixesAssignments
<1>1. OneAtATime /\ ReservationInv /\ SoloInv /\ MigrationInv /\ [Next]_vars => [AssignmentsFixed]_vars
  BY MigrationNext
<1> QED
  BY <1>1, SoloInvariant, PTL DEF Spec, BankFixesAssignments

(* Without overlapping commands both promises are kept, however often the  *)
(* commands are killed and run again.                                      *)
THEOREM PlacesAreKept == OneAtATime /\ Spec => PlacesKept
  BY HoldoutKept, AssignmentsStay DEF PlacesKept

-----------------------------------------------------------------------------
(* Any number of overlapping commands, on a root where no earlier tool     *)
(* moved a reserved group into training: every assignment file, the        *)
(* temporary ones and those about to be written included, leaves reserved  *)
(* groups golden, so that none of them is ever given to a labeller.        *)
Reserves(map) == map # NoFile => \A g \in DOMAIN map : Home[g] = Golden => map[g] = Golden
ReservesBoth(files) == /\ Reserves(files.tasks)
                       /\ files.frozen # NoFile => Reserves(files.frozen.map)
LegacyReserves == \A old \in Legacy : Reserves(old.map)
HoldoutInv ==
    /\ ReservesBoth(disk) /\ ReservesBoth(tmp)
    /\ \A p \in Procs : ReservesBoth(proc[p].out)
    /\ \A g \in sampled : Home[g] # Golden

(* The hash reserves what it reserves, and the empty root nothing.         *)
LEMMA ReservesHashed ==
    ASSUME NEW map \in Maps, Changed(map) = {}
    PROVE  Reserves(map)
BY DEF Reserves, Changed

LEMMA ReservesNothing == ReservesBoth(NoFiles)
BY DEF ReservesBoth, Reserves, NoFiles

(* The split of today follows the frozen file, then the hash.              *)
LEMMA ReservesSplit ==
    ASSUME TypeOK, ReservesBoth(disk), NEW seen \in SUBSET Groups
    PROVE  Reserves(Split(seen))
<1>1. \A g \in seen : Home[g] = Golden => Place(g) = Golden
  <2>1. CASE disk.frozen = NoFile
    BY <2>1, PlaceHashed
  <2>2. CASE disk.frozen # NoFile
    <3>1. Assigned = disk.frozen.map /\ disk.frozen.map \in Maps
      BY <2>2, FrozenTyped DEF Assigned, Exists
    <3>2. disk.frozen.map # NoFile
      BY <3>1, NoFileAssumption
    <3> QED
      BY <2>2, <3>1, <3>2 DEF ReservesBoth, Reserves, Place
  <2> QED
    BY <2>1, <2>2
<1> QED
  BY <1>1 DEF Reserves, Split

LEMMA HoldoutInit == LegacyReserves /\ Init => HoldoutInv
<1> SUFFICES ASSUME LegacyReserves, Init PROVE HoldoutInv
  OBVIOUS
<1>1. PICK old \in Legacy \cup {NoFile} :
        disk = [NoFiles EXCEPT !.frozen = old,
                               !.tasks = IF old = NoFile THEN NoFile ELSE old.map]
  BY DEF Init
<1>2. disk.frozen = old /\ disk.tasks = IF old = NoFile THEN NoFile ELSE old.map
  BY <1>1 DEF NoFiles
<1>3. old # NoFile => Reserves(old.map)
  BY DEF LegacyReserves
<1>4. Reserves(NoFile)
  BY DEF Reserves
<1>5. ReservesBoth(disk)
  BY <1>2, <1>3, <1>4 DEF ReservesBoth
<1>6. tmp = NoFiles /\ sampled = {} /\ \A p \in Procs : proc[p].out = NoFiles
  BY DEF Init, Idle
<1> QED
  BY <1>5, <1>6, ReservesNothing DEF HoldoutInv

(* A command begins.                                                       *)
LEMMA HoldoutBegins ==
    ASSUME ReservationInv, HoldoutInv, NEW p \in Procs, Partition(p) \/ Freeze(p) \/ Migrate(p)
    PROVE  HoldoutInv'
<1> DEFINE out == proc'[p].out
<1>1. /\ proc \in [Procs -> Process] /\ TypeOK /\ UNCHANGED <<disk, tmp, sampled>>
      /\ \A q \in Procs : q # p => proc'[q] = proc[q]
  BY DEF ReservationInv, TypeOK, Process, Partition, Freeze, Migrate, Begin
<1>2. CASE Partition(p)
  <2>1. PICK seen \in SUBSET Groups :
          Begin(p, "partition", "tasks",
                [NoFiles EXCEPT !.tasks = Split(seen),
                                !.frozen = [salt |-> "ours", map |-> Split(seen)]], {})
    BY <1>2 DEF Partition
  <2>2. out.tasks = Split(seen) /\ out.frozen.map = Split(seen)
    BY <1>1, <2>1 DEF Begin, Idle, NoFiles
  <2> QED
    BY <1>1, <2>2, ReservesSplit DEF HoldoutInv, ReservesBoth
<1>3. CASE Freeze(p)
  <2>1. PICK ok \in SUBSET Groups :
          Begin(p, "freeze", "eligibility",
                [NoFiles EXCEPT !.eligibility = ok, !.manifest = Bank(ok)], {})
    BY <1>3 DEF Freeze
  <2>2. out = [NoFiles EXCEPT !.eligibility = ok, !.manifest = Bank(ok)]
    BY <1>1, <2>1 DEF Begin, Idle
  <2>3. out.tasks = NoFile /\ out.frozen = NoFile
    BY <2>2 DEF NoFiles
  <2> QED
    BY <1>1, <2>3 DEF HoldoutInv, ReservesBoth, Reserves
<1>4. CASE Migrate(p)
  <2>1. out.tasks = Hashed(DOMAIN disk.frozen.map) /\ out.frozen.map = Hashed(DOMAIN disk.frozen.map)
    BY <1>1, <1>4 DEF Migrate, Begin, Idle
  <2>2. DOMAIN disk.frozen.map \in SUBSET Groups
    BY <1>1, <1>4, FrozenTyped, MapTyped DEF Migrate, Migratable, Exists
  <2> QED
    BY <1>1, <2>1, <2>2, HashedTyped, ReservesHashed DEF HoldoutInv, ReservesBoth
<1> QED
  BY <1>2, <1>3, <1>4

(* One file of a root is replaced by the same file of another.             *)
LEMMA ReservesReplaced ==
    ASSUME NEW d \in Contents, NEW e \in Contents, ReservesBoth(d), ReservesBoth(e), NEW f \in Files
    PROVE  ReservesBoth([d EXCEPT ![f] = e[f]])
<1>1. CASE f = "tasks"
  BY <1>1 DEF Contents, ReservesBoth
<1>2. CASE f = "frozen"
  BY <1>2 DEF Contents, ReservesBoth
<1>3. CASE f \in {"eligibility", "manifest"}
  BY <1>3 DEF Contents, ReservesBoth
<1> QED
  BY <1>1, <1>2, <1>3 DEF Files

(* A command goes on.                                                      *)
LEMMA HoldoutGoesOn ==
    ASSUME ReservationInv, HoldoutInv, NEW p \in Procs,
           \/ Stage(p) \/ Replace(p) \/ Robbed(p) \/ FirstFreeze(p)
           \/ Backup(p) \/ Audit(p) \/ Kill(p)
    PROVE  HoldoutInv'
<1>1. /\ proc \in [Procs -> Process] /\ proc[p] \in Process /\ sampled' = sampled
      /\ disk \in Contents /\ tmp \in Contents /\ proc[p].out \in Contents
      /\ \A q \in Procs : q # p => proc'[q] = proc[q]
  BY DEF ReservationInv, TypeOK, Process, Stage, Replace, Robbed, FirstFreeze, Backup, Audit, Kill
<1>2. proc'[p].out \in {proc[p].out, NoFiles}
  <2>1. Idle.out = NoFiles /\ Advance(proc[p]).out \in {proc[p].out, NoFiles}
    BY <1>1, AdvanceTyped DEF Idle
  <2>2. CASE Stage(p)
    BY <1>1, <2>2 DEF Stage, Process
  <2>6. CASE FirstFreeze(p)
    <3>1. proc'[p] = Idle \/ proc'[p] = [proc[p] EXCEPT !.at = "frozen", !.staged = FALSE]
      BY <1>1, <2>6 DEF FirstFreeze
    <3> QED
      BY <1>1, <2>1, <3>1 DEF Process
  <2>3. CASE Robbed(p) \/ Kill(p)
    BY <1>1, <2>1, <2>3 DEF Robbed, Kill
  <2>4. CASE Replace(p) \/ Audit(p)
    BY <1>1, <2>1, <2>4 DEF Replace, Audit
  <2>5. CASE Backup(p)
    <3>1. proc'[p] = [Advance(proc[p]) EXCEPT !.stamp = now] /\ Advance(proc[p]) \in Process
      BY <1>1, <2>5, AdvanceTyped DEF Backup
    <3>2. proc'[p].out = Advance(proc[p]).out
      BY <3>1 DEF Process
    <3> QED
      BY <2>1, <3>2
  <2> QED
    BY <2>2, <2>3, <2>4, <2>5, <2>6
<1>3. ReservesBoth(proc[p].out) /\ ReservesBoth(disk) /\ ReservesBoth(tmp)
  BY DEF HoldoutInv
<1>4. \A q \in Procs : ReservesBoth(proc'[q].out)
  BY <1>1, <1>2, <1>3, ReservesNothing DEF HoldoutInv
<1>5. CASE Stage(p)
  <2>1. tmp' = [tmp EXCEPT ![proc[p].at] = proc[p].out[proc[p].at]] /\ disk' = disk /\ proc[p].at \in Files
    BY <1>5 DEF Stage
  <2>2. ReservesBoth(tmp')
    BY <1>1, <1>3, <2>1, ReservesReplaced
  <2> QED
    BY <1>1, <1>4, <2>1, <2>2, <1>3 DEF HoldoutInv
<1>6. CASE Replace(p)
  <2> DEFINE f == proc[p].at
  <2>1. disk' = [disk EXCEPT ![f] = tmp[f]] /\ tmp' = [tmp EXCEPT ![f] = NoFile] /\ f \in Files
    BY <1>6 DEF Replace
  <2>2. NoFiles[f] = NoFile /\ NoFiles \in Contents
    BY <2>1, NoFilesTyped DEF NoFiles, Files
  <2>3. ReservesBoth(disk')
    BY <1>1, <1>3, <2>1, ReservesReplaced
  <2>4. ReservesBoth(tmp')
    BY <1>1, <1>3, <2>1, <2>2, ReservesReplaced, ReservesNothing
  <2> QED
    BY <1>1, <1>4, <2>3, <2>4 DEF HoldoutInv
<1>7. CASE UNCHANGED <<disk, tmp>>
  BY <1>1, <1>3, <1>4, <1>7 DEF HoldoutInv
<1> QED
  BY <1>5, <1>6, <1>7 DEF Robbed, FirstFreeze, Backup, Audit, Kill

LEMMA HoldoutNext == ASSUME ReservationInv, HoldoutInv, [Next]_vars PROVE HoldoutInv'
<1>1. CASE Sample
  <2>1. sampled' = sampled \cup {g \in DOMAIN disk.tasks : disk.tasks[g] # Golden}
        /\ disk.tasks # NoFile /\ UNCHANGED <<disk, tmp, proc>>
    BY <1>1 DEF Sample, Exists
  <2> QED
    BY <2>1 DEF HoldoutInv, ReservesBoth, Reserves
<1>2. CASE UNCHANGED <<disk, tmp, proc, sampled>>
  BY <1>2 DEF HoldoutInv
<1>3. ASSUME NEW p \in Procs, Step(p) PROVE HoldoutInv'
  BY <1>3, HoldoutBegins, HoldoutGoesOn DEF Step
<1> QED
  BY <1>1, <1>2, <1>3 DEF Next, Execute, Tick, Rest, vars

(* Unless an earlier tool has moved a reserved group into training, no     *)
(* group of the bank has ever been given away for labelling, whatever      *)
(* commands overlap, are killed and run again.                             *)
THEOREM HoldoutNeverSeen == LegacyReserves /\ Spec => []HoldoutUnseen
<1>1. ReservationInv /\ HoldoutInv => HoldoutUnseen
  BY DEF ReservationInv, BanksOK, BankOK, HoldoutInv, HoldoutUnseen, Exists
<1>2. ReservationInv /\ HoldoutInv /\ [Next]_vars => HoldoutInv'
  BY HoldoutNext
<1> QED
  BY <1>1, <1>2, HoldoutInit, ReservationInvariant, PTL DEF Spec

-----------------------------------------------------------------------------
(* Task groups.  A set of sessions has a first one.                        *)
LEMMA FirstSession ==
    ASSUME NEW S \in SUBSET Sessions, S # {}
    PROVE  \E s \in S : \A t \in S : s <= t
<1> DEFINE Upto(m) == {x \in S : x <= m}
           Bad == {Upto(m) : m \in S}
<1>1. IsFiniteSet(S) /\ S \subseteq Nat
  BY PathOrderAssumption, FS_Subset
<1>2. Bad \in SUBSET SUBSET S /\ Bad # {}
  OBVIOUS
<1>3. PICK u \in Bad : \A v \in SUBSET u : v # u => v \notin Bad
  <2> HIDE DEF Bad
  <2> QED
    BY <1>1, <1>2, SmallestSubset
<1>4. PICK m \in S : u = Upto(m)
  BY <1>3
<1>5. ASSUME NEW t \in S, ~(m <= t) PROVE FALSE
  <2>1. t \in Nat /\ m \in Nat /\ t < m
    BY <1>1, <1>5
  <2>2. Upto(t) \in SUBSET u
    <3>1. \A x \in S : x <= t => x <= m
      BY <1>1, <2>1
    <3> QED
      BY <3>1, <1>4
  <2>3. m \in u /\ m \notin Upto(t)
    BY <1>1, <1>4, <2>1
  <2>4. Upto(t) # u
    BY <2>3
  <2> QED
    BY <1>3, <2>2, <2>4
<1> QED
  BY <1>5

LEMMA TaskKinds ==
    ASSUME NEW s, NEW t
    PROVE  /\ \A task \in LinksOf(s) : task.kind = "explicit"
           /\ RetryOf(s).kind = "prompt"
           /\ RetryOf(s) \notin LinksOf(t)
           /\ RetryOf(s) = RetryOf(t) =>
                  Harness[s] = Harness[t] /\ Repo[s] = Repo[t] /\ Prompt[s] = Prompt[t]
<1>1. \A task \in LinksOf(s) : task.kind = "explicit"
  BY DEF LinksOf, Explicit
<1>2. \A task \in LinksOf(t) : task.kind = "explicit"
  BY DEF LinksOf, Explicit
<1>3. RetryOf(s).kind = "prompt"
  BY DEF RetryOf, Retry
<1>4. /\ RetryOf(s).harness = Harness[s] /\ RetryOf(t).harness = Harness[t]
      /\ RetryOf(s).repo = Repo[s] /\ RetryOf(t).repo = Repo[t]
      /\ RetryOf(s).prompt = Prompt[s] /\ RetryOf(t).prompt = Prompt[t]
  BY DEF RetryOf, Retry
<1>5. "explicit" # "prompt"
  OBVIOUS
<1> QED
  BY <1>1, <1>2, <1>3, <1>4, <1>5

(* Who is grouped by prompt alone shares the fate of the lookalikes.       *)
LEMMA AlikeTogether ==
    ASSUME NEW S \in SUBSET Sessions, NEW s \in S, NEW r \in S,
           Repo[s] = Repo[r], Prompt[s] = Prompt[r]
    PROVE  /\ s \in Linked <=> r \in Linked
           /\ s \in Alike <=> r \in Alike
           /\ s \in Ambiguous(S) <=> r \in Ambiguous(S)
           /\ LinksOf(s) = LinksOf(r)
           /\ s \in Alike \ Ambiguous(S) => RetryOf(s) = RetryOf(r)
<1>1. s \in Sessions /\ r \in Sessions
  OBVIOUS
<1>2. (s \in Located <=> r \in Located) /\ (s \in Prompted <=> r \in Prompted)
  BY <1>1 DEF Located, Prompted
<1>3. Refs(s) = Refs(r)
  BY <1>2 DEF Refs
<1>4. (s \in Linked <=> r \in Linked) /\ (s \in Alike <=> r \in Alike)
  BY <1>2, <1>3 DEF Linked, Alike
<1>5. Lookalikes(s, S) = Lookalikes(r, S)
  BY DEF Lookalikes
<1>6. s \in Alike => s \in Lookalikes(s, S) /\ r \in Lookalikes(s, S)
  BY <1>4 DEF Lookalikes
<1>7. ASSUME s \in Alike, Harness[s] # Harness[r]
      PROVE  s \in Ambiguous(S) /\ r \in Ambiguous(S)
  BY <1>4, <1>5, <1>6, <1>7 DEF Ambiguous
<1>8. s \in Ambiguous(S) <=> r \in Ambiguous(S)
  <2>1. CASE Harness[s] = Harness[r]
    BY <1>4, <1>5, <2>1 DEF Ambiguous
  <2>2. CASE Harness[s] # Harness[r]
    <3>1. s \in Ambiguous(S) \/ r \in Ambiguous(S) => s \in Alike
      BY <1>4 DEF Ambiguous
    <3> QED
      BY <3>1, <1>7, <2>2
  <2> QED
    BY <2>1, <2>2
<1>9. LinksOf(s) = LinksOf(r)
  BY <1>3 DEF LinksOf
<1> QED
  BY <1>4, <1>7, <1>8, <1>9 DEF RetryOf

(* The groups of a session.                                                *)
LEMMA GroupsOfSession ==
    ASSUME NEW S \in SUBSET Sessions, NEW s \in S
    PROVE  /\ s \in Linked => {t \in GroupsOf(S) : s \in Members(t, S)} = LinksOf(s)
           /\ s \in Alike \ Ambiguous(S) =>
                  {t \in GroupsOf(S) : s \in Members(t, S)} = {RetryOf(s)}
           /\ s \notin Linked /\ s \notin Alike \ Ambiguous(S) =>
                  {t \in GroupsOf(S) : s \in Members(t, S)} = {}
<1>1. s \in Linked => LinksOf(s) \subseteq GroupsOf(S)
  BY DEF GroupsOf
<1>2. s \in Alike \ Ambiguous(S) => RetryOf(s) \in GroupsOf(S)
  BY DEF GroupsOf
<1>3. s \in Linked => s \notin Alike
  BY DEF Alike
<1>4. \A t : s \in Members(t, S) <=> \/ s \in Linked /\ t \in LinksOf(s)
                                     \/ s \in Alike \ Ambiguous(S) /\ t = RetryOf(s)
  BY DEF Members
<1> QED
  BY <1>1, <1>2, <1>3, <1>4

LEMMA NobodyIsLost == ASSUME NEW S \in SUBSET Sessions PROVE NobodyLost(S)
<1> SUFFICES ASSUME NEW s \in S
             PROVE  /\ s \in Quarantined(S) <=> \A t \in GroupsOf(S) : s \notin Members(t, S)
                    /\ s \notin Linked =>
                         \A t, u \in GroupsOf(S) : s \in Members(t, S) \cap Members(u, S) => t = u
  BY DEF NobodyLost
<1>1. s \in Quarantined(S) <=> s \notin Linked /\ s \notin Alike \ Ambiguous(S)
  <2>1. s \in Linked => s \in Located /\ s \in Prompted
    BY DEF Linked, Refs
  <2>2. s \in Ambiguous(S) => s \in Alike
    BY DEF Ambiguous
  <2> QED
    BY <2>1, <2>2 DEF Quarantined, Alike
<1>2. s \in Linked => LinksOf(s) # {}
  BY DEF Linked, LinksOf
<1> DEFINE mine == {t \in GroupsOf(S) : s \in Members(t, S)}
<1>3. s \in Quarantined(S) <=> mine = {}
  BY <1>1, <1>2, GroupsOfSession
<1>4. s \notin Linked => \A t, u \in mine : t = u
  BY GroupsOfSession
<1> QED
  BY <1>3, <1>4

LEMMA AreNeverSplit == ASSUME NEW S \in SUBSET Sessions PROVE NeverSplit(S)
<1> SUFFICES ASSUME NEW t \in GroupsOf(S), NEW s \in S, NEW r \in S
             PROVE  /\ Repo[s] = Repo[r] /\ Prompt[s] = Prompt[r] =>
                         (s \in Members(t, S) <=> r \in Members(t, S))
                    /\ {s, r} \subseteq Members(t, S) /\ Harness[s] # Harness[r]
                         => t.kind = "explicit"
  BY DEF NeverSplit
<1>1. ASSUME Repo[s] = Repo[r], Prompt[s] = Prompt[r]
      PROVE  s \in Members(t, S) <=> r \in Members(t, S)
  BY <1>1, AlikeTogether DEF Members
<1>2. ASSUME s \in Members(t, S), r \in Members(t, S), Harness[s] # Harness[r]
      PROVE  t.kind = "explicit"
  <2>1. CASE s \in Linked /\ t \in LinksOf(s)
    BY <2>1, TaskKinds
  <2>2. CASE r \in Linked /\ t \in LinksOf(r)
    BY <2>2, TaskKinds
  <2>3. CASE t = RetryOf(s) /\ t = RetryOf(r)
    BY <1>2, <2>3, TaskKinds
  <2> QED
    BY <1>2, <2>1, <2>2, <2>3 DEF Members
<1> QED
  BY <1>1, <1>2

LEMMA RetriesDoCollapse == ASSUME NEW S \in SUBSET Sessions PROVE RetriesCollapse(S)
<1> SUFFICES ASSUME NEW t \in GroupsOf(S), NEW s \in Members(t, S)
             PROVE  /\ \E k \in Kept(t, S) : Prompt[k] = Prompt[s]
                    /\ \A j, k \in Kept(t, S) : Prompt[j] = Prompt[k] => j = k
  BY DEF RetriesCollapse
<1> DEFINE Same == {m \in Members(t, S) : Prompt[m] = Prompt[s]}
<1>1. Members(t, S) \subseteq S
  BY DEF Members
<1>2. PICK k \in Same : \A m \in Same : k <= m
  BY <1>1, FirstSession
<1>3. k \in Kept(t, S)
  BY <1>2 DEF Kept
<1>4. ASSUME NEW i \in Kept(t, S), NEW j \in Kept(t, S), Prompt[i] = Prompt[j] PROVE i = j
  <2>1. i <= j /\ j <= i
    BY <1>4 DEF Kept
  <2>2. i \in Nat /\ j \in Nat
    BY <1>1, PathOrderAssumption DEF Kept
  <2> QED
    BY <2>1, <2>2
<1> QED
  BY <1>2, <1>3, <1>4

LEMMA SamplerDoesAgree == ASSUME NEW S \in SUBSET Sessions PROVE SamplerAgrees(S)
<1> SUFFICES ASSUME NEW s \in S
             PROVE  Mapped(s, S) = {t \in GroupsOf(S) : s \in Members(t, S)}
  BY DEF SamplerAgrees
<1>1. s \in Linked => s \notin Alike
  BY DEF Alike
<1>2. s \in Alike => (s \in Ambiguous(S) <=> \E t \in Lookalikes(s, S) : Harness[t] # Harness[s])
  BY DEF Ambiguous
<1> QED
  BY <1>1, <1>2, GroupsOfSession DEF Mapped

-----------------------------------------------------------------------------
(* Every value is a task's, every placement follows the frozen file, and   *)
(* what the labeller has was placed by it.                                 *)
GroupInv ==
    /\ GroupTypeOK
    /\ placed # None => frozen # None /\ \A t \in DOMAIN placed : placed[t] = PartOf(t)
    /\ \A h \in handed : /\ frozen # None /\ h.part # Holdout
                         /\ \A t \in h.tasks : PartOf(t) = h.part
    /\ \A t \in DOMAIN bank : HomeOf[t] = Holdout
    /\ BankGrounded

LEMMA GroupsAreTasks == ASSUME NEW S \in SUBSET Sessions PROVE GroupsOf(S) \subseteq Tasks
BY DEF GroupsOf, Tasks, Ambiguous

LEMMA PlacingTyped ==
    ASSUME NEW f \in Placings
    PROVE  f # None /\ DOMAIN f \subseteq Tasks /\ \A t \in DOMAIN f : f[t] \in Parts
BY PlacingAssumption DEF Placings

LEMMA AssignTyped ==
    ASSUME GroupTypeOK
    PROVE  Assign(present) \in Placings
<1>1. GroupsOf(present) \subseteq Tasks
  BY GroupsAreTasks DEF GroupTypeOK
<1>2. \A t \in GroupsOf(present) : PartOf(t) \in Parts
  BY <1>1, PlacingTyped, TaskHashAssumption DEF GroupTypeOK, PartOf
<1> QED
  BY <1>1, <1>2 DEF Assign, Placings

LEMMA GroupInitially == GroupInit => GroupInv
<1> SUFFICES ASSUME GroupInit PROVE GroupInv
  OBVIOUS
<1>1. frozen \in Placings \cup {None} /\ placed = frozen /\ bank = [t \in {} |-> None]
  BY TaskHashAssumption DEF GroupInit
<1>2. DOMAIN bank = {}
  BY <1>1
<1>3. GroupTypeOK
  BY <1>1, <1>2 DEF GroupInit, GroupTypeOK
<1>4. placed # None => frozen # None /\ \A t \in DOMAIN placed : placed[t] = PartOf(t)
  BY <1>1 DEF PartOf
<1>5. BankGrounded
  BY <1>2 DEF BankGrounded
<1> QED
  BY <1>2, <1>3, <1>4, <1>5 DEF GroupInit, GroupInv

LEMMA PlacingKeeps == ASSUME GroupInv, PlaceGroups PROVE GroupInv'
<1>1. Assign(present) \in Placings
  BY AssignTyped DEF GroupInv
<1>2. GroupTypeOK'
  BY <1>1 DEF GroupInv, GroupTypeOK, PlaceGroups
<1>3. frozen' # None /\ placed' = Assign(present)
  BY <1>1, PlacingTyped DEF PlaceGroups
<1>4. DOMAIN Assign(present) = GroupsOf(present)
      /\ \A t \in GroupsOf(present) : Assign(present)[t] = PartOf(t)
  BY DEF Assign
<1>5. ASSUME NEW t PROVE PartOf(t)' = PartOf(t)
  <2>1. CASE frozen # None
    BY <2>1 DEF PlaceGroups, PartOf
  <2>2. CASE frozen = None
    <3>1. PartOf(t) = HomeOf[t] /\ frozen' = Assign(present)
      BY <2>2 DEF PlaceGroups, PartOf
    <3> QED
      BY <1>3, <1>4, <3>1, <2>2 DEF PartOf
  <2> QED
    BY <2>1, <2>2
<1>6. \A t \in DOMAIN placed' : placed'[t] = PartOf(t)'
  BY <1>3, <1>4, <1>5
<1>7. (\A h \in handed : /\ frozen # None /\ h.part # Holdout
                         /\ \A t \in h.tasks : PartOf(t) = h.part)'
  BY <1>3, <1>5 DEF GroupInv, PlaceGroups
<1>8. BankGrounded' /\ \A t \in DOMAIN bank' : HomeOf[t] = Holdout
  BY DEF GroupInv, PlaceGroups, BankGrounded, Telling
<1> QED
  BY <1>2, <1>3, <1>6, <1>7, <1>8 DEF GroupInv

LEMMA HandingKeeps == ASSUME GroupInv, HandOut PROVE GroupInv'
<1>1. PICK s \in Frame(present) : handed' = handed \cup {Sheet(s, present)}
  BY DEF HandOut
<1>2. PICK p \in PartsOf(s, present) : p # Holdout /\ PartsOf(s, present) = {p}
  BY <1>1 DEF Frame
<1>3. Sheet(s, present).part = p
  BY <1>2 DEF Sheet
<1>4. s \in Sessions
  BY <1>1 DEF Frame, GroupInv, GroupTypeOK
<1>5. placed \in Placings /\ frozen # None
  BY DEF HandOut, GroupInv, GroupTypeOK
<1>6. AssignedTo(s, present) \subseteq DOMAIN placed
  BY DEF AssignedTo
<1>7. \A t \in AssignedTo(s, present) : PartOf(t) = p
  BY <1>2, <1>6, <1>5, PlacingTyped DEF PartsOf, GroupInv
<1>8. \A t : PartOf(t)' = PartOf(t)
  BY DEF HandOut, PartOf
<1>9. GroupTypeOK'
  BY <1>1, <1>4, <1>5, <1>6, PlacingTyped DEF GroupInv, GroupTypeOK, HandOut, Sheet
<1>10. (\A h \in handed : /\ frozen # None /\ h.part # Holdout
                          /\ \A t \in h.tasks : PartOf(t) = h.part)'
  <2> SUFFICES ASSUME NEW h \in handed'
               PROVE  frozen' # None /\ h.part # Holdout /\ \A t \in h.tasks : PartOf(t)' = h.part
    OBVIOUS
  <2>1. CASE h \in handed
    BY <2>1, <1>8, <1>5 DEF GroupInv, HandOut
  <2>2. CASE h = Sheet(s, present)
    <3>1. h.tasks = AssignedTo(s, present) /\ h.part = p
      BY <2>2, <1>3 DEF Sheet
    <3> QED
      BY <3>1, <1>2, <1>5, <1>7, <1>8 DEF HandOut
  <2> QED
    BY <1>1, <2>1, <2>2
<1>11. BankGrounded' /\ (\A t \in DOMAIN bank : HomeOf[t] = Holdout)'
  BY DEF GroupInv, HandOut, BankGrounded, Telling
<1>12. (placed # None => frozen # None /\ \A t \in DOMAIN placed : placed[t] = PartOf(t))'
  BY <1>8 DEF GroupInv, HandOut
<1> QED
  BY <1>9, <1>10, <1>11, <1>12 DEF GroupInv

LEMMA FreezingKeeps == ASSUME GroupInv, FreezeBank PROVE GroupInv'
<1>1. PICK oracles \in Oracles, index \in EvidenceIndexes :
        /\ Usable(index, present)
        /\ bank' = [t \in Bankable(present, oracles, index) |->
                       [kept |-> Kept(t, present),
                        fields |-> [f \in Fields |-> Filled(t, present, f, index)]]]
        /\ UNCHANGED <<present, frozen, placed, handed>>
  BY DEF FreezeBank
<1> DEFINE B == Bankable(present, oracles, index)
<1>2. DOMAIN bank' = B
  BY <1>1
<1>3. B \subseteq GroupsOf(present) /\ \A t \in B : /\ HomeOf[t] = Holdout
        /\ \A f \in Fields : Filled(t, present, f, index) # None
  BY DEF Bankable, Complete
<1>4. B \subseteq Tasks
  BY <1>3, GroupsAreTasks DEF GroupInv, GroupTypeOK
<1>5. GroupTypeOK'
  BY <1>1, <1>2, <1>4 DEF GroupInv, GroupTypeOK
<1>6. BankGrounded'
  <2> SUFFICES ASSUME NEW t \in B, NEW f \in Fields
               PROVE  LET told == Telling(bank'[t].kept, f) IN
                      IF told # {}
                        THEN \E s \in told : bank'[t].fields[f] = Recorded[s][f]
                        ELSE \E i \in EvidenceIndexes :
                               /\ t \in DOMAIN i /\ f \in i[t].pointed
                               /\ bank'[t].fields[f] = i[t].value[f]
                               /\ bank'[t].fields[f] # None
    BY <1>2 DEF BankGrounded, Telling
  <2> DEFINE told == Telling(Kept(t, present), f)
  <2>1. bank'[t].kept = Kept(t, present) /\ bank'[t].fields[f] = Filled(t, present, f, index)
    BY <1>1
  <2>2. Filled(t, present, f, index) # None
    BY <1>3
  <2>3. CASE told # {}
    <3>1. told \subseteq Sessions
      BY DEF Telling, Kept, Members, GroupInv, GroupTypeOK
    <3>2. First(told) \in told
      BY <2>3, <3>1, FirstSession DEF First
    <3>3. Value(t, present, f) = Recorded[First(told)][f] /\ Value(t, present, f) # None
      BY <2>3, <3>2 DEF Value, Telling
    <3>4. Filled(t, present, f, index) = Value(t, present, f)
      BY <3>3 DEF Filled
    <3> QED
      BY <2>1, <2>3, <3>2, <3>3, <3>4
  <2>4. CASE told = {}
    <3>1. Value(t, present, f) = None
      BY <2>4 DEF Value
    <3>2. t \in DOMAIN index /\ Filled(t, present, f, index) = index[t].value[f]
      BY <3>1, <2>2 DEF Filled
    <3>3. f \in index[t].pointed
      BY <1>1, <2>2, <3>2 DEF Usable
    <3> QED
      BY <2>1, <2>2, <2>4, <3>2, <3>3, <1>1
  <2> QED
    BY <2>3, <2>4
<1>7. \A t : PartOf(t)' = PartOf(t)
  BY <1>1 DEF PartOf
<1>8. (placed # None => frozen # None /\ \A t \in DOMAIN placed : placed[t] = PartOf(t))'
  BY <1>1, <1>7 DEF GroupInv
<1>9. (\A h \in handed : /\ frozen # None /\ h.part # Holdout
                         /\ \A t \in h.tasks : PartOf(t) = h.part)'
  BY <1>1, <1>7 DEF GroupInv
<1>10. \A t \in DOMAIN bank' : HomeOf[t] = Holdout
  BY <1>2, <1>3
<1> QED
  BY <1>5, <1>6, <1>8, <1>9, <1>10 DEF GroupInv

LEMMA TranscriptsKeep == ASSUME GroupInv, Arrive \/ Vanish \/ UNCHANGED groupVars PROVE GroupInv'
<1>1. frozen' = frozen /\ placed' = placed /\ handed' = handed /\ bank' = bank
      /\ present' \subseteq Sessions
  BY DEF GroupInv, GroupTypeOK, Arrive, Vanish, groupVars
<1> QED
  BY <1>1 DEF GroupInv, GroupTypeOK, BankGrounded, PartOf, Telling

(* The inductive invariant of the task groups.                             *)
THEOREM GroupInvariant == GroupSpec => []GroupInv
<1>1. GroupInv /\ [GroupNext]_groupVars => GroupInv'
  BY PlacingKeeps, HandingKeeps, FreezingKeeps, TranscriptsKeep DEF GroupNext
<1> QED
  BY GroupInitially, <1>1, PTL DEF GroupSpec

(* Whatever transcripts come and go, nobody is lost, nothing is split,     *)
(* retries collapse, and the sampler says the same.                        *)
THEOREM GroupsAreSound == GroupSpec => []GroupsSound
<1>1. GroupInv => GroupsSound
  BY NobodyIsLost, AreNeverSplit, RetriesDoCollapse, SamplerDoesAgree
     DEF GroupInv, GroupTypeOK, GroupsSound
<1> QED
  BY GroupInvariant, <1>1, PTL

(* What was handed out lies outside the holdout, and what is frozen is     *)
(* grounded, over any number of runs.                                      *)
THEOREM HoldoutStaysApart == GroupSpec => []HoldoutApart
<1>1. GroupInv => HoldoutApart
  <2> SUFFICES ASSUME GroupInv PROVE HandedApart
    BY DEF HoldoutApart, GroupInv
  <2> SUFFICES ASSUME NEW h \in handed
               PROVE  /\ h.part # Holdout
                      /\ \A t \in h.tasks : placed # None /\ t \in DOMAIN placed
                                               => placed[t] = h.part
                      /\ DOMAIN bank \cap h.tasks \subseteq Shadowed
    BY DEF HandedApart
  <2>1. frozen # None /\ h.part # Holdout /\ \A t \in h.tasks : PartOf(t) = h.part
    BY DEF GroupInv
  <2>2. \A t \in h.tasks : placed # None /\ t \in DOMAIN placed => placed[t] = h.part
    BY <2>1 DEF GroupInv
  <2>3. ASSUME NEW t \in DOMAIN bank \cap h.tasks PROVE t \in Shadowed
    <3>1. HomeOf[t] = Holdout /\ t \in Tasks /\ PartOf(t) # HomeOf[t]
      BY <2>1, <2>3 DEF GroupInv, GroupTypeOK
    <3> QED
      BY <3>1 DEF PartOf, Shadowed
  <2> QED
    BY <2>1, <2>2, <2>3
<1> QED
  BY GroupInvariant, <1>1, PTL

-----------------------------------------------------------------------------
(* Episodes.  What segmentation makes of a log L, for any list of episodes *)
(* P: it is cut into them, and they are bounded.                           *)
ChainOf(L) == {p \in DOMAIN L : ~L[p].side}
CutInto(P, L) ==
    /\ \A p \in ChainOf(L) : \E k \in DOMAIN P : In(p, P[k].seq)
    /\ \A k \in DOMAIN P : \A i \in DOMAIN P[k].seq :
           /\ P[k].seq[i] \in ChainOf(L)
           /\ \A j \in DOMAIN P[k].seq : i < j => P[k].seq[i] < P[k].seq[j]
    /\ \A k, m \in DOMAIN P : k < m =>
           \A i \in DOMAIN P[k].seq, j \in DOMAIN P[m].seq : P[k].seq[i] < P[m].seq[j]
BoundedBy(P, L, last) ==
    /\ \A k \in DOMAIN P :
           /\ Len(P[k].seq) \in 1 .. Cap /\ P[k].turn <= last
           /\ \A i \in DOMAIN P[k].seq : L[P[k].seq[i]].type = "user" => i = 1
    /\ \A k \in 1 .. Len(P) - 1 :
           /\ P[k].turn <= P[k + 1].turn
           /\ P[k].turn = P[k + 1].turn => Len(P[k].seq) = Cap

EpisodeSet == [turn : Nat, seq : Seq(Nat)]
EpisodeTypeOK ==
    /\ log \in Seq(EventKinds) /\ closed \in Seq(EpisodeSet)
    /\ cur \in Seq(Nat) /\ turns \in Nat
EpisodeInv ==
    /\ EpisodeTypeOK
    /\ CutInto(Episodes, log) /\ BoundedBy(Episodes, log, turns)
    /\ Len(cur) < Cap
    /\ cur = <<>> /\ closed # <<>> => Len(closed[Len(closed)].seq) = Cap

LEMMA ChainGrows ==
    ASSUME NEW L \in Seq(EventKinds), NEW e \in EventKinds
    PROVE  LET h == Len(L) + 1
           IN  /\ Append(L, e) \in Seq(EventKinds) /\ h \in Nat /\ h \notin DOMAIN L
               /\ \A p \in DOMAIN L : p \in Nat /\ p < h /\ Append(L, e)[p] = L[p]
               /\ Append(L, e)[h] = e
               /\ e.side => ChainOf(Append(L, e)) = ChainOf(L)
               /\ ~e.side => ChainOf(Append(L, e)) = ChainOf(L) \cup {h}
<1>1. /\ Append(L, e) \in Seq(EventKinds) /\ DOMAIN L = 1 .. Len(L) /\ Len(L) \in Nat
      /\ DOMAIN Append(L, e) = 1 .. Len(L) + 1
      /\ \A p \in DOMAIN L : Append(L, e)[p] = L[p]
      /\ Append(L, e)[Len(L) + 1] = e
  OBVIOUS
<1> QED
  BY <1>1 DEF ChainOf

(* An episode of its own for the event that is read.                       *)
LEMMA CutAnew ==
    ASSUME NEW L \in Seq(EventKinds), NEW e \in EventKinds, ~e.side, NEW P \in Seq(EpisodeSet),
           CutInto(P, L), NEW t \in Nat
    PROVE  CutInto(Append(P, [turn |-> t, seq |-> <<Len(L) + 1>>]), Append(L, e))
<1> DEFINE h == Len(L) + 1
           M == Append(L, e)
           f == [turn |-> t, seq |-> <<h>>]
           Q == Append(P, f)
           n == Len(P) + 1
<1>1. /\ h \in Nat /\ \A p \in DOMAIN L : p \in Nat /\ p < h
      /\ ChainOf(M) = ChainOf(L) \cup {h}
  BY ChainGrows
<1>2. /\ DOMAIN Q = 1 .. n /\ n \in Nat \ {0} /\ DOMAIN P = 1 .. n - 1
      /\ Q[n] = f /\ \A k \in DOMAIN P : Q[k] = P[k]
  OBVIOUS
<1>3. f.seq = <<h>> /\ DOMAIN f.seq = {1} /\ f.seq[1] = h
  OBVIOUS
<1>4. \A k \in DOMAIN P : \A i \in DOMAIN P[k].seq : P[k].seq[i] \in ChainOf(L)
  BY DEF CutInto
<1>5. \A p \in ChainOf(L) : p \in DOMAIN L
  BY DEF ChainOf
<1>6. \A k \in DOMAIN Q : k \in DOMAIN P \/ k = n
  BY <1>2
<1> HIDE DEF h, M, f, Q, n
<1>7. ASSUME NEW p \in ChainOf(M) PROVE \E k \in DOMAIN Q : In(p, Q[k].seq)
  <2>1. CASE p = h
    <3>1. n \in DOMAIN Q
      BY <1>2
    <3>2. 1 \in DOMAIN Q[n].seq /\ Q[n].seq[1] = p
      BY <2>1, <1>2, <1>3
    <3> QED
      BY <3>1, <3>2 DEF In
  <2>2. CASE p \in ChainOf(L)
    <3>1. PICK k \in DOMAIN P : In(p, P[k].seq)
      BY <2>2 DEF CutInto
    <3> QED
      BY <3>1, <1>2
  <2> QED
    BY <1>1, <1>7, <2>1, <2>2
<1>8. ASSUME NEW k \in DOMAIN Q, NEW i \in DOMAIN Q[k].seq
      PROVE  /\ Q[k].seq[i] \in ChainOf(M)
             /\ \A j \in DOMAIN Q[k].seq : i < j => Q[k].seq[i] < Q[k].seq[j]
  <2>1. CASE k \in DOMAIN P
    BY <2>1, <1>1, <1>2, <1>8 DEF CutInto
  <2>2. CASE k = n
    BY <2>2, <1>1, <1>2, <1>3, <1>8
  <2> QED
    BY <1>6, <1>8, <2>1, <2>2
<1>9. ASSUME NEW k \in DOMAIN Q, NEW m \in DOMAIN Q, k < m,
             NEW i \in DOMAIN Q[k].seq, NEW j \in DOMAIN Q[m].seq
      PROVE  Q[k].seq[i] < Q[m].seq[j]
  <2>1. k \in DOMAIN P
    BY <1>2, <1>9
  <2>2. CASE m \in DOMAIN P
    BY <2>1, <2>2, <1>2, <1>9 DEF CutInto
  <2>3. CASE m = n
    <3>1. Q[k].seq[i] \in ChainOf(L)
      BY <2>1, <1>2, <1>4, <1>9
    <3>2. Q[m].seq[j] = h
      BY <2>3, <1>2, <1>3, <1>9
    <3> QED
      BY <3>1, <3>2, <1>1, <1>5
  <2> QED
    BY <1>6, <2>2, <2>3
<1>10. CutInto(Q, M)
  BY <1>7, <1>8, <1>9 DEF CutInto
<1> QED
  BY <1>10 DEF Q, M, f, h

(* The last episode takes the event that is read.                          *)
LEMMA CutLonger ==
    ASSUME NEW L \in Seq(EventKinds), NEW e \in EventKinds, ~e.side, NEW P \in Seq(EpisodeSet),
           NEW t \in Nat, NEW s \in Seq(Nat), s # <<>>,
           CutInto(Append(P, [turn |-> t, seq |-> s]), L)
    PROVE  CutInto(Append(P, [turn |-> t, seq |-> Append(s, Len(L) + 1)]), Append(L, e))
<1> DEFINE h == Len(L) + 1
           M == Append(L, e)
           old == [turn |-> t, seq |-> s]
           f == [turn |-> t, seq |-> Append(s, h)]
           O == Append(P, old)
           Q == Append(P, f)
           n == Len(P) + 1
           z == Len(s) + 1
<1>1. /\ h \in Nat /\ \A p \in DOMAIN L : p \in Nat /\ p < h
      /\ ChainOf(M) = ChainOf(L) \cup {h}
  BY ChainGrows
<1>2. /\ DOMAIN Q = 1 .. n /\ DOMAIN O = 1 .. n /\ n \in Nat \ {0} /\ DOMAIN P = 1 .. n - 1
      /\ Q[n] = f /\ O[n] = old /\ \A k \in DOMAIN P : Q[k] = O[k] /\ O[k] = P[k]
  OBVIOUS
<1>3. /\ f.seq = Append(s, h) /\ old.seq = s /\ DOMAIN f.seq = DOMAIN s \cup {z}
      /\ z \in Nat /\ f.seq[z] = h /\ \A i \in DOMAIN s : i \in Nat /\ i < z /\ f.seq[i] = s[i]
  BY <1>1
<1>4. \A k \in DOMAIN O : \A i \in DOMAIN O[k].seq : O[k].seq[i] \in ChainOf(L)
  BY DEF CutInto
<1>5. \A p \in ChainOf(L) : p \in DOMAIN L
  BY DEF ChainOf
<1>6. \A k \in DOMAIN Q : (k \in DOMAIN P /\ k < n) \/ k = n
  BY <1>2
<1>7. CutInto(O, L)
  OBVIOUS
<1> HIDE DEF h, M, f, Q, n, O, old, z
<1>8. ASSUME NEW p \in ChainOf(M) PROVE \E k \in DOMAIN Q : In(p, Q[k].seq)
  <2>1. CASE p = h
    <3>1. n \in DOMAIN Q
      BY <1>2
    <3>2. z \in DOMAIN Q[n].seq /\ Q[n].seq[z] = p
      BY <2>1, <1>2, <1>3
    <3> QED
      BY <3>1, <3>2 DEF In
  <2>2. CASE p \in ChainOf(L)
    <3>1. PICK k \in DOMAIN O : In(p, O[k].seq)
      BY <2>2, <1>7 DEF CutInto
    <3>2. PICK i \in DOMAIN O[k].seq : O[k].seq[i] = p
      BY <3>1 DEF In
    <3>3. CASE k = n
      <4>1. i \in DOMAIN s /\ s[i] = p
        BY <1>2, <1>3, <3>2, <3>3
      <4>2. i \in DOMAIN Q[n].seq /\ Q[n].seq[i] = p
        BY <4>1, <1>2, <1>3
      <4> QED
        BY <4>2, <1>2 DEF In
    <3>4. CASE k # n
      <4>1. Q[k] = O[k] /\ k \in DOMAIN Q
        BY <1>2, <1>6, <3>4
      <4> QED
        BY <4>1, <3>1
    <3> QED
      BY <3>3, <3>4
  <2> QED
    BY <1>1, <1>8, <2>1, <2>2
<1>9. ASSUME NEW k \in DOMAIN Q, NEW i \in DOMAIN Q[k].seq
      PROVE  /\ Q[k].seq[i] \in ChainOf(M)
             /\ \A j \in DOMAIN Q[k].seq : i < j => Q[k].seq[i] < Q[k].seq[j]
  <2>1. CASE k \in DOMAIN P
    <3>1. Q[k] = O[k] /\ k \in DOMAIN O
      BY <1>2, <2>1
    <3> QED
      BY <3>1, <1>1, <1>7, <1>9 DEF CutInto
  <2>2. CASE k = n
    <3>1. Q[k] = f /\ O[n] = old /\ n \in DOMAIN O
      BY <1>2, <2>2
    <3>2. \A a \in DOMAIN s : /\ s[a] \in ChainOf(L)
                              /\ \A b \in DOMAIN s : a < b => s[a] < s[b]
      BY <3>1, <1>3, <1>7 DEF CutInto
    <3>3. \A a \in DOMAIN s : s[a] < h
      BY <3>2, <1>1, <1>5
    <3>4. CASE i = z
      BY <3>1, <3>4, <1>1, <1>3, <1>9
    <3>5. CASE i \in DOMAIN s
      <4>1. f.seq[i] = s[i]
        BY <3>5, <1>3
      <4>2. \A j \in DOMAIN f.seq : i < j => f.seq[i] < f.seq[j]
        BY <3>2, <3>3, <3>5, <4>1, <1>3
      <4> QED
        BY <3>1, <3>2, <3>5, <4>1, <4>2, <1>1
    <3> QED
      BY <3>1, <3>4, <3>5, <1>3, <1>9
  <2> QED
    BY <1>6, <2>1, <2>2
<1>10. ASSUME NEW k \in DOMAIN Q, NEW m \in DOMAIN Q, k < m,
             NEW i \in DOMAIN Q[k].seq, NEW j \in DOMAIN Q[m].seq
       PROVE  Q[k].seq[i] < Q[m].seq[j]
  <2>1. k \in DOMAIN P /\ Q[k] = O[k] /\ k \in DOMAIN O
    BY <1>2, <1>10
  <2>2. CASE m \in DOMAIN P
    <3>1. Q[m] = O[m] /\ m \in DOMAIN O
      BY <1>2, <2>2
    <3> QED
      BY <2>1, <3>1, <1>7, <1>10 DEF CutInto
  <2>3. CASE m = n
    <3>1. Q[m].seq = f.seq /\ O[n].seq = s /\ n \in DOMAIN O
      BY <1>2, <1>3, <2>3
    <3>2. CASE j = z
      <4>1. Q[k].seq[i] \in ChainOf(L)
        BY <2>1, <1>4, <1>10
      <4>2. Q[m].seq[j] = h
        BY <3>1, <3>2, <1>3
      <4> QED
        BY <4>1, <4>2, <1>1, <1>5
    <3>3. CASE j \in DOMAIN s
      <4>1. Q[m].seq[j] = O[n].seq[j] /\ j \in DOMAIN O[n].seq
        BY <3>1, <3>3, <1>3
      <4> QED
        BY <2>1, <2>3, <3>1, <4>1, <1>7, <1>10 DEF CutInto
    <3> QED
      BY <3>1, <3>2, <3>3, <1>3, <1>10
  <2> QED
    BY <1>6, <2>2, <2>3
<1>11. CutInto(Q, M)
  BY <1>8, <1>9, <1>10 DEF CutInto
<1> QED
  BY <1>11 DEF Q, M, f, h

LEMMA BoundedAnew ==
    ASSUME NEW L \in Seq(EventKinds), NEW e \in EventKinds, NEW P \in Seq(EpisodeSet),
           CutInto(P, L), NEW last \in Nat, BoundedBy(P, L, last), NEW t \in {last, last + 1},
           t = last /\ P # <<>> => Len(P[Len(P)].seq) = Cap
    PROVE  BoundedBy(Append(P, [turn |-> t, seq |-> <<Len(L) + 1>>]), Append(L, e), t)
<1> DEFINE h == Len(L) + 1
           M == Append(L, e)
           f == [turn |-> t, seq |-> <<h>>]
           Q == Append(P, f)
           n == Len(P) + 1
<1>1. \A p \in DOMAIN L : M[p] = L[p]
  BY ChainGrows
<1>2. /\ DOMAIN Q = 1 .. n /\ Len(Q) = n /\ n \in Nat /\ Len(P) = n - 1 /\ DOMAIN P = 1 .. n - 1
      /\ Q[n] = f /\ \A k \in DOMAIN P : Q[k] = P[k]
      /\ \A k \in DOMAIN P : P[k].turn \in Nat
      /\ P # <<>> => n - 1 \in DOMAIN P
  <2>1. P # <<>> => Len(P) # 0
    BY EmptySeq
  <2>2. \A k \in DOMAIN P : P[k] \in EpisodeSet
    OBVIOUS
  <2> QED
    BY <2>1, <2>2 DEF EpisodeSet
<1>3. f.seq = <<h>> /\ DOMAIN f.seq = {1} /\ Len(f.seq) = 1 /\ f.turn = t
  OBVIOUS
<1>4. \A k \in DOMAIN P : \A i \in DOMAIN P[k].seq : M[P[k].seq[i]] = L[P[k].seq[i]]
  BY <1>1 DEF CutInto, ChainOf
<1>5. 1 \in 1 .. Cap /\ Cap \in Nat
  BY SpanAssumption
<1>6. t \in Nat /\ last <= t
  OBVIOUS
<1> HIDE DEF h, M, f, Q, n
<1>7. ASSUME NEW k \in DOMAIN Q
      PROVE  /\ Len(Q[k].seq) \in 1 .. Cap /\ Q[k].turn <= t
             /\ \A i \in DOMAIN Q[k].seq : M[Q[k].seq[i]].type = "user" => i = 1
  <2>1. CASE k \in DOMAIN P
    <3>1. Q[k] = P[k] /\ P[k].turn \in Nat /\ P[k].turn <= last
      BY <1>2, <2>1 DEF BoundedBy
    <3>2. Q[k].turn <= t
      BY <3>1, <1>6
    <3> QED
      BY <2>1, <3>1, <3>2, <1>4 DEF BoundedBy
  <2>2. CASE k = n
    BY <2>2, <1>2, <1>3, <1>5, <1>6
  <2> QED
    BY <1>2, <1>7, <2>1, <2>2
<1>8. ASSUME NEW k \in 1 .. Len(Q) - 1
      PROVE  /\ Q[k].turn <= Q[k + 1].turn
             /\ Q[k].turn = Q[k + 1].turn => Len(Q[k].seq) = Cap
  <2>1. k \in DOMAIN P /\ Q[k] = P[k] /\ P[k].turn \in Nat /\ P[k].turn <= last
    BY <1>2, <1>8 DEF BoundedBy
  <2>2. CASE k = n - 1
    <3>1. Q[k + 1].turn = t
      BY <2>2, <1>2, <1>3
    <3>2. P # <<>> /\ P[Len(P)] = P[k]
      BY <2>1, <2>2, <1>2
    <3>3. Q[k].turn = t => t = last
      BY <2>1, <1>6
    <3> QED
      BY <2>1, <3>1, <3>2, <3>3, <1>6
  <2>3. CASE k # n - 1
    <3>1. k \in 1 .. Len(P) - 1 /\ k + 1 \in DOMAIN P
      BY <2>3, <1>2, <1>8
    <3> QED
      BY <2>1, <3>1, <1>2 DEF BoundedBy
  <2> QED
    BY <2>2, <2>3
<1>9. BoundedBy(Q, M, t)
  BY <1>7, <1>8 DEF BoundedBy
<1> QED
  BY <1>9 DEF Q, M, f, h

LEMMA BoundedLonger ==
    ASSUME NEW L \in Seq(EventKinds), NEW e \in EventKinds, e.type # "user", NEW P \in Seq(EpisodeSet),
           NEW t \in Nat, NEW last \in Nat, NEW s \in Seq(Nat), s # <<>>, Len(s) < Cap,
           CutInto(Append(P, [turn |-> t, seq |-> s]), L),
           BoundedBy(Append(P, [turn |-> t, seq |-> s]), L, last)
    PROVE  BoundedBy(Append(P, [turn |-> t, seq |-> Append(s, Len(L) + 1)]), Append(L, e), last)
<1> DEFINE h == Len(L) + 1
           M == Append(L, e)
           old == [turn |-> t, seq |-> s]
           f == [turn |-> t, seq |-> Append(s, h)]
           O == Append(P, old)
           Q == Append(P, f)
           n == Len(P) + 1
           z == Len(s) + 1
<1>1. /\ h \in Nat /\ M[h] = e /\ \A p \in DOMAIN L : M[p] = L[p]
  BY ChainGrows
<1>2. /\ DOMAIN Q = 1 .. n /\ DOMAIN O = 1 .. n /\ n \in Nat \ {0} /\ DOMAIN P = 1 .. n - 1
      /\ Len(Q) = n /\ Len(O) = n /\ n \in DOMAIN O
      /\ Q[n] = f /\ O[n] = old /\ \A k \in DOMAIN P : Q[k] = O[k]
  OBVIOUS
<1>3. /\ f.seq = Append(s, h) /\ old.seq = s /\ DOMAIN f.seq = DOMAIN s \cup {z}
      /\ Len(f.seq) = z /\ z \in Nat \ {0, 1} /\ z <= Cap /\ f.turn = t /\ old.turn = t
      /\ f.seq[z] = h /\ \A i \in DOMAIN s : f.seq[i] = s[i]
  BY <1>1, SpanAssumption
<1>4. \A k \in DOMAIN O : \A i \in DOMAIN O[k].seq : M[O[k].seq[i]] = L[O[k].seq[i]]
  BY <1>1 DEF CutInto, ChainOf
<1>5. CutInto(O, L) /\ BoundedBy(O, L, last) /\ Cap \in Nat
  BY SpanAssumption
<1> HIDE DEF h, M, f, Q, n, O, old, z
<1>6. \A k \in DOMAIN Q : Q[k].turn = O[k].turn /\ (k # n => Q[k] = O[k])
  BY <1>2, <1>3
<1>7. ASSUME NEW k \in DOMAIN Q
      PROVE  /\ Len(Q[k].seq) \in 1 .. Cap /\ Q[k].turn <= last
             /\ \A i \in DOMAIN Q[k].seq : M[Q[k].seq[i]].type = "user" => i = 1
  <2>1. k \in DOMAIN O
    BY <1>2, <1>7
  <2>2. CASE k # n
    <3>1. Q[k] = O[k]
      BY <2>2, <1>6, <1>7
    <3>2. /\ Len(O[k].seq) \in 1 .. Cap /\ O[k].turn <= last
          /\ \A i \in DOMAIN O[k].seq : L[O[k].seq[i]].type = "user" => i = 1
      BY <2>1, <1>5 DEF BoundedBy
    <3> QED
      BY <3>1, <3>2, <2>1, <1>4
  <2>3. CASE k = n
    <3>1. Q[k].seq = f.seq /\ O[k].seq = s /\ Q[k].turn <= last
      BY <2>1, <2>3, <1>2, <1>3, <1>5, <1>6 DEF BoundedBy
    <3>2. Len(Q[k].seq) \in 1 .. Cap
      BY <3>1, <1>3, <1>5
    <3>3. ASSUME NEW i \in DOMAIN Q[k].seq, M[Q[k].seq[i]].type = "user" PROVE i = 1
      <4>1. CASE i = z
        BY <3>1, <3>3, <4>1, <1>1, <1>3
      <4>2. CASE i \in DOMAIN s
        <5>1. Q[k].seq[i] = O[k].seq[i] /\ i \in DOMAIN O[k].seq
          BY <3>1, <4>2, <1>3
        <5>2. L[O[k].seq[i]].type = "user"
          BY <3>3, <5>1, <2>1, <1>4
        <5> QED
          BY <5>1, <5>2, <2>1, <1>5 DEF BoundedBy
      <4> QED
        BY <3>1, <3>3, <4>1, <4>2, <1>3
    <3> QED
      BY <3>1, <3>2, <3>3
  <2> QED
    BY <2>2, <2>3
<1>8. ASSUME NEW k \in 1 .. Len(Q) - 1
      PROVE  /\ Q[k].turn <= Q[k + 1].turn
             /\ Q[k].turn = Q[k + 1].turn => Len(Q[k].seq) = Cap
  <2>1. k \in DOMAIN Q /\ k + 1 \in DOMAIN Q /\ k # n /\ k \in 1 .. Len(O) - 1
    BY <1>2, <1>8
  <2> QED
    BY <2>1, <1>5, <1>6 DEF BoundedBy
<1>9. BoundedBy(Q, M, last)
  BY <1>7, <1>8 DEF BoundedBy
<1> QED
  BY <1>9 DEF Q, M, f, h

(* An event of a sidechain changes nothing.                                *)
LEMMA SideChanges ==
    ASSUME NEW L \in Seq(EventKinds), NEW e \in EventKinds, e.side, NEW P, NEW last,
           CutInto(P, L), BoundedBy(P, L, last)
    PROVE  CutInto(P, Append(L, e)) /\ BoundedBy(P, Append(L, e), last)
<1>1. /\ ChainOf(Append(L, e)) = ChainOf(L)
      /\ \A p \in DOMAIN L : Append(L, e)[p] = L[p]
  BY ChainGrows
<1>2. \A k \in DOMAIN P : \A i \in DOMAIN P[k].seq : P[k].seq[i] \in DOMAIN L
  BY DEF CutInto, ChainOf
<1> QED
  BY <1>1, <1>2 DEF CutInto, BoundedBy

LEMMA EpisodesAreTyped ==
    ASSUME EpisodeTypeOK
    PROVE  /\ Episodes \in Seq(EpisodeSet)
           /\ cur = <<>> => Episodes = closed
           /\ cur # <<>> => /\ Episodes = Append(closed, [turn |-> turns, seq |-> cur])
                           /\ Len(cur) \in Nat \ {0}
<1>1. cur # <<>> => Len(cur) \in Nat \ {0}
  BY EmptySeq DEF EpisodeTypeOK
<1>2. [turn |-> turns, seq |-> cur] \in EpisodeSet
  BY DEF EpisodeTypeOK, EpisodeSet
<1> QED
  BY <1>1, <1>2 DEF Episodes, Closing, EpisodeTypeOK

LEMMA EpisodeBegins ==
    ASSUME EpisodeInv, NEW e \in EventKinds, OpenTurn(e) \/ OpenRetry(e)
    PROVE  EpisodeInv'
<1> DEFINE f == [turn |-> turns + 1, seq |-> <<Len(log) + 1>>]
<1>1. /\ EpisodeTypeOK /\ CutInto(Episodes, log) /\ BoundedBy(Episodes, log, turns)
      /\ ~e.side /\ log' = Append(log, e) /\ turns' = turns + 1 /\ cur' = <<Len(log) + 1>>
  BY DEF EpisodeInv, OpenTurn, OpenRetry, Read, Here
<1>2. Episodes \in Seq(EpisodeSet) /\ (cur = <<>> => Episodes = closed)
  BY <1>1, EpisodesAreTyped
<1>3. closed' = Episodes
  BY <1>2 DEF OpenTurn, OpenRetry, Episodes
<1>4. cur' # <<>> /\ Len(cur') = 1 /\ cur' \in Seq(Nat)
  BY <1>1 DEF EpisodeTypeOK
<1>5. Episodes' = Append(Episodes, f)
  BY <1>1, <1>3, <1>4 DEF Episodes, Closing
<1>6. EpisodeTypeOK'
  BY <1>1, <1>2, <1>3, <1>4 DEF EpisodeTypeOK, EpisodeSet
<1>7. turns \in Nat /\ log \in Seq(EventKinds)
  BY <1>1 DEF EpisodeTypeOK
<1>8. CutInto(Episodes', log')
  BY <1>1, <1>2, <1>5, <1>7, CutAnew
<1>9. BoundedBy(Episodes', log', turns')
  <2>1. turns + 1 \in {turns, turns + 1} /\ turns + 1 # turns
    BY <1>7
  <2> QED
    BY <1>1, <1>2, <1>5, <1>7, <2>1, BoundedAnew
<1>10. CutInto(Episodes, log)' /\ BoundedBy(Episodes, log, turns)'
  BY <1>8, <1>9 DEF CutInto, BoundedBy, ChainOf, In
<1> QED
  BY <1>4, <1>6, <1>10, SpanAssumption DEF EpisodeInv

LEMMA GatheringKeeps == ASSUME EpisodeInv, NEW e \in EventKinds, Gather(e) PROVE EpisodeInv'
<1> DEFINE more == Append(cur, Len(log) + 1)
           f == [turn |-> turns, seq |-> more]
<1>1. /\ EpisodeTypeOK /\ CutInto(Episodes, log) /\ BoundedBy(Episodes, log, turns)
      /\ Len(cur) < Cap /\ (cur = <<>> /\ closed # <<>> => Len(closed[Len(closed)].seq) = Cap)
      /\ ~e.side /\ e.type # "user" /\ log' = Append(log, e) /\ turns' = turns
  BY DEF EpisodeInv, Gather, Read
<1>2. IF Len(more) >= Cap THEN closed' = Append(closed, f) /\ cur' = <<>>
      ELSE cur' = more /\ closed' = closed
  BY DEF Gather, Here
<1>3. /\ log \in Seq(EventKinds) /\ turns \in Nat /\ cur \in Seq(Nat) /\ closed \in Seq(EpisodeSet)
      /\ Len(log) + 1 \in Nat /\ Cap \in Nat /\ Cap > 1
  BY <1>1, SpanAssumption DEF EpisodeTypeOK
<1>4. /\ more \in Seq(Nat) /\ Len(more) = Len(cur) + 1 /\ more # <<>> /\ Len(cur) \in Nat
      /\ f \in EpisodeSet /\ f.seq = more
  <2>1. more \in Seq(Nat) /\ Len(more) = Len(cur) + 1 /\ Len(cur) \in Nat
    BY <1>3
  <2> HIDE DEF more
  <2>2. more # <<>>
    <3>1. Len(<<>>) = 0
      OBVIOUS
    <3> QED
      BY <2>1, <3>1
  <2> QED
    BY <1>3, <2>1, <2>2 DEF EpisodeSet
<1>5. Episodes' = Append(closed, f)
  <2>1. CASE Len(more) >= Cap
    BY <1>2, <2>1 DEF Episodes, Closing
  <2>2. CASE ~(Len(more) >= Cap)
    BY <1>1, <1>2, <1>4, <2>2 DEF Episodes, Closing
  <2> QED
    BY <2>1, <2>2
<1>6. EpisodeTypeOK'
  <2>1. log' \in Seq(EventKinds)
    BY <1>1, <1>3
  <2>2. closed' \in Seq(EpisodeSet) /\ cur' \in Seq(Nat)
    <3>1. Append(closed, f) \in Seq(EpisodeSet) /\ <<>> \in Seq(Nat)
      <4> HIDE DEF f
      <4> QED
        BY <1>3, <1>4
    <3>2. (closed' = Append(closed, f) /\ cur' = <<>>) \/ (cur' = more /\ closed' = closed)
      BY <1>2
    <3> HIDE DEF more, f
    <3> QED
      BY <1>3, <1>4, <3>1, <3>2
  <2> QED
    BY <1>1, <1>3, <2>1, <2>2 DEF EpisodeTypeOK
<1>7. CutInto(Episodes', log') /\ BoundedBy(Episodes', log', turns')
  <2>1. CASE cur = <<>>
    <3>1. Episodes = closed
      BY <1>1, <2>1, EpisodesAreTyped
    <3>2. f = [turn |-> turns, seq |-> <<Len(log) + 1>>]
      BY <2>1
    <3>3. CutInto(closed, log) /\ BoundedBy(closed, log, turns)
      BY <1>1, <3>1
    <3>4. CutInto(Append(closed, f), Append(log, e))
      BY <1>1, <1>3, <3>2, <3>3, CutAnew
    <3>5. BoundedBy(Append(closed, f), Append(log, e), turns)
      BY <1>1, <1>3, <2>1, <3>2, <3>3, BoundedAnew
    <3> QED
      BY <1>1, <1>5, <3>4, <3>5
  <2>2. CASE cur # <<>>
    <3>1. Episodes = Append(closed, [turn |-> turns, seq |-> cur])
      BY <1>1, <2>2, EpisodesAreTyped
    <3>2. /\ CutInto(Append(closed, [turn |-> turns, seq |-> cur]), log)
          /\ BoundedBy(Append(closed, [turn |-> turns, seq |-> cur]), log, turns)
      BY <1>1, <3>1
    <3>3. CutInto(Append(closed, f), Append(log, e))
      BY <1>1, <1>3, <2>2, <3>2, CutLonger
    <3>4. BoundedBy(Append(closed, f), Append(log, e), turns)
      BY <1>1, <1>3, <2>2, <3>2, BoundedLonger
    <3> QED
      BY <1>1, <1>5, <3>3, <3>4
  <2> QED
    BY <2>1, <2>2
<1>8. CutInto(Episodes, log)' /\ BoundedBy(Episodes, log, turns)'
  BY <1>7 DEF CutInto, BoundedBy, ChainOf, In
<1>9. /\ Len(cur') < Cap
      /\ cur' = <<>> /\ closed' # <<>> => Len(closed'[Len(closed')].seq) = Cap
  <2>1. CASE Len(more) >= Cap
    <3>1. closed' = Append(closed, f) /\ cur' = <<>> /\ Len(more) = Cap
      BY <1>1, <1>2, <1>3, <1>4, <2>1
    <3>2. closed'[Len(closed')] = f
      BY <1>3, <3>1
    <3> QED
      BY <1>3, <1>4, <3>1, <3>2
  <2>2. CASE ~(Len(more) >= Cap)
    <3>1. cur' = more
      BY <1>2, <2>2
    <3> QED
      BY <1>3, <1>4, <2>2, <3>1
  <2> QED
    BY <2>1, <2>2
<1> QED
  BY <1>6, <1>8, <1>9 DEF EpisodeInv

LEMMA PassingKeeps == ASSUME EpisodeInv, NEW e \in EventKinds, PassOver(e) PROVE EpisodeInv'
<1>1. /\ EpisodeTypeOK /\ CutInto(Episodes, log) /\ BoundedBy(Episodes, log, turns)
      /\ e.side /\ log' = Append(log, e) /\ turns' = turns /\ cur' = cur /\ closed' = closed
  BY DEF EpisodeInv, PassOver, Read
<1>2. Episodes' = Episodes
  BY <1>1 DEF Episodes, Closing
<1>3. CutInto(Episodes', log') /\ BoundedBy(Episodes', log', turns')
  BY <1>1, <1>2, SideChanges DEF EpisodeTypeOK
<1>4. CutInto(Episodes, log)' /\ BoundedBy(Episodes, log, turns)'
  BY <1>3 DEF CutInto, BoundedBy, ChainOf, In
<1>5. EpisodeTypeOK'
  BY <1>1 DEF EpisodeTypeOK
<1> QED
  BY <1>1, <1>4, <1>5 DEF EpisodeInv

(* The inductive invariant of segmentation.                                *)
THEOREM EpisodeInvariant == EpisodeSpec => []EpisodeInv
<1>1. EpisodeInit => EpisodeInv
  BY SpanAssumption, EmptySeq
     DEF EpisodeInit, EpisodeInv, EpisodeTypeOK, Episodes, Closing, CutInto, BoundedBy, ChainOf
<1>2. ASSUME EpisodeInv, UNCHANGED episodeVars PROVE EpisodeInv'
  <2>1. log' = log /\ closed' = closed /\ cur' = cur /\ turns' = turns
    BY <1>2 DEF episodeVars
  <2>2. Episodes' = Episodes
    BY <2>1 DEF Episodes, Closing
  <2>3. CutInto(Episodes', log') /\ BoundedBy(Episodes', log', turns')
    BY <1>2, <2>1, <2>2 DEF EpisodeInv
  <2>4. CutInto(Episodes, log)' /\ BoundedBy(Episodes, log, turns)'
    BY <2>3 DEF CutInto, BoundedBy, ChainOf, In
  <2> QED
    BY <1>2, <2>1, <2>4 DEF EpisodeInv, EpisodeTypeOK
<1>3. EpisodeInv /\ [EpisodeNext]_episodeVars => EpisodeInv'
  BY <1>2, EpisodeBegins, GatheringKeeps, PassingKeeps DEF EpisodeNext
<1> QED
  BY <1>1, <1>3, PTL DEF EpisodeSpec

(* An episode once closed stays as it is.                                  *)
THEOREM ClosedEpisodesStay == EpisodeSpec => EpisodesStay
<1> DEFINE Stay == \A k \in DOMAIN closed : k \in DOMAIN closed' /\ closed'[k] = closed[k]
<1>1. ASSUME EpisodeTypeOK, [EpisodeNext]_episodeVars PROVE Stay
  <2>1. closed' = closed \/ \E f \in EpisodeSet : closed' = Append(closed, f)
    <3>1. CASE UNCHANGED episodeVars
      BY <3>1 DEF episodeVars
    <3>2. ASSUME NEW e \in EventKinds, PassOver(e) \/ OpenRetry(e) PROVE closed' = closed
      BY <3>2 DEF PassOver, OpenRetry
    <3>3. /\ [turn |-> turns, seq |-> cur] \in EpisodeSet
          /\ [turn |-> turns, seq |-> Append(cur, Here)] \in EpisodeSet
      <4>1. Here \in Nat
        BY <1>1 DEF EpisodeTypeOK, Here
      <4> QED
        BY <1>1, <4>1 DEF EpisodeTypeOK, EpisodeSet
    <3>4. ASSUME NEW e \in EventKinds, OpenTurn(e)
          PROVE  closed' = closed \/ \E f \in EpisodeSet : closed' = Append(closed, f)
      BY <3>3, <3>4 DEF OpenTurn, Closing
    <3>5. ASSUME NEW e \in EventKinds, Gather(e)
          PROVE  closed' = closed \/ \E f \in EpisodeSet : closed' = Append(closed, f)
      BY <3>3, <3>5 DEF Gather
    <3> QED
      BY <1>1, <3>1, <3>2, <3>4, <3>5 DEF EpisodeNext
  <2>2. CASE closed' = closed
    BY <2>2
  <2>3. ASSUME NEW f \in EpisodeSet, closed' = Append(closed, f) PROVE Stay
    BY <1>1, <2>3 DEF EpisodeTypeOK
  <2> QED
    BY <2>1, <2>2, <2>3
<1>2. EpisodeInv => EpisodeTypeOK
  BY DEF EpisodeInv
<1> HIDE DEF Stay
<1>3. EpisodeInv /\ [EpisodeNext]_episodeVars => [Stay]_episodeVars
  BY <1>1, <1>2
<1> QED
  BY EpisodeInvariant, <1>3, PTL DEF EpisodeSpec, EpisodesStay, Stay

(* Labels are idempotent, whatever the tags and events they start from.    *)
LEMMA RefiningIsIdempotent ==
    ASSUME NEW base, NEW E PROVE Refine(Refine(base, E), E) = Refine(base, E)
<1> DEFINE C == CalledTags(E)
           t == TestRun(E) /\ Errors(E)
           d == Diagnosed(E)
           c == Corrected(E)
           r == Recovered(E)
           l == Len(E) >= LongSpan /\ HasDecision(E)
           F(b) == LET all   == (b \cup C) \ {"test_interpretation"}
                       tests == all \cup Tag(t, "test_interpretation")
                       cause == IF d THEN (tests \cup {"compiler_interpretation"}) \ {"debugging"}
                                ELSE tests \cup Tag(c, "debugging")
                   IN  cause \cup Tag(r, "recovery") \cup Tag(l, "long_context")
<1>1. \A b : Refine(b, E) = F(b)
  BY DEF Refine
<1>2. F(F(base)) = F(base)
  <2> HIDE DEF C, t, d, c, r, l
  <2>1. ASSUME NEW x PROVE x \in F(F(base)) <=> x \in F(base)
    <3>1. CASE x \notin {"test_interpretation", "compiler_interpretation", "debugging",
                         "recovery", "long_context"}
      BY <3>1 DEF Tag
    <3>2. CASE x = "test_interpretation"
      BY <3>2 DEF Tag
    <3>3. CASE x = "compiler_interpretation"
      BY <3>3 DEF Tag
    <3>4. CASE x = "debugging"
      BY <3>4 DEF Tag
    <3>5. CASE x \in {"recovery", "long_context"}
      BY <3>5 DEF Tag
    <3> QED
      BY <3>1, <3>2, <3>3, <3>4, <3>5
  <2> HIDE DEF F
  <2> QED
    BY <2>1
<1> HIDE DEF F
<1> QED
  BY <1>1, <1>2

LEMMA NamesSaySegmented ==
    ASSUME NEW e \in EventKinds
    PROVE  "long_context" \notin NameTags(e) /\ "long_context" \notin ToolTags(e)
BY CapabilityAssumption DEF NameTags, ToolTags, Segmented

LEMMA WhatIsLong ==
    ASSUME NEW E \in Seq(EventKinds)
    PROVE  Long(E) <=> Len(E) >= LongSpan /\ HasDecision(E)
<1>1. \A i \in DOMAIN E : E[i] \in EventKinds
  OBVIOUS
<1>2. \A i \in DOMAIN E : "long_context" \notin NameTags(E[i]) /\ "long_context" \notin ToolTags(E[i])
  BY <1>1, NamesSaySegmented
<1>3. "long_context" \notin NamedTags(E)
  BY <1>2 DEF NamedTags, Tag
<1>4. "long_context" \notin CalledTags(E)
  BY <1>2 DEF CalledTags, Tag, CallsOf
<1> QED
  BY <1>3, <1>4 DEF Long, Tags, Refine, Tag

(* An episode does not get easier when it grows.                           *)
LEMMA DifficultyGrows ==
    ASSUME NEW E \in Seq(EventKinds), NEW n \in 1 .. Len(E)
    PROVE  Difficulty(SubSeq(E, 1, n)) <= Difficulty(E)
<1> DEFINE F == SubSeq(E, 1, n)
           callsIn(G) == {i \in DOMAIN G : G[i].type = "tool_call"}
<1>1. /\ F \in Seq(EventKinds) /\ DOMAIN F = 1 .. n /\ DOMAIN E = 1 .. Len(E) /\ n <= Len(E)
      /\ Len(F) = n /\ Len(E) \in Nat /\ DOMAIN F \subseteq DOMAIN E
      /\ \A i \in DOMAIN F : F[i] = E[i]
  OBVIOUS
<1> HIDE DEF F
<1>2. HasDecision(F) => HasDecision(E)
  BY <1>1 DEF HasDecision
<1>3. Recovered(F) => Recovered(E)
  BY <1>1 DEF Recovered
<1>4. Checks(F) => Checks(E)
  BY <1>1 DEF Checks
<1>5. Long(F) => Long(E)
  BY <1>1, <1>2, WhatIsLong, SpanAssumption
<1>6. Wide(F) => Wide(E)
  <2>1. callsIn(F) \subseteq callsIn(E)
    BY <1>1
  <2>2. IsFiniteSet(callsIn(E))
    <3>1. IsFiniteSet(1 .. Len(E))
      BY <1>1, FS_Interval
    <3> QED
      BY <1>1, <3>1, FS_Subset
  <2>3. IsFiniteSet(callsIn(F)) /\ Cardinality(callsIn(F)) <= Cardinality(callsIn(E))
    <3> HIDE DEF callsIn
    <3> QED
      BY <2>1, <2>2, FS_Subset
  <2>4. Cardinality(callsIn(F)) \in Nat /\ Cardinality(callsIn(E)) \in Nat
    BY <2>2, <2>3, FS_CardinalityType
  <2>5. /\ Wide(F) <=> Len(F) >= WideSpan \/ Cardinality(callsIn(F)) >= ManyCalls
        /\ Wide(E) <=> Len(E) >= WideSpan \/ Cardinality(callsIn(E)) >= ManyCalls
    BY DEF Wide
  <2> HIDE DEF callsIn
  <2> QED
    BY <1>1, <2>3, <2>4, <2>5, SpanAssumption
<1>7. Difficulty(F) <= Difficulty(E)
  <2> DEFINE a == Long(F)
             b == Recovered(F)
             c == Checks(F)
             d == HasDecision(F)
             w == Wide(F)
  <2>1. CASE Long(F) /\ Recovered(F) /\ Checks(F)
    BY <2>1, <1>3, <1>4, <1>5 DEF Difficulty
  <2>2. CASE ~(Long(F) /\ Recovered(F) /\ Checks(F)) /\ (Recovered(F) \/ Long(F))
    BY <2>2, <1>3, <1>5 DEF Difficulty
  <2>3. CASE ~Recovered(F) /\ ~Long(F) /\ HasDecision(F) /\ Wide(F)
    BY <2>3, <1>2, <1>6 DEF Difficulty
  <2>4. CASE ~Recovered(F) /\ ~Long(F) /\ HasDecision(F) /\ ~Wide(F)
    BY <2>4, <1>2 DEF Difficulty
  <2>5. CASE ~Recovered(F) /\ ~Long(F) /\ ~HasDecision(F)
    BY <2>5 DEF Difficulty
  <2> QED
    BY <2>1, <2>2, <2>3, <2>4, <2>5
<1> QED
  BY <1>7 DEF F

(* Of the anonymous events of one name no two have the same rank.          *)
LEMMA RanksDiffer ==
    ASSUME NEW S \in SUBSET DOMAIN log, log \in Seq(EventKinds),
           NEW p \in Anonymous(S), NEW q \in Anonymous(S), log[p].name = log[q].name,
           Rank(p, S) = Rank(q, S)
    PROVE  p = q
<1> DEFINE before(x) == {y \in Anonymous(S) : y < x /\ log[y].name = log[x].name}
<1>1. /\ DOMAIN log = 1 .. Len(log) /\ Len(log) \in Nat /\ Anonymous(S) \subseteq DOMAIN log
      /\ \A x \in DOMAIN log : x \in Nat
  BY DEF Anonymous
<1>2. IsFiniteSet(Anonymous(S))
  <2>1. IsFiniteSet(1 .. Len(log))
    BY <1>1, FS_Interval
  <2>2. IsFiniteSet(DOMAIN log)
    BY <1>1, <2>1
  <2> QED
    BY <1>1, <2>2, FS_Subset
<1>3. ASSUME NEW a \in Anonymous(S), NEW b \in Anonymous(S), log[a].name = log[b].name, a < b
      PROVE  Rank(a, S) < Rank(b, S)
  <2>1. before(a) \cup {a} \subseteq before(b)
    BY <1>1, <1>3
  <2>2. a \notin before(a)
    BY <1>1
  <2>3. IsFiniteSet(before(a)) /\ IsFiniteSet(before(b))
    BY <1>2, FS_Subset
  <2>4. Rank(a, S) = Cardinality(before(a)) /\ Rank(b, S) = Cardinality(before(b))
    BY DEF Rank
  <2> HIDE DEF before
  <2>5. Cardinality(before(a) \cup {a}) = Cardinality(before(a)) + 1
    BY <2>2, <2>3, FS_AddElement
  <2>6. Cardinality(before(a) \cup {a}) <= Cardinality(before(b))
    BY <2>1, <2>3, FS_Subset
  <2>7. Cardinality(before(a)) \in Nat /\ Cardinality(before(b)) \in Nat
    BY <2>3, FS_CardinalityType
  <2> QED
    BY <2>4, <2>5, <2>6, <2>7
<1>4. Rank(p, S) \in Nat
  <2>1. IsFiniteSet(before(p))
    BY <1>2, FS_Subset
  <2> QED
    BY <2>1, FS_CardinalityType DEF Rank
<1>5. p \in Nat /\ q \in Nat
  BY <1>1
<1> QED
  BY <1>3, <1>4, <1>5

LEMMA PairsAreOneToOne == ASSUME EpisodeTypeOK PROVE OneToOne
<1>1. log \in Seq(EventKinds) /\ Calls \subseteq DOMAIN log /\ Results \subseteq DOMAIN log
      /\ \A p \in DOMAIN log : p \in Nat
  BY DEF EpisodeTypeOK, Calls, Results
<1>2. ASSUME NEW S \in SUBSET DOMAIN log, NEW p \in Newest(S), NEW q \in Newest(S),
             log[p].id = log[q].id
      PROVE  p = q
  <2>1. p <= q /\ q <= p /\ p \in Nat /\ q \in Nat
    BY <1>1, <1>2 DEF Newest
  <2> QED
    BY <2>1
<1>3. \A S : \A p \in Newest(S) : log[p].id # None
  BY DEF Newest
<1>4. \A S : \A p \in Anonymous(S) : log[p].id = None
  BY DEF Anonymous
<1> SUFFICES ASSUME NEW b \in Calls, NEW c \in Calls, NEW r \in Results, NEW t \in Results,
                    Correlated(b, r), Correlated(c, t)
             PROVE  b = c <=> r = t
  BY DEF OneToOne
<1>5. CASE Named(b, r) /\ Named(c, t)
  <2>1. /\ b \in Newest(Calls) /\ c \in Newest(Calls) /\ r \in Newest(Results)
        /\ t \in Newest(Results) /\ log[b].id = log[r].id /\ log[c].id = log[t].id
    BY <1>5 DEF Named
  <2> QED
    BY <2>1, <1>1, <1>2
<1>6. CASE Ranked(b, r) /\ Ranked(c, t)
  <2>1. /\ b \in Anonymous(Calls) /\ c \in Anonymous(Calls) /\ r \in Anonymous(Results)
        /\ t \in Anonymous(Results) /\ log[b].name = log[r].name /\ log[c].name = log[t].name
        /\ Rank(b, Calls) = Rank(r, Results) /\ Rank(c, Calls) = Rank(t, Results)
    BY <1>6 DEF Ranked
  <2>2. b = c => r = t
    BY <2>1, <1>1, RanksDiffer
  <2>3. r = t => b = c
    BY <2>1, <1>1, RanksDiffer
  <2> QED
    BY <2>2, <2>3
<1>7. ASSUME NEW u \in Calls, NEW v \in Results, NEW x \in Calls, NEW y \in Results,
             Named(u, v), Ranked(x, y)
      PROVE  u # x /\ v # y
  BY <1>3, <1>4, <1>7 DEF Named, Ranked
<1> QED
  BY <1>5, <1>6, <1>7 DEF Correlated

(* The episodes of a session are its main chain, cut at turns and bounds;  *)
(* their labels are idempotent and monotone; calls and results are paired  *)
(* one to one.                                                             *)
THEOREM EpisodesAreSound == EpisodeSpec => []EpisodesSound
<1>1. ASSUME EpisodeInv PROVE EpisodesSound
  <2>1. Partitioned
    BY <1>1 DEF EpisodeInv, CutInto, Partitioned, ChainOf, MainChain
  <2>2. Bounded
    BY <1>1 DEF EpisodeInv, BoundedBy, Bounded
  <2>3. OneToOne
    BY <1>1, PairsAreOneToOne DEF EpisodeInv
  <2>4. Labelled
    <3> SUFFICES ASSUME NEW k \in DOMAIN Episodes
                 PROVE  LET E == EventsOf(Episodes[k].seq)
                        IN  /\ Refine(Tags(E), E) = Tags(E)
                            /\ \A n \in 1 .. Len(E) : Difficulty(SubSeq(E, 1, n)) <= Difficulty(E)
      BY DEF Labelled
    <3> DEFINE s == Episodes[k].seq
    <3>1. s \in Seq(Nat)
      <4>1. Episodes \in Seq(EpisodeSet)
        BY <1>1, EpisodesAreTyped DEF EpisodeInv
      <4>2. Episodes[k] \in EpisodeSet
        BY <4>1
      <4> QED
        BY <4>2 DEF EpisodeSet
    <3>2. \A i \in DOMAIN s : s[i] \in DOMAIN log
      BY <1>1 DEF EpisodeInv, CutInto, ChainOf
    <3>3. EventsOf(s) \in Seq(EventKinds)
      <4>1. log \in Seq(EventKinds) /\ \A p \in DOMAIN log : log[p] \in EventKinds
        BY <1>1 DEF EpisodeInv, EpisodeTypeOK
      <4>2. DOMAIN s = 1 .. Len(s) /\ Len(s) \in Nat
        BY <3>1
      <4>3. EventsOf(s) = [i \in 1 .. Len(s) |-> log[s[i]]]
        BY <4>2 DEF EventsOf
      <4>4. \A i \in 1 .. Len(s) : log[s[i]] \in EventKinds
        BY <3>2, <4>1, <4>2
      <4> HIDE DEF s
      <4> QED
        BY <4>2, <4>3, <4>4
    <3> HIDE DEF s
    <3> QED
      BY <3>3, RefiningIsIdempotent, DifficultyGrows DEF Tags, s
  <2> QED
    BY <2>1, <2>2, <2>3, <2>4 DEF EpisodesSound
<1> QED
  BY EpisodeInvariant, <1>1, PTL

-----------------------------------------------------------------------------
(* The calibration mix.  An admissible record has a mass, which its        *)
(* capabilities share.                                                     *)
LEMMA RecordWeighs ==
    ASSUME NEW r \in Records, Admitted(r)
    PROVE  /\ Mass(r) \in Nat /\ Share(r) \in Nat
           /\ Len(r.tags) \in Nat \ {0} /\ Len(r.tags) * Share(r) = Mass(r)
<1>1. r.tags \in Seq(Taxonomy) /\ Len(r.tags) * Share(r) = Mass(r)
  BY RecordAssumption
<1>2. Len(r.tags) \in Nat \ {0}
  BY <1>1 DEF Admitted
<1>3. r.weight \in Nat
  BY DEF Admitted
<1>4. Mass(r) \in Nat
  <2>1. CASE r.down = 0
    BY <1>3, <2>1 DEF Mass
  <2>2. CASE r.down # 0
    <3> DEFINE k == Unit * r.events
               d == (Unit - SpamWeight) * r.down
    <3>1. /\ r.down \in Nat \ {0} /\ r.events \in Nat \ {0} /\ r.down <= r.events
          /\ Unit \in Nat \ {0} /\ Unit - SpamWeight \in 0 .. Unit
      BY <2>2, RatioAssumption DEF Admitted
    <3>2. k \in Nat \ {0} /\ d \in Nat
      BY <3>1
    <3>3. d <= k
      <4>1. \A a, b, p, q \in Nat : a <= b /\ p <= q => a * p <= b * q
        OBVIOUS
      <4> QED
        BY <4>1, <3>1
    <3>4. r.weight * (Unit - SpamWeight) * r.down = r.weight * d /\ r.weight * d \in Nat
      BY <1>3, <3>1, <3>2
    <3>5. k * Lost(r) = r.weight * d
      BY <3>1, <3>4, RecordAssumption
    <3>6. Lost(r) \in Int
      BY <3>2, <3>4 DEF Lost
    <3> HIDE DEF k, d
    <3>7. Lost(r) <= r.weight
      <4>1. r.weight * d <= k * r.weight
        <5>1. \A a, b, c \in Nat : a <= b => c * a <= b * c
          OBVIOUS
        <5> QED
          BY <5>1, <1>3, <3>2, <3>3
      <4>2. \A b \in Nat \ {0} : \A x, y \in Int : b * x <= b * y => x <= y
        OBVIOUS
      <4> QED
        BY <4>1, <4>2, <3>2, <3>5, <3>6, <1>3
    <3> QED
      BY <1>3, <2>2, <3>6, <3>7 DEF Mass
  <2> QED
    BY <2>1, <2>2
<1>5. Share(r) \in Nat
  <2>1. Share(r) \in Int
    BY <1>2, <1>4 DEF Share
  <2>2. \A n \in Nat \ {0} : \A x \in Int : n * x >= 0 => x >= 0
    OBVIOUS
  <2> QED
    BY <1>1, <1>2, <1>4, <2>1, <2>2
<1> QED
  BY <1>1, <1>2, <1>4, <1>5

(* What a record adds to the cells together is its mass.                   *)
LEMMA MassIsSplit ==
    ASSUME NEW r \in Records, Admitted(r), r.split # Withheld,
           NEW w, \A c \in Cells : w[c] = IF InCell(c, r) THEN Share(r) ELSE 0
    PROVE  SumFunctionOnSet(w, Cells) = Mass(r)
<1> DEFINE n == Len(r.tags)
           mine == {c \in Cells : InCell(c, r)}
           h == [i \in 1 .. n |-> <<r.split, r.tags[i]>>]
           each == [i \in 1 .. n |-> Share(r)]
<1>1. /\ Share(r) \in Nat /\ n \in Nat /\ n * Share(r) = Mass(r)
      /\ r.tags \in Seq(Taxonomy) /\ DOMAIN r.tags = 1 .. n
  BY RecordWeighs, RecordAssumption
<1>2. IsFiniteSet(Cells)
  BY RatioAssumption, FS_Product, FS_Subset DEF Cells
<1>3. Matches(h, 1 .. n, mine)
  <2>1. \A i \in 1 .. n : h[i] \in mine
    BY <1>1 DEF Admitted, Cells, InCell
  <2>2. \A i, j \in 1 .. n : h[i] = h[j] => i = j
    BY <1>1 DEF Admitted
  <2>3. ASSUME NEW c \in mine PROVE \E i \in 1 .. n : h[i] = c
    BY <1>1, <2>3 DEF InCell, Cells
  <2> HIDE DEF h, mine
  <2> QED
    BY <2>1, <2>2, <2>3 DEF Matches
<1>4. IsFiniteSet(1 .. n) /\ Cardinality(1 .. n) = n
  <2> HIDE DEF n
  <2> QED
    BY <1>1, FS_Interval
<1>5. SumFunctionOnSet(each, 1 .. n) = SumFunctionOnSet(w, mine)
  <2>1. \A i \in 1 .. n : each[i] \in Int /\ each[i] = w[h[i]]
    <3>1. \A i \in 1 .. n : h[i] \in mine
      BY <1>3 DEF Matches
    <3>2. \A c \in mine : w[c] = Share(r)
      OBVIOUS
    <3>3. \A i \in 1 .. n : each[i] = Share(r)
      OBVIOUS
    <3> HIDE DEF h, mine, each
    <3> QED
      BY <1>1, <3>1, <3>2, <3>3
  <2> DEFINE D == 1 .. n
  <2>2. IsFiniteSet(D) /\ Matches(h, D, mine) /\ \A i \in D : each[i] \in Int /\ each[i] = w[h[i]]
    BY <1>3, <1>4, <2>1
  <2>3. SumFunctionOnSet(each, D) = SumFunctionOnSet(w, mine)
    <3> HIDE DEF h, mine, each, D
    <3> QED
      BY <2>2, SumMatched
  <2> QED
    BY <2>3
<1>6. SumFunctionOnSet(each, 1 .. n) = n * Share(r)
  <2>1. \A i \in 1 .. n : each[i] = Share(r)
    OBVIOUS
  <2> HIDE DEF each
  <2> QED
    BY <1>1, <1>4, <2>1, SumOfEqual
<1>7. SumFunctionOnSet(w, Cells) = SumFunctionOnSet(w, mine)
  <2>1. /\ mine \in SUBSET Cells /\ \A c \in Cells : w[c] \in Int
        /\ \A c \in Cells \ mine : w[c] = 0
    BY <1>1
  <2> HIDE DEF mine
  <2> QED
    BY <1>2, <2>1, SumOfSupport
<1> QED
  BY <1>1, <1>5, <1>6, <1>7

MixTypeOK ==
    /\ fold \in Seq(Records)
    /\ cells \in [Cells -> [episodes : Nat, mass : Nat]]
    /\ totals \in [records : Nat, mass : Nat, left : Nat, leftMass : Nat]
    /\ outcome \in {"folding", "refused", "built"}
MixInv == MixTypeOK /\ MixConserved

LEMMA FoldIsFinite ==
    ASSUME MixTypeOK
    PROVE  /\ IsFiniteSet(Folded) /\ Folded \subseteq DOMAIN fold
           /\ \A i \in Folded : fold[i] \in Records /\ Admitted(fold[i])
           /\ \A i \in Folded : Shares[i] = Share(fold[i]) /\ Shares[i] \in Nat
           /\ \A i \in Folded : Masses[i] = Mass(fold[i]) /\ Masses[i] \in Nat
           /\ \A c : IsFiniteSet(Sources(c)) /\ Sources(c) \subseteq Folded
           /\ IsFiniteSet(Cells)
<1>1. DOMAIN fold = 1 .. Len(fold) /\ Len(fold) \in Nat /\ \A i \in DOMAIN fold : fold[i] \in Records
  BY DEF MixTypeOK
<1>2. IsFiniteSet(DOMAIN fold)
  BY <1>1, FS_Interval
<1>3. Folded \subseteq DOMAIN fold /\ \A c : Sources(c) \subseteq Folded
  BY DEF Folded, Sources
<1>4. IsFiniteSet(Folded)
  BY <1>2, <1>3, FS_Subset
<1>5. \A c : IsFiniteSet(Sources(c))
  BY <1>3, <1>4, FS_Subset
<1>6. \A i \in Folded : fold[i] \in Records /\ Admitted(fold[i])
  BY <1>1 DEF Folded
<1>7. \A i \in Folded : Share(fold[i]) \in Nat /\ Mass(fold[i]) \in Nat
  BY <1>6, RecordWeighs
<1>8. IsFiniteSet(Cells)
  BY RatioAssumption, FS_Product, FS_Subset DEF Cells
<1> QED
  BY <1>3, <1>4, <1>5, <1>6, <1>7, <1>8 DEF Shares, Masses

(* The fold grows by a record r.                                           *)
LEMMA FoldGrows ==
    ASSUME MixTypeOK, NEW r \in Records, fold' = Append(fold, r)
    PROVE  LET n == Len(fold) + 1
               new == IF Admitted(r) THEN {n} ELSE {}
           IN  /\ n \notin Folded /\ fold' \in Seq(Records) /\ fold'[n] = r
               /\ \A i \in DOMAIN fold : fold'[i] = fold[i]
               /\ Folded' = Folded \cup new
               /\ \A c : Sources(c)' = Sources(c) \cup {i \in new : InCell(c, r)}
<1> DEFINE n == Len(fold) + 1
<1>1. /\ DOMAIN fold = 1 .. Len(fold) /\ Len(fold) \in Nat /\ n \notin DOMAIN fold
      /\ DOMAIN fold' = DOMAIN fold \cup {n} /\ fold'[n] = r /\ fold' \in Seq(Records)
      /\ \A i \in DOMAIN fold : fold'[i] = fold[i]
  BY DEF MixTypeOK
<1>2. Folded' = {i \in DOMAIN fold' : Admitted(fold'[i])}
  BY DEF Folded, Admitted
<1>3. Folded' = Folded \cup (IF Admitted(r) THEN {n} ELSE {})
  BY <1>1, <1>2 DEF Folded
<1>4. ASSUME NEW c PROVE Sources(c)' = {i \in Folded' : InCell(c, fold'[i])}
  BY DEF Sources, InCell
<1>5. ASSUME NEW c
      PROVE  Sources(c)' = Sources(c) \cup {i \in IF Admitted(r) THEN {n} ELSE {} : InCell(c, r)}
  <2>1. \A i \in Folded : fold'[i] = fold[i]
    BY <1>1 DEF Folded
  <2> QED
    BY <1>1, <1>3, <1>4, <2>1 DEF Sources
<1>6. n \notin Folded
  BY <1>1 DEF Folded
<1> QED
  BY <1>1, <1>3, <1>5, <1>6

(* What cells and masses make of the new record.                           *)
LEMMA SumsGrow ==
    ASSUME MixTypeOK, NEW r \in Records, fold' = Append(fold, r), MixTypeOK', Admitted(r)
    PROVE  /\ SumFunctionOnSet(Masses, Folded)' = SumFunctionOnSet(Masses, Folded) + Mass(r)
           /\ Cardinality(Folded)' = Cardinality(Folded) + 1
           /\ \A c : IF InCell(c, r)
                THEN /\ Cardinality(Sources(c))' = Cardinality(Sources(c)) + 1
                     /\ SumFunctionOnSet(Shares, Sources(c))'
                          = SumFunctionOnSet(Shares, Sources(c)) + Share(r)
                ELSE /\ Cardinality(Sources(c))' = Cardinality(Sources(c))
                     /\ SumFunctionOnSet(Shares, Sources(c))'
                          = SumFunctionOnSet(Shares, Sources(c))
<1> DEFINE n == Len(fold) + 1
<1>1. /\ n \notin Folded /\ fold'[n] = r /\ \A i \in DOMAIN fold : fold'[i] = fold[i]
      /\ Folded' = Folded \cup {n}
      /\ \A c : Sources(c)' = Sources(c) \cup {i \in {n} : InCell(c, r)}
  BY FoldGrows
<1>2. /\ IsFiniteSet(Folded) /\ Folded \subseteq DOMAIN fold
      /\ \A i \in Folded : Shares[i] = Share(fold[i]) /\ Shares[i] \in Nat
      /\ \A i \in Folded : Masses[i] = Mass(fold[i]) /\ Masses[i] \in Nat
      /\ \A c : IsFiniteSet(Sources(c)) /\ Sources(c) \subseteq Folded
  BY FoldIsFinite
<1>3. /\ Shares' = [i \in Folded' |-> Share(fold'[i])]
      /\ Masses' = [i \in Folded' |-> Mass(fold'[i])]
  BY DEF Shares, Masses, Share, Mass, Lost
<1>4. /\ \A i \in Folded : Shares'[i] = Shares[i] /\ Masses'[i] = Masses[i]
      /\ Shares'[n] = Share(r) /\ Masses'[n] = Mass(r)
      /\ \A i \in Folded' : Shares'[i] \in Int /\ Masses'[i] \in Int
  <2>1. \A i \in Folded : fold'[i] = fold[i]
    BY <1>1, <1>2
  <2>2. \A i \in Folded' : Shares'[i] = Share(fold'[i]) /\ Masses'[i] = Mass(fold'[i])
    BY <1>3
  <2>3. Share(r) \in Nat /\ Mass(r) \in Nat
    BY RecordWeighs
  <2> HIDE DEF n
  <2>4. \A i \in Folded : /\ Shares'[i] = Shares[i] /\ Masses'[i] = Masses[i]
                        /\ Shares'[i] \in Int /\ Masses'[i] \in Int
    <3> SUFFICES ASSUME NEW i \in Folded
                 PROVE  /\ Shares'[i] = Shares[i] /\ Masses'[i] = Masses[i]
                        /\ Shares'[i] \in Int /\ Masses'[i] \in Int
      OBVIOUS
    <3>1. i \in Folded' /\ fold'[i] = fold[i]
      BY <1>1, <2>1
    <3>2. Shares'[i] = Share(fold[i]) /\ Masses'[i] = Mass(fold[i])
      BY <3>1, <2>2
    <3> QED
      BY <3>2, <1>2
  <2>5. Shares'[n] = Share(r) /\ Masses'[n] = Mass(r)
    BY <1>1, <2>2
  <2> QED
    BY <1>1, <2>3, <2>4, <2>5
<1>5. /\ SumFunctionOnSet(Masses', Folded') = SumFunctionOnSet(Masses', Folded) + Mass(r)
      /\ SumFunctionOnSet(Masses', Folded) = SumFunctionOnSet(Masses, Folded)
      /\ Cardinality(Folded') = Cardinality(Folded) + 1
  <2> HIDE DEF n
  <2>1. SumFunctionOnSet(Masses', Folded \cup {n}) = SumFunctionOnSet(Masses', Folded) + Masses'[n]
    BY <1>1, <1>2, <1>4, SumWith
  <2>2. SumFunctionOnSet(Masses', Folded) = SumFunctionOnSet(Masses, Folded)
    BY <1>2, <1>4, SumSame
  <2> QED
    BY <1>1, <1>2, <1>4, <2>1, <2>2, FS_AddElement
<1>6. ASSUME NEW c
      PROVE  IF InCell(c, r)
                THEN /\ Cardinality(Sources(c)') = Cardinality(Sources(c)) + 1
                     /\ SumFunctionOnSet(Shares', Sources(c)')
                          = SumFunctionOnSet(Shares, Sources(c)) + Share(r)
                ELSE /\ Cardinality(Sources(c)') = Cardinality(Sources(c))
                     /\ SumFunctionOnSet(Shares', Sources(c)')
                          = SumFunctionOnSet(Shares, Sources(c))
  <2> DEFINE S == Sources(c)
  <2>1. IsFiniteSet(S) /\ S \subseteq Folded /\ n \notin S
    BY <1>1, <1>2
  <2>2. SumFunctionOnSet(Shares', S) = SumFunctionOnSet(Shares, S)
    <3> HIDE DEF S
    <3> QED
      BY <2>1, <1>4, SumSame
  <2>3. CASE ~InCell(c, r)
    <3>1. Sources(c)' = S
      BY <1>1, <2>3
    <3> QED
      BY <3>1, <2>2, <2>3
  <2>4. CASE InCell(c, r)
    <3>1. Sources(c)' = S \cup {n}
      BY <1>1, <2>4
    <3>2. \A i \in S \cup {n} : Shares'[i] \in Int
      BY <2>1, <1>1, <1>4
    <3>3. Shares'[n] = Share(r)
      BY <1>4
    <3> HIDE DEF S, n
    <3>4. SumFunctionOnSet(Shares', S \cup {n}) = SumFunctionOnSet(Shares', S) + Shares'[n]
      BY <2>1, <3>2, SumWith
    <3>5. Cardinality(S \cup {n}) = Cardinality(S) + 1
      BY <2>1, FS_AddElement
    <3> QED
      BY <3>1, <3>3, <3>4, <3>5, <2>2, <2>4 DEF S
  <2> QED
    BY <2>3, <2>4
<1> QED
  BY <1>5, <1>6

LEMMA CountInKeeps == ASSUME MixInv, NEW r \in Records, CountIn(r) PROVE MixInv'
<1>1. /\ MixTypeOK /\ CellsHonest /\ MassKept /\ outcome = "folding"
      /\ fold' = Append(fold, r) /\ Admitted(r) /\ r.split # Withheld
      /\ totals' = [totals EXCEPT !.records = @ + 1, !.mass = @ + Mass(r)]
      /\ cells' = [c \in Cells |->
                     IF InCell(c, r)
                       THEN [episodes |-> cells[c].episodes + 1,
                             mass |-> cells[c].mass + Share(r)]
                       ELSE cells[c]]
      /\ outcome' = outcome /\ mix' = mix
  BY DEF CountIn, Taking, MixInv, MixConserved
<1>2. Mass(r) \in Nat /\ Share(r) \in Nat
  BY <1>1, RecordWeighs
<1>3. fold' \in Seq(Records)
  BY <1>1, FoldGrows
<1>4. MixTypeOK'
  <2>1. cells' \in [Cells -> [episodes : Nat, mass : Nat]]
    BY <1>1, <1>2 DEF MixTypeOK
  <2>2. totals' \in [records : Nat, mass : Nat, left : Nat, leftMass : Nat]
    <3>1. totals' = [records |-> totals.records + 1, mass |-> totals.mass + Mass(r),
                     left |-> totals.left, leftMass |-> totals.leftMass]
      BY <1>1 DEF MixTypeOK
    <3> QED
      BY <1>1, <1>2, <3>1 DEF MixTypeOK
  <2> QED
    BY <1>1, <1>3, <2>1, <2>2 DEF MixTypeOK
<1>5. /\ SumFunctionOnSet(Masses, Folded)' = SumFunctionOnSet(Masses, Folded) + Mass(r)
      /\ Cardinality(Folded)' = Cardinality(Folded) + 1
      /\ \A c : IF InCell(c, r)
           THEN /\ Cardinality(Sources(c))' = Cardinality(Sources(c)) + 1
                /\ SumFunctionOnSet(Shares, Sources(c))'
                     = SumFunctionOnSet(Shares, Sources(c)) + Share(r)
           ELSE /\ Cardinality(Sources(c))' = Cardinality(Sources(c))
                /\ SumFunctionOnSet(Shares, Sources(c))' = SumFunctionOnSet(Shares, Sources(c))
  BY <1>1, <1>4, SumsGrow
<1>6. CellsHonest'
  <2> SUFFICES ASSUME NEW c \in Cells
               PROVE  /\ cells'[c].episodes = Cardinality(Sources(c))'
                      /\ cells'[c].mass = SumFunctionOnSet(Shares, Sources(c))'
    BY DEF CellsHonest, Cells
  <2>1. /\ cells[c].episodes = Cardinality(Sources(c))
        /\ cells[c].mass = SumFunctionOnSet(Shares, Sources(c))
    BY <1>1 DEF CellsHonest
  <2>2. cells'[c] = IF InCell(c, r)
                      THEN [episodes |-> cells[c].episodes + 1,
                            mass |-> cells[c].mass + Share(r)]
                      ELSE cells[c]
    BY <1>1
  <2> QED
    BY <1>5, <2>1, <2>2
<1>7. MassKept'
  <2> DEFINE w == [c \in Cells |-> IF InCell(c, r) THEN Share(r) ELSE 0]
  <2>1. SumFunctionOnSet(w, Cells) = Mass(r)
    BY <1>1, MassIsSplit
  <2>2. \A c \in Cells : /\ CellMass[c] \in Int /\ w[c] \in Int /\ CellMass'[c] \in Int
                        /\ CellMass'[c] = CellMass[c] + w[c]
    <3>1. CellMass' = [c \in Cells |-> cells'[c].mass]
      BY DEF CellMass, Cells
    <3> SUFFICES ASSUME NEW c \in Cells
                 PROVE  /\ CellMass[c] \in Int /\ w[c] \in Int /\ CellMass'[c] \in Int
                        /\ CellMass'[c] = CellMass[c] + w[c]
      OBVIOUS
    <3>2. CellMass[c] = cells[c].mass /\ cells[c].mass \in Nat
      BY <1>1 DEF CellMass, MixTypeOK
    <3>3. CellMass'[c] = IF InCell(c, r) THEN cells[c].mass + Share(r) ELSE cells[c].mass
      BY <1>1, <3>1
    <3> QED
      BY <1>2, <3>2, <3>3
  <2>3. IsFiniteSet(Cells)
    BY <1>1, FoldIsFinite
  <2>4. SumFunctionOnSet(CellMass', Cells) = SumFunctionOnSet(CellMass, Cells) + Mass(r)
    <3> HIDE DEF w
    <3>1. SumFunctionOnSet(CellMass', Cells) = SumFunctionOnSet(CellMass, Cells)
                                                 + SumFunctionOnSet(w, Cells)
      BY <2>2, <2>3, SumPlus
    <3> QED
      BY <2>1, <3>1
  <2>5. SumFunctionOnSet(CellMass, Cells)' = SumFunctionOnSet(CellMass', Cells)
    BY DEF Cells
  <2>6. /\ totals'.mass = totals.mass + Mass(r) /\ totals'.records = totals.records + 1
        /\ totals'.left = totals.left /\ totals'.leftMass = totals.leftMass
        /\ totals.mass \in Nat /\ totals.records \in Nat /\ totals.left \in Nat
        /\ totals.leftMass \in Nat
    BY <1>1 DEF MixTypeOK
  <2>7. /\ SumFunctionOnSet(CellMass, Cells) = totals.mass
        /\ totals.mass + totals.leftMass = SumFunctionOnSet(Masses, Folded)
        /\ totals.records + totals.left = Cardinality(Folded)
    BY <1>1 DEF MassKept
  <2>8. /\ SumFunctionOnSet(CellMass, Cells)' = totals'.mass
        /\ totals'.mass + totals'.leftMass = SumFunctionOnSet(Masses, Folded)'
        /\ totals'.records + totals'.left = Cardinality(Folded)'
    BY <1>2, <1>5, <2>4, <2>5, <2>6, <2>7
  <2> QED
    BY <2>8 DEF MassKept
<1>8. TargetsMet'
  BY <1>1 DEF TargetsMet
<1> QED
  BY <1>4, <1>6, <1>7, <1>8 DEF MixInv, MixConserved

LEMMA LeaveOutKeeps == ASSUME MixInv, NEW r \in Records, LeaveOut(r) PROVE MixInv'
<1>1. /\ MixTypeOK /\ CellsHonest /\ MassKept /\ outcome = "folding"
      /\ fold' = Append(fold, r) /\ Admitted(r) /\ r.split = Withheld
      /\ totals' = [totals EXCEPT !.left = @ + 1, !.leftMass = @ + Mass(r)]
      /\ cells' = cells /\ outcome' = outcome /\ mix' = mix
  BY DEF LeaveOut, Taking, MixInv, MixConserved
<1>2. Mass(r) \in Nat
  BY <1>1, RecordWeighs
<1>3. fold' \in Seq(Records)
  BY <1>1, FoldGrows
<1>4. MixTypeOK'
  <2>1. totals' = [records |-> totals.records, mass |-> totals.mass,
                   left |-> totals.left + 1, leftMass |-> totals.leftMass + Mass(r)]
    BY <1>1 DEF MixTypeOK
  <2>2. totals' \in [records : Nat, mass : Nat, left : Nat, leftMass : Nat]
    BY <1>1, <1>2, <2>1 DEF MixTypeOK
  <2> QED
    BY <1>1, <1>3, <2>2 DEF MixTypeOK, Cells
<1>5. /\ SumFunctionOnSet(Masses, Folded)' = SumFunctionOnSet(Masses, Folded) + Mass(r)
      /\ Cardinality(Folded)' = Cardinality(Folded) + 1
      /\ \A c : ~InCell(c, r) =>
           /\ Cardinality(Sources(c))' = Cardinality(Sources(c))
           /\ SumFunctionOnSet(Shares, Sources(c))' = SumFunctionOnSet(Shares, Sources(c))
  BY <1>1, <1>4, SumsGrow
<1>6. CellsHonest'
  <2> SUFFICES ASSUME NEW c \in Cells
               PROVE  /\ cells'[c].episodes = Cardinality(Sources(c))'
                      /\ cells'[c].mass = SumFunctionOnSet(Shares, Sources(c))'
    BY DEF CellsHonest, Cells
  <2>1. ~InCell(c, r)
    BY <1>1 DEF InCell, Cells
  <2> QED
    BY <1>1, <1>5, <2>1 DEF CellsHonest
<1>7. MassKept'
  <2>1. CellMass' = CellMass
    BY <1>1 DEF CellMass, Cells
  <2>2. SumFunctionOnSet(CellMass, Cells)' = SumFunctionOnSet(CellMass, Cells)
    BY <2>1 DEF Cells
  <2>3. /\ totals'.mass = totals.mass /\ totals'.records = totals.records
        /\ totals'.left = totals.left + 1 /\ totals'.leftMass = totals.leftMass + Mass(r)
        /\ totals.mass \in Nat /\ totals.records \in Nat /\ totals.left \in Nat
        /\ totals.leftMass \in Nat
    BY <1>1 DEF MixTypeOK
  <2>4. /\ SumFunctionOnSet(CellMass, Cells) = totals.mass
        /\ totals.mass + totals.leftMass = SumFunctionOnSet(Masses, Folded)
        /\ totals.records + totals.left = Cardinality(Folded)
    BY <1>1 DEF MassKept
  <2>5. /\ SumFunctionOnSet(CellMass, Cells)' = totals'.mass
        /\ totals'.mass + totals'.leftMass = SumFunctionOnSet(Masses, Folded)'
        /\ totals'.records + totals'.left = Cardinality(Folded)'
    BY <1>2, <1>5, <2>2, <2>3, <2>4
  <2> QED
    BY <2>5 DEF MassKept
<1>8. TargetsMet'
  BY <1>1 DEF TargetsMet
<1> QED
  BY <1>4, <1>6, <1>7, <1>8 DEF MixInv, MixConserved

LEMMA RefuseFileKeeps == ASSUME MixInv, NEW r \in Records, RefuseFile(r) PROVE MixInv'
<1>1. /\ MixTypeOK /\ CellsHonest /\ MassKept
      /\ fold' = Append(fold, r) /\ ~Admitted(r)
      /\ totals' = totals /\ cells' = cells /\ outcome' = "refused"
  BY DEF RefuseFile, Taking, MixInv, MixConserved
<1>2. /\ fold' \in Seq(Records) /\ \A i \in DOMAIN fold : fold'[i] = fold[i]
      /\ Folded' = Folded /\ \A c : Sources(c)' = Sources(c)
  BY <1>1, FoldGrows
<1>3. MixTypeOK'
  BY <1>1, <1>2 DEF MixTypeOK
<1>4. Shares' = Shares /\ Masses' = Masses
  <2>1. /\ Shares' = [i \in Folded' |-> Share(fold'[i])]
        /\ Masses' = [i \in Folded' |-> Mass(fold'[i])]
    BY DEF Shares, Masses, Share, Mass, Lost
  <2>2. \A i \in Folded : fold'[i] = fold[i]
    BY <1>2 DEF Folded
  <2> QED
    BY <1>2, <2>1, <2>2 DEF Shares, Masses
<1>5. CellMass' = CellMass
  BY <1>1 DEF CellMass, Cells
<1>6. CellsHonest'
  BY <1>1, <1>2, <1>4 DEF CellsHonest, Cells
<1>7. MassKept'
  BY <1>1, <1>2, <1>4, <1>5 DEF MassKept, Cells
<1>8. TargetsMet'
  BY <1>1 DEF TargetsMet
<1> QED
  BY <1>3, <1>6, <1>7, <1>8 DEF MixInv, MixConserved

LEMMA ConcludeKeeps == ASSUME MixInv, Conclude PROVE MixInv'
<1>1. /\ MixTypeOK /\ CellsHonest /\ MassKept
      /\ fold' = fold /\ totals' = totals /\ cells' = cells
      /\ outcome' \in {"refused", "built"}
      /\ outcome' = "built" =>
           mix' = [c \in {d \in Cells : Reported(d)} |-> Weighting(c)]
  BY DEF Conclude, MixInv, MixConserved
<1>2. /\ Folded' = Folded /\ Shares' = Shares /\ Masses' = Masses /\ CellMass' = CellMass
      /\ \A c : Sources(c)' = Sources(c)
  BY <1>1 DEF Folded, Shares, Masses, CellMass, Sources, Admitted, Share, Mass, Lost, InCell, Cells
<1>3. MixTypeOK'
  BY <1>1 DEF MixTypeOK, Cells
<1>4. CellsHonest'
  BY <1>1, <1>2 DEF CellsHonest, Cells
<1>5. MassKept'
  BY <1>1, <1>2 DEF MassKept, Cells
<1>6. TargetsMet'
  <2> SUFFICES ASSUME outcome' = "built", NEW c \in Cells
               PROVE  /\ Target(c) > 0 => c \in DOMAIN mix'
                      /\ c \in DOMAIN mix' /\ Target(c) >= 0 =>
                           IF mix'[c] = Unreachable
                             THEN \A i \in Sources(c) : Mass(fold[i]) = 0
                             ELSE /\ mix'[c][2] > 0
                                  /\ mix'[c][1] * SumFunctionOnSet(Shares, Sources(c))
                                       = Target(c) * totals.mass * mix'[c][2]
    BY <1>1, <1>2 DEF TargetsMet, Cells, Target, Mass, Lost
  <2>1. /\ mix' = [d \in {e \in Cells : Reported(e)} |-> Weighting(d)]
        /\ cells[c].mass = SumFunctionOnSet(Shares, Sources(c)) /\ cells[c].mass \in Nat
        /\ totals.mass \in Nat
    BY <1>1 DEF CellsHonest, MixTypeOK
  <2>2. Target(c) > 0 => c \in DOMAIN mix'
    BY <2>1 DEF Reported
  <2>3. Target(c) \in Int
    BY RatioAssumption DEF Target, Cells
  <2>4. ASSUME c \in DOMAIN mix', Target(c) >= 0
        PROVE  IF mix'[c] = Unreachable
                 THEN \A i \in Sources(c) : Mass(fold[i]) = 0
                 ELSE /\ mix'[c][2] > 0
                      /\ mix'[c][1] * SumFunctionOnSet(Shares, Sources(c))
                           = Target(c) * totals.mass * mix'[c][2]
    <3>1. mix'[c] = Weighting(c)
      BY <2>1, <2>4
    <3>2. ASSUME cells[c].mass = 0, NEW i \in Sources(c) PROVE Mass(fold[i]) = 0
      <4>1. /\ IsFiniteSet(Sources(c)) /\ Sources(c) \subseteq Folded
            /\ \A j \in Sources(c) : Shares[j] \in Nat /\ Shares[j] = Share(fold[j])
            /\ fold[i] \in Records /\ Admitted(fold[i])
        BY <1>1, <3>2, FoldIsFinite
      <4>2. SumFunctionOnSet(Shares, Sources(c))
              = Shares[i] + SumFunctionOnSet(Shares, Sources(c) \ {i})
        BY <3>2, <4>1, SumAdd
      <4>3. SumFunctionOnSet(Shares, Sources(c) \ {i}) \in Nat
        <5>1. IsFiniteSet(Sources(c) \ {i})
          BY <4>1, FS_Subset
        <5> QED
          BY <4>1, <5>1, SumIsNatural
      <4>4. Share(fold[i]) = 0
        <5>1. Shares[i] \in Nat /\ Shares[i] = Share(fold[i])
          BY <3>2, <4>1
        <5>2. SumFunctionOnSet(Shares, Sources(c)) = 0
          BY <2>1, <3>2
        <5> QED
          BY <4>2, <4>3, <5>1, <5>2
      <4> QED
        BY <4>1, <4>4, RecordWeighs
    <3>3. CASE cells[c].mass > 0
      <4>1. Weighting(c) = <<Target(c) * totals.mass, cells[c].mass>>
        BY <3>3 DEF Weighting
      <4>2. mix'[c][1] = Target(c) * totals.mass /\ mix'[c][2] = cells[c].mass
        BY <3>1, <4>1
      <4>3. mix'[c] # Unreachable
        BY <3>3, <4>2 DEF Unreachable
      <4> QED
        BY <2>1, <3>3, <4>2, <4>3
    <3>4. CASE cells[c].mass = 0 /\ Target(c) > 0
      <4>1. Weighting(c) = Unreachable
        BY <3>4 DEF Weighting
      <4> QED
        BY <3>1, <3>2, <3>4, <4>1
    <3>5. CASE cells[c].mass = 0 /\ Target(c) = 0
      <4>1. Weighting(c) = <<0, 1>>
        BY <3>5 DEF Weighting
      <4>2. mix'[c][1] = 0 /\ mix'[c][2] = 1 /\ mix'[c] # Unreachable
        BY <3>1, <4>1 DEF Unreachable
      <4>3. /\ SumFunctionOnSet(Shares, Sources(c)) = 0
            /\ Target(c) * totals.mass * mix'[c][2] = 0
        BY <2>1, <3>5, <4>2
      <4> QED
        BY <4>2, <4>3
    <3> QED
      BY <2>1, <2>3, <2>4, <3>3, <3>4, <3>5
  <2> QED
    BY <2>2, <2>4
<1> QED
  BY <1>1, <1>3, <1>4, <1>5, <1>6 DEF MixInv, MixConserved

LEMMA MixInitially == MixInit => MixInv
<1> SUFFICES ASSUME MixInit PROVE MixInv
  OBVIOUS
<1>1. /\ fold = <<>> /\ cells = [c \in Cells |-> [episodes |-> 0, mass |-> 0]]
      /\ totals = [records |-> 0, mass |-> 0, left |-> 0, leftMass |-> 0]
      /\ outcome = "folding"
  BY DEF MixInit
<1>2. MixTypeOK
  BY <1>1 DEF MixTypeOK
<1>3. Folded = {} /\ \A c : Sources(c) = {}
  BY <1>1 DEF Folded, Sources
<1>4. CellsHonest
  BY <1>1, <1>3, SumOfNothing, FS_EmptySet DEF CellsHonest
<1>5. SumFunctionOnSet(CellMass, Cells) = 0
  <2>1. IsFiniteSet(Cells) /\ \A c \in Cells : CellMass[c] = 0
    BY <1>1, <1>2, FoldIsFinite DEF CellMass
  <2>2. SumFunctionOnSet(CellMass, Cells) = Cardinality(Cells) * 0
    BY <2>1, SumOfEqual
  <2> QED
    BY <2>1, <2>2, FS_CardinalityType
<1>6. MassKept
  BY <1>1, <1>3, <1>5, SumOfNothing, FS_EmptySet DEF MassKept
<1>7. TargetsMet
  BY <1>1 DEF TargetsMet
<1> QED
  BY <1>2, <1>4, <1>6, <1>7 DEF MixInv, MixConserved

LEMMA MixRests == ASSUME MixInv, UNCHANGED mixVars PROVE MixInv'
<1>1. fold' = fold /\ cells' = cells /\ totals' = totals /\ outcome' = outcome /\ mix' = mix
  BY DEF mixVars
<1>2. /\ Folded' = Folded /\ Shares' = Shares /\ Masses' = Masses /\ CellMass' = CellMass
      /\ \A c : Sources(c)' = Sources(c)
  BY <1>1 DEF Folded, Shares, Masses, CellMass, Sources, Admitted, Share, Mass, Lost, InCell, Cells
<1>3. TargetsMet'
  BY <1>1, <1>2 DEF MixInv, MixConserved, TargetsMet, Cells, Target, Mass, Lost, Unreachable
<1> QED
  BY <1>1, <1>2, <1>3 DEF MixInv, MixTypeOK, MixConserved, CellsHonest, MassKept, Cells

(* The distribution conserves mass, leaves golden out and weighs the cells *)
(* to their targets, whatever the records.                                 *)
THEOREM MixIsConserved == MixSpec => []MixConserved
<1>1. MixInv /\ [MixNext]_mixVars => MixInv'
  BY RefuseFileKeeps, LeaveOutKeeps, CountInKeeps, ConcludeKeeps, MixRests DEF MixNext
<1>2. MixInv => MixConserved
  BY DEF MixInv
<1> QED
  BY MixInitially, <1>1, <1>2, PTL DEF MixSpec
=============================================================================
