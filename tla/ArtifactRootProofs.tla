------------------------- MODULE ArtifactRootProofs -------------------------
(* Theorems about one artifact directory that is used by one command at a  *)
(* time, for any files, contents, arguments and event budgets.  Two        *)
(* commands overwrite each other's files: see the run of ArtifactRace.cfg. *)
EXTENDS ArtifactRoot, TLAPS

OneAtATime == \A p, q \in Procs : p = q
-----------------------------------------------------------------------------
Running == {"open", "fill", "readback", "enlist", "digest"} \cup Sidecars
Listing == Sidecars \cup {"digest"}

(* The files that a create has dealt with when it is at a step, and those  *)
(* of them that it has put in the root.                                    *)
Earlier(at) ==
    CASE at = "dataset"     -> {}
      [] at = "environment" -> {"dataset"}
      [] at = "input"       -> {"dataset", "environment"}
      [] at = "commands"    -> {"dataset", "environment", "input"}
      [] at = "payload"     -> {"dataset", "environment", "input", "commands"}
      [] OTHER              -> Copied \cup Tool
Placed(q) == q.args.inplace \cup (Earlier(q.at) \cap (q.args.declared \cup Tool))

(* The arguments are those of a command, a step copies what they name, a   *)
(* build has read the prune map, and a running command has no result yet.  *)
ArgsOK(q) ==
    /\ q.args.inplace \subseteq q.args.declared
    /\ q.at \in {"open", "fill", "readback"} => q.map \in Contents
    /\ q.at \in Copied => q.at \in q.args.declared
    /\ q.at # "idle" => q.result = "none"

(* Only the running command has a temporary file in the root, and it holds *)
(* what it is about to be renamed to.                                      *)
TempsOK(q) ==
    /\ q.at \notin Sidecars => q.temp = Absent
    /\ q.at # "idle" => \A t \in Temps : root[t] # Absent => t = q.temp
    /\ q.temp # Absent =>
          /\ ~InPlace(q)
          /\ root[q.temp] \in IF q.at \in Derived THEN {Manifest(q)} ELSE PlainFiles

(* A manifest is the one that was published last, and there is none while  *)
(* a command is writing.                                                   *)
ManifestOK ==
    /\ root["manifest"] \in {Absent, Partial, published}
    /\ \A p \in Procs : proc[p].at \in Running => root["manifest"] \in {Absent, Partial}

(* Without damage, the root holds exactly what the command has placed.     *)
PlacedOK(q) ==
    /\ q.at \in Running => root["manifest"] = Absent
    /\ q.at \in Running \ {"manifest"} => root["checksums"] = Absent
    /\ q.at \in Listing =>
          \A n \in Copied \cup Tool : root[n] # Absent <=> n \in Placed(q)
    /\ q.at \in Derived =>
          q.files = [n \in q.args.declared \cup Tool |-> root[n]]
    /\ q.at = "manifest" => root["checksums"] = Manifest(q)

(* Without damage and edits, a command will not be refused any more.       *)
EnvironmentOf(q) ==
    IF "environment" \in q.args.inplace \cup Earlier(q.at) THEN root["environment"]
    ELSE supplied["environment"]
AcceptedOK(q) ==
    /\ q.at \in Listing \cup {"verify"} =>
          /\ StageMet(q.args.kind, q.args.declared)
          /\ EnvironmentOf(q) \notin Secret
    /\ q.at = "environment" /\ q.temp # Absent => root[q.temp] = supplied["environment"]
    /\ q.at = "verify" =>
          /\ root["manifest"] \in Manifests
          /\ root["manifest"].args = q.args
          /\ DOMAIN root["manifest"].files = q.args.declared \cup Tool

ArtifactInv ==
    /\ TypeOK
    /\ ManifestOK
    /\ \A p \in Procs : ArgsOK(proc[p]) /\ TempsOK(proc[p])
    /\ spent["damage"] = 0 => CommitPoint /\ \A p \in Procs : PlacedOK(proc[p])
    /\ spent["damage"] = 0 /\ spent["edit"] = 0 =>
          /\ supplied \in [Copied -> Contents]
          /\ \A p \in Procs : AcceptedOK(proc[p])

-----------------------------------------------------------------------------
(* Names, files and listings.                                              *)
LEMMA NameFacts ==
    /\ Temps \cap (Copied \cup Tool \cup Derived) = {}
    /\ Listed \subseteq Entries /\ Entries \ Derived = Listed
    /\ Listed \ Temps = Copied \cup Tool
BY NameAssumption DEF Copied, Tool, Derived, Listed, Entries

LEMMA BytesDistinct ==
    /\ Absent \notin PlainFiles /\ Absent \notin Manifests /\ Absent \notin Temps
    /\ Partial \in PlainFiles /\ Contents \subseteq PlainFiles /\ Labels \subseteq PlainFiles
    /\ Absent \notin Contents /\ Absent \notin Secret
    /\ Partial # Absent /\ \A m \in Manifests : m \notin PlainFiles
BY NameAssumption, ArgsAssumption DEF PlainFiles

LEMMA ListingTyped ==
    ASSUME NEW D \in SUBSET Listed, NEW f \in [D -> PlainFiles]
    PROVE  f \in Listings
BY DEF Listings

LEMMA NoFilesTyped == NoFiles \in Listings
<1>1. NoFiles \in [{} -> PlainFiles]
  BY DEF NoFiles
<1> QED
  BY <1>1 DEF Listings

LEMMA NoArgsTyped == NoArgs \in Args /\ NoArgs.inplace = {}
<1>1. (CHOOSE l \in Labels : TRUE) \in Labels
  BY ArgsAssumption
<1> QED
  BY <1>1 DEF NoArgs, Args, Copied

LEMMA BuildArgsTyped ==
    ASSUME NEW l \in Labels
    PROVE  /\ BuildArgs(l) \in Args
           /\ BuildArgs(l).inplace = {"payload"} /\ BuildArgs(l).declared = Copied
BY DEF BuildArgs, Args, Copied

LEMMA DoneTyped ==
    ASSUME NEW r \in {"none", "ok", "failed"}
    PROVE  /\ Done(r) \in Processes
           /\ Done(r).at = "idle" /\ Done(r).temp = Absent /\ Done(r).args = NoArgs
BY NoFilesTyped, NoArgsTyped DEF Done, Processes, ProcSteps

LEMMA ManifestTyped ==
    ASSUME NEW q \in Processes
    PROVE  /\ Manifest(q) \in Manifests
           /\ Manifest(q).args = q.args /\ Manifest(q).files = q.files
BY DEF Manifest, Manifests, Processes

-----------------------------------------------------------------------------
(* What a step does to the process that takes it.                          *)
LEMMA ArgsTyped ==
    ASSUME NEW a \in Args
    PROVE  /\ "environment" \in a.declared /\ a.declared \subseteq Copied
           /\ a.inplace \subseteq Copied /\ a.label \in Labels
BY DEF Args

LEMMA ProcessTyped ==
    ASSUME NEW q \in Processes
    PROVE  /\ q.at \in ProcSteps /\ q.args \in Args /\ q.files \in Listings
           /\ q.temp \in {Absent} \cup Temps /\ q.map \in {Absent} \cup Contents
BY DEF Processes

LEMMA Assign ==
    ASSUME proc \in [Procs -> Processes], NEW p \in Procs, NEW q \in Processes,
           proc' = [proc EXCEPT ![p] = q]
    PROVE  proc' \in [Procs -> Processes] /\ proc'[p] = q
OBVIOUS

LEMMA Advanced ==
    ASSUME proc \in [Procs -> Processes], NEW p \in Procs, NEW step \in ProcSteps,
           Advance(p, step)
    PROVE  /\ proc' \in [Procs -> Processes]
           /\ proc'[p].at = step /\ proc'[p].temp = Absent
           /\ proc'[p].args = proc[p].args /\ proc'[p].files = proc[p].files
           /\ proc'[p].map = proc[p].map /\ proc'[p].result = proc[p].result
<1> DEFINE q == [proc[p] EXCEPT !.at = step, !.temp = Absent]
<1>1. proc[p] \in Processes
  OBVIOUS
<1>2. q \in Processes
  BY <1>1 DEF Processes
<1>3. proc' = [proc EXCEPT ![p] = q]
  BY DEF Advance
<1>4. proc' \in [Procs -> Processes] /\ proc'[p] = q
  BY <1>2, <1>3
<1>5. /\ q.at = step /\ q.temp = Absent /\ q.args = proc[p].args
      /\ q.files = proc[p].files /\ q.map = proc[p].map /\ q.result = proc[p].result
  BY <1>1 DEF Processes
<1> QED
  BY <1>4, <1>5

LEMMA Ended ==
    ASSUME proc \in [Procs -> Processes], NEW p \in Procs,
           NEW r \in {"none", "ok", "failed"}, proc' = [proc EXCEPT ![p] = Done(r)]
    PROVE  /\ proc' \in [Procs -> Processes]
           /\ proc'[p].at = "idle" /\ proc'[p].temp = Absent /\ proc'[p].args = NoArgs
BY DoneTyped, Assign

LEMMA SpentTyped ==
    ASSUME TypeOK, NEW k \in Kinds, Spend(k)
    PROVE  /\ spent' \in [Kinds -> Nat]
           /\ spent'["damage"] = 0 => spent["damage"] = 0 /\ k # "damage"
           /\ spent'["edit"] = 0 => spent["edit"] = 0 /\ k # "edit"
<1>1. spent \in [Kinds -> Nat] /\ {"damage", "edit"} \subseteq Kinds
  BY DEF TypeOK, Kinds
<1> QED
  BY <1>1 DEF Spend

LEMMA InitInv == Init => ArtifactInv
<1> SUFFICES ASSUME Init PROVE ArtifactInv
  OBVIOUS
<1>1. /\ root = [n \in Entries |-> Absent] /\ supplied \in [Copied -> Contents]
      /\ proc = [p \in Procs |-> Done("none")] /\ published = Absent
      /\ spent = [k \in Kinds |-> 0]
  BY Zenon DEF Init
<1>2. /\ \A n \in Copied \cup Tool : n \in Entries
      /\ "manifest" \in Entries
  BY DEF Entries, Listed, Derived
<1>3. \A p \in Procs :
         /\ proc[p] \in Processes /\ proc[p].at = "idle"
         /\ proc[p].temp = Absent /\ proc[p].args = NoArgs
  BY <1>1, DoneTyped
<1>4. TypeOK
  <2>1. proc \in [Procs -> Processes]
    BY <1>1, <1>3
  <2>2. spent \in [Kinds -> Nat]
    BY <1>1
  <2> QED
    BY <1>1, <1>2, <2>1, <2>2 DEF TypeOK
<1>5. \A p \in Procs : proc[p].at \notin Running \cup Sidecars \cup Listing \cup {"verify"}
  BY <1>3 DEF Running, Listing, Sidecars, Copied, Tool, Derived
<1>6. ManifestOK
  BY <1>1, <1>2, <1>5 DEF ManifestOK
<1>7. \A p \in Procs : ArgsOK(proc[p]) /\ TempsOK(proc[p])
  BY <1>3, NoArgsTyped DEF ArgsOK, TempsOK, Copied
<1>8. CommitPoint
  BY <1>1, <1>2 DEF CommitPoint
<1>9. \A p \in Procs : PlacedOK(proc[p])
  BY <1>3 DEF PlacedOK, Running, Listing, Sidecars, Copied, Tool, Derived
<1>10. \A p \in Procs : AcceptedOK(proc[p])
  BY <1>3 DEF AcceptedOK, Listing, Sidecars, Copied, Tool, Derived
<1> QED
  BY <1>1, <1>4, <1>6, <1>7, <1>8, <1>9, <1>10 DEF ArtifactInv

-----------------------------------------------------------------------------
(* Steps that end a command, and those of the surroundings.                *)
LEMMA IdlePrimed ==
    ASSUME NEW p \in Procs, proc'[p] \in Processes, proc'[p].at = "idle",
           proc'[p].temp = Absent, proc'[p].args = NoArgs
    PROVE  /\ (ArgsOK(proc[p]) /\ TempsOK(proc[p]) /\ PlacedOK(proc[p]) /\ AcceptedOK(proc[p]))'
           /\ proc'[p].at \notin Running
BY NoArgsTyped DEF ArgsOK, TempsOK, PlacedOK, AcceptedOK, Running, Listing, Sidecars,
                   Copied, Tool, Derived

LEMMA AllIdle ==
    ASSUME ArtifactInv, proc' \in [Procs -> Processes],
           \A p \in Procs : /\ proc'[p].at = "idle" /\ proc'[p].temp = Absent
                            /\ proc'[p].args = NoArgs,
           UNCHANGED <<root, supplied, published>>,
           spent' \in [Kinds -> Nat],
           spent'["damage"] = 0 => spent["damage"] = 0,
           spent'["edit"] = 0 => spent["edit"] = 0
    PROVE  ArtifactInv'
<1>1. TypeOK'
  BY DEF ArtifactInv, TypeOK
<1>2. \A p \in Procs : /\ (ArgsOK(proc[p]) /\ TempsOK(proc[p]))'
                       /\ (PlacedOK(proc[p]) /\ AcceptedOK(proc[p]))'
                       /\ proc'[p].at \notin Running
  BY IdlePrimed
<1>3. ManifestOK'
  BY <1>2 DEF ArtifactInv, ManifestOK
<1>4. spent'["damage"] = 0 => CommitPoint'
  BY DEF ArtifactInv, CommitPoint, Explained, InRoot
<1> QED
  BY <1>1, <1>2, <1>3, <1>4 DEF ArtifactInv

LEMMA EndKeeps ==
    ASSUME OneAtATime, ArtifactInv, NEW p \in Procs,
           NEW r \in {"none", "ok", "failed"}, proc' = [proc EXCEPT ![p] = Done(r)],
           UNCHANGED <<root, supplied, published>>,
           spent' = spent \/ \E k \in Kinds : Spend(k)
    PROVE  ArtifactInv'
<1>1. TypeOK
  BY DEF ArtifactInv
<1>2. /\ spent' \in [Kinds -> Nat]
      /\ spent'["damage"] = 0 => spent["damage"] = 0
      /\ spent'["edit"] = 0 => spent["edit"] = 0
  BY <1>1, SpentTyped DEF TypeOK
<1>3. /\ proc' \in [Procs -> Processes]
      /\ \A o \in Procs : /\ proc'[o].at = "idle" /\ proc'[o].temp = Absent
                          /\ proc'[o].args = NoArgs
  BY <1>1, Ended DEF OneAtATime, TypeOK
<1> QED
  BY <1>1, <1>2, <1>3, AllIdle DEF TypeOK

LEMMA IdleArgs ==
    ASSUME NEW p \in Procs, proc[p].at = "idle", ArtifactInv
    PROVE  proc[p].temp = Absent
BY DEF ArtifactInv, TempsOK, Sidecars, Copied, Tool, Derived

LEMMA EditKeeps == ASSUME ArtifactInv, Revise PROVE ArtifactInv'
<1>1. /\ TypeOK /\ Spend("edit") /\ UNCHANGED <<root, proc, published>>
  BY DEF ArtifactInv, Revise
<1>2. /\ spent' \in [Kinds -> Nat] /\ spent'["edit"] # 0
      /\ spent'["damage"] = 0 => spent["damage"] = 0
  BY <1>1, SpentTyped DEF Kinds
<1>3. supplied' \in [Copied -> {Absent} \cup Contents]
  BY <1>1 DEF TypeOK, Revise
<1>4. TypeOK'
  BY <1>1, <1>2, <1>3 DEF TypeOK
<1>5. ManifestOK'
  BY <1>1 DEF ArtifactInv, ManifestOK
<1>6. \A p \in Procs : (ArgsOK(proc[p]) /\ TempsOK(proc[p]))'
  BY <1>1 DEF ArtifactInv, ArgsOK, TempsOK, InPlace, Manifest
<1>7. spent'["damage"] = 0 => CommitPoint'
  BY <1>1, <1>2 DEF ArtifactInv, CommitPoint, Explained, InRoot
<1>8. spent'["damage"] = 0 => \A p \in Procs : PlacedOK(proc[p])'
  BY <1>1, <1>2 DEF ArtifactInv, PlacedOK, Placed, Manifest
<1> QED
  BY <1>2, <1>4, <1>5, <1>6, <1>7, <1>8 DEF ArtifactInv

LEMMA DamageKeeps == ASSUME ArtifactInv, Damage PROVE ArtifactInv'
<1>1. /\ TypeOK /\ Spend("damage") /\ UNCHANGED <<supplied, proc, published>>
  BY DEF ArtifactInv, Damage
<1>2. spent' \in [Kinds -> Nat] /\ spent'["damage"] # 0
  BY <1>1, SpentTyped DEF Kinds
<1>3. PICK n \in Copied \cup Tool \cup Derived, c \in {Partial, Absent} :
         root' = [root EXCEPT ![n] = c]
  BY DEF Damage
<1>4. n \in Entries /\ n \notin Temps
  BY NameFacts DEF Entries, Listed
<1>5. /\ root' \in [Entries -> {Absent} \cup PlainFiles \cup Manifests]
      /\ \A o \in Copied \cup Tool : root'[o] \in PlainFiles \cup {Absent}
  BY <1>1, <1>3, <1>4, BytesDistinct DEF TypeOK
<1>6. TypeOK'
  BY <1>1, <1>2, <1>5 DEF TypeOK
<1>7. /\ \A t \in Temps : root'[t] = root[t]
      /\ root'["manifest"] \in {root["manifest"], Partial, Absent}
  BY <1>1, <1>3, <1>4 DEF TypeOK, Entries, Derived, Listed
<1>8. ManifestOK'
  BY <1>1, <1>7 DEF ArtifactInv, ManifestOK
<1>9. ASSUME NEW p \in Procs PROVE (ArgsOK(proc[p]) /\ TempsOK(proc[p]))'
  <2>1. ArgsOK(proc[p]) /\ TempsOK(proc[p])
    BY DEF ArtifactInv
  <2>2. proc[p].temp # Absent => proc[p].temp \in Temps
    BY <1>1, ProcessTyped DEF TypeOK
  <2> QED
    BY <1>1, <1>7, <2>1, <2>2 DEF ArgsOK, TempsOK, InPlace, Manifest
<1> QED
  BY <1>2, <1>6, <1>8, <1>9 DEF ArtifactInv

LEMMA OperatorKeeps == ASSUME ArtifactInv, Place \/ Clean PROVE ArtifactInv'
<1>1. /\ TypeOK /\ UNCHANGED <<supplied, proc, published, spent>>
      /\ \A p \in Procs : proc[p].at = "idle"
  BY DEF ArtifactInv, Place, Clean
<1>2. /\ root' \in [Entries -> {Absent} \cup PlainFiles \cup Manifests]
      /\ \A n \in Copied \cup Tool : root'[n] \in PlainFiles \cup {Absent}
      /\ root'["manifest"] = Absent
  <2>1. CASE Place
    <3>1. PICK c \in Contents : root' = [root EXCEPT !["payload"] = c]
      BY <2>1 DEF Place
    <3>2. root["manifest"] = Absent
      BY <2>1 DEF Place, InRoot, Entries, Derived
    <3> QED
      BY <1>1, <3>1, <3>2, BytesDistinct DEF TypeOK, Entries, Derived, Listed, Copied, Tool
  <2>2. CASE Clean
    BY <2>2 DEF Clean, Entries, Derived, Listed
  <2> QED
    BY <2>1, <2>2
<1>3. TypeOK'
  BY <1>1, <1>2 DEF TypeOK
<1>4. \A p \in Procs : proc[p].at \notin Running \cup Listing \cup Sidecars \cup {"verify"}
  BY <1>1 DEF Running, Listing, Sidecars, Copied, Tool, Derived
<1>5. ManifestOK'
  BY <1>1, <1>2, <1>4 DEF ManifestOK
<1>6. ASSUME NEW p \in Procs
      PROVE  /\ (ArgsOK(proc[p]) /\ TempsOK(proc[p]))'
             /\ (PlacedOK(proc[p]) /\ AcceptedOK(proc[p]))'
  <2>1. ArgsOK(proc[p]) /\ proc[p].temp = Absent
    BY <1>1, IdleArgs DEF ArtifactInv
  <2> QED
    BY <1>1, <1>4, <2>1 DEF ArgsOK, TempsOK, PlacedOK, AcceptedOK, Running, Listing,
                            Sidecars, Copied, Tool, Derived
<1>7. CommitPoint'
  BY <1>2 DEF CommitPoint
<1> QED
  BY <1>1, <1>3, <1>5, <1>6, <1>7 DEF ArtifactInv

-----------------------------------------------------------------------------
(* Steps of a running command, which is the only one.                      *)
LEMMA Assemble ==
    ASSUME OneAtATime, NEW p \in Procs, TypeOK',
           root'["manifest"] \in {Absent, Partial, published'},
           proc'[p].at \in Running => root'["manifest"] \in {Absent, Partial},
           ArgsOK(proc[p])', TempsOK(proc[p])',
           spent'["damage"] = 0 => CommitPoint' /\ PlacedOK(proc[p])',
           spent'["damage"] = 0 /\ spent'["edit"] = 0 =>
               supplied' \in [Copied -> Contents] /\ AcceptedOK(proc[p])'
    PROVE  ArtifactInv'
<1>1. \A o \in Procs : o = p
  BY DEF OneAtATime
<1>2. ManifestOK'
  BY <1>1 DEF ManifestOK
<1>3. \A o \in Procs : (ArgsOK(proc[o]) /\ TempsOK(proc[o]))'
  BY <1>1
<1>4. spent'["damage"] = 0 => \A o \in Procs : PlacedOK(proc[o])'
  BY <1>1
<1>5. spent'["damage"] = 0 /\ spent'["edit"] = 0 => \A o \in Procs : AcceptedOK(proc[o])'
  BY <1>1
<1> QED
  BY <1>2, <1>3, <1>4, <1>5 DEF ArtifactInv

(* The preflight of a create leaves it with a root that holds what is in   *)
(* place and nothing else.                                                 *)
LEMMA PreflightKeeps ==
    ASSUME OneAtATime, ArtifactInv, NEW p \in Procs, TypeOK',
           proc'[p].at = "dataset", proc'[p].temp = Absent, proc'[p].result = "none",
           proc'[p].args.inplace \subseteq proc'[p].args.declared,
           Acceptable(proc'[p].args), UNCHANGED <<root, supplied, published>>,
           spent'["damage"] = 0 => spent["damage"] = 0,
           spent'["edit"] = 0 => spent["edit"] = 0
    PROVE  ArtifactInv'
<1> DEFINE a == proc'[p].args
<1>1. a \in Args
  BY ProcessTyped DEF TypeOK
<1>2. /\ a.inplace \subseteq a.declared /\ a.declared \subseteq Copied
      /\ "environment" \in a.declared
  BY <1>1, ArgsTyped
<1>3. /\ root["manifest"] = Absent /\ InRoot \subseteq a.inplace
      /\ StageMet(a.kind, a.declared)
      /\ \A n \in a.declared : FileOf(a, n) # Absent
      /\ FileOf(a, "environment") \notin Secret
  BY DEF Acceptable
<1>4. \A n \in Entries : root[n] # Absent => n \in a.inplace
  BY <1>3 DEF InRoot
<1>5. root["checksums"] = Absent /\ \A t \in Temps : root[t] = Absent
  BY <1>2, <1>4, NameFacts DEF Entries, Derived, Copied, Listed
<1>6. \A n \in Copied \cup Tool : root[n] # Absent <=> n \in a.inplace
  <2>1. \A n \in a.inplace : root[n] # Absent
    BY <1>2, <1>3 DEF FileOf
  <2>2. Copied \cup Tool \subseteq Entries
    BY DEF Entries, Listed
  <2> QED
    BY <1>4, <2>1, <2>2
<1>7. ArgsOK(proc[p])' /\ TempsOK(proc[p])'
  BY <1>2, <1>5 DEF ArgsOK, TempsOK, Sidecars, Tool, Copied, Derived
<1>8. PlacedOK(proc[p])'
  <2>1. Earlier(proc'[p].at) = {} /\ proc'[p].at \notin Derived
    BY DEF Earlier, Derived
  <2>2. Placed(proc[p])' = a.inplace
    BY <2>1 DEF Placed
  <2> QED
    BY <1>3, <1>5, <1>6, <2>1, <2>2 DEF PlacedOK, Derived
<1>9. AcceptedOK(proc[p])'
  <2>1. Earlier(proc'[p].at) = {}
    BY DEF Earlier
  <2>2. EnvironmentOf(proc[p])' = FileOf(a, "environment")
    BY <2>1 DEF EnvironmentOf, FileOf
  <2> QED
    BY <1>3, <2>2 DEF AcceptedOK
<1>10. CommitPoint'
  BY <1>3 DEF CommitPoint
<1>11. spent'["damage"] = 0 /\ spent'["edit"] = 0 => supplied' \in [Copied -> Contents]
  BY DEF ArtifactInv
<1> QED
  BY <1>3, <1>7, <1>8, <1>9, <1>10, <1>11, Assemble

LEMMA CreateKeeps ==
    ASSUME OneAtATime, ArtifactInv, NEW p \in Procs, Create(p) PROVE ArtifactInv'
<1>1. TypeOK /\ Spend("command") /\ UNCHANGED <<root, supplied, published>>
  BY DEF ArtifactInv, Create
<1>2. PICK a \in Creates :
         /\ Acceptable(a)
         /\ proc' = [proc EXCEPT ![p] = [Done("none") EXCEPT !.at = "dataset",
                                             !.cmd = "create", !.args = a]]
  BY DEF Create
<1> DEFINE q == [Done("none") EXCEPT !.at = "dataset", !.cmd = "create", !.args = a]
<1>3. a \in Args /\ a.inplace \subseteq a.declared
  BY ArgsAssumption
<1>4. /\ q \in Processes /\ q.at = "dataset" /\ q.args = a /\ q.temp = Absent
      /\ q.result = "none"
  BY <1>3, DoneTyped DEF Processes, ProcSteps, Sidecars, Tool, Done
<1>5. proc' \in [Procs -> Processes] /\ proc'[p] = q
  <2> HIDE DEF q
  <2>1. proc' = [proc EXCEPT ![p] = q]
    BY <1>2 DEF q
  <2> QED
    BY <1>1, <1>4, <2>1 DEF TypeOK
<1>6. /\ spent' \in [Kinds -> Nat]
      /\ spent'["damage"] = 0 => spent["damage"] = 0
      /\ spent'["edit"] = 0 => spent["edit"] = 0
  BY <1>1, SpentTyped DEF Kinds
<1>7. TypeOK'
  BY <1>1, <1>5, <1>6 DEF TypeOK
<1> HIDE DEF q
<1>8. /\ proc'[p].at = "dataset" /\ proc'[p].temp = Absent /\ proc'[p].args = a
      /\ proc'[p].result = "none"
  BY <1>4, <1>5
<1> QED
  BY <1>1, <1>2, <1>3, <1>6, <1>7, <1>8, PreflightKeeps

(* A build before it calls create.                                         *)
LEMMA PreparationKeeps ==
    ASSUME OneAtATime, ArtifactInv, NEW p \in Procs, TypeOK',
           proc'[p].at \in {"open", "fill", "readback", "enlist"},
           proc'[p].temp = Absent, proc'[p].map \in Contents, proc'[p].result = "none",
           proc'[p].args.inplace \subseteq proc'[p].args.declared,
           root'["manifest"] \in {Absent, Partial},
           \A t \in Temps : root'[t] = Absent,
           spent'["damage"] = 0 => root'["manifest"] = Absent /\ root'["checksums"] = Absent,
           supplied' = supplied, spent'["damage"] = 0 => spent["damage"] = 0,
           spent'["edit"] = 0 => spent["edit"] = 0
    PROVE  ArtifactInv'
<1>1. proc'[p].at \notin Listing \cup Sidecars \cup Derived \cup Copied \cup {"verify", "manifest"}
  BY DEF Listing, Sidecars, Copied, Tool, Derived
<1>2. ArgsOK(proc[p])' /\ TempsOK(proc[p])'
  BY <1>1 DEF ArgsOK, TempsOK
<1>3. spent'["damage"] = 0 => CommitPoint' /\ PlacedOK(proc[p])'
  BY <1>1 DEF CommitPoint, PlacedOK
<1>4. AcceptedOK(proc[p])'
  BY <1>1 DEF AcceptedOK, Copied
<1>5. spent'["damage"] = 0 /\ spent'["edit"] = 0 => supplied' \in [Copied -> Contents]
  BY DEF ArtifactInv
<1> QED
  BY <1>2, <1>3, <1>4, <1>5, Assemble

LEMMA BuildKeeps ==
    ASSUME OneAtATime, ArtifactInv, NEW p \in Procs, Build(p) PROVE ArtifactInv'
<1>1. /\ TypeOK /\ Spend("command") /\ UNCHANGED <<root, supplied, published>>
      /\ InRoot = {} /\ supplied["input"] # Absent
  BY DEF ArtifactInv, Build, Empty
<1>2. PICK l \in Labels :
         proc' = [proc EXCEPT ![p] = [Done("none") EXCEPT !.at = "open", !.cmd = "build",
                                         !.args = BuildArgs(l), !.map = supplied["input"]]]
  BY DEF Build
<1> DEFINE q == [Done("none") EXCEPT !.at = "open", !.cmd = "build",
                                     !.args = BuildArgs(l), !.map = supplied["input"]]
<1>3. supplied["input"] \in Contents
  BY <1>1 DEF TypeOK, Copied
<1>4. /\ q \in Processes /\ q.at = "open" /\ q.args = BuildArgs(l) /\ q.temp = Absent
      /\ q.map \in Contents /\ q.result = "none"
  BY <1>3, DoneTyped, BuildArgsTyped DEF Processes, ProcSteps, Done
<1>5. proc' \in [Procs -> Processes] /\ proc'[p] = q
  <2> HIDE DEF q
  <2>1. proc' = [proc EXCEPT ![p] = q]
    BY <1>2 DEF q
  <2> QED
    BY <1>1, <1>4, <2>1 DEF TypeOK
<1> HIDE DEF q
<1>6. /\ spent' \in [Kinds -> Nat]
      /\ spent'["damage"] = 0 => spent["damage"] = 0
      /\ spent'["edit"] = 0 => spent["edit"] = 0
  BY <1>1, SpentTyped DEF Kinds
<1>7. TypeOK'
  BY <1>1, <1>5, <1>6 DEF TypeOK
<1>8. \A n \in Entries : root'[n] = Absent
  BY <1>1 DEF InRoot
<1>9. /\ root'["manifest"] = Absent /\ root'["checksums"] = Absent
      /\ \A t \in Temps : root'[t] = Absent
  BY <1>8 DEF Entries, Derived, Listed
<1>10. proc'[p].args.inplace \subseteq proc'[p].args.declared
  BY <1>4, <1>5, BuildArgsTyped DEF Copied
<1> QED
  BY <1>1, <1>4, <1>5, <1>6, <1>7, <1>9, <1>10, PreparationKeeps

LEMMA ShardKeeps ==
    ASSUME OneAtATime, ArtifactInv, NEW p \in Procs, OpenShard(p) \/ FillShard(p)
    PROVE  ArtifactInv'
<1>1. TypeOK /\ ArgsOK(proc[p]) /\ TempsOK(proc[p]) /\ ManifestOK
  BY DEF ArtifactInv
<1>2. /\ proc[p].at \in {"open", "fill"} /\ UNCHANGED <<supplied, published, spent>>
      /\ \E step \in {"fill", "readback"} : Advance(p, step)
  BY DEF OpenShard, FillShard
<1>3. /\ proc' \in [Procs -> Processes] /\ proc'[p].at \in {"fill", "readback"}
      /\ proc'[p].temp = Absent /\ proc'[p].args = proc[p].args /\ proc'[p].map = proc[p].map
      /\ proc'[p].result = proc[p].result
  BY <1>1, <1>2, Advanced DEF TypeOK, ProcSteps
<1>4. /\ proc[p].map \in Contents /\ proc[p].args.inplace \subseteq proc[p].args.declared
      /\ proc[p].result = "none"
  BY <1>1, <1>2 DEF ArgsOK
<1>5. \E c \in PlainFiles : root' = [root EXCEPT !["payload"] = c]
  BY <1>4, BytesDistinct DEF OpenShard, FillShard, Shard, PlainFiles, ShardFiles
<1>6. /\ root' \in [Entries -> {Absent} \cup PlainFiles \cup Manifests]
      /\ \A n \in Copied \cup Tool : root'[n] \in PlainFiles \cup {Absent}
      /\ \A t \in Temps : root'[t] = root[t]
      /\ root'["manifest"] = root["manifest"] /\ root'["checksums"] = root["checksums"]
  <2>1. "payload" \in Entries /\ "payload" \notin Temps
    BY NameFacts DEF Entries, Listed, Copied
  <2> QED
    BY <1>1, <1>5, <2>1 DEF TypeOK, Entries, Derived, Listed
<1>7. TypeOK'
  BY <1>1, <1>2, <1>3, <1>6 DEF TypeOK
<1>8. \A t \in Temps : root[t] = Absent
  BY <1>1, <1>2, BytesDistinct DEF TempsOK, Sidecars, Copied, Tool, Derived
<1>9. root["manifest"] \in {Absent, Partial}
  BY <1>1, <1>2 DEF ManifestOK, Running
<1>10. spent["damage"] = 0 => root["manifest"] = Absent /\ root["checksums"] = Absent
  BY <1>2 DEF ArtifactInv, PlacedOK, Running
<1> QED
  BY <1>2, <1>3, <1>4, <1>6, <1>7, <1>8, <1>9, <1>10, PreparationKeeps

LEMMA ReadbackKeeps ==
    ASSUME OneAtATime, ArtifactInv, NEW p \in Procs, Readback(p) PROVE ArtifactInv'
<1>1. TypeOK /\ ArgsOK(proc[p]) /\ TempsOK(proc[p]) /\ ManifestOK
  BY DEF ArtifactInv
<1>2. proc[p].at = "readback" /\ UNCHANGED <<root, supplied, published, spent>>
  BY DEF Readback
<1>3. CASE Fail(p)
  BY <1>2, <1>3, EndKeeps DEF Fail
<1>4. CASE Advance(p, "enlist")
  <2>1. /\ proc' \in [Procs -> Processes] /\ proc'[p].at = "enlist" /\ proc'[p].temp = Absent
        /\ proc'[p].args = proc[p].args /\ proc'[p].map = proc[p].map
        /\ proc'[p].result = proc[p].result
    BY <1>1, <1>4, Advanced DEF TypeOK, ProcSteps
  <2>2. /\ proc[p].map \in Contents /\ proc[p].args.inplace \subseteq proc[p].args.declared
        /\ proc[p].result = "none"
    BY <1>1, <1>2 DEF ArgsOK
  <2>3. TypeOK'
    BY <1>1, <1>2, <2>1 DEF TypeOK
  <2>4. \A t \in Temps : root[t] = Absent
    BY <1>1, <1>2, BytesDistinct DEF TempsOK, Sidecars, Copied, Tool, Derived
  <2>5. root["manifest"] \in {Absent, Partial}
    BY <1>1, <1>2 DEF ManifestOK, Running
  <2>6. spent["damage"] = 0 => root["manifest"] = Absent /\ root["checksums"] = Absent
    BY <1>2 DEF ArtifactInv, PlacedOK, Running
  <2> QED
    BY <1>2, <2>1, <2>2, <2>3, <2>4, <2>5, <2>6, PreparationKeeps
<1> QED
  BY <1>3, <1>4 DEF Readback

LEMMA EnlistKeeps ==
    ASSUME OneAtATime, ArtifactInv, NEW p \in Procs, Enlist(p) PROVE ArtifactInv'
<1>1. TypeOK /\ ArgsOK(proc[p])
  BY DEF ArtifactInv
<1>2. proc[p].at = "enlist" /\ UNCHANGED <<root, supplied, published, spent>>
  BY DEF Enlist
<1>3. CASE Fail(p)
  BY <1>2, <1>3, EndKeeps DEF Fail
<1>4. CASE Acceptable(proc[p].args) /\ Advance(p, "dataset")
  <2>1. /\ proc' \in [Procs -> Processes] /\ proc'[p].at = "dataset"
        /\ proc'[p].temp = Absent /\ proc'[p].args = proc[p].args
        /\ proc'[p].result = proc[p].result
    BY <1>1, <1>4, Advanced DEF TypeOK, ProcSteps, Sidecars, Tool
  <2>2. TypeOK'
    BY <1>1, <1>2, <2>1 DEF TypeOK
  <2>3. proc'[p].args.inplace \subseteq proc'[p].args.declared /\ proc'[p].result = "none"
    BY <1>1, <1>2, <2>1 DEF ArgsOK
  <2> QED
    BY <1>2, <1>4, <2>1, <2>2, <2>3, PreflightKeeps
<1> QED
  BY <1>3, <1>4 DEF Enlist

(* The writes of a create.                                                 *)
LEMMA AfterPlaces ==
    ASSUME NEW q \in Processes, q.at \in Listing, ArgsOK(q)
    PROVE  /\ After(q) \in (Listing \cup {"verify"}) \ {"dataset"}
           /\ After(q) \in Copied => After(q) \in q.args.declared
           /\ After(q) \in Derived <=> q.at \in {"digest", "checksums"}
           /\ After(q) = "checksums" <=> q.at = "digest"
           /\ After(q) = "manifest" <=> q.at = "checksums"
           /\ After(q) = "verify" <=> q.at = "manifest"
           /\ After(q) = "environment" => q.at = "dataset"
           /\ q.at \in Copied \cup Tool => q.at \in q.args.declared \cup Tool
           /\ \A n \in q.args.declared \cup Tool :
                 n \in Earlier(After(q)) <=> n \in Earlier(q.at) \/ n = q.at
<1>1. q.args \in Args
  BY ProcessTyped
<1>2. "environment" \in q.args.declared /\ q.args.declared \subseteq Copied
  BY <1>1, ArgsTyped
<1>3. CASE q.at = "dataset"
  BY <1>2, <1>3 DEF After, Earlier, Listing, Sidecars, Copied, Tool, Derived
<1>4. CASE q.at = "environment"
  BY <1>2, <1>4 DEF After, Earlier, Listing, Sidecars, Copied, Tool, Derived
<1>5. CASE q.at = "input"
  BY <1>2, <1>5 DEF After, Earlier, Listing, Sidecars, Copied, Tool, Derived, ArgsOK
<1>6. CASE q.at = "commands"
  BY <1>2, <1>6 DEF After, Earlier, Listing, Sidecars, Copied, Tool, Derived
<1>7. CASE q.at = "payload"
  BY <1>2, <1>7 DEF After, Earlier, Listing, Sidecars, Copied, Tool, Derived, ArgsOK
<1>8. CASE q.at = "digest"
  BY <1>2, <1>8 DEF After, Earlier, Listing, Sidecars, Copied, Tool, Derived
<1>9. CASE q.at \in Derived
  BY <1>2, <1>9 DEF After, Earlier, Listing, Sidecars, Copied, Tool, Derived
<1> QED
  BY <1>3, <1>4, <1>5, <1>6, <1>7, <1>8, <1>9 DEF Listing, Sidecars, Copied, Tool, Derived

LEMMA StepNames ==
    /\ Listing \cup {"verify"} \subseteq ProcSteps /\ Listing \subseteq Running
    /\ Sidecars \subseteq Listing /\ Copied \cup Tool \subseteq Sidecars
    /\ Derived \subseteq Sidecars /\ Derived \cap (Copied \cup Tool) = {}
    /\ "digest" \notin Sidecars /\ "verify" \notin Running /\ "idle" \notin Running
    /\ "idle" \notin Listing \cup {"verify"} /\ "verify" \notin Listing
    /\ Derived = {"checksums", "manifest"} /\ Running \subseteq ProcSteps
BY DEF ProcSteps, Listing, Running, Sidecars, Copied, Tool, Derived

(* What holds of a listing command whatever it does next.                  *)
LEMMA ListingFacts ==
    ASSUME ArtifactInv, NEW p \in Procs, proc[p].at \in Listing
    PROVE  /\ TypeOK /\ proc[p] \in Processes
           /\ ArgsOK(proc[p]) /\ TempsOK(proc[p]) /\ proc[p].args \in Args
           /\ proc[p].args.inplace \subseteq proc[p].args.declared
           /\ root["manifest"] \in {Absent, Partial}
           /\ \A t \in Temps : root[t] # Absent => t = proc[p].temp
           /\ spent["damage"] = 0 => PlacedOK(proc[p])
           /\ spent["damage"] = 0 /\ spent["edit"] = 0 =>
                 supplied \in [Copied -> Contents] /\ AcceptedOK(proc[p])
<1>1. /\ TypeOK /\ ManifestOK /\ ArgsOK(proc[p]) /\ TempsOK(proc[p])
      /\ spent["damage"] = 0 => PlacedOK(proc[p])
      /\ spent["damage"] = 0 /\ spent["edit"] = 0 =>
            supplied \in [Copied -> Contents] /\ AcceptedOK(proc[p])
  BY DEF ArtifactInv
<1>2. proc[p] \in Processes
  BY <1>1 DEF TypeOK
<1>3. proc[p].at \in Running /\ proc[p].at # "idle"
  BY StepNames
<1> QED
  BY <1>1, <1>2, <1>3, ProcessTyped DEF ManifestOK, TempsOK, ArgsOK

LEMMA AdvancedAfter ==
    ASSUME proc \in [Procs -> Processes], NEW p \in Procs, proc[p].at \in Listing,
           ArgsOK(proc[p]), Advance(p, After(proc[p]))
    PROVE  /\ proc' \in [Procs -> Processes]
           /\ proc'[p].at = After(proc[p]) /\ proc'[p].temp = Absent
           /\ proc'[p].args = proc[p].args /\ proc'[p].files = proc[p].files
           /\ ArgsOK(proc[p])'
<1>1. PICK step : step = After(proc[p])
  OBVIOUS
<1>2. /\ step \in Listing \cup {"verify"}
      /\ step \in Copied => step \in proc[p].args.declared
  BY <1>1, AfterPlaces
<1>3. step \in ProcSteps /\ step \notin {"open", "fill", "readback"}
  BY <1>2, StepNames DEF Listing, Sidecars, Copied, Tool, Derived
<1>4. /\ proc' \in [Procs -> Processes]
      /\ proc'[p].at = step /\ proc'[p].temp = Absent
      /\ proc'[p].args = proc[p].args /\ proc'[p].files = proc[p].files
      /\ proc'[p].result = proc[p].result
  BY <1>1, <1>3, Advanced
<1> QED
  BY <1>1, <1>2, <1>3, <1>4, StepNames DEF ArgsOK

LEMMA AdoptKeeps ==
    ASSUME OneAtATime, ArtifactInv, NEW p \in Procs, Adopt(p) PROVE ArtifactInv'
<1> DEFINE q == proc[p]
<1>1. q.at \in Copied /\ q.at \in q.args.inplace /\ UNCHANGED <<root, supplied, published, spent>>
  BY DEF Adopt, InPlace
<1>2. CASE Fail(p)
  BY <1>1, <1>2, EndKeeps DEF Fail
<1>3. CASE Advance(p, After(q))
  <2>1. q.at \in Listing /\ q.at \in Copied \cup Tool
    BY <1>1, StepNames
  <2>2. /\ TypeOK /\ q \in Processes /\ ArgsOK(q) /\ TempsOK(q)
        /\ q.args.inplace \subseteq q.args.declared /\ q.args \in Args
        /\ root["manifest"] \in {Absent, Partial}
        /\ \A t \in Temps : root[t] # Absent => t = q.temp
        /\ spent["damage"] = 0 => PlacedOK(q)
        /\ spent["damage"] = 0 /\ spent["edit"] = 0 =>
              supplied \in [Copied -> Contents] /\ AcceptedOK(q)
    BY <2>1, ListingFacts
  <2>3. /\ After(q) \in Listing \ {"dataset"}
        /\ After(q) \notin Derived /\ After(q) # "environment"
        /\ \A n \in q.args.declared \cup Tool :
              n \in Earlier(After(q)) <=> n \in Earlier(q.at) \/ n = q.at
    BY <1>1, <2>1, <2>2, AfterPlaces DEF Copied
  <2>4. /\ proc' \in [Procs -> Processes] /\ proc'[p].at = After(q) /\ proc'[p].temp = Absent
        /\ proc'[p].args = q.args /\ ArgsOK(proc[p])'
    BY <1>3, <2>1, <2>2, AdvancedAfter DEF TypeOK
  <2>5. TypeOK'
    BY <1>1, <2>2, <2>4 DEF TypeOK
  <2>6. \A t \in Temps : root[t] = Absent
    BY <1>1, <2>2, BytesDistinct DEF TempsOK, InPlace
  <2>8. TempsOK(proc[p])'
    BY <1>1, <2>4, <2>6 DEF TempsOK
  <2>9. ASSUME spent["damage"] = 0 PROVE CommitPoint' /\ PlacedOK(proc[p])'
    <3>1. /\ root["manifest"] = Absent /\ root["checksums"] = Absent
          /\ \A n \in Copied \cup Tool : root[n] # Absent <=> n \in Placed(q)
      BY <1>1, <2>1, <2>2, <2>9, StepNames DEF PlacedOK
    <3>2. Placed(proc[p])' = Placed(q)
      BY <1>1, <2>2, <2>3, <2>4 DEF Placed
    <3> QED
      BY <1>1, <2>3, <2>4, <3>1, <3>2, StepNames DEF PlacedOK, CommitPoint
  <2>10. ASSUME spent["damage"] = 0, spent["edit"] = 0 PROVE AcceptedOK(proc[p])'
    <3>1. "environment" \in q.args.declared
      BY <2>2, ArgsTyped
    <3>2. EnvironmentOf(proc[p])' = EnvironmentOf(q)
      BY <1>1, <2>2, <2>3, <2>4, <3>1 DEF EnvironmentOf
    <3>3. StageMet(q.args.kind, q.args.declared) /\ EnvironmentOf(q) \notin Secret
      <4>1. AcceptedOK(q)
        BY <2>2, <2>10
      <4> QED
        BY <2>1, <4>1 DEF AcceptedOK
    <3>4. proc'[p].at \notin {"environment", "verify"}
      BY <2>3, <2>4, StepNames
    <3> QED
      BY <2>4, <3>2, <3>3, <3>4 DEF AcceptedOK
  <2> QED
    BY <1>1, <2>2, <2>4, <2>5, <2>8, <2>9, <2>10, Assemble
<1> QED
  BY <1>2, <1>3 DEF Adopt

LEMMA ContentTyped ==
    ASSUME TypeOK, NEW p \in Procs, proc[p].at \in Sidecars, ContentOf(proc[p]) # Absent
    PROVE  ContentOf(proc[p]) \in IF proc[p].at \in Derived THEN {Manifest(proc[p])} ELSE PlainFiles
<1>1. proc[p] \in Processes
  BY DEF TypeOK
<1>2. CASE proc[p].at \in Derived
  BY <1>2, StepNames DEF ContentOf
<1>3. CASE proc[p].at \in Tool
  <2>1. proc[p].args.label \in Labels
    BY <1>1, ProcessTyped, ArgsTyped
  <2> QED
    BY <1>3, <2>1, StepNames, BytesDistinct DEF ContentOf
<1>4. CASE proc[p].at \in Copied
  <2>1. proc[p].at \notin Tool \cup Derived
    BY <1>4 DEF Copied, Tool, Derived
  <2>2. supplied[proc[p].at] \in {Absent} \cup Contents
    BY <1>4 DEF TypeOK
  <2> QED
    BY <2>1, <2>2, BytesDistinct DEF ContentOf
<1> QED
  BY <1>2, <1>3, <1>4 DEF Sidecars

LEMMA StageKeeps ==
    ASSUME OneAtATime, ArtifactInv, NEW p \in Procs, Stage(p) PROVE ArtifactInv'
<1> DEFINE q == proc[p]
<1>1. /\ q.at \in Sidecars /\ ~InPlace(q) /\ q.temp = Absent
      /\ UNCHANGED <<supplied, published, spent>>
  BY DEF Stage, Sidecars
<1>2. CASE Fail(p) /\ UNCHANGED root
  BY <1>1, <1>2, EndKeeps DEF Fail
<1>3. CASE /\ ContentOf(q) # Absent
           /\ \E t \in Temps :
                 /\ root[t] = Absent
                 /\ root' = [root EXCEPT ![t] = ContentOf(q)]
                 /\ proc' = [proc EXCEPT ![p].temp = t]
  <2>1. q.at \in Listing
    BY <1>1, StepNames
  <2>2. /\ TypeOK /\ q \in Processes /\ ArgsOK(q) /\ TempsOK(q)
        /\ root["manifest"] \in {Absent, Partial}
        /\ \A t \in Temps : root[t] # Absent => t = q.temp
        /\ spent["damage"] = 0 => PlacedOK(q)
        /\ spent["damage"] = 0 /\ spent["edit"] = 0 =>
              supplied \in [Copied -> Contents] /\ AcceptedOK(q)
    BY <2>1, ListingFacts
  <2>3. PICK t \in Temps : /\ root' = [root EXCEPT ![t] = ContentOf(q)]
                           /\ proc' = [proc EXCEPT ![p].temp = t]
    BY <1>3
  <2>4. /\ proc' \in [Procs -> Processes] /\ proc'[p].temp = t /\ proc'[p].at = q.at
        /\ proc'[p].args = q.args /\ proc'[p].files = q.files /\ proc'[p].map = q.map
        /\ proc'[p].result = q.result
    <3> DEFINE r == [q EXCEPT !.temp = t]
    <3>1. r \in Processes
      BY <2>2 DEF Processes
    <3>2. /\ r.temp = t /\ r.at = q.at /\ r.args = q.args /\ r.files = q.files
          /\ r.map = q.map /\ r.result = q.result
      BY <2>2 DEF Processes
    <3>3. proc' = [proc EXCEPT ![p] = r]
      BY <2>3
    <3> HIDE DEF r
    <3> QED
      BY <2>2, <3>1, <3>2, <3>3, Assign DEF TypeOK
  <2>5. ContentOf(q) \in IF q.at \in Derived THEN {Manifest(q)} ELSE PlainFiles
    BY <1>1, <1>3, <2>2, ContentTyped
  <2>6. Manifest(q) \in Manifests
    BY <2>2, ManifestTyped
  <2>7. /\ t \in Entries /\ t # Absent
        /\ t \notin Copied \cup Tool \cup Derived
    BY NameFacts, BytesDistinct DEF Entries, Listed
  <2>8. /\ root'[t] = ContentOf(q)
        /\ \A n \in Entries \ {t} : root'[n] = root[n]
    BY <2>2, <2>3, <2>7 DEF TypeOK
  <2>9. /\ root'["manifest"] = root["manifest"] /\ root'["checksums"] = root["checksums"]
        /\ \A n \in Copied \cup Tool : root'[n] = root[n]
    BY <2>7, <2>8 DEF Entries, Derived, Listed
  <2>10. TypeOK'
    <3>1. root' \in [Entries -> {Absent} \cup PlainFiles \cup Manifests]
      BY <2>2, <2>3, <2>5, <2>6 DEF TypeOK
    <3> QED
      BY <1>1, <2>2, <2>4, <2>9, <3>1 DEF TypeOK
  <2>11. ArgsOK(proc[p])'
    BY <2>2, <2>4 DEF ArgsOK
  <2>12. TempsOK(proc[p])'
    <3>1. \A o \in Temps : root'[o] # Absent => o = t
      BY <1>1, <2>2, <2>7, <2>8, BytesDistinct DEF Entries, Listed
    <3>2. Manifest(proc[p])' = Manifest(q)
      BY <2>4 DEF Manifest
    <3>3. ~InPlace(proc[p])'
      BY <1>1, <2>4 DEF InPlace
    <3> QED
      BY <1>1, <2>4, <2>5, <2>8, <3>1, <3>2, <3>3 DEF TempsOK
  <2>13. ASSUME spent["damage"] = 0 PROVE CommitPoint' /\ PlacedOK(proc[p])'
    <3>1. PlacedOK(q)
      BY <2>2, <2>13
    <3>2. root["manifest"] = Absent
      BY <2>1, <3>1, StepNames DEF PlacedOK
    <3>3. Placed(proc[p])' = Placed(q) /\ Manifest(proc[p])' = Manifest(q)
      BY <2>4 DEF Placed, Manifest
    <3>4. q.args.declared \subseteq Copied
      BY <2>2, ProcessTyped, ArgsTyped
    <3>5. [n \in q.args.declared \cup Tool |-> root[n]]
             = [n \in q.args.declared \cup Tool |-> root'[n]]
      BY <2>9, <3>4
    <3> QED
      BY <2>4, <2>9, <3>1, <3>2, <3>3, <3>5 DEF PlacedOK, CommitPoint
  <2>14. ASSUME spent["damage"] = 0, spent["edit"] = 0 PROVE AcceptedOK(proc[p])'
    <3>1. AcceptedOK(q)
      BY <2>2, <2>14
    <3>2. EnvironmentOf(proc[p])' = EnvironmentOf(q)
      BY <1>1, <2>4, <2>9 DEF EnvironmentOf, Copied
    <3>3. q.at = "environment" => ContentOf(q) = supplied["environment"]
      BY DEF ContentOf, Tool, Derived
    <3> QED
      BY <1>1, <2>1, <2>4, <2>8, <3>1, <3>2, <3>3, StepNames DEF AcceptedOK
  <2> QED
    BY <1>1, <2>2, <2>4, <2>9, <2>10, <2>11, <2>12, <2>13, <2>14, Assemble
<1> QED
  BY <1>2, <1>3 DEF Stage

LEMMA ReplaceKeeps ==
    ASSUME OneAtATime, ArtifactInv, NEW p \in Procs, Replace(p) PROVE ArtifactInv'
<1> DEFINE q == proc[p]
<1>1. /\ q.temp # Absent /\ UNCHANGED <<supplied, spent>> /\ Advance(p, After(q))
      /\ root' = [root EXCEPT ![q.at] = root[q.temp], ![q.temp] = Absent]
      /\ published' = IF q.at = "manifest" THEN Manifest(q) ELSE published
  BY DEF Replace
<1>2. q.at \in Sidecars
  BY <1>1 DEF ArtifactInv, TempsOK
<1>3. q.at \in Listing
  BY <1>2, StepNames
<1>4. /\ TypeOK /\ q \in Processes /\ ArgsOK(q) /\ TempsOK(q) /\ q.args \in Args
      /\ q.args.inplace \subseteq q.args.declared
      /\ root["manifest"] \in {Absent, Partial}
      /\ \A t \in Temps : root[t] # Absent => t = q.temp
      /\ spent["damage"] = 0 => PlacedOK(q)
      /\ spent["damage"] = 0 /\ spent["edit"] = 0 =>
            supplied \in [Copied -> Contents] /\ AcceptedOK(q)
  BY <1>3, ListingFacts
<1>5. /\ After(q) \in (Listing \cup {"verify"}) \ {"dataset"}
      /\ After(q) \in Derived <=> q.at = "checksums"
      /\ After(q) = "manifest" <=> q.at = "checksums"
      /\ After(q) = "verify" <=> q.at = "manifest"
      /\ After(q) # "checksums"
      /\ After(q) = "environment" => q.at = "dataset"
      /\ q.at \in Copied \cup Tool => q.at \in q.args.declared \cup Tool
      /\ \A n \in q.args.declared \cup Tool :
            n \in Earlier(After(q)) <=> n \in Earlier(q.at) \/ n = q.at
  <2>1. q.at # "digest"
    BY <1>2, StepNames
  <2> QED
    BY <1>3, <1>4, <2>1, AfterPlaces
<1>6. /\ proc' \in [Procs -> Processes] /\ proc'[p].at = After(q) /\ proc'[p].temp = Absent
      /\ proc'[p].args = q.args /\ proc'[p].files = q.files /\ ArgsOK(proc[p])'
  BY <1>1, <1>3, <1>4, AdvancedAfter DEF TypeOK
<1>7. /\ q.temp \in Temps /\ q.temp \in Entries /\ q.at \in Entries /\ q.at # q.temp
      /\ q.temp \notin Copied \cup Tool \cup Derived
  BY <1>1, <1>2, <1>4, ProcessTyped, NameFacts DEF Sidecars, Entries, Listed
<1>8. /\ root'[q.at] = root[q.temp] /\ root'[q.temp] = Absent
      /\ \A n \in Entries \ {q.at, q.temp} : root'[n] = root[n]
  BY <1>1, <1>4, <1>7 DEF TypeOK
<1>9. /\ root[q.temp] \in IF q.at \in Derived THEN {Manifest(q)} ELSE PlainFiles
      /\ ~InPlace(q)
  BY <1>1, <1>4 DEF TempsOK
<1>10. /\ Manifest(q) \in Manifests /\ Manifest(q).args = q.args
       /\ Manifest(q).files = q.files
  BY <1>4, ManifestTyped
<1>11. root[q.temp] # Absent
  BY <1>9, <1>10, BytesDistinct
<1>12. \A n \in Copied \cup Tool \cup Derived : n # q.at => root'[n] = root[n]
  BY <1>7, <1>8 DEF Entries, Listed
<1>13. TypeOK'
  <2>1. root' \in [Entries -> {Absent} \cup PlainFiles \cup Manifests]
    BY <1>1, <1>4, <1>9, <1>10 DEF TypeOK
  <2>2. \A n \in Copied \cup Tool : root'[n] \in PlainFiles \cup {Absent}
    BY <1>4, <1>8, <1>9, <1>12, StepNames DEF TypeOK
  <2>3. published' \in {Absent} \cup Manifests
    BY <1>1, <1>4, <1>10 DEF TypeOK
  <2> QED
    BY <1>1, <1>4, <1>6, <2>1, <2>2, <2>3 DEF TypeOK
<1>14. \A t \in Temps : root'[t] = Absent
  <2>1. \A t \in Temps : t \in Entries /\ t # q.at
    BY <1>2, NameFacts DEF Entries, Listed, Sidecars
  <2> QED
    BY <1>4, <1>8, <2>1
<1>15. TempsOK(proc[p])'
  BY <1>6, <1>14 DEF TempsOK
<1>16. /\ root'["manifest"] \in {Absent, Partial, published'}
       /\ proc'[p].at \in Running => root'["manifest"] \in {Absent, Partial}
  <2>1. CASE q.at = "manifest"
    BY <1>1, <1>5, <1>6, <1>8, <1>9, <2>1, StepNames
  <2>2. CASE q.at # "manifest"
    BY <1>4, <1>12, <2>2 DEF Derived
  <2> QED
    BY <2>1, <2>2
<1>17. q.args.declared \subseteq Copied
  BY <1>4, ArgsTyped
<1>18. ASSUME spent["damage"] = 0
       PROVE  /\ PlacedOK(q)
              /\ q.at \in Derived =>
                   /\ \A n \in Copied \cup Tool : root'[n] = root[n]
                   /\ Placed(q) = q.args.declared \cup Tool
                   /\ q.files = [n \in q.args.declared \cup Tool |-> root'[n]]
  <2>1. PlacedOK(q)
    BY <1>4, <1>18
  <2>2. ASSUME q.at \in Derived
        PROVE  /\ \A n \in Copied \cup Tool : root'[n] = root[n]
               /\ Placed(q) = q.args.declared \cup Tool
    <3>1. Earlier(q.at) = Copied \cup Tool
      BY <2>2 DEF Earlier, Derived
    <3> QED
      BY <1>4, <1>12, <1>17, <2>2, <3>1, StepNames DEF Placed
  <2>3. ASSUME q.at \in Derived
        PROVE  q.files = [n \in q.args.declared \cup Tool |-> root'[n]]
    BY <1>17, <2>1, <2>2, <2>3 DEF PlacedOK
  <2> QED
    BY <2>1, <2>2, <2>3
<1>19. ASSUME spent["damage"] = 0 PROVE PlacedOK(proc[p])'
  <2>1. /\ root["manifest"] = Absent
        /\ q.at # "manifest" => root["checksums"] = Absent
        /\ \A n \in Copied \cup Tool : root[n] # Absent <=> n \in Placed(q)
    BY <1>3, <1>18, <1>19, StepNames DEF PlacedOK
  <2>2. proc'[p].at \in Running => root'["manifest"] = Absent
    <3>1. proc'[p].at \in Running => q.at # "manifest"
      BY <1>5, <1>6, StepNames
    <3> QED
      BY <1>12, <2>1, <3>1 DEF Derived
  <2>3. proc'[p].at \in Running \ {"manifest"} => root'["checksums"] = Absent
    <3>1. proc'[p].at \in Running \ {"manifest"} => q.at \notin {"manifest", "checksums"}
      BY <1>5, <1>6, StepNames
    <3> QED
      BY <1>12, <2>1, <3>1 DEF Derived
  <2>4. proc'[p].at \in Listing =>
            \A n \in Copied \cup Tool : root'[n] # Absent <=> n \in Placed(proc[p])'
    <3>1. Placed(proc[p])' = q.args.inplace \cup (Earlier(After(q)) \cap (q.args.declared \cup Tool))
      BY <1>6 DEF Placed
    <3>2. CASE q.at \in Copied \cup Tool
      BY <1>5, <1>8, <1>11, <1>12, <2>1, <3>1, <3>2 DEF Placed
    <3>3. CASE q.at \in Derived
      BY <1>4, <1>5, <1>12, <2>1, <3>1, <3>3, StepNames DEF Placed
    <3> QED
      BY <1>2, <3>2, <3>3 DEF Sidecars
  <2>5. proc'[p].at \in Derived =>
            proc'[p].files = [n \in proc'[p].args.declared \cup Tool |-> root'[n]]
    BY <1>5, <1>6, <1>18, <1>19 DEF Derived
  <2>6. proc'[p].at = "manifest" => root'["checksums"] = Manifest(proc[p])'
    <3>1. proc'[p].at = "manifest" => q.at = "checksums"
      BY <1>5, <1>6
    <3>2. Manifest(proc[p])' = Manifest(q)
      BY <1>6 DEF Manifest
    <3> QED
      BY <1>8, <1>9, <3>1, <3>2 DEF Derived
  <2> QED
    BY <2>2, <2>3, <2>4, <2>5, <2>6 DEF PlacedOK
<1>20. ASSUME spent["damage"] = 0 PROVE CommitPoint'
  <2>1. CASE q.at # "manifest"
    BY <1>3, <1>12, <1>18, <1>20, <2>1, StepNames DEF CommitPoint, PlacedOK
  <2>2. CASE q.at = "manifest"
    <3>1. /\ root["checksums"] = Manifest(q)
          /\ \A n \in Copied \cup Tool : root[n] # Absent <=> n \in Placed(q)
      BY <1>3, <1>18, <1>20, <2>2 DEF PlacedOK
    <3>2. /\ \A n \in Copied \cup Tool : root'[n] = root[n]
          /\ Placed(q) = q.args.declared \cup Tool
          /\ q.files = [n \in q.args.declared \cup Tool |-> root'[n]]
      BY <1>18, <1>20, <2>2 DEF Derived
    <3>3. root'["manifest"] = Manifest(q) /\ root'["checksums"] = Manifest(q)
      BY <1>8, <1>9, <1>12, <2>2, <3>1 DEF Derived
    <3>4. InRoot' \ Derived = q.args.declared \cup Tool
      <4>1. \A n \in Listed : root'[n] # Absent <=> n \in q.args.declared \cup Tool
        BY <1>14, <1>17, <3>1, <3>2, NameFacts
      <4> QED
        BY <1>17, <4>1, NameFacts DEF InRoot, Listed
    <3>5. Explained(Manifest(q))'
      BY <1>6, <1>10, <3>2, <3>3, <3>4 DEF Explained, Manifest
    <3>6. Explained(root["manifest"])'
      BY <1>6, <3>3, <3>5 DEF Manifest, Explained, InRoot
    <3> QED
      BY <3>6 DEF CommitPoint
  <2> QED
    BY <2>1, <2>2
<1>21. ASSUME spent["damage"] = 0, spent["edit"] = 0 PROVE AcceptedOK(proc[p])'
  <2>1. AcceptedOK(q)
    BY <1>4, <1>21
  <2>2. StageMet(q.args.kind, q.args.declared) /\ EnvironmentOf(q) \notin Secret
    BY <1>3, <2>1 DEF AcceptedOK
  <2>3. "environment" \in q.args.declared
    BY <1>4, ArgsTyped
  <2>4. CASE q.at = "environment"
    <3>1. root'["environment"] = supplied["environment"]
      BY <1>1, <1>8, <2>1, <2>4 DEF AcceptedOK
    <3>2. EnvironmentOf(q) = supplied["environment"]
      BY <1>9, <2>4 DEF EnvironmentOf, InPlace, Earlier
    <3>3. EnvironmentOf(proc[p])' = root'["environment"]
      BY <1>5, <1>6, <2>3, <2>4 DEF EnvironmentOf
    <3>4. After(q) \notin {"environment", "verify"}
      BY <1>5, <2>4
    <3> QED
      BY <1>6, <2>2, <3>1, <3>2, <3>3, <3>4 DEF AcceptedOK
  <2>5. CASE q.at # "environment"
    <3>1. EnvironmentOf(proc[p])' = EnvironmentOf(q)
      BY <1>1, <1>5, <1>6, <1>12, <2>3, <2>5 DEF EnvironmentOf, Copied
    <3>2. After(q) = "verify" =>
             /\ root'["manifest"] = Manifest(q)
             /\ DOMAIN q.files = q.args.declared \cup Tool
      <4>1. After(q) = "verify" => q.at = "manifest"
        BY <1>5
      <4> QED
        BY <1>8, <1>9, <1>18, <1>21, <4>1 DEF Derived
    <3> QED
      BY <1>6, <1>10, <2>2, <3>1, <3>2 DEF AcceptedOK
  <2> QED
    BY <2>4, <2>5
<1> QED
  BY <1>1, <1>4, <1>6, <1>13, <1>15, <1>16, <1>19, <1>20, <1>21, Assemble

LEMMA DigestKeeps ==
    ASSUME OneAtATime, ArtifactInv, NEW p \in Procs, Digest(p) PROVE ArtifactInv'
<1> DEFINE q == proc[p]
<1>1. /\ q.at = "digest" /\ UNCHANGED <<root, supplied, published, spent>>
      /\ proc' = [proc EXCEPT ![p].files = FilesOnDisk(q), ![p].at = After(q)]
  BY DEF Digest
<1>2. q.at \in Listing
  BY <1>1 DEF Listing
<1>3. /\ TypeOK /\ q \in Processes /\ ArgsOK(q) /\ TempsOK(q) /\ q.args \in Args
      /\ q.args.inplace \subseteq q.args.declared
      /\ root["manifest"] \in {Absent, Partial}
      /\ \A t \in Temps : root[t] # Absent => t = q.temp
      /\ spent["damage"] = 0 => PlacedOK(q)
      /\ spent["damage"] = 0 /\ spent["edit"] = 0 =>
            supplied \in [Copied -> Contents] /\ AcceptedOK(q)
  BY <1>2, ListingFacts
<1>4. After(q) = "checksums"
  BY <1>1 DEF After
<1>5. q.temp = Absent /\ \A t \in Temps : root[t] = Absent
  BY <1>1, <1>3, StepNames, BytesDistinct DEF TempsOK
<1>6. InRoot \ Derived = {n \in Copied \cup Tool : root[n] # Absent}
  <2>1. \A n \in Entries \ Derived : root[n] # Absent => n \in Copied \cup Tool
    BY <1>5, NameFacts
  <2>2. Copied \cup Tool \subseteq Entries \ Derived
    BY NameFacts
  <2> QED
    BY <2>1, <2>2 DEF InRoot
<1>7. FilesOnDisk(q) \in Listings
  <2> DEFINE D == InRoot \ Derived
  <2>1. D \in SUBSET Listed /\ \A n \in D : root[n] \in PlainFiles
    BY <1>3, <1>6 DEF TypeOK, Listed
  <2>2. [n \in D |-> root[n]] \in [D -> PlainFiles]
    BY <2>1
  <2> QED
    BY <2>1, <2>2, ListingTyped DEF FilesOnDisk
<1> DEFINE r == [q EXCEPT !.files = FilesOnDisk(q), !.at = After(q)]
<1>8. /\ r \in Processes /\ r.at = "checksums" /\ r.files = FilesOnDisk(q)
      /\ r.args = q.args /\ r.temp = Absent /\ r.result = q.result
  BY <1>3, <1>4, <1>5, <1>7 DEF Processes, ProcSteps, Sidecars, Derived
<1>9. proc' \in [Procs -> Processes] /\ proc'[p] = r
  <2>1. proc' = [proc EXCEPT ![p] = r]
    BY <1>1
  <2> HIDE DEF r
  <2> QED
    BY <1>3, <1>8, <2>1, Assign DEF TypeOK
<1> HIDE DEF r
<1>10. TypeOK'
  BY <1>1, <1>3, <1>9 DEF TypeOK
<1>11. ArgsOK(proc[p])'
  BY <1>1, <1>3, <1>8, <1>9 DEF ArgsOK, Copied
<1>12. TempsOK(proc[p])'
  BY <1>1, <1>5, <1>8, <1>9 DEF TempsOK
<1>13. ASSUME spent["damage"] = 0 PROVE CommitPoint' /\ PlacedOK(proc[p])'
  <2>1. /\ root["manifest"] = Absent /\ root["checksums"] = Absent
        /\ \A n \in Copied \cup Tool : root[n] # Absent <=> n \in Placed(q)
    BY <1>1, <1>2, <1>3, <1>13, StepNames DEF PlacedOK
  <2>2. Earlier("digest") = Copied \cup Tool /\ Earlier("checksums") = Copied \cup Tool
    BY DEF Earlier
  <2>3. Placed(proc[p])' = Placed(q)
    BY <1>1, <1>8, <1>9, <2>2 DEF Placed
  <2>4. Placed(q) = q.args.declared \cup Tool /\ q.args.declared \subseteq Copied
    BY <1>1, <1>3, <2>2, ArgsTyped DEF Placed
  <2>5. FilesOnDisk(q) = [n \in q.args.declared \cup Tool |-> root[n]]
    <3>1. InRoot \ Derived = q.args.declared \cup Tool
      BY <1>6, <2>1, <2>4
    <3> QED
      BY <3>1 DEF FilesOnDisk
  <2> QED
    BY <1>1, <1>8, <1>9, <2>1, <2>3, <2>5 DEF PlacedOK, CommitPoint
<1>14. ASSUME spent["damage"] = 0, spent["edit"] = 0 PROVE AcceptedOK(proc[p])'
  <2>1. StageMet(q.args.kind, q.args.declared) /\ EnvironmentOf(q) \notin Secret
    BY <1>2, <1>3, <1>14 DEF AcceptedOK
  <2>2. EnvironmentOf(proc[p])' = EnvironmentOf(q)
    BY <1>1, <1>8, <1>9 DEF EnvironmentOf, Earlier, Copied
  <2> QED
    BY <1>8, <1>9, <2>1, <2>2 DEF AcceptedOK
<1> QED
  BY <1>1, <1>3, <1>10, <1>11, <1>12, <1>13, <1>14, Assemble

LEMMA FinishKeeps ==
    ASSUME OneAtATime, ArtifactInv, NEW p \in Procs, Finish(p) \/ KillProc(p)
    PROVE  ArtifactInv'
<1>1. CASE Finish(p)
  <2>1. PICK r \in {"ok", "failed"} : proc' = [proc EXCEPT ![p] = Done(r)]
    BY <1>1 DEF Finish
  <2> QED
    BY <1>1, <2>1, EndKeeps DEF Finish
<1>2. CASE KillProc(p)
  BY <1>2, EndKeeps DEF KillProc, Kinds
<1> QED
  BY <1>1, <1>2

LEMMA NextInv ==
    ASSUME OneAtATime, ArtifactInv, [Next]_vars
    PROVE  ArtifactInv'
<1>1. ASSUME NEW p \in Procs, Step(p) PROVE ArtifactInv'
  <2>1. CASE Create(p)
    BY <2>1, CreateKeeps
  <2>2. CASE Build(p)
    BY <2>2, BuildKeeps
  <2>3. CASE OpenShard(p) \/ FillShard(p)
    BY <2>3, ShardKeeps
  <2>4. CASE Readback(p)
    BY <2>4, ReadbackKeeps
  <2>5. CASE Enlist(p)
    BY <2>5, EnlistKeeps
  <2>6. CASE Adopt(p)
    BY <2>6, AdoptKeeps
  <2>7. CASE Stage(p)
    BY <2>7, StageKeeps
  <2>8. CASE Replace(p)
    BY <2>8, ReplaceKeeps
  <2>9. CASE Digest(p)
    BY <2>9, DigestKeeps
  <2>10. CASE Finish(p) \/ KillProc(p)
    BY <2>10, FinishKeeps
  <2> QED
    BY <1>1, <2>1, <2>2, <2>3, <2>4, <2>5, <2>6, <2>7, <2>8, <2>9, <2>10 DEF Step
<1>2. CASE Revise
  BY <1>2, EditKeeps
<1>3. CASE Damage
  BY <1>3, DamageKeeps
<1>4. CASE Place \/ Clean
  BY <1>4, OperatorKeeps
<1>5. CASE UNCHANGED vars
  <2>1. /\ TypeOK' /\ ManifestOK' /\ UNCHANGED <<root, supplied, proc, spent>>
        /\ CommitPoint' <=> CommitPoint
    BY <1>5 DEF vars, ArtifactInv, TypeOK, ManifestOK, CommitPoint, Explained, InRoot
  <2>2. \A p \in Procs : (ArgsOK(proc[p]) /\ TempsOK(proc[p]))'
    BY <2>1 DEF ArtifactInv, ArgsOK, TempsOK, InPlace, Manifest
  <2>3. spent["damage"] = 0 => \A p \in Procs : PlacedOK(proc[p])'
    BY <2>1 DEF ArtifactInv, PlacedOK, Placed, Manifest
  <2>4. spent["damage"] = 0 /\ spent["edit"] = 0 => \A p \in Procs : AcceptedOK(proc[p])'
    BY <2>1 DEF ArtifactInv, AcceptedOK, EnvironmentOf
  <2> QED
    BY <2>1, <2>2, <2>3, <2>4 DEF ArtifactInv
<1> QED
  BY <1>1, <1>2, <1>3, <1>4, <1>5 DEF Next, Rest

-----------------------------------------------------------------------------
(* The theorems, for any contents, arguments and event budgets, when the   *)
(* commands on the root do not overlap.                                    *)
LEMMA SpecInv == OneAtATime /\ Spec => []ArtifactInv
<1>1. OneAtATime /\ ArtifactInv /\ [Next]_vars => ArtifactInv'
  BY NextInv
<1>2. OneAtATime => []OneAtATime
  <2>1. OneAtATime => OneAtATime'
    BY DEF OneAtATime
  <2> QED
    BY <2>1, PTL
<1> QED
  BY <1>1, <1>2, InitInv, PTL DEF Spec

(* Whatever is killed, edited or damaged: the root, the arguments and the  *)
(* listings of every command keep their types.                             *)
THEOREM ArtifactTypes == OneAtATime /\ Spec => []TypeOK
<1>1. ArtifactInv => TypeOK
  BY DEF ArtifactInv
<1> QED
  BY <1>1, SpecInv, PTL

(* manifest.json, written last, is the commit point of create: while no    *)
(* file has been damaged, a manifest explains every file beside it.        *)
THEOREM ManifestCommits == OneAtATime /\ Spec => []CommitPoint
<1>1. ArtifactInv => CommitPoint
  BY DEF ArtifactInv, CommitPoint
<1> QED
  BY <1>1, SpecInv, PTL

(* create lists the files its arguments name and the sidecars it writes,   *)
(* and nothing that killed commands left in the root.                      *)
THEOREM ListsOwnFiles == OneAtATime /\ Spec => []NothingAbsorbed
<1>1. ArtifactInv => NothingAbsorbed
  <2> SUFFICES ASSUME ArtifactInv, spent["damage"] = 0, NEW p \in Procs,
                      proc[p].at \in Derived
               PROVE  DOMAIN proc[p].files = proc[p].args.declared \cup Tool
    BY DEF NothingAbsorbed
  <2>1. PlacedOK(proc[p])
    BY DEF ArtifactInv
  <2> QED
    BY <2>1 DEF PlacedOK
<1> QED
  BY <1>1, SpecInv, PTL

(* verify accepts a root only if it holds the artifact that was published  *)
(* last, file by file, whatever was damaged, killed and retried.           *)
THEOREM VerifyCatchesDamage == OneAtATime /\ Spec => []DamageCaught
<1>1. ArtifactInv => DamageCaught
  <2> SUFFICES ASSUME ArtifactInv, Verifies
               PROVE  /\ root["manifest"] = published
                      /\ \A n \in Listed :
                            root[n] = IF n \in DOMAIN published.files
                                      THEN published.files[n] ELSE Absent
    BY DEF DamageCaught
  <2>1. root["manifest"] \in Manifests /\ Explained(root["manifest"])
    BY DEF Verifies
  <2>2. root["manifest"] = published
    BY <2>1, BytesDistinct DEF ArtifactInv, ManifestOK
  <2>3. /\ InRoot \ Derived = DOMAIN published.files
        /\ \A n \in DOMAIN published.files : root[n] = published.files[n]
    BY <2>1, <2>2 DEF Explained
  <2>4. \A n \in Listed : n \in Entries \ Derived
    BY NameFacts
  <2> QED
    BY <2>2, <2>3, <2>4 DEF InRoot
<1> QED
  BY <1>1, SpecInv, PTL

UntouchedStep ==
    (root["manifest"] = published /\ published # Absent)
        => root' = root \/ spent'["damage"] > spent["damage"]

LEMMA UntouchedHolds ==
    ASSUME ArtifactInv, [Next]_vars
    PROVE  UntouchedStep
<1> SUFFICES ASSUME root["manifest"] = published, published # Absent
             PROVE  root' = root \/ spent'["damage"] > spent["damage"]
  BY DEF UntouchedStep
<1>1. TypeOK /\ ManifestOK
  BY DEF ArtifactInv
<1>2. root["manifest"] \notin {Absent, Partial}
  BY <1>1, BytesDistinct DEF TypeOK
<1>3. \A p \in Procs : proc[p].at \notin Running
  BY <1>1, <1>2 DEF ManifestOK
<1>4. ASSUME NEW p \in Procs, Step(p) PROVE root' = root
  <2>1. ~OpenShard(p) /\ ~FillShard(p) /\ ~Stage(p)
    BY <1>3 DEF OpenShard, FillShard, Stage, Running, Sidecars
  <2>2. ~Replace(p)
    <3>1. proc[p].temp = Absent
      <4>1. proc[p].at \notin Sidecars
        BY <1>3, StepNames
      <4> QED
        BY <4>1 DEF ArtifactInv, TempsOK
    <3> QED
      BY <3>1 DEF Replace
  <2> QED
    BY <1>4, <2>1, <2>2 DEF Step, Create, Build, Readback, Enlist, Adopt, Digest, Finish, KillProc
<1>5. CASE Damage
  <2>1. spent \in [Kinds -> Nat] /\ spent' = [spent EXCEPT !["damage"] = @ + 1]
    BY <1>1, <1>5 DEF Damage, Spend, TypeOK
  <2> QED
    BY <2>1 DEF Kinds
<1>6. CASE Place \/ Clean
  BY <1>2, <1>6 DEF Place, Clean, InRoot, Entries, Derived
<1> QED
  BY <1>4, <1>5, <1>6 DEF Next, Revise, Rest, vars

(* No command writes to, renames over or removes a file of a published     *)
(* artifact.                                                               *)
THEOREM ArtifactImmutable == OneAtATime /\ Spec => PublishedUntouched
<1>1. ArtifactInv /\ [Next]_vars => [UntouchedStep]_vars
  BY UntouchedHolds
<1>2. PublishedUntouched <=> [][UntouchedStep]_vars
  BY DEF PublishedUntouched, UntouchedStep
<1> QED
  BY <1>1, <1>2, SpecInv, PTL DEF Spec

(* What a create checked of its arguments, and what a manifest is by the   *)
(* time it is there, hold whatever the caller edits; only the environment  *)
(* may have been exchanged.                                                *)
StageOf(q) == StageMet(q.args.kind, q.args.declared)
PublishedOK ==
    /\ root["manifest"] \in Manifests
    /\ StageMet(root["manifest"].args.kind, root["manifest"].args.declared)
    /\ DOMAIN root["manifest"].files = root["manifest"].args.declared \cup Tool
    /\ spent["edit"] = 0 => root["environment"] \notin Secret
EditInv ==
    spent["damage"] = 0 =>
        /\ \A p \in Procs : /\ proc[p].at \in Listing => StageOf(proc[p])
                            /\ proc[p].at = "verify" => root["manifest"] # Absent
        /\ root["manifest"] # Absent => PublishedOK

LEMMA SpentGrows ==
    ASSUME TypeOK, [Next]_vars
    PROVE  /\ spent'["damage"] = 0 => spent["damage"] = 0
           /\ spent'["edit"] = 0 => spent["edit"] = 0
           /\ Damage => spent'["damage"] # 0
<1>1. CASE UNCHANGED spent
  <2>1. Damage => FALSE
    BY <1>1 DEF Damage, Spend, TypeOK, Kinds
  <2> QED
    BY <1>1, <2>1
<1>2. CASE \E k \in Kinds : Spend(k)
  <2>1. Damage => spent'["damage"] # 0
    BY DEF Damage, Spend, TypeOK, Kinds
  <2> QED
    BY <1>2, <2>1, SpentTyped
<1>3. ASSUME NEW p \in Procs, Step(p)
      PROVE  UNCHANGED spent \/ \E k \in Kinds : Spend(k)
  BY <1>3 DEF Step, Create, Build, OpenShard, FillShard, Readback, Enlist, Adopt, Stage, Replace,
              Digest, Finish, KillProc, Kinds
<1> QED
  BY <1>1, <1>2, <1>3 DEF Next, Revise, Damage, Place, Clean, Rest, vars, Kinds

(* A process that lists files has passed the preflight with its arguments. *)
LEMMA StageKept ==
    ASSUME ArtifactInv, NEW p \in Procs, Step(p), proc[p].at \in Listing => StageOf(proc[p]),
           proc'[p].at \in Listing
    PROVE  StageOf(proc[p])'
<1> DEFINE q == proc[p]
<1>1. /\ TypeOK /\ q \in Processes /\ proc \in [Procs -> Processes] /\ ArgsOK(q) /\ TempsOK(q)
  BY DEF ArtifactInv, TypeOK
<1>2. ASSUME NEW r \in {"none", "ok", "failed"}, proc' = [proc EXCEPT ![p] = Done(r)] PROVE FALSE
  BY <1>1, <1>2, Ended, StepNames
<1>3. ~Fail(p)
  BY <1>2 DEF Fail
<1>4. ASSUME NEW step \in ProcSteps, Advance(p, step)
      PROVE  proc'[p].at = step /\ proc'[p].args = q.args
  BY <1>1, <1>4, Advanced
<1>5. CASE Create(p)
  <2>1. PICK a \in Creates :
           /\ Acceptable(a)
           /\ proc' = [proc EXCEPT ![p] = [Done("none") EXCEPT !.at = "dataset",
                                               !.cmd = "create", !.args = a]]
    BY <1>5 DEF Create
  <2>2. [Done("none") EXCEPT !.at = "dataset", !.cmd = "create", !.args = a].args = a
    BY DEF Done
  <2>3. proc'[p].args = a
    BY <1>1, <2>1, <2>2
  <2> QED
    BY <2>1, <2>3 DEF Acceptable, StageOf
<1>6. CASE Build(p)
  <2>1. PICK l \in Labels :
           proc' = [proc EXCEPT ![p] = [Done("none") EXCEPT !.at = "open", !.cmd = "build",
                                           !.args = BuildArgs(l), !.map = supplied["input"]]]
    BY <1>6 DEF Build
  <2>2. [Done("none") EXCEPT !.at = "open", !.cmd = "build",
                             !.args = BuildArgs(l), !.map = supplied["input"]].at = "open"
    BY DEF Done
  <2>3. proc'[p].at = "open"
    BY <1>1, <2>1, <2>2
  <2> QED
    BY <2>3 DEF Listing, Sidecars, Copied, Tool, Derived
<1>7. CASE OpenShard(p) \/ FillShard(p) \/ Readback(p)
  <2>1. PICK step \in {"fill", "readback", "enlist"} : Advance(p, step)
    BY <1>3, <1>7 DEF OpenShard, FillShard, Readback
  <2>2. step \in ProcSteps /\ step \notin Listing
    BY DEF ProcSteps, Listing, Sidecars, Copied, Tool, Derived
  <2> QED
    BY <1>4, <2>1, <2>2
<1>8. CASE Enlist(p)
  <2>1. Acceptable(q.args) /\ Advance(p, "dataset")
    BY <1>3, <1>8 DEF Enlist
  <2>2. proc'[p].args = q.args
    BY <1>4, <2>1 DEF ProcSteps, Sidecars, Tool
  <2> QED
    BY <2>1, <2>2 DEF Acceptable, StageOf
<1>9. CASE Adopt(p) \/ Replace(p)
  <2>1. q.at \in Listing /\ Advance(p, After(q))
    BY <1>1, <1>3, <1>9, StepNames DEF Adopt, Replace, TempsOK
  <2>2. proc'[p].args = q.args
    BY <1>1, <2>1, AdvancedAfter
  <2> QED
    BY <2>1, <2>2 DEF StageOf
<1>10. CASE Stage(p)
  <2>1. q.at \in Listing
    BY <1>10, StepNames DEF Stage
  <2>2. PICK t \in Temps : proc' = [proc EXCEPT ![p].temp = t]
    BY <1>3, <1>10 DEF Stage
  <2>3. proc'[p] = [q EXCEPT !.temp = t] /\ [q EXCEPT !.temp = t].args = q.args
    BY <1>1, <2>2 DEF Processes
  <2> QED
    BY <2>1, <2>3 DEF StageOf
<1>11. CASE Digest(p)
  <2>1. proc'[p] = [q EXCEPT !.files = FilesOnDisk(q), !.at = After(q)]
    BY <1>1, <1>11 DEF Digest
  <2>2. [q EXCEPT !.files = FilesOnDisk(q), !.at = After(q)].args = q.args
    BY <1>1 DEF Processes
  <2>3. q.at \in Listing
    BY <1>11 DEF Digest, Listing
  <2> QED
    BY <2>1, <2>2, <2>3 DEF StageOf
<1>12. ~Finish(p) /\ ~KillProc(p)
  BY <1>2 DEF Finish, KillProc
<1> QED
  BY <1>5, <1>6, <1>7, <1>8, <1>9, <1>10, <1>11, <1>12 DEF Step

(* Nothing but the last rename brings a manifest about or ends the writing. *)
LEMMA OnlyRename ==
    ASSUME ArtifactInv, NEW p \in Procs, Step(p), root["manifest"] = Absent,
           proc[p].at # "verify", ~(Replace(p) /\ proc[p].at = "manifest")
    PROVE  root'["manifest"] = Absent /\ proc'[p].at # "verify"
<1> DEFINE q == proc[p]
<1>1. /\ TypeOK /\ q \in Processes /\ proc \in [Procs -> Processes] /\ ArgsOK(q) /\ TempsOK(q)
      /\ "manifest" \in Entries /\ "manifest" \notin Temps \cup {"payload"}
  BY NameFacts DEF ArtifactInv, TypeOK, Entries, Derived
<1>2. ASSUME NEW r \in {"none", "ok", "failed"}, proc' = [proc EXCEPT ![p] = Done(r)]
      PROVE  proc'[p].at # "verify"
  BY <1>1, <1>2, Ended
<1>3. ASSUME NEW step \in ProcSteps, Advance(p, step)
      PROVE  proc'[p].at = step
  BY <1>1, <1>3, Advanced
<1>4. Fail(p) => proc'[p].at # "verify"
  BY <1>2 DEF Fail
<1>5. CASE Create(p) \/ Build(p)
  <2>1. PICK r : /\ proc' = [proc EXCEPT ![p] = r] /\ r.at \in {"dataset", "open"}
    <3>1. CASE Create(p)
      <4>1. PICK a : proc' = [proc EXCEPT ![p] = [Done("none") EXCEPT !.at = "dataset",
                                                      !.cmd = "create", !.args = a]]
        BY <3>1 DEF Create
      <4>2. [Done("none") EXCEPT !.at = "dataset", !.cmd = "create", !.args = a].at = "dataset"
        BY DEF Done
      <4> QED
        BY <4>1, <4>2
    <3>2. CASE Build(p)
      <4>1. PICK l : proc' = [proc EXCEPT ![p] =
                                 [Done("none") EXCEPT !.at = "open", !.cmd = "build",
                                     !.args = BuildArgs(l), !.map = supplied["input"]]]
        BY <3>2 DEF Build
      <4>2. [Done("none") EXCEPT !.at = "open", !.cmd = "build", !.args = BuildArgs(l),
                                 !.map = supplied["input"]].at = "open"
        BY DEF Done
      <4> QED
        BY <4>1, <4>2
    <3> QED
      BY <1>5, <3>1, <3>2
  <2>2. proc'[p].at # "verify"
    BY <1>1, <2>1
  <2> QED
    BY <1>5, <2>2 DEF Create, Build
<1>6. CASE OpenShard(p) \/ FillShard(p) \/ Readback(p) \/ Enlist(p)
  <2>1. PICK step \in {"fill", "readback", "enlist", "dataset"} : Advance(p, step) \/ Fail(p)
    BY <1>6 DEF OpenShard, FillShard, Readback, Enlist
  <2>2. step \in ProcSteps
    BY DEF ProcSteps, Sidecars, Tool
  <2>3. proc'[p].at # "verify"
    BY <1>3, <1>4, <2>1, <2>2
  <2>4. root'["manifest"] = Absent
    BY <1>1, <1>6 DEF OpenShard, FillShard, Readback, Enlist, TypeOK
  <2> QED
    BY <2>3, <2>4
<1>7. ASSUME q.at \in Listing, q.at # "manifest" PROVE After(q) \in Listing
  BY <1>1, <1>7, AfterPlaces
<1>8. CASE Adopt(p)
  <2>1. q.at \in Listing /\ q.at # "manifest"
    BY <1>8, StepNames DEF Adopt, Copied
  <2>2. Advance(p, After(q)) => proc'[p].at = After(q)
    BY <1>1, <2>1, AdvancedAfter
  <2> QED
    BY <1>4, <1>7, <1>8, <2>1, <2>2, StepNames DEF Adopt
<1>9. CASE Replace(p)
  <2>1. q.at \in Listing /\ q.at # "manifest" /\ Advance(p, After(q)) /\ q.temp \in Temps
    BY <1>1, <1>9, StepNames, ProcessTyped DEF Replace, TempsOK
  <2>2. proc'[p].at = After(q)
    BY <1>1, <2>1, AdvancedAfter
  <2>3. root'["manifest"] = Absent
    BY <1>1, <1>9, <2>1 DEF Replace, TypeOK
  <2> QED
    BY <1>7, <2>1, <2>2, <2>3, StepNames
<1>10. CASE Stage(p)
  <2>1. root'["manifest"] = Absent
    BY <1>1, <1>10 DEF Stage, TypeOK
  <2>2. ASSUME NEW t \in Temps, proc' = [proc EXCEPT ![p].temp = t] PROVE proc'[p].at = q.at
    <3>1. proc'[p] = [q EXCEPT !.temp = t] /\ [q EXCEPT !.temp = t].at = q.at
      BY <1>1, <2>2 DEF Processes
    <3> QED
      BY <3>1
  <2> QED
    BY <1>4, <1>10, <2>1, <2>2 DEF Stage
<1>11. CASE Digest(p)
  <2>1. proc'[p] = [q EXCEPT !.files = FilesOnDisk(q), !.at = After(q)]
    BY <1>1, <1>11 DEF Digest
  <2>2. [q EXCEPT !.files = FilesOnDisk(q), !.at = After(q)].at = After(q)
    BY <1>1 DEF Processes
  <2>3. q.at \in Listing /\ q.at # "manifest"
    BY <1>11 DEF Digest, Listing
  <2> QED
    BY <1>7, <1>11, <2>1, <2>2, <2>3, StepNames DEF Digest
<1>12. CASE Finish(p) \/ KillProc(p)
  BY <1>2, <1>12 DEF Finish, KillProc
<1> QED
  BY <1>5, <1>6, <1>8, <1>9, <1>10, <1>11, <1>12 DEF Step

(* The last rename publishes what the preflight accepted.                  *)
LEMMA RenamePublishes ==
    ASSUME ArtifactInv, NEW p \in Procs, proc[p].at = "manifest", Replace(p),
           spent["damage"] = 0, StageOf(proc[p])
    PROVE  root'["manifest"] # Absent /\ PublishedOK'
<1> DEFINE q == proc[p]
<1>1. /\ TypeOK /\ q \in Processes /\ TempsOK(q) /\ PlacedOK(q)
      /\ spent["edit"] = 0 => AcceptedOK(q)
      /\ "manifest" \in Derived /\ "manifest" \in Listing
  BY StepNames DEF ArtifactInv, TypeOK
<1>2. q.temp \in Temps /\ root[q.temp] = Manifest(q)
  BY <1>1, ProcessTyped DEF Replace, TempsOK
<1>3. {"manifest", "environment"} \subseteq Entries \ Temps
  BY NameFacts DEF Entries, Listed, Derived, Copied
<1>4. root'["manifest"] = Manifest(q) /\ root'["environment"] = root["environment"]
  BY <1>1, <1>2, <1>3 DEF Replace, TypeOK
<1>5. Manifest(q) \in Manifests /\ Manifest(q).args = q.args /\ Manifest(q).files = q.files
  BY <1>1, ManifestTyped
<1>6. DOMAIN q.files = q.args.declared \cup Tool
  BY <1>1 DEF PlacedOK
<1>7. spent["edit"] = 0 => root["environment"] \notin Secret
  BY <1>1 DEF AcceptedOK, EnvironmentOf, Earlier, Copied
<1>8. spent' = spent
  BY DEF Replace
<1> QED
  BY <1>4, <1>5, <1>6, <1>7, <1>8, BytesDistinct DEF PublishedOK, StageOf

LEMMA EditNext ==
    ASSUME OneAtATime, ArtifactInv, EditInv, [Next]_vars
    PROVE  EditInv'
<1> SUFFICES ASSUME spent'["damage"] = 0
             PROVE  /\ \A p \in Procs : /\ proc'[p].at \in Listing => StageOf(proc[p])'
                                        /\ proc'[p].at = "verify" => root'["manifest"] # Absent
                    /\ root'["manifest"] # Absent => PublishedOK'
  BY DEF EditInv
<1>1. TypeOK /\ ManifestOK /\ ArtifactInv'
  BY NextInv DEF ArtifactInv
<1>2. /\ spent["damage"] = 0 /\ ~Damage
      /\ spent'["edit"] = 0 => spent["edit"] = 0
  BY <1>1, SpentGrows
<1>3. CASE root["manifest"] # Absent
  <2>1. PublishedOK /\ root["manifest"] \notin {Absent, Partial}
    BY <1>2, <1>3, BytesDistinct DEF EditInv, PublishedOK
  <2>2. root["manifest"] = published /\ published # Absent
    BY <1>1, <2>1 DEF ManifestOK
  <2>3. root' = root
    BY <1>2, <2>2, UntouchedHolds DEF UntouchedStep
  <2>4. \A p \in Procs : proc'[p].at \notin Running
    BY <1>1, <2>1, <2>3 DEF ArtifactInv, ManifestOK
  <2> QED
    BY <1>2, <2>1, <2>3, <2>4, StepNames DEF PublishedOK
<1>4. CASE root["manifest"] = Absent
  <2>1. \A p \in Procs : /\ proc[p].at # "verify"
                         /\ proc[p].at \in Listing => StageOf(proc[p])
    BY <1>2, <1>4 DEF EditInv
  <2>2. ASSUME NEW p \in Procs, Step(p)
        PROVE  /\ proc'[p].at \in Listing => StageOf(proc[p])'
               /\ proc'[p].at = "verify" => root'["manifest"] # Absent
               /\ root'["manifest"] # Absent => PublishedOK'
    <3>1. proc'[p].at \in Listing => StageOf(proc[p])'
      BY <2>1, <2>2, StageKept
    <3>2. CASE Replace(p) /\ proc[p].at = "manifest"
      BY <1>2, <2>1, <3>1, <3>2, RenamePublishes, StepNames
    <3>3. CASE ~(Replace(p) /\ proc[p].at = "manifest")
      BY <1>4, <2>1, <2>2, <3>1, <3>3, OnlyRename
    <3> QED
      BY <3>2, <3>3
  <2>3. CASE \E p \in Procs : Step(p)
    BY <2>2, <2>3 DEF OneAtATime
  <2>4. CASE Revise \/ Place \/ Clean \/ UNCHANGED vars
    <3>1. proc' = proc /\ root'["manifest"] = Absent
      BY <1>1, <1>4, <2>4, NameFacts DEF Revise, Place, Clean, vars, TypeOK, Entries, Derived
    <3> QED
      BY <2>1, <3>1 DEF StageOf
  <2> QED
    BY <1>2, <2>3, <2>4 DEF Next, Rest
<1> QED
  BY <1>3, <1>4

LEMMA EditSpec == OneAtATime /\ Spec => []EditInv
<1>1. Init => EditInv
  <2>1. Init => root["manifest"] = Absent
    BY Zenon DEF Init, Entries, Derived
  <2>2. Init => \A p \in Procs : proc[p].at = "idle"
    BY DoneTyped DEF Init
  <2> QED
    BY <2>1, <2>2, StepNames DEF EditInv
<1>2. OneAtATime /\ ArtifactInv /\ EditInv /\ [Next]_vars => EditInv'
  BY EditNext
<1>3. OneAtATime => []OneAtATime
  <2>1. OneAtATime => OneAtATime'
    BY DEF OneAtATime
  <2> QED
    BY <2>1, PTL
<1> QED
  BY <1>1, <1>2, <1>3, SpecInv, PTL DEF Spec

LEMMA PublishedFacts ==
    ASSUME ArtifactInv, EditInv, spent["damage"] = 0, root["manifest"] # Absent
    PROVE  Verifies \/ (spent["edit"] > 0 /\ root["environment"] \in Secret)
<1>1. PublishedOK /\ TypeOK /\ CommitPoint
  BY DEF EditInv, ArtifactInv
<1>2. Explained(root["manifest"])
  BY <1>1 DEF CommitPoint
<1>3. "environment" \in root["manifest"].args.declared
  BY <1>1, ArgsTyped DEF PublishedOK, Manifests
<1>4. spent["edit"] \in Nat
  BY <1>1 DEF TypeOK, Kinds
<1>5. spent["edit"] = 0 => root["environment"] \notin Secret
  BY <1>1 DEF PublishedOK
<1>6. root["environment"] \notin Secret => Verifies
  BY <1>1, <1>2, <1>3 DEF PublishedOK, Verifies
<1> QED
  BY <1>4, <1>5, <1>6

SufficientStep ==
    \A p \in Procs :
        /\ proc[p].at \in Sidecars \cup {"digest", "verify"}
        /\ proc'[p].result = "failed"
        => \/ spent["damage"] > 0
           \/ spent["edit"] > 0 /\ (GoneSince(proc[p]) \/ SecretSince(proc[p]))

LEMMA SufficientHolds ==
    ASSUME OneAtATime, ArtifactInv, EditInv, [Next]_vars
    PROVE  SufficientStep
<1> SUFFICES ASSUME NEW p \in Procs, proc[p].at \in Listing \cup {"verify"},
                    spent["damage"] = 0,
                    ~(spent["edit"] > 0 /\ (GoneSince(proc[p]) \/ SecretSince(proc[p])))
             PROVE  proc'[p].result # "failed"
  <2>1. spent["damage"] \in Nat
    BY DEF ArtifactInv, TypeOK, Kinds
  <2> QED
    BY <2>1 DEF SufficientStep, Listing
<1> DEFINE q == proc[p]
<1>1. /\ TypeOK /\ q \in Processes /\ ArgsOK(q) /\ PlacedOK(q)
      /\ spent["edit"] = 0 => supplied \in [Copied -> Contents]
      /\ spent["edit"] \in Nat /\ q.at # "idle"
  BY StepNames DEF ArtifactInv, TypeOK, Kinds
<1>2. q.result = "none"
  BY <1>1 DEF ArgsOK
<1>3. ASSUME NEW step \in ProcSteps, Advance(p, step) PROVE proc'[p].result # "failed"
  BY <1>1, <1>2, <1>3, Advanced DEF TypeOK
<1>4. CASE proc' = proc
  BY <1>2, <1>4
<1>5. ASSUME NEW o \in Procs, Step(o) PROVE proc'[p].result # "failed"
  <2>1. o = p
    BY DEF OneAtATime
  <2>2. /\ ~Create(p) /\ ~Build(p) /\ ~OpenShard(p) /\ ~FillShard(p)
        /\ ~Readback(p) /\ ~Enlist(p)
    BY <1>1, StepNames DEF Create, Build, OpenShard, FillShard, Readback, Enlist, Listing,
                           Sidecars, Copied, Tool, Derived
  <2>3. CASE Adopt(p)
    <3>1. q.at \in Listing /\ q.at \in q.args.inplace
      BY <2>3, StepNames DEF Adopt, InPlace
    <3>2. root[q.at] # Absent
      BY <1>1, <2>3, <3>1 DEF Adopt, PlacedOK, Placed
    <3>3. Advance(p, After(q))
      BY <2>3, <3>2 DEF Adopt
    <3>4. PICK step : step = After(q)
      OBVIOUS
    <3>5. step \in ProcSteps
      BY <1>1, <3>1, <3>4, AfterPlaces, StepNames
    <3> QED
      BY <1>3, <3>3, <3>4, <3>5
  <2>4. CASE Stage(p)
    <3>1. ContentOf(q) # Absent
      <4>1. q.at \in Sidecars
        BY <2>4 DEF Stage, Sidecars
      <4>2. Manifest(q) # Absent
        BY <1>1, ManifestTyped, BytesDistinct
      <4>3. q.args.label # Absent
        BY <1>1, ProcessTyped, ArgsTyped, BytesDistinct
      <4>4. q.at \in Copied => supplied[q.at] # Absent
        <5>1. CASE spent["edit"] = 0
          BY <1>1, <5>1, BytesDistinct
        <5>2. CASE spent["edit"] > 0
          BY <5>2 DEF GoneSince
        <5> QED
          BY <1>1, <5>1, <5>2
      <4> QED
        BY <4>1, <4>2, <4>3, <4>4 DEF ContentOf, Sidecars
    <3>2. PICK t \in Temps : proc' = [proc EXCEPT ![p].temp = t]
      BY <2>4, <3>1 DEF Stage
    <3>3. [q EXCEPT !.temp = t].result = q.result
      BY <1>1 DEF Processes
    <3>4. proc'[p] = [q EXCEPT !.temp = t]
      BY <1>1, <3>2 DEF TypeOK
    <3> QED
      BY <1>2, <3>3, <3>4
  <2>5. CASE Replace(p)
    <3>1. q.at \in Listing
      BY <2>5, StepNames DEF Replace, ArtifactInv, TempsOK
    <3>2. PICK step : step = After(q)
      OBVIOUS
    <3>3. step \in ProcSteps
      BY <1>1, <3>1, <3>2, AfterPlaces, StepNames
    <3> QED
      BY <1>3, <2>5, <3>2, <3>3 DEF Replace
  <2>6. CASE Digest(p)
    <3>1. proc'[p] = [q EXCEPT !.files = FilesOnDisk(q), !.at = After(q)]
      BY <1>1, <2>6 DEF Digest, TypeOK
    <3>2. [q EXCEPT !.files = FilesOnDisk(q), !.at = After(q)].result = q.result
      BY <1>1 DEF Processes
    <3> QED
      BY <1>2, <3>1, <3>2
  <2>7. CASE Finish(p)
    <3>1. Verifies
      <4>1. q.at = "verify" /\ root["manifest"] # Absent
        BY <2>7 DEF Finish, EditInv
      <4> QED
        BY <4>1, PublishedFacts DEF SecretSince
    <3>2. proc' = [proc EXCEPT ![p] = Done("ok")]
      BY <2>7, <3>1 DEF Finish
    <3> QED
      BY <1>1, <3>2 DEF TypeOK, Done
  <2>8. CASE KillProc(p)
    BY <1>1, <2>8 DEF KillProc, TypeOK, Done
  <2> QED
    BY <1>5, <2>1, <2>2, <2>3, <2>4, <2>5, <2>6, <2>7, <2>8 DEF Step
<1> QED
  BY <1>4, <1>5 DEF Next, Revise, Damage, Place, Clean, Rest, vars

(* Once its preflight has passed, a create writes its artifact and the     *)
(* verification of a build succeeds, unless a file is damaged, the file to *)
(* be copied next is gone, or the environment was exchanged for one with   *)
(* secrets.                                                                *)
THEOREM PreflightEnough == OneAtATime /\ Spec => PreflightSuffices
<1>1. OneAtATime /\ ArtifactInv /\ EditInv /\ [Next]_vars => [SufficientStep]_vars
  BY SufficientHolds
<1>2. PreflightSuffices <=> [][SufficientStep]_vars
  BY DEF PreflightSuffices, SufficientStep
<1>3. OneAtATime => []OneAtATime
  <2>1. OneAtATime => OneAtATime'
    BY DEF OneAtATime
  <2> QED
    BY <2>1, PTL
<1> QED
  BY <1>1, <1>2, <1>3, SpecInv, EditSpec, PTL DEF Spec

(* A manifest, once there, explains every file, lists only what its        *)
(* command wrote, and verifies unless the environment was exchanged for    *)
(* one with secrets after the preflight.                                   *)
THEOREM ManifestIsHonest == OneAtATime /\ Spec => []ManifestHonest
<1>1. ArtifactInv /\ EditInv => PublishedVerifies
  BY PublishedFacts DEF PublishedVerifies
<1>2. TypeOK /\ CommitPoint /\ NothingAbsorbed /\ PublishedVerifies => ManifestHonest
  BY DEF ManifestHonest
<1> QED
  BY <1>1, <1>2, ArtifactTypes, ManifestCommits, ListsOwnFiles, SpecInv, EditSpec, PTL
=============================================================================
