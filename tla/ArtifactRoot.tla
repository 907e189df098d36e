---------------------------- MODULE ArtifactRoot ----------------------------
(* One artifact directory: create and verify of artifacts.py, and the      *)
(* candidate builder of build/candidate.py, which writes its payload into  *)
(* the empty directory and then creates and verifies the artifact.  Every  *)
(* sidecar goes through a temporary file of its own in the same directory; *)
(* checksums.txt and then manifest.json come last.  There is no lock.  A   *)
(* refused command changes nothing, so a refusal in the preflight is a     *)
(* guard.                                                                  *)
EXTENDS Naturals

CONSTANTS
    Procs,       \* processes
    Temps,       \* names of temporary files
    Contents,    \* contents of the caller's files
    Secret,      \* those that, as an environment, have keys like secrets
    Creates,     \* the arguments create may be given, see Args
    Labels,      \* what the sidecars written from arguments say
    Limit,       \* bound on each kind of event, see Kinds
    Partial,     \* bytes that mean nothing
    Absent       \* no file

(* Several files that are written and checked alike share a name: dataset  *)
(* is dataset_manifest.json and metrics.json, input the expert map,        *)
(* commands commands.txt and source_commits.json, and payload also the     *)
(* quant assignment and the reports of a build.                            *)
Copied  == {"environment", "input", "payload"}
Tool    == {"dataset", "commands"}
Derived == {"checksums", "manifest"}
Listed  == Copied \cup Tool \cup Temps
Entries == Listed \cup Derived

(* declared: the files named on the command line; inplace: those of them   *)
(* whose path is their destination in the root.                            *)
Args == [kind : {"dataset", "pruned"}, label : Labels,
         declared : {d \in SUBSET Copied : "environment" \in d},
         inplace : SUBSET Copied]

ShardFiles == [built : Contents]
PlainFiles == {Partial} \cup Contents \cup Labels \cup ShardFiles
Listings  == UNION {[listed -> PlainFiles] : listed \in SUBSET Listed}
Manifests == [args : Args, files : Listings]

Kinds == {"command", "kill", "edit", "damage"}

ASSUME ArgsAssumption ==
    /\ Creates \subseteq {a \in Args : a.inplace \subseteq a.declared}
    /\ Labels # {} /\ Secret \subseteq Contents
ASSUME LimitAssumption == Limit \in [Kinds -> Nat]
ASSUME NameAssumption ==
    /\ Temps \cap (Copied \cup Tool \cup Derived) = {}
    /\ Absent \notin PlainFiles \cup Manifests \cup Temps
    /\ \A c \in PlainFiles : c \notin Manifests
    /\ Partial \notin ShardFiles /\ (Contents \cup Labels) \cap ShardFiles = {}

VARIABLES
    root,       \* the artifact directory
    supplied,   \* the caller's files
    proc,       \* what each process is doing
    published,  \* the manifest that was committed last
    spent       \* events of each kind so far

vars == <<root, supplied, proc, published, spent>>
-----------------------------------------------------------------------------
NoArgs == [kind |-> "dataset", label |-> CHOOSE l \in Labels : TRUE,
           declared |-> {"environment"}, inplace |-> {}]
NoFiles == [n \in {} |-> Absent]
Done(result) == [at |-> "idle", cmd |-> "none", args |-> NoArgs, map |-> Absent,
                 temp |-> Absent, files |-> NoFiles, result |-> result]

Spend(k) == /\ spent[k] < Limit[k]
            /\ spent' = [spent EXCEPT ![k] = @ + 1]

(* scan_artifact_files                                                     *)
InRoot == {n \in Entries : root[n] # Absent}

FileOf(a, n) == IF n \in a.inplace THEN root[n] ELSE supplied[n]
StageMet(kind, inputs) == kind = "pruned" => "input" \in inputs

(* Mutant: the environment is not looked into.                             *)
AcceptsSecrets(a) ==
    /\ root["manifest"] = Absent
    /\ StageMet(a.kind, a.declared)
    /\ \A n \in a.declared : FileOf(a, n) # Absent
    /\ InRoot \subseteq a.inplace
(* Mutant: hidden files are skipped when the root is scanned.              *)
AcceptsHidden(a) ==
    /\ root["manifest"] = Absent
    /\ StageMet(a.kind, a.declared)
    /\ \A n \in a.declared : FileOf(a, n) # Absent
    /\ FileOf(a, "environment") \notin Secret
    /\ InRoot \ Temps \subseteq a.inplace
(* The preflight of create.                                                *)
Acceptable(a) ==
    /\ root["manifest"] = Absent
    /\ StageMet(a.kind, a.declared)
    /\ \A n \in a.declared : FileOf(a, n) # Absent
    /\ FileOf(a, "environment") \notin Secret
    /\ InRoot \subseteq a.inplace

Create(p) ==
    /\ proc[p].at = "idle" /\ Spend("command")
    /\ \E a \in Creates :
          /\ Acceptable(a)
          /\ proc' = [proc EXCEPT ![p] = [Done("none") EXCEPT !.at = "dataset",
                                              !.cmd = "create", !.args = a]]
    /\ UNCHANGED <<root, supplied, published>>

BuildArgs(label) == [kind |-> "pruned", label |-> label,
                     declared |-> Copied, inplace |-> {"payload"}]

(* Mutant: any directory will do.                                          *)
AnyDirectory == TRUE
Empty == InRoot = {}

(* The builder starts from an empty directory and reads the prune map.     *)
Build(p) ==
    /\ proc[p].at = "idle" /\ Spend("command")
    /\ Empty /\ supplied["input"] # Absent
    /\ \E l \in Labels :
          proc' = [proc EXCEPT ![p] = [Done("none") EXCEPT !.at = "open", !.cmd = "build",
                                          !.args = BuildArgs(l), !.map = supplied["input"]]]
    /\ UNCHANGED <<root, supplied, published>>

Advance(p, step) == proc' = [proc EXCEPT ![p].at = step, ![p].temp = Absent]
Fail(p) == proc' = [proc EXCEPT ![p] = Done("failed")]

(* A shard is written in place, from its first byte on.                    *)
OpenShard(p) ==
    /\ proc[p].at = "open"
    /\ root' = [root EXCEPT !["payload"] = Partial]
    /\ Advance(p, "fill")
    /\ UNCHANGED <<supplied, published, spent>>

Shard(q) == [built |-> q.map]
FillShard(p) ==
    /\ proc[p].at = "fill"
    /\ root' = [root EXCEPT !["payload"] = Shard(proc[p])]
    /\ Advance(p, "readback")
    /\ UNCHANGED <<supplied, published, spent>>

(* What was written is read back and its digests compared; then create is  *)
(* called, with its own preflight.                                         *)
Readback(p) ==
    /\ proc[p].at = "readback"
    /\ IF root["payload"] = Shard(proc[p]) THEN Advance(p, "enlist") ELSE Fail(p)
    /\ UNCHANGED <<root, supplied, published, spent>>

Enlist(p) ==
    /\ proc[p].at = "enlist"
    /\ IF Acceptable(proc[p].args) THEN Advance(p, "dataset") ELSE Fail(p)
    /\ UNCHANGED <<root, supplied, published, spent>>

(* Mutant: the manifest is written before the checksums.                   *)
ManifestFirst(q) ==
    CASE q.at = "dataset"     -> "environment"
      [] q.at = "environment" -> IF "input" \in q.args.declared THEN "input" ELSE "commands"
      [] q.at = "input"       -> "commands"
      [] q.at = "commands"    -> IF "payload" \in q.args.declared THEN "payload" ELSE "digest"
      [] q.at = "payload"     -> "digest"
      [] q.at = "digest"      -> "manifest"
      [] q.at = "manifest"    -> "checksums"
      [] q.at = "checksums"   -> "verify"
(* The order of the writes; what was not declared is left out.             *)
After(q) ==
    CASE q.at = "dataset"     -> "environment"
      [] q.at = "environment" -> IF "input" \in q.args.declared THEN "input" ELSE "commands"
      [] q.at = "input"       -> "commands"
      [] q.at = "commands"    -> IF "payload" \in q.args.declared THEN "payload" ELSE "digest"
      [] q.at = "payload"     -> "digest"
      [] q.at = "digest"      -> "checksums"
      [] q.at = "checksums"   -> "manifest"
      [] q.at = "manifest"    -> "verify"

Manifest(q) == [args |-> q.args, files |-> q.files]
(* Mutant: checksums.txt leaves the manifest out.                          *)
BareContent(q) ==
    IF q.at \in Tool THEN q.args.label
    ELSE IF q.at = "checksums" THEN q.files
    ELSE IF q.at = "manifest" THEN Manifest(q) ELSE supplied[q.at]
ContentOf(q) ==
    IF q.at \in Tool THEN q.args.label
    ELSE IF q.at \in Derived THEN Manifest(q) ELSE supplied[q.at]
InPlace(q) == q.at \in q.args.inplace

(* _copy_into_root adopts a file that is already its own destination.      *)
Adopt(p) ==
    /\ proc[p].at \in Copied /\ InPlace(proc[p])
    /\ IF root[proc[p].at] # Absent THEN Advance(p, After(proc[p])) ELSE Fail(p)
    /\ UNCHANGED <<root, supplied, published, spent>>

(* mkstemp, write and fsync; a source that is gone is refused only now.    *)
Stage(p) ==
    /\ proc[p].at \in Copied \cup Tool \cup Derived /\ ~InPlace(proc[p])
    /\ proc[p].temp = Absent
    /\ \/ /\ ContentOf(proc[p]) = Absent
          /\ Fail(p)
          /\ UNCHANGED root
       \/ /\ ContentOf(proc[p]) # Absent
          /\ \E t \in Temps :
                /\ root[t] = Absent
                /\ root' = [root EXCEPT ![t] = ContentOf(proc[p])]
                /\ proc' = [proc EXCEPT ![p].temp = t]
    /\ UNCHANGED <<supplied, published, spent>>

Replace(p) ==
    LET q == proc[p]
    IN  /\ q.temp # Absent
        /\ root' = [root EXCEPT ![q.at] = root[q.temp], ![q.temp] = Absent]
        /\ published' = IF q.at = "manifest" THEN Manifest(q) ELSE published
        /\ Advance(p, After(q))
        /\ UNCHANGED <<supplied, spent>>

(* Every file but the derived ones is listed with its digest.              *)
FilesOnDisk(q) == [n \in InRoot \ Derived |-> root[n]]
Digest(p) ==
    /\ proc[p].at = "digest"
    /\ proc' = [proc EXCEPT ![p].files = FilesOnDisk(proc[p]),
                            ![p].at = After(proc[p])]
    /\ UNCHANGED <<root, supplied, published, spent>>

(* Mutant: files that the manifest does not list are ignored.              *)
ExplainedListed(m) ==
    /\ \A n \in DOMAIN m.files : root[n] = m.files[n]
    /\ root["checksums"] = m
(* verify_artifact: the manifest explains every file and every file is as  *)
(* listed, the checksums explain the manifest, and the stage requirements  *)
(* and the environment are checked again.                                  *)
Explained(m) ==
    /\ InRoot \ Derived = DOMAIN m.files
    /\ \A n \in DOMAIN m.files : root[n] = m.files[n]
    /\ root["checksums"] = m
Verifies ==
    /\ root["manifest"] \in Manifests
    /\ LET m == root["manifest"]
       IN  /\ Tool \cup {"environment"} \subseteq DOMAIN m.files
           /\ m.args.declared \cap {"input"} \subseteq DOMAIN m.files
           /\ StageMet(m.args.kind, m.args.declared)
           /\ Explained(m)
           /\ root["environment"] \notin Secret

(* create ends here; a build verifies what it published.                   *)
Finish(p) ==
    /\ proc[p].at = "verify"
    /\ proc' = [proc EXCEPT ![p] =
                   Done(IF proc[p].cmd = "create" \/ Verifies THEN "ok" ELSE "failed")]
    /\ UNCHANGED <<root, supplied, published, spent>>

(* The process is killed; its temporary file stays.                        *)
KillProc(p) ==
    /\ proc[p].at # "idle" /\ Spend("kill")
    /\ proc' = [proc EXCEPT ![p] = Done("none")]
    /\ UNCHANGED <<root, supplied, published>>

(* The caller rewrites or removes a file he passes to create.              *)
Revise ==
    /\ Spend("edit")
    /\ \E n \in Copied : \E c \in (Contents \cup {Absent}) \ {supplied[n]} :
          supplied' = [supplied EXCEPT ![n] = c]
    /\ UNCHANGED <<root, proc, published>>

(* A file of the artifact is damaged, lost or added.                       *)
Damage ==
    /\ Spend("damage")
    /\ \E n \in Copied \cup Tool \cup Derived :
       \E c \in {Partial, Absent} \ {root[n]} : root' = [root EXCEPT ![n] = c]
    /\ UNCHANGED <<supplied, proc, published>>

(* The operator puts a payload in place, or clears a root that holds no    *)
(* artifact.                                                               *)
Place ==
    /\ InRoot = {} /\ \A p \in Procs : proc[p].at = "idle"
    /\ \E c \in Contents : root' = [root EXCEPT !["payload"] = c]
    /\ UNCHANGED <<supplied, proc, published, spent>>
Clean ==
    /\ root["manifest"] = Absent /\ InRoot # {} /\ \A p \in Procs : proc[p].at = "idle"
    /\ root' = [n \in Entries |-> Absent]
    /\ UNCHANGED <<supplied, proc, published, spent>>

Rest == (\A p \in Procs : proc[p].at = "idle") /\ UNCHANGED vars
-----------------------------------------------------------------------------
Init ==
    /\ root = [n \in Entries |-> Absent]
    /\ supplied \in [Copied -> Contents]
    /\ proc = [p \in Procs |-> Done("none")]
    /\ published = Absent
    /\ spent = [k \in Kinds |-> 0]

Step(p) ==
    \/ Create(p) \/ Build(p) \/ OpenShard(p) \/ FillShard(p) \/ Readback(p) \/ Enlist(p)
    \/ Adopt(p) \/ Stage(p) \/ Replace(p) \/ Digest(p) \/ Finish(p) \/ KillProc(p)

Next == (\E p \in Procs : Step(p)) \/ Revise \/ Damage \/ Place \/ Clean \/ Rest
Spec == Init /\ [][Next]_vars
-----------------------------------------------------------------------------
Sidecars == Copied \cup Tool \cup Derived
ProcSteps == Sidecars \cup {"idle", "open", "fill", "readback", "enlist", "digest", "verify"}

Processes ==
    [at : ProcSteps, cmd : {"none", "create", "build"}, args : Args,
     map : {Absent} \cup Contents, temp : {Absent} \cup Temps, files : Listings,
     result : {"none", "ok", "failed"}]

TypeOK ==
    /\ root \in [Entries -> {Absent} \cup PlainFiles \cup Manifests]
    /\ \A n \in Copied \cup Tool : root[n] \in PlainFiles \cup {Absent}
    /\ supplied \in [Copied -> {Absent} \cup Contents]
    /\ published \in {Absent} \cup Manifests
    /\ spent \in [Kinds -> Nat]
    /\ proc \in [Procs -> Processes]

(* An artifact exists only once all of its bytes are in place: whenever    *)
(* there is a manifest, it explains every file, through killed commands    *)
(* and retries, unless a file is damaged afterwards.                       *)
CommitPoint ==
    (spent["damage"] = 0 /\ root["manifest"] # Absent) => Explained(root["manifest"])

(* No command touches a published artifact.                                *)
PublishedUntouched ==
    [][(root["manifest"] = published /\ published # Absent)
           => root' = root \/ spent'["damage"] > spent["damage"]]_vars

(* A manifest lists what its command declared and wrote: nothing that an   *)
(* earlier command left, and no temporary file, unless files come and go.  *)
NothingAbsorbed ==
    spent["damage"] = 0 => \A p \in Procs :
        proc[p].at \in Derived =>
            DOMAIN proc[p].files = proc[p].args.declared \cup Tool

(* After the preflight a create, or the verification of a build, fails     *)
(* only for what changed in the meantime: a file was damaged, the file to  *)
(* be copied next is gone, or the environment was exchanged for one with   *)
(* secrets, which create copies and only verify refuses.  Any other edit   *)
(* is taken in as if it had been there from the start.                     *)
GoneSince(q) == q.at \in Copied /\ supplied[q.at] = Absent
SecretSince(q) == q.at = "verify" /\ root["environment"] \in Secret
PreflightSuffices ==
    [][\A p \in Procs :
           /\ proc[p].at \in Sidecars \cup {"digest", "verify"}
           /\ proc'[p].result = "failed"
           => \/ spent["damage"] > 0
              \/ spent["edit"] > 0 /\ (GoneSince(proc[p]) \/ SecretSince(proc[p]))]_vars

(* What verifies is what was published last, bit by bit, whatever damage   *)
(* and whatever retries came after it.                                     *)
DamageCaught ==
    Verifies =>
        /\ root["manifest"] = published
        /\ \A n \in Listed :
               root[n] = IF n \in DOMAIN published.files THEN published.files[n] ELSE Absent

(* What is published verifies, whatever the caller edited and however      *)
(* often the command was killed, unless a file is damaged afterwards.  The *)
(* one edit that verification refuses is of the environment.               *)
PublishedVerifies ==
    (spent["damage"] = 0 /\ root["manifest"] # Absent) =>
        Verifies \/ (spent["edit"] > 0 /\ root["environment"] \in Secret)

(* The manifest is the commit point of what its own command wrote, through *)
(* kills and retries (create_artifact writes it last and lists what is     *)
(* there), and nobody is left with an artifact that does not verify.       *)
ManifestHonest == TypeOK /\ CommitPoint /\ NothingAbsorbed /\ PublishedVerifies
=============================================================================
