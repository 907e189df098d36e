--------------------------- MODULE MapPublication ---------------------------
(***************************************************************************)
(* The derived prune map of a build (build/__main__.py:34-181) is published*)
(* beside --out, under one name, before the build reads it back; hours     *)
(* later create_artifact copies it into the artifact by path.  Builders    *)
(* with the same --out race for the name, die between their calls and are  *)
(* run again; the operator may replace or remove the file.  The build      *)
(* itself is in CandidatePlan and ArtifactRoot.                            *)
(***************************************************************************)
EXTENDS Integers

CONSTANTS
  Builders,
  Choice,     \* [Builders -> Texts]: the map each one's selection gives
  Texts,
  NoText, Nobody,
  MaxKills, MaxEdits, MaxRetries

ASSUME ChoiceAssumption == Choice \in [Builders -> Texts]
ASSUME NobodyAssumption == Nobody \notin Builders
ASSUME BoundsAssumption == MaxKills \in Nat /\ MaxEdits \in Nat /\ MaxRetries \in Nat

VARIABLES
  file,       \* the published map: [text, whole, by], by the process still writing
  busy,       \* --out holds something
  builder,    \* [Builders -> [at, used, carried]]
  kills, edits, retries

pubVars == <<file, busy, builder, kills, edits, retries>>

NoMap == [text |-> NoText, whole |-> FALSE, by |-> Nobody]
Whole(t) == [text |-> t, whole |-> TRUE, by |-> Nobody]
Files == [text : Texts \cup {NoText}, whole : BOOLEAN, by : Builders \cup {Nobody}]

Running == {"exists", "compare", "create", "fill", "recheck", "load", "shards", "carry"}
Steps == {"start", "refused", "killed", "built"} \cup Running

\* Mutant: a builder that resumes, at a step the command does not have.
Resumed == [at |-> "resume", used |-> NoText, carried |-> NoText]
Fresh == [at |-> "start", used |-> NoText, carried |-> NoText]
Go(b, step) == builder' = [builder EXCEPT ![b].at = step]
Quiet == UNCHANGED <<kills, edits, retries>>

-----------------------------------------------------------------------------
\* _preflight_paths: --out must be absent or empty.
Preflight(b) ==
  /\ builder[b].at = "start"
  /\ Go(b, IF busy THEN "refused" ELSE "exists")
  /\ UNCHANGED <<file, busy>> /\ Quiet

Exists(b) ==
  /\ builder[b].at = "exists"
  /\ Go(b, IF file = NoMap THEN "create" ELSE "compare")
  /\ UNCHANGED <<file, busy>> /\ Quiet

\* Mutant: a file of that name is used as it is.
SameOrAny(b) == file # NoMap
\* An identical file is used as it is; any other content refuses the build.
Same(b) == file.whole /\ file.text = Choice[b]
Compare(b) ==
  /\ builder[b].at = "compare"
  /\ Go(b, IF Same(b) THEN "recheck" ELSE "refused")
  /\ UNCHANGED <<file, busy>> /\ Quiet

\* Mutant: an existing file is truncated.
OpenAnyway(b) == TRUE
\* open(.., "xb") creates the file or fails.
OpensNew(b) == file = NoMap
CreateMap(b) ==
  /\ builder[b].at = "create"
  /\ IF OpensNew(b)
       THEN /\ file' = [text |-> Choice[b], whole |-> FALSE, by |-> b]
            /\ Go(b, "fill")
     ELSE Go(b, "compare") /\ UNCHANGED file
  /\ UNCHANGED busy /\ Quiet

\* If the file was replaced meanwhile, the rest goes to the one that is gone.
Fill(b) ==
  /\ builder[b].at = "fill"
  /\ file' = IF file.by = b THEN Whole(Choice[b]) ELSE file
  /\ Go(b, "recheck")
  /\ UNCHANGED busy /\ Quiet

\* build_candidate looks at --out again, then reads the map by its path.
Recheck(b) ==
  /\ builder[b].at = "recheck"
  /\ Go(b, IF busy THEN "refused" ELSE "load")
  /\ UNCHANGED <<file, busy>> /\ Quiet

\* Part of a map is no JSON document.
ReadMap(b) ==
  /\ builder[b].at = "load"
  /\ builder' = [builder EXCEPT ![b] = IF file.whole THEN [@ EXCEPT !.at = "shards", !.used = file.text]
                                       ELSE [@ EXCEPT !.at = "refused"]]
  /\ UNCHANGED <<file, busy>> /\ Quiet

Shards(b) ==
  /\ builder[b].at = "shards"
  /\ busy' = TRUE
  /\ Go(b, "carry")
  /\ UNCHANGED file /\ Quiet

\* create_artifact copies whatever the path names now.
Carry(b) ==
  /\ builder[b].at = "carry"
  /\ builder' = [builder EXCEPT ![b] = IF file = NoMap THEN [@ EXCEPT !.at = "refused"]
                                       ELSE [@ EXCEPT !.at = "built", !.carried = file.text]]
  /\ UNCHANGED <<file, busy>> /\ Quiet

-----------------------------------------------------------------------------
(* Around the builders                                                     *)

\* A dead builder leaves the file as far as it was written.
Kill(b) ==
  /\ kills < MaxKills
  /\ builder[b].at \in Running
  /\ Go(b, "killed")
  /\ file' = IF file.by = b THEN [file EXCEPT !.by = Nobody] ELSE file
  /\ kills' = kills + 1
  /\ UNCHANGED <<busy, edits, retries>>

Retry(b) ==
  /\ retries < MaxRetries
  /\ builder[b].at \in {"refused", "killed"}
  /\ builder' = [builder EXCEPT ![b] = Fresh]
  /\ retries' = retries + 1
  /\ UNCHANGED <<file, busy, kills, edits>>

\* The operator removes the file, or puts another map in its place.
Edit ==
  /\ edits < MaxEdits
  /\ file' \in {NoMap} \cup {Whole(t) : t \in Texts}
  /\ edits' = edits + 1
  /\ UNCHANGED <<busy, builder, kills, retries>>

PubRest ==
  /\ \A b \in Builders : builder[b].at \in {"refused", "killed", "built"}
  /\ UNCHANGED pubVars

PubInit ==
  /\ file \in {NoMap} \cup {Whole(t) : t \in Texts}
  /\ busy = FALSE
  /\ builder = [b \in Builders |-> Fresh]
  /\ kills = 0 /\ edits = 0 /\ retries = 0

BuilderStep(b) == \/ Preflight(b) \/ Exists(b) \/ Compare(b) \/ CreateMap(b) \/ Fill(b)
                  \/ Recheck(b) \/ ReadMap(b) \/ Shards(b) \/ Carry(b)
PubNext == \/ \E b \in Builders : BuilderStep(b) \/ Kill(b) \/ Retry(b)
           \/ Edit \/ PubRest

PubSpec == PubInit /\ [][PubNext]_pubVars
-----------------------------------------------------------------------------
(* Properties                                                              *)

PubTypeOK ==
  /\ file \in Files
  /\ busy \in BOOLEAN
  /\ builder \in [Builders -> [at : Steps, used : Texts \cup {NoText},
                               carried : Texts \cup {NoText}]]
  /\ kills \in 0 .. MaxKills /\ edits \in 0 .. MaxEdits /\ retries \in 0 .. MaxRetries

\* Whatever races, dies or is run again, a builder reads the map of its own
\* selection, unless the operator touched the file (__main__.py:101-132).
OwnMapUsed == edits = 0 => \A b \in Builders : builder[b].used \in {NoText, Choice[b]}

\* The map an artifact carries is the one its experts were picked with, unless
\* the operator touched the file: create_artifact reads the path a second time
\* (candidate.py:2361).
CarriedMapUsed ==
  edits = 0 => \A b \in Builders : builder[b].at = "built" => builder[b].carried = builder[b].used

\* No builder changes a file that is whole, or another builder's: what it
\* finishes is its own (the docstring of _publish_map: "without ever
\* clobbering an existing file").
NeverClobbers ==
  [][ (edits' = edits /\ file # NoMap /\ file' # file)
        => \E b \in Builders : ~file.whole /\ file.by = b ]_pubVars

\* From its shards to the artifact, every build has one map, its own, whoever races for the name of
\* the file, dies or is run again, unless the operator touches it (_publish_map, create_artifact).
OneOwnMap == PubTypeOK /\ OwnMapUsed /\ CarriedMapUsed
=============================================================================
