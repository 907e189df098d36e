------------------------------ MODULE Verdicts ------------------------------
(***************************************************************************)
(* evaluation/gates.py and evaluation/validate_levels.py: the evidence     *)
(* about a candidate is collected in one gate record and in a directory of *)
(* level records, and the two tools may be asked for their verdict at any  *)
(* time.  Measurements and thresholds are small numbers; an evidence field is   *)
(* its position in the table of its level.                                 *)
(***************************************************************************)
EXTENDS Optional, Integers, Sequences, FiniteSets, SequencesExt, Functions

CONSTANTS
  Floored,       \* metrics that must reach a floor
  Flags,         \* claims that must be true
  Values,        \* what a metric may measure; a negative one is malformed
  Thresholds,    \* [floor : [Floored -> Int], min, max, ceiling]: merged configurations
  GateRecords,   \* gate records to begin with: [measured, metrics, flags]
  LevelRecords,  \* documents that may be filed
  FirstRecords,  \* documents filed to begin with: a set of sequences
  MaxFiled,      \* documents in the directory
  MaxMeasured    \* changes of the gate record

VARIABLES
  record,        \* [measured, metrics, flags]: the gate record
  config,        \* the thresholds of the gates
  changes,       \* how often the record or the configuration changed
  gateExit,      \* the exit code of the last call of gates.py
  filed,         \* the documents of the directory, in the order of their names
  reportExit     \* the exit code of the last call of validate_levels.py

gateVars == <<record, config, changes, gateExit>>
levelVars == <<filed, reportExit>>

-----------------------------------------------------------------------------
(* gates.py                                                                *)

Measurements == Floored \cup {"resident_weight_bytes"}

ValidMetrics(metrics) == \A m \in Measurements : metrics[m] = None \/ metrics[m] >= 0
ValidThresholds(th) ==
  /\ \A m \in Floored : th.floor[m] >= 0
  /\ 0 <= th.min /\ th.min <= th.max /\ th.max <= th.ceiling

InBand(th, bytes) == th.min <= bytes /\ bytes <= th.max /\ bytes <= th.ceiling

\* The values: metrics are numbers or missing, claims are true, false or missing, and what valid
\* thresholds ask for can be measured.
Evidence == [measured : BOOLEAN, metrics : [Measurements -> Int \cup {None}],
             flags : [Flags -> BOOLEAN \cup {None}]]
ASSUME EvidenceAssumption ==
  /\ Values \subseteq Int /\ None \notin Int \cup BOOLEAN
  /\ "resident_weight_bytes" \notin Floored
  /\ GateRecords \subseteq Evidence
  /\ Thresholds \subseteq [floor : [Floored -> Int], min : Int, max : Int, ceiling : Int]
ASSUME ThresholdsAssumption ==
  \A th \in Thresholds : ValidThresholds(th) =>
    /\ \A m \in Floored : \E v \in Values : v >= th.floor[m]
    /\ \E v \in Values : InBand(th, v)

Judged(value, good) == IF value = None THEN "unmeasured" ELSE IF good THEN "pass" ELSE "fail"

\* Mutant: a hole hides a fail.
HolesFirst(verdicts) == IF "unmeasured" \in verdicts THEN "unmeasured"
                        ELSE IF "fail" \in verdicts THEN "fail" ELSE "pass"
Worst(verdicts) == IF "fail" \in verdicts THEN "fail"
                   ELSE IF "unmeasured" \in verdicts THEN "unmeasured" ELSE "pass"

FloorVerdicts(r, th) ==
  {Judged(r.metrics[m], r.metrics[m] # None /\ r.metrics[m] >= th.floor[m]) : m \in Floored}
WeightVerdict(r, th) ==
  LET bytes == r.metrics["resident_weight_bytes"] IN Judged(bytes, bytes # None /\ InBand(th, bytes))
FlagVerdicts(r) == {Judged(r.flags[f], r.flags[f] = TRUE) : f \in Flags}

\* A record that does not declare itself measured is not looked at, its metrics included.
CheckGates(r, th) ==
  IF ~ValidThresholds(th) THEN "refused"
  ELSE IF ~r.measured THEN "unmeasured"
  ELSE IF ~ValidMetrics(r.metrics) THEN "refused"
  ELSE Worst(FloorVerdicts(r, th) \cup {WeightVerdict(r, th)} \cup FlagVerdicts(r))

ExitCode(verdict) == CASE verdict = "pass" -> 0 [] verdict = "fail" -> 1 [] OTHER -> 2

-----------------------------------------------------------------------------
(* validate_levels.py                                                      *)

\* How many fields of evidence each level requires.
Required == <<8, 7, 5, 6, 8, 10, 8>>
RequiredEvidence(level) == 1 .. Required[level]
QualityLevels == 1 .. 6

\* The report of an earlier call has no candidate of its own, so it is no level record.
ReportDocument == [valid |-> FALSE, candidate |-> None]

\* What may lie in the directory.
Documents == LevelRecords \cup {ReportDocument} \cup UNION {Range(docs) : docs \in FirstRecords}
\* validate_record accepts three verdicts.
ASSUME DocumentsAssumption ==
  /\ \A docs \in FirstRecords : docs \in Seq(Documents)
  /\ \A doc \in Documents : doc.valid => doc.verdict \in {"pass", "fail", "unmeasured"}

MissingEvidence(doc) == RequiredEvidence(doc.level) \ doc.evidence
\* Mutant: the verdict a stage recorded stands.
TrustedVerdict(doc) == doc.verdict
\* A fail needs no evidence, a pass all of it.
LevelVerdict(doc) ==
  IF doc.verdict = "pass" /\ MissingEvidence(doc) # {} THEN "unmeasured" ELSE doc.verdict

\* Mutant: one record of a level replaces another.
RefusedInvalid(docs) == docs = <<>> \/ \E i \in DOMAIN docs : ~docs[i].valid
RefusedDocs(docs) ==
  \/ docs = <<>>
  \/ \E i \in DOMAIN docs : ~docs[i].valid
  \/ \E i, j \in DOMAIN docs : i # j /\ docs[i].candidate = docs[j].candidate
                                     /\ docs[i].level = docs[j].level

Candidates(docs) == {docs[i].candidate : i \in DOMAIN docs}
\* The verdict on one level; a level without a record is unmeasured.
VerdictAt(docs, c, level) ==
  LET found == {i \in DOMAIN docs : docs[i].candidate = c /\ docs[i].level = level}
  IN  IF found = {} THEN "unmeasured" ELSE LevelVerdict(docs[CHOOSE i \in found : TRUE])

\* Mutant: quality is read off the verdict of deployment.
PromotableOnly(docs, c) == \A level \in DOMAIN Required : VerdictAt(docs, c, level) = "pass"
EligibleOf(docs, c) == \A level \in QualityLevels : VerdictAt(docs, c, level) = "pass"

Assessment(docs, c) ==
  LET at == [level \in DOMAIN Required |-> VerdictAt(docs, c, level)]
  IN  [levels     |-> at,
       failed     |-> {level \in DOMAIN at : at[level] = "fail"},
       unmeasured |-> {level \in DOMAIN at : at[level] = "unmeasured"},
       verdict    |-> Worst(Range(at)),
       promotable |-> Worst(Range(at)) = "pass",
       eligible   |-> EligibleOf(docs, c)]

Report(docs) == [c \in Candidates(docs) |-> Assessment(docs, c)]

ReportExit(docs) ==
  IF RefusedDocs(docs) THEN 2
  ELSE IF \A c \in Candidates(docs) : Report(docs)[c].promotable THEN 0
  ELSE IF \E c \in Candidates(docs) : Report(docs)[c].verdict = "fail" THEN 1
  ELSE 2

-----------------------------------------------------------------------------
(* The campaign: stages add evidence, and either tool may be asked in       *)
(* between                                                                 *)

\* A measurement fills in or replaces one entry of the gate record.
Measure ==
  /\ changes < MaxMeasured /\ changes' = changes + 1
  /\ \/ record' = [record EXCEPT !.measured = TRUE]
     \/ \E m \in Measurements, v \in Values : record' = [record EXCEPT !.metrics[m] = v]
     \/ \E f \in Flags, b \in BOOLEAN : record' = [record EXCEPT !.flags[f] = b]
  /\ UNCHANGED <<config, gateExit>>

Configure ==
  /\ changes < MaxMeasured /\ changes' = changes + 1
  /\ \E th \in Thresholds : config' = th
  /\ UNCHANGED <<record, gateExit>>

RunGates ==
  /\ gateExit' = ExitCode(CheckGates(record, config))
  /\ UNCHANGED <<record, config, changes>>

GateInit ==
  /\ record \in GateRecords
  /\ config \in Thresholds /\ changes = 0 /\ gateExit = None
GateNext == Measure \/ Configure \/ RunGates
GateSpec == GateInit /\ [][GateNext]_gateVars

\* Stages file their records; nothing in the directory is withdrawn.
FileRecord ==
  /\ Len(filed) < MaxFiled
  /\ \E doc \in LevelRecords : filed' = Append(filed, doc)
  /\ UNCHANGED reportExit

\* The report may be written into the directory of the records, whose every document is read next
\* time.
RunLevels ==
  /\ reportExit' = ReportExit(filed)
  /\ \/ UNCHANGED filed
     \/ ~RefusedDocs(filed) /\ Len(filed) < MaxFiled /\ filed' = Append(filed, ReportDocument)

LevelInit == filed \in FirstRecords /\ reportExit = None
LevelNext == FileRecord \/ RunLevels
LevelSpec == LevelInit /\ [][LevelNext]_levelVars

-----------------------------------------------------------------------------
(* Properties                                                              *)

\* One way of filling the holes of a record; what was there stays.
Holes(f) == {x \in DOMAIN f : f[x] = None}
Filled(f, by) == [x \in DOMAIN f |-> IF f[x] = None THEN by[x] ELSE f[x]]
Fill(r, ms, fs) == [r EXCEPT !.metrics = Filled(@, ms), !.flags = Filled(@, fs)]

\* The gates say what the evidence still allows: "fail" when no way of filling the holes would
\* pass, "unmeasured" when some would, "pass" when there is nothing left to fill (check_gates:
\* any fail blocks, also while other evidence is missing).
VerdictIsHonest ==
  record.measured /\ ValidThresholds(config) /\ ValidMetrics(record.metrics) =>
    LET verdict == CheckGates(record, config)
    IN  /\ (verdict = "fail") <=>
             ~ \E ms \in [Holes(record.metrics) -> {v \in Values : v >= 0}],
                  fs \in [Holes(record.flags) -> BOOLEAN] :
                 CheckGates(Fill(record, ms, fs), config) = "pass"
        /\ verdict = "pass" => None \notin Range(record.metrics) /\ None \notin Range(record.flags)

\* No verdict rests on a claim: a promotable candidate has, for every level, a record that passes
\* with all the evidence of that level, and an eligible one has it for the quality levels
\* (validate_record downgrades a pass that lacks a field).
NoEvidenceNoPass ==
  ~RefusedDocs(filed) =>
    \A c \in Candidates(filed) :
      LET backed(level) == \E i \in DOMAIN filed :
                             /\ filed[i].candidate = c /\ filed[i].level = level
                             /\ filed[i].verdict = "pass"
                             /\ RequiredEvidence(level) \subseteq filed[i].evidence
      IN  /\ Report(filed)[c].promotable <=> \A level \in DOMAIN Required : backed(level)
          /\ Report(filed)[c].eligible <=> \A level \in QualityLevels : backed(level)

\* What serving under load showed never moves a candidate onto or off the quality frontier: the
\* report on a directory without its level-7 records names the same eligible candidates
\* (quality_frontier_eligible is decided over levels 1 to 6).
RuntimeApart ==
  ~RefusedDocs(filed) =>
    LET quality == Restrict(filed, {i \in DOMAIN filed : filed[i].level # 7})
    IN  \A c \in Candidates(quality) : Report(quality)[c].eligible = Report(filed)[c].eligible

\* A candidate's assessment depends on its own records only, and on no order of files or arguments:
\* records of one level that disagree are refused instead of the last one winning.
FilesUnordered ==
  /\ ReportExit(Reverse(filed)) = ReportExit(filed)
  /\ ~RefusedDocs(filed) =>
       /\ Report(Reverse(filed)) = Report(filed)
       /\ \A c \in Candidates(filed) :
            LET own == Restrict(filed, {i \in DOMAIN filed : filed[i].candidate = c})
            IN  Report(own)[c] = Report(filed)[c]

\* The records of a level speak for their own candidate and level only (assemble_report).
RecordsIndependent == RuntimeApart /\ FilesUnordered

\* Every verdict of a report is backed by records, of its own candidate and level (assess).
LevelsBacked == NoEvidenceNoPass /\ RecordsIndependent
=============================================================================
