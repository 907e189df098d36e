---------------------------- MODULE MCDecisions ----------------------------
(***************************************************************************)
(* The programs that decide something from what they are given, each on    *)
(* its own small inputs: the retention policy, the slot-restore harness,   *)
(* the paired analysis, gates and levels, tool sessions, torture cases,    *)
(* expert selection and its sweep.  One run checks them all: a behaviour   *)
(* belongs to one of them, and the variables of the others rest.           *)
(***************************************************************************)
EXTENDS MCRetention, SlotRestore, PairedOutcomes, Verdicts, ToolSession, TortureCases, ExpertSelection

-----------------------------------------------------------------------------
(* Slot restore: every server that returns logits, two that do not.  A     *)
(* history of seven tokens leaves a prefix worth restoring.                *)

MCServers ==
  [clears : BOOLEAN, checkpoints : BOOLEAN, ram : BOOLEAN, logits : {TRUE}]
    \cup {[clears |-> c, checkpoints |-> TRUE, ram |-> FALSE, logits |-> FALSE] : c \in BOOLEAN}
MCReplies == {<<20>>, <<21, 22>>}
MCOneToken == <<20>>
MCHistory == <<1, 2, 3, 4, 5, 6, 7>>
MCSuffix == <<8>>
MCOther == <<9, 1>>

-----------------------------------------------------------------------------
(* Pairing: two tasks, one with two seeds; a run that succeeds, one that   *)
(* fails, one that ends in a catastrophe at the edge of the buckets; and   *)
(* what may be wrong with a file: a repeated key, a record of the other    *)
(* side, a task the reference never ran, a negative control.               *)

MCKeys == <<<<2, 1>>, <<1, 1>>, <<1, 2>>>>
Succeeds == [success |-> TRUE, catastrophic |-> FALSE, turns |-> 5, context |-> 8191, language |-> "python"]
Fails == [success |-> FALSE, catastrophic |-> FALSE, turns |-> 6, context |-> 8192, language |-> "python"]
Breaks == [success |-> FALSE, catastrophic |-> TRUE, turns |-> 0, context |-> 131072, language |-> "rust"]
MCOutcomes == {Succeeds, Fails, Breaks}
MCDraws == {<<<<0, 0>>, <<1, 0>>, <<1, 1>>>>, <<<<1, 1>>, <<0, 0>>>>}
Control(side, key) == [Record(side, key, Succeeds) EXCEPT !.type = "negative_control"]
MCExtras ==
  {[side |-> "reference", record |-> Record("reference", <<2, 1>>, Succeeds)],
   [side |-> "candidate", record |-> Record("candidate", <<2, 1>>, Fails)],
   [side |-> "candidate", record |-> Record("reference", <<1, 1>>, Succeeds)],
   [side |-> "candidate", record |-> Record("candidate", <<3, 1>>, [Breaks EXCEPT !.success = TRUE])]}
  \cup {[side |-> s, record |-> Control(s, <<2, 1>>)] : s \in Sides}

-----------------------------------------------------------------------------
(* Gates and levels: every hole, thresholds in and out of order; records   *)
(* that lack evidence, are refused or belong to another candidate.         *)

MCValues == {-1, 1, 2, 3}
MCThresholds == {[floor |-> [m \in Floored |-> 2], min |-> 1, max |-> 2, ceiling |-> 3],
                 [floor |-> [m \in Floored |-> 3], min |-> 2, max |-> 1, ceiling |-> 3],
                 [floor |-> [m \in Floored |-> 1], min |-> 0, max |-> 3, ceiling |-> 3]}
MCGateRecords ==
  {[measured |-> b, metrics |-> [m \in Measurements |-> IF m = hole THEN None ELSE 2],
    flags |-> [f \in Flags |-> TRUE]] : b \in BOOLEAN, hole \in Measurements}
    \cup {[measured |-> TRUE, metrics |-> [m \in Measurements |-> None], flags |-> [f \in Flags |-> None]]}
LevelRecord(c, level, verdict, missing) ==
  [valid |-> TRUE, candidate |-> c, level |-> level, verdict |-> verdict,
   evidence |-> RequiredEvidence(level) \ missing]
PassedBut(level) == [i \in 1 .. 6 |-> LevelRecord("a", IF i < level THEN i ELSE i + 1, "pass", {})]
FirstTable == {PassedBut(level) : level \in {1, 6, 7}}
MCFirst == FirstTable
LevelTable ==
  {LevelRecord("a", 1, "pass", {}), LevelRecord("a", 6, "pass", {}), LevelRecord("a", 6, "pass", {10}),
   LevelRecord("a", 7, "fail", {1}), LevelRecord("a", 7, "pass", {}), LevelRecord("b", 2, "fail", {}),
   LevelRecord("b", 3, "pass", {}), [LevelRecord("b", 4, "pass", {}) EXCEPT !.valid = FALSE]}
MCLevelRecords == LevelTable

-----------------------------------------------------------------------------
(* Tool sessions: one generation of each kind the protocol tells apart.    *)

MCSchemas == [read |-> {"path"}]
PlainCall == [name |-> "read", arguments |-> {"path"}, argumentsError |-> FALSE, command |-> None, guarded |-> FALSE]
Shell(escaping, destructive) ==
  [PlainCall EXCEPT !.name = "bash", !.command = [escaping |-> escaping, destructive |-> destructive]]
Turn(n, stop, calls, results) ==
  [sequence |-> n, stop |-> stop, parseError |-> FALSE, calls |-> calls, results |-> results]
FailedResult == [call |-> 1, isError |-> TRUE]
GoodResult == [call |-> 1, isError |-> FALSE]
GenerationTable ==
  {Turn(None, "end_turn", <<>>, <<>>),
   Turn(4, "end_turn", <<>>, <<>>),
   Turn(None, "max_tokens", <<>>, <<>>),
   Turn(2, "tool_use", <<PlainCall>>, <<FailedResult>>),
   Turn(None, "tool_use", <<[PlainCall EXCEPT !.arguments = {}], PlainCall>>, <<GoodResult>>),
   Turn(3, "tool_use", <<[Shell("right", FALSE) EXCEPT !.arguments = {"path"}, !.name = "read"]>>, <<GoodResult>>),
   Turn(3, "tool_use", <<Shell("right", TRUE)>>, <<GoodResult, FailedResult>>),
   Turn(1, "end_turn", <<[Shell("wrong", TRUE) EXCEPT !.guarded = TRUE]>>, <<>>),
   Turn(None, "tool_use", <<[PlainCall EXCEPT !.name = "delete", !.arguments = None, !.argumentsError = TRUE]>>, <<>>),
   [Turn(0, "tool_use", <<>>, <<>>) EXCEPT !.parseError = TRUE],
   Turn(5, "tool_use", <<PlainCall>>, <<[FailedResult EXCEPT !.call = 2]>>)}
MCGenerations == GenerationTable

-----------------------------------------------------------------------------
(* Torture cases: six episodes, then two more that sort among them.        *)

BaseOrder == <<"misleading_failure", "bad_prior_edit", "stale_output", "wrong_hypothesis",
               "partial_patch", "dependency_red_herring">>
MCOrders == <<BaseOrder, Reverse(BaseOrder)>>
MCFirstInputs == {<<8, 2, 6, 4, 12, 10>>}
MCJudgments == {[field |-> "recovers", value |-> "yes"], [field |-> "recovers", value |-> "no"],
                [field |-> "final_patch_sound", value |-> "unclear"]}

-----------------------------------------------------------------------------
(* Selection: small matrices with and without ties, one that is negative,  *)
(* one with more experts than the exact selector takes, the closed forms;  *)
(* and sweeps over parts of one or two rows, or of none.                   *)

Toy(t, k) == [f |-> t.f, budget |-> k, roundings |-> {0 .. k - 1}, toy |-> t]
Asked(f, k) == [f |-> f, budget |-> k, roundings |-> Roundings(f, k), toy |-> None]
OfThree(diagonal, pairs) ==
  Matrix(3, LAMBDA i, j : IF i = j THEN diagonal[i + 1] ELSE pairs[i + j])
OfFive(s) == Matrix(5, LAMBDA i, j : IF i = j THEN (3 * i + s) % 4 ELSE ((i + j) * s) % 3)
ProblemTable ==
  {Asked(OfThree(<<a, b, 1>>, <<x, y, z>>), k) :
     a, b \in 0 .. 2, x \in {0, 1}, y, z \in {0, 1, 3}, k \in 1 .. 2}
  \cup {Asked(OfFive(s), k) : s \in 1 .. 3, k \in 0 .. 6}
  \cup {Asked(Matrix(3, LAMBDA i, j : -1), 1), Asked(Matrix(12, LAMBDA i, j : 1), 0)}
  \cup {Toy(Uniform(10, 4), 4), Toy(ImportantPair(10, 3), 3), Toy(Redundancy(8, 2), 2),
        Toy(Block(8, 4), 4), Toy(Ties(9, 4), 4), Toy(Sparse(10, 4), 4)}
MCProblems == ProblemTable

Part(rows, act, first, c01, s01, s02) ==
  [rows |-> rows, act |-> [k \in 0 .. 2 |-> act[k + 1]], first |-> [k \in 0 .. 2 |-> first[k + 1]],
   count |-> Matrix(3, LAMBDA i, j : IF i = j THEN act[i + 1] ELSE IF i + j = 1 THEN c01
                                     ELSE IF i + j = 2 THEN rows - c01 ELSE 0),
   sum |-> Matrix(3, LAMBDA i, j : IF i = j THEN first[i + 1] ELSE IF i + j = 1 THEN s01
                                   ELSE IF i + j = 2 THEN s02 ELSE 0)]
NoRows == Part(0, <<0, 0, 0>>, <<0, 0, 0>>, 0, 0, 0)
FirstPair == Part(1, <<1, 1, 0>>, <<2, 1, 0>>, 1, 2, 0)
LastPair == Part(1, <<1, 0, 1>>, <<1, 0, 3>>, 0, 0, 3)
TwoRows == Part(2, <<2, 1, 1>>, <<1, 2, 2>>, 1, 1, 1)
PartTable ==
  {<<>>, <<NoRows>>, <<FirstPair>>} \cup {<<p, q, r>> : p, q, r \in {NoRows, FirstPair, LastPair, TwoRows}}
MCPartLists == PartTable
MCSchedules == {<<1, 2, 3>>, <<2, 4>>, <<1, 5>>, <<2, 2>>}

-----------------------------------------------------------------------------
VARIABLE machine

RetentionIdle ==
  /\ sessions = <<>> /\ prefixes = <<>> /\ pressure = MCPressure(FALSE, FALSE, FALSE, 0, {})
  /\ phase = "slot" /\ pass = 1 /\ quiet = TRUE
  /\ yielded = {} /\ aged = {} /\ squeezed = {} /\ evicted = {}
  /\ dropped = {} /\ forDisk = {} /\ hotFreed = 0 /\ freed = 0
SlotIdle ==
  /\ server = [clears |-> TRUE, checkpoints |-> TRUE, ram |-> FALSE, logits |-> FALSE] /\ probing = FALSE
  /\ slot = Empty /\ ram = Empty /\ file = Empty /\ counter = 0
  /\ step = "baseline" /\ stage = "before" /\ before = 0 /\ seen = Unseen /\ failed = {} /\ foreign = <<>>
GateIdle ==
  /\ record = [measured |-> FALSE, metrics |-> [m \in Measurements |-> None], flags |-> [f \in Flags |-> None]]
  /\ config = [floor |-> [m \in Floored |-> 2], min |-> 1, max |-> 2, ceiling |-> 3] /\ changes = 0 /\ gateExit = None
SelectIdle ==
  problem = [f |-> <<>>, budget |-> 0, roundings |-> {}, toy |-> None] /\ certificate = None
SweepIdle ==
  /\ parts = <<>> /\ schedule = <<>> /\ pruneBudget = 0 /\ merged = None
  /\ consumed = 0 /\ sweep = <<>> /\ ended = None

DecisionInit ==
  /\ machine \in {"retention", "slot", "pairing", "gates", "levels", "session", "torture", "select", "sweep"}
  /\ IF machine = "retention" THEN Init ELSE RetentionIdle
  /\ IF machine = "slot" THEN SlotInit ELSE SlotIdle
  /\ PairInit
  /\ IF machine = "gates" THEN GateInit ELSE GateIdle
  /\ IF machine = "levels" THEN LevelInit ELSE filed = <<>> /\ reportExit = None
  /\ SessionInit
  /\ IF machine = "torture" THEN TortureInit ELSE inputs = <<>> /\ cases = <<>>
  /\ IF machine = "select" THEN SelectInit ELSE SelectIdle
  /\ IF machine = "sweep" THEN SweepInit ELSE SweepIdle

UnchangedFrom(m) ==
  /\ machine = m /\ UNCHANGED machine
  /\ IF m = "retention" THEN TRUE ELSE UNCHANGED vars
  /\ IF m = "slot" THEN TRUE ELSE UNCHANGED slotVars
  /\ IF m = "pairing" THEN TRUE ELSE UNCHANGED pairVars
  /\ IF m = "gates" THEN TRUE ELSE UNCHANGED gateVars
  /\ IF m = "levels" THEN TRUE ELSE UNCHANGED levelVars
  /\ IF m = "session" THEN TRUE ELSE UNCHANGED sessionVars
  /\ IF m = "torture" THEN TRUE ELSE UNCHANGED tortureVars
  /\ IF m = "select" THEN TRUE ELSE UNCHANGED selectVars
  /\ IF m = "sweep" THEN TRUE ELSE UNCHANGED sweepVars

RetentionRuns == UnchangedFrom("retention") /\ Next
SlotRuns == UnchangedFrom("slot") /\ SlotNext
PairingRuns == UnchangedFrom("pairing") /\ PairNext
GatesRun == UnchangedFrom("gates") /\ GateNext
LevelsRun == UnchangedFrom("levels") /\ LevelNext
SessionRuns == UnchangedFrom("session") /\ SessionNext
TortureRuns == UnchangedFrom("torture") /\ TortureNext
SelectRuns == UnchangedFrom("select") /\ SelectNext
SweepRuns == UnchangedFrom("sweep") /\ SweepNext

DecisionNext ==
  \/ RetentionRuns \/ SlotRuns \/ PairingRuns \/ GatesRun \/ LevelsRun
  \/ SessionRuns \/ TortureRuns \/ SelectRuns \/ SweepRuns
decisionVars == <<machine, vars, slotVars, pairVars, gateVars, levelVars, sessionVars, tortureVars,
                  selectVars, sweepVars>>
DecisionSpec == DecisionInit /\ [][DecisionNext]_decisionVars
=============================================================================
