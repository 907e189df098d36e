--------------------------- MODULE MCCalibration ---------------------------
(* From transcripts to statistics: the groups of sessions, the episodes of *)
(* one, the mix they are sampled in, and the listener of the calibration   *)
(* passes.  Each runs from its own initial states while the others rest.   *)
EXTENDS MCOnePassListener, TaskGroups, TraceEpisodes, CalibrationMix

-----------------------------------------------------------------------------
(* Five sessions on one repository.  The second refers to two issues, one  *)
(* of which the hash reserves; the last three have one plain prompt, and   *)
(* two harnesses recorded it.  Only some have a revision.                  *)
MCSessions  == 1 .. 5
MCHarness   == <<"pi", "codex", "pi", "codex", "pi">>
MCRepo      == [s \in MCSessions |-> "repo"]
MCPrompt    == <<"one", "both", "plain", "plain", "plain">>
MCRefsIn    == [one |-> {"A"}, both |-> {"A", "B"}, plain |-> {}]
MCFields    == {"start_revision"}
MCRecorded  == [s \in MCSessions |-> [f \in MCFields |-> IF s \in {1, 4, 5} THEN "r1" ELSE None]]

IssueA == Explicit("repo", "A")
IssueB == Explicit("repo", "B")
PlainTask(harness) == Retry(harness, "repo", "plain")

MCHomeOf ==
    [t \in Tasks |-> IF t \in {IssueB, PlainTask("pi")} THEN Holdout
                     ELSE IF t = IssueA THEN "pruning" ELSE "quant"]
MCOldFrozen == {[t \in {IssueB} |-> "pruning"]}
MCOracles   == {{IssueB}, Tasks}

(* Indexes that say nothing, that lack the pointer, that would replace a   *)
(* revision the traces have, and that would fill another one as well.      *)
IndexOf(tasks, value, pointed) ==
    [t \in tasks |-> [value |-> [f \in MCFields |-> value], pointed |-> pointed]]
MCEvidenceIndexes ==
    {IndexOf({}, None, {}), IndexOf({IssueB}, "r3", {}),
     IndexOf({PlainTask("pi")}, "r2", MCFields),
     IndexOf({IssueB, PlainTask("pi")}, "r2", MCFields)}

-----------------------------------------------------------------------------
(* Events of every type: a call and a result with an id, others without; a *)
(* result that names its tool; a failed one with a diagnostic; tools with  *)
(* one capability and with two, and one of a side chain.                   *)
Event(type) ==
    [type |-> type, side |-> FALSE, text |-> FALSE, name |-> None, id |-> None,
     hint |-> None, error |-> None, diagnostic |-> FALSE]
Tool(name)     == [Event("tool_call") EXCEPT !.name = name]
Result(failed) == [Event("tool_result") EXCEPT !.error = failed]
MCTagsOf ==
    [edit |-> {"implementation"}, bash |-> {"shell"},
     pytest |-> {"test_interpretation", "verification"}, odd |-> {}]
MCEventKinds ==
    {Event("user"), [Event("assistant") EXCEPT !.text = TRUE],
     [Tool("edit") EXCEPT !.id = "x"], [Tool("bash") EXCEPT !.hint = TRUE],
     Tool("pytest"), [Tool("odd") EXCEPT !.side = TRUE],
     [Result(TRUE) EXCEPT !.id = "x", !.diagnostic = TRUE],
     [Result(FALSE) EXCEPT !.name = "edit"]}

-----------------------------------------------------------------------------
(* Records of each partition and one of golden, with one tag and several,  *)
(* without weight, with spam, with a tag twice, and one that is refused.   *)
Record(split, tags, weight, spam) ==
    [split |-> split, tags |-> tags, primary |-> None, weight |-> weight, down |-> spam,
     events |-> 2]
MCRecords ==
    {Record("pruning", <<"debugging", "shell">>, 4, 0), Record("pruning", <<"debugging">>, 8, 1),
     Record("quant", <<"shell">>, 2, 0), Record("quant", <<"debugging", "shell">>, 0, 0),
     Record("golden", <<"shell">>, 4, 0), Record("quant", <<"shell", "shell">>, 2, 0),
     [Record("quant", <<"shell">>, 4, 2) EXCEPT !.events = None]}
MCSplitWeight == [pruning |-> 2, quant |-> 1, golden |-> 1]
MCAnchor      == [debugging |-> 3, shell |-> 1, git |-> 0]

-----------------------------------------------------------------------------
VARIABLE machine
calibrationVars == <<machine, vars, groupVars, episodeVars, mixVars>>

ListenerRuns ==
    machine = "listener" /\ Next /\ UNCHANGED <<machine, groupVars, episodeVars, mixVars>>
GroupsRun ==
    machine = "groups" /\ GroupNext /\ UNCHANGED <<machine, vars, episodeVars, mixVars>>
EpisodesRun ==
    machine = "episodes" /\ EpisodeNext /\ UNCHANGED <<machine, vars, groupVars, mixVars>>
MixRuns ==
    machine = "mix" /\ MixNext /\ UNCHANGED <<machine, vars, groupVars, episodeVars>>

CalibrationInit ==
    /\ machine \in {"listener", "groups", "episodes", "mix"}
    /\ GroupInit /\ (machine # "groups" => frozen = None)
    /\ EpisodeInit /\ MixInit /\ Init
\* What is bounded here, and only here, may stop at its bound.
Stop == machine # "listener" /\ UNCHANGED calibrationVars
CalibrationNext == ListenerRuns \/ GroupsRun \/ EpisodesRun \/ MixRuns \/ Stop
CalibrationSpec == CalibrationInit /\ [][CalibrationNext]_calibrationVars
=============================================================================
