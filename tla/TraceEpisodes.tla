--------------------------- MODULE TraceEpisodes ---------------------------
(* How the events of a session are paired and become episodes, and what    *)
(* the labeller says of an episode (traces/session.py, labeling.py,        *)
(* events.py): each harness' format is parsed away.  One step              *)
(* reads one event, as the loop of segment_episodes does.  A transcript    *)
(* only grows, so a later run reads the same events first: what is in      *)
(* `closed` now is what it will close, and `cur` what it may still extend. *)
EXTENDS Naturals, Sequences, FiniteSets, Optional

CONSTANTS
    EventKinds,   \* the events there may be
    TagsOf,       \* the capabilities each tool name stands for
    McpTools, TestTools,   \* tools whose names say so
    Cap,          \* events of an episode (64)
    Window,       \* events in which a correction is a recovery (12)
    LongSpan,     \* events of a long context (40)
    WideSpan, ManyCalls,   \* events and calls of a wide decision (16, 8)
    MaxEvents     \* bound: events of a session

VARIABLES
    log,      \* the events read
    closed,   \* the episodes closed
    cur,      \* the positions in the open one
    turns     \* turns opened

episodeVars == <<log, closed, cur, turns>>

Flags == {TRUE, FALSE, None}
Types == {"user", "assistant", "reasoning", "tool_call", "tool_result", "system"}

IsCall(e) == e.type = "tool_call" /\ e.name # None
(* What the names of tools can say (_CAPABILITY_TOOL_MAP).                 *)
Segmented == {"repo_exploration", "planning", "implementation", "debugging",
              "compiler_interpretation", "test_interpretation", "tool_use", "shell", "git",
              "verification"}

ASSUME EventAssumption ==
    \A e \in EventKinds :
        /\ e.type \in Types /\ e.side \in BOOLEAN /\ e.text \in BOOLEAN
        /\ e.hint \in Flags /\ e.error \in Flags /\ e.diagnostic \in BOOLEAN
ASSUME CapabilityAssumption ==
    \A e \in EventKinds : IsCall(e) => TagsOf[e.name] \subseteq Segmented
ASSUME SpanAssumption ==
    Cap \in Nat /\ Cap > 1 /\ Window \in Nat /\ LongSpan \in Nat
      /\ WideSpan \in Nat /\ ManyCalls \in Nat /\ MaxEvents \in Nat
-----------------------------------------------------------------------------
(* Events                                                                  *)

Failed(e)  == e.type = "tool_result" /\ e.error = TRUE
Decides(e) == e.type \in {"assistant", "reasoning"} /\ e.text
IsCheck(e) == \/ e.hint = TRUE
              \/ e.hint = None /\ e.type = "tool_call" /\ e.name \in TestTools
NameTags(e) == IF IsCall(e) THEN TagsOf[e.name] ELSE {}
ToolTags(e) == NameTags(e) \cup (IF IsCall(e) /\ e.name \in McpTools THEN {"tool_use"} ELSE {})
                 \cup (IF e.hint = TRUE THEN {"verification"} ELSE {})
-----------------------------------------------------------------------------
(* Correlation: calls and results, by their ids or, without, by their      *)
(* order; of those with one id only the last counts.                       *)

Calls   == {p \in DOMAIN log : log[p].type = "tool_call"}
Results == {p \in DOMAIN log : log[p].type = "tool_result"}
Newest(S)    == {p \in S : log[p].id # None /\ \A q \in S : log[q].id = log[p].id => q <= p}
Anonymous(S) == {p \in S : log[p].id = None}
Rank(p, S)   == Cardinality({q \in Anonymous(S) : q < p /\ log[q].name = log[p].name})
Named(c, r)  == c \in Newest(Calls) /\ r \in Newest(Results) /\ log[c].id = log[r].id
Ranked(c, r) ==
    /\ c \in Anonymous(Calls) /\ r \in Anonymous(Results)
    /\ log[c].name = log[r].name /\ Rank(c, Calls) = Rank(r, Results)
Correlated(c, r) == Named(c, r) \/ Ranked(c, r)
-----------------------------------------------------------------------------
(* Segmentation                                                            *)

Read(e) == Len(log) < MaxEvents /\ log' = Append(log, e)
Here    == Len(log) + 1
Closing == IF cur = <<>> THEN closed ELSE Append(closed, [turn |-> turns, seq |-> cur])

(* Sidechain events belong to no episode.                                  *)
PassOver(e) == e.side /\ Read(e) /\ UNCHANGED <<closed, cur, turns>>

(* A user turn opens an episode.                                           *)
OpenTurn(e) ==
    /\ ~e.side /\ e.type = "user" /\ Read(e)
    /\ closed' = Closing /\ turns' = turns + 1 /\ cur' = <<Here>>

(* Mutant: a failed result with none open goes to the last one.            *)
RejoinRetry(e) ==
    /\ ~e.side /\ Failed(e) /\ cur = <<>> /\ closed # <<>> /\ Read(e)
    /\ closed' = [closed EXCEPT ![Len(closed)].seq = Append(@, Here)]
    /\ UNCHANGED <<cur, turns>>
(* So does a failed result when none is open.                              *)
OpenRetry(e) ==
    /\ ~e.side /\ Failed(e) /\ cur = <<>> /\ Read(e)
    /\ turns' = turns + 1 /\ cur' = <<Here>> /\ UNCHANGED closed

(* Mutant: a full episode goes on.                                         *)
GatherOn(e) ==
    /\ ~e.side /\ e.type # "user" /\ (Failed(e) => cur # <<>>) /\ Read(e)
    /\ cur' = Append(cur, Here) /\ UNCHANGED <<closed, turns>>
(* Anything else is gathered; a full episode is closed.                    *)
Gather(e) ==
    /\ ~e.side /\ e.type # "user" /\ (Failed(e) => cur # <<>>) /\ Read(e)
    /\ LET more == Append(cur, Here)
       IN  IF Len(more) >= Cap
             THEN closed' = Append(closed, [turn |-> turns, seq |-> more]) /\ cur' = <<>>
             ELSE cur' = more /\ closed' = closed
    /\ UNCHANGED turns

(* The episodes if the session ends here.                                  *)
Episodes == Closing
EventsOf(seq) == [i \in DOMAIN seq |-> log[seq[i]]]
-----------------------------------------------------------------------------
(* Labels of an episode with the events E                                  *)

Recovered(E) ==
    \E i, j \in DOMAIN E :
        /\ i < j /\ j <= i + Window /\ Failed(E[i])
        /\ \/ E[j].type = "tool_result" /\ E[j].error = FALSE
           \/ E[j].type = "tool_call" /\ IsCheck(E[j])

HasDecision(E) == \E i \in DOMAIN E : Decides(E[i])
Errors(E)      == \E i \in DOMAIN E : Failed(E[i])
Diagnosed(E)   == \E i \in DOMAIN E : Failed(E[i]) /\ E[i].diagnostic
TestRun(E)     == \E i \in DOMAIN E : IsCall(E[i]) /\ IsCheck(E[i])
Edits(e)       == IsCall(e) /\ "implementation" \in TagsOf[e.name]
Edited(E)      == \E i \in DOMAIN E : Edits(E[i])
Corrected(E)   == \E i, j \in DOMAIN E : i < j /\ Failed(E[i]) /\ Edits(E[j])
CallsOf(E)     == {i \in DOMAIN E : IsCall(E[i])}
FirstCall(E)   == CHOOSE i \in CallsOf(E) : \A j \in CallsOf(E) : i <= j

Tag(condition, tag) == IF condition THEN {tag} ELSE {}
NamedTags(E) == (UNION {NameTags(E[i]) : i \in DOMAIN E})
                  \cup Tag(IsCheck(E[Len(E)]), "verification")
CalledTags(E) == (UNION {ToolTags(E[i]) : i \in CallsOf(E)}) \cup Tag(TestRun(E), "verification")
Refine(base, E) ==
    LET all   == (base \cup CalledTags(E)) \ {"test_interpretation"}
        tests == all \cup Tag(TestRun(E) /\ Errors(E), "test_interpretation")
        cause == IF Diagnosed(E) THEN (tests \cup {"compiler_interpretation"}) \ {"debugging"}
                 ELSE tests \cup Tag(Corrected(E), "debugging")
    IN  cause \cup Tag(Recovered(E), "recovery")
          \cup Tag(Len(E) >= LongSpan /\ HasDecision(E), "long_context")
Tags(E) == Refine(NamedTags(E), E)

(* In the order of their names.                                            *)
Alphabet == <<"compiler_interpretation", "debugging", "git", "implementation", "planning",
              "recovery", "repo_exploration", "shell", "test_interpretation", "tool_use",
              "verification">>
Least(S)   == Alphabet[CHOOSE i \in DOMAIN Alphabet :
                  Alphabet[i] \in S /\ \A j \in 1 .. i - 1 : Alphabet[j] \notin S]
Vehicles   == {"shell", "tool_use"}
Of(E, fit) == IF CallsOf(E) = {} THEN {} ELSE fit \cap ToolTags(E[FirstCall(E)])
Purpose(S) == IF S \subseteq Vehicles THEN S ELSE S \ Vehicles
Primary(tags, E) ==
    LET fit == tags \ {"long_context"}
    IN  IF fit = {} THEN None
        ELSE IF Diagnosed(E) /\ "compiler_interpretation" \in fit THEN "compiler_interpretation"
        ELSE IF Corrected(E) /\ "debugging" \in fit THEN "debugging"
        ELSE IF Edited(E) /\ "implementation" \in fit THEN "implementation"
        ELSE IF Errors(E) /\ TestRun(E) /\ "test_interpretation" \in fit
          THEN "test_interpretation"
        ELSE IF "recovery" \in fit /\ ~Edited(E) /\ fit \ {"recovery"} \subseteq Vehicles
          THEN "recovery"
        ELSE IF Of(E, fit) # {} THEN Least(Purpose(Of(E, fit)))
        ELSE Least(fit)

Checks(E) == \E i \in DOMAIN E : IsCheck(E[i])
Wide(E)   == Len(E) >= WideSpan \/ Cardinality({i \in DOMAIN E : E[i].type = "tool_call"}) >= ManyCalls
Long(E)   == "long_context" \in Tags(E)
(* D0 to D4, the first that fits.                                          *)
Difficulty(E) ==
    IF Long(E) /\ Recovered(E) /\ Checks(E) THEN 4
    ELSE IF Recovered(E) \/ Long(E) THEN 3
    ELSE IF HasDecision(E) /\ Wide(E) THEN 2
    ELSE IF HasDecision(E) THEN 1
    ELSE 0
-----------------------------------------------------------------------------
EpisodeInit == log = <<>> /\ closed = <<>> /\ cur = <<>> /\ turns = 0
EpisodeNext ==
    \E e \in EventKinds : PassOver(e) \/ OpenTurn(e) \/ OpenRetry(e) \/ Gather(e)
EpisodeSpec == EpisodeInit /\ [][EpisodeNext]_episodeVars
-----------------------------------------------------------------------------
MainChain == {p \in DOMAIN log : ~log[p].side}
In(p, seq) == \E i \in DOMAIN seq : seq[i] = p

(* Every event of the main chain is in exactly one episode, no other is,   *)
(* and the episodes follow one another.                                    *)
Partitioned ==
    /\ \A p \in MainChain : \E k \in DOMAIN Episodes : In(p, Episodes[k].seq)
    /\ \A k \in DOMAIN Episodes : \A i \in DOMAIN Episodes[k].seq :
           /\ Episodes[k].seq[i] \in MainChain
           /\ \A j \in DOMAIN Episodes[k].seq : i < j => Episodes[k].seq[i] < Episodes[k].seq[j]
    /\ \A k, m \in DOMAIN Episodes : k < m =>
           \A i \in DOMAIN Episodes[k].seq, j \in DOMAIN Episodes[m].seq :
               Episodes[k].seq[i] < Episodes[m].seq[j]
(* Episodes are bounded, hold one turn, and a turn is only cut in two when *)
(* its episode is full.                                                    *)
Bounded ==
    /\ \A k \in DOMAIN Episodes :
           /\ Len(Episodes[k].seq) \in 1 .. Cap /\ Episodes[k].turn <= turns
           /\ \A i \in DOMAIN Episodes[k].seq : log[Episodes[k].seq[i]].type = "user" => i = 1
    /\ \A k \in 1 .. Len(Episodes) - 1 :
           /\ Episodes[k].turn <= Episodes[k + 1].turn
           /\ Episodes[k].turn = Episodes[k + 1].turn => Len(Episodes[k].seq) = Cap
(* Labels are idempotent and an episode that grows gets no easier          *)
(* (labeling.py: every feature is monotone).                               *)
Labelled ==
    \A k \in DOMAIN Episodes :
        LET E == EventsOf(Episodes[k].seq)
        IN  /\ Refine(Tags(E), E) = Tags(E)
            /\ \A n \in 1 .. Len(E) : Difficulty(SubSeq(E, 1, n)) <= Difficulty(E)
(* No call has two results and no result two calls.                        *)
OneToOne ==
    \A b, c \in Calls : \A r, t \in Results :
        Correlated(b, r) /\ Correlated(c, t) => (b = c <=> r = t)
(* The episodes of a session are its main chain, cut at turns and bounds,  *)
(* their labels can be trusted to be labels of them, and calls and results *)
(* are paired without guessing twice (segment_episodes, label_episodes,    *)
(* correlate).                                                             *)
EpisodesSound == Partitioned /\ Bounded /\ Labelled /\ OneToOne

(* An episode once closed stays as it is when the session goes on: in      *)
(* every later run its events are in it, and no others.                    *)
EpisodesStay ==
    [][\A k \in DOMAIN closed : k \in DOMAIN closed' /\ closed'[k] = closed[k]]_episodeVars
=============================================================================
