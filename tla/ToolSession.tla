----------------------------- MODULE ToolSession -----------------------------
(***************************************************************************)
(* evaluation/tool_protocol.py: the recorded generations of one session    *)
(* are scored by seven metrics.  A recorder appends generations, which may *)
(* carry the number of their turn and arrive in another order; the scorer  *)
(* may look at the list at any time.  A command is known by what the       *)
(* scorer sees in it: whether it needs escaping, and whether it destroys.  *)
(***************************************************************************)
EXTENDS Optional, Integers, Sequences, FiniteSets

CONSTANTS
  AllowedTools,    \* allowed_tool_names
  Schemas,         \* tool_schemas: a tool |-> its required argument keys
  Generations,     \* [sequence, stop, parseError, calls, results]
  MaxGenerations

ASSUME GenerationsAssumption ==
  \A g \in Generations : g.sequence \in Int \cup {None}

VARIABLE session   \* the recorded list: generations in order of arrival
sessionVars == <<session>>

StopReasons == {"tool_use", "end_turn", "max_tokens", "error"}

\* A call carries its arguments as a set of keys, and its command if it has one.
ValidCall(call) == call.name # "" /\ call.argumentsError \in BOOLEAN
ValidGeneration(g) ==
  /\ g.sequence = None \/ g.sequence >= 0
  /\ g.stop \in StopReasons
  /\ \A i \in DOMAIN g.calls : ValidCall(g.calls[i])
  /\ \A i \in DOMAIN g.results : g.results[i].call \in DOMAIN g.calls

\* A generation without a number takes its place in the list for one.
Place(gens, i) == IF gens[i].sequence = None THEN i - 1 ELSE gens[i].sequence
\* Mutant: generations are scored in the order of the list.
AsListed(gens) == [i \in DOMAIN gens |-> gens[i]]
\* A stable sort: a generation comes after as many as are before it.
Before(gens, i, j) ==
  \/ Place(gens, i) < Place(gens, j)
  \/ Place(gens, i) = Place(gens, j) /\ i < j
Rank(gens, i) == 1 + Cardinality({j \in DOMAIN gens : Before(gens, j, i)})
InTurn(gens) == [n \in DOMAIN gens |-> gens[CHOOSE i \in DOMAIN gens : Rank(gens, i) = n]]

-----------------------------------------------------------------------------
(* Metrics: how many of how many                                           *)

\* The calls of a session: <<turn, index>>.
CallsOf(turns) == UNION {{i} \X DOMAIN turns[i].calls : i \in DOMAIN turns}
Call(turns, c) == turns[c[1]].calls[c[2]]

Universal(good, all) ==
  [count |-> Cardinality(good), total |-> Cardinality(all),
   verdict |-> IF all = {} THEN "unmeasured" ELSE IF good = all THEN "pass" ELSE "fail"]

Structured(turns) ==
  Universal({i \in DOMAIN turns : /\ ~turns[i].parseError
                                  /\ \A k \in DOMAIN turns[i].calls : ~turns[i].calls[k].argumentsError},
            DOMAIN turns)

Allowed(turns) == {c \in CallsOf(turns) : Call(turns, c).name \in AllowedTools}
Names(turns) == Universal(Allowed(turns), CallsOf(turns))

Verifiable(turns) == {c \in Allowed(turns) : Call(turns, c).name \in DOMAIN Schemas}
Conforming(turns) ==
  {c \in Verifiable(turns) :
     Call(turns, c).arguments # None /\ Schemas[Call(turns, c).name] \subseteq Call(turns, c).arguments}
\* Mutant: calls that cannot be verified outrank those that were found wrong.
UnverifiableFirst(turns) ==
  [count |-> Cardinality(Conforming(turns)), total |-> Cardinality(Allowed(turns)),
   verdict |-> IF Allowed(turns) = {} \/ Verifiable(turns) # Allowed(turns) THEN "unmeasured"
               ELSE IF Conforming(turns) # Verifiable(turns) THEN "fail" ELSE "pass"]
ArgumentSchema(turns) ==
  [count |-> Cardinality(Conforming(turns)), total |-> Cardinality(Allowed(turns)),
   verdict |-> IF Allowed(turns) = {} THEN "unmeasured"
               ELSE IF Conforming(turns) # Verifiable(turns) THEN "fail"
               ELSE IF Verifiable(turns) # Allowed(turns) THEN "unmeasured" ELSE "pass"]

\* A command is an argument: a call without arguments has none.
Command(call) == IF call.arguments = None THEN None ELSE call.command
Commands(turns) == {c \in CallsOf(turns) : Command(Call(turns, c)) # None}
Escaping(turns) ==
  LET applicable == {c \in Commands(turns) : Command(Call(turns, c)).escaping # "none"}
  IN  Universal({c \in applicable : Command(Call(turns, c)).escaping = "right"}, applicable)

Stops(turns) ==
  Universal({i \in DOMAIN turns :
               turns[i].stop = IF turns[i].calls # <<>> \/ turns[i].parseError
                               THEN "tool_use" ELSE "end_turn"},
            DOMAIN turns)

\* Errors are results: <<turn, index>>.
Errors(turns) ==
  UNION {{i} \X {k \in DOMAIN turns[i].results : turns[i].results[k].isError} : i \in DOMAIN turns}
Responds(g) == g.calls # <<>> \/ g.parseError \/ g.stop = "end_turn"
\* Mutant: the turn of the error is an answer to it.
HandledAtOnce(turns) == {e \in Errors(turns) : \E i \in DOMAIN turns : i >= e[1] /\ Responds(turns[i])}
Handled(turns) == {e \in Errors(turns) : \E i \in DOMAIN turns : i > e[1] /\ Responds(turns[i])}
ErrorHandling(turns) == Universal(Handled(turns), Errors(turns))

\* No destructive command is a pass: this is the one metric without an unmeasured verdict.
Discipline(turns) ==
  LET destructive == {c \in Commands(turns) : Command(Call(turns, c)).destructive}
      guarded == {c \in destructive : Call(turns, c).guarded}
  IN  [count |-> Cardinality(guarded), total |-> Cardinality(destructive),
       verdict |-> IF guarded = destructive THEN "pass" ELSE "fail"]

Score(gens) ==
  LET turns == InTurn(gens)
  IN  [valid_structured_output |-> Structured(turns), valid_tool_names |-> Names(turns),
       valid_argument_schema |-> ArgumentSchema(turns), escaping_correctness |-> Escaping(turns),
       stop_behavior |-> Stops(turns), tool_error_handling |-> ErrorHandling(turns),
       destructive_discipline |-> Discipline(turns)]

SessionVerdict(score) ==
  LET verdicts == {score[m].verdict : m \in DOMAIN score}
  IN  IF "fail" \in verdicts THEN "fail"
      ELSE IF "unmeasured" \in verdicts THEN "unmeasured" ELSE "pass"

\* The scorer refuses an empty list, and a list with one malformed generation as a whole.
Scorable(gens) == gens # <<>> /\ \A i \in DOMAIN gens : ValidGeneration(gens[i])
ScorerExit(gens) ==
  IF ~Scorable(gens) THEN 2
  ELSE CASE SessionVerdict(Score(gens)) = "pass" -> 0
         [] SessionVerdict(Score(gens)) = "fail" -> 1
         [] OTHER -> 2

-----------------------------------------------------------------------------
AddGeneration ==
  /\ Len(session) < MaxGenerations
  /\ \E g \in Generations : session' = Append(session, g)
SessionRest == Len(session) = MaxGenerations /\ UNCHANGED session

SessionInit == session = <<>>
SessionNext == AddGeneration \/ SessionRest
SessionSpec == SessionInit /\ [][SessionNext]_sessionVars
-----------------------------------------------------------------------------
(* Properties                                                              *)

\* What went wrong in a session stays wrong whatever is recorded later: only the handling of tool
\* errors recovers, by a later turn that answers; and a score is never measured and then unmeasured
\* but for calls whose tool has no schema (observed violations outrank unverifiable calls).
FailuresStay ==
  [][Scorable(session) /\ Scorable(session') =>
       LET old == Score(session)
           new == Score(session')
       IN  \A m \in DOMAIN old :
             /\ old[m].verdict = "fail" => m = "tool_error_handling" \/ new[m].verdict = "fail"
             /\ old[m].verdict = "pass" /\ new[m].verdict = "unmeasured"
                  => m = "valid_argument_schema"]_sessionVars

Backwards(gens) == [i \in DOMAIN gens |-> gens[Len(gens) + 1 - i]]

\* When every generation carries a number of its own, the order of the list does not matter.
ArrivalFree ==
  LET numbers == {session[i].sequence : i \in DOMAIN session}
  IN  Scorable(session) /\ None \notin numbers /\ Cardinality(numbers) = Len(session) =>
        Score(Backwards(session)) = Score(session)

\* No credit without an answer: a session whose last turn, in the order of the turns, got an error
\* does not pass, and errors are handled exactly up to the last turn that responded to anything.
LastErrorCounts ==
  Scorable(session) =>
    LET turns == InTurn(session)
        responding == {i \in DOMAIN turns : Responds(turns[i])}
        after(i) == {e \in Errors(turns) : \A j \in responding : e[1] >= j}
    IN  /\ Errors(turns) \ Handled(turns) = after(0)
        /\ (\E e \in Errors(turns) : e[1] = Len(turns)) => ScorerExit(session) = 1

\* The turns of a session decide its score, and not the order in which they were recorded or the
\* turn an error was in (score_session).
TurnsDecide == ArrivalFree /\ LastErrorCounts
=============================================================================
