--------------------------- MODULE ExpertSelection ---------------------------
(***************************************************************************)
(* pruning/hope.py, the selectors: which experts of a layer to prune, given *)
(* the matrix F of their interactions, and pruning/convergence.py, the     *)
(* sweep that selects again and again while parts of the statistics are    *)
(* merged.  Matrices hold integers, so the order of a sum does not matter; *)
(* quotients of statistics count Scale, which every count divides.  What   *)
(* the SLSQP solver returns is unknown: its solution may round to any set. *)
(***************************************************************************)
EXTENDS Optional, Integers, Sequences, FiniteSets, TLC, FiniteSetsExt, SequencesExt, Functions, Combinatorics

CONSTANTS
  Problems,      \* [f, budget, roundings, toy]: what select may be asked, what the solver may answer
  ExactMax,      \* EXACT_MAX_EXPERTS
  ConfigMax,     \* values of exact.max_experts
  SwapPasses,        \* values of local_swap_max_passes
  PartLists,     \* sequences of statistics
  Schedules,     \* sequences of token budgets
  PruneBudgets,
  Scale

VARIABLES
  problem, certificate,            \* one call of the select command
  parts, schedule, pruneBudget,    \* the arguments of one sweep
  merged, consumed, sweep, ended   \* its statistics, how many parts they hold, its steps, how it ended

selectVars == <<problem, certificate>>
sweepVars == <<parts, schedule, pruneBudget, merged, consumed, sweep, ended>>

Experts(f) == DOMAIN f
Size(f) == Cardinality(DOMAIN f)
SumOver(S, op(_)) == MapThenSumSet(op, S)

ValidF(f) == \A i, j \in Experts(f) : f[i][j] >= 0 /\ f[i][j] = f[j][i]
ValidBudget(f, budget) == 0 <= budget /\ budget <= Size(f)

-----------------------------------------------------------------------------
(* Objectives and exact selection                                          *)

QuadraticObjective(f, P) ==
  SumOver(P, LAMBDA i : f[i][i] + 2 * SumOver({j \in P : j > i}, LAMBDA j : f[i][j]))
OracleObjective(f, P) == SumOver(P, LAMBDA i : SumOver(P, LAMBDA j : f[i][j]))

\* The sets of k of the experts 0 .. e - 1 in the order of itertools.combinations.
CombinationsOf(e, k) ==
  LET from[lo \in 0 .. e, n \in 0 .. k] ==
        CASE n = 0 -> <<{}>>
          [] n > e - lo -> <<>>
          [] OTHER -> LET with == from[lo + 1, n - 1]
                      IN  [i \in DOMAIN with |-> with[i] \cup {lo}] \o from[lo + 1, n]
  IN  from[0, k]

\* A later set replaces the best one only when it is better.
\* Mutant: also when it is as good.
LastBest(values) ==
  CHOOSE i \in DOMAIN values : \A j \in DOMAIN values : values[j] >= values[i] + (IF j > i THEN 1 ELSE 0)
FirstBest(values) ==
  CHOOSE i \in DOMAIN values : \A j \in DOMAIN values : values[j] >= values[i] + (IF j < i THEN 1 ELSE 0)

NoCertificate(why) == [method |-> "refused", why |-> why]

ExhaustiveSelect(f, budget, maxExperts) ==
  IF ~ValidF(f) THEN NoCertificate("matrix")
  ELSE IF ~ValidBudget(f, budget) THEN NoCertificate("budget")
  ELSE IF Size(f) > maxExperts THEN NoCertificate("too_many")
  ELSE LET sets == CombinationsOf(Size(f), budget)
           values == [i \in DOMAIN sets |-> QuadraticObjective(f, sets[i])] @@ <<>>
           best == FirstBest(values)
       IN  [method |-> "exhaustive", exact |-> TRUE, optimal |-> TRUE, pruned |-> sets[best],
            objective |-> values[best], evaluated |-> Len(sets),
            ties |-> Cardinality({i \in DOMAIN values : values[i] = values[best]})]

\* The first-order ranking of REAP: the smallest diagonal entries.
\* Mutant: among equals the larger id goes first.
LargerIdFirst(f, i) ==
  Cardinality({j \in Experts(f) : f[j][j] < f[i][i] \/ (f[j][j] = f[i][i] /\ j > i)})
DiagonalRank(f, i) ==
  Cardinality({j \in Experts(f) : f[j][j] < f[i][i] \/ (f[j][j] = f[i][i] /\ j < i)})
DiagTopkPruned(f, budget) == {i \in Experts(f) : DiagonalRank(f, i) < budget}

-----------------------------------------------------------------------------
(* The relaxation                                                          *)

\* What expert x costs beside the others.
\* Mutant: the pair of the two swapped experts is counted.
CostWithBoth(f, x, others, current) == f[x][x] + 2 * SumOver(current \ {x}, LAMBDA j : f[x][j])
Cost(f, x, others, current) == f[x][x] + 2 * SumOver(others, LAMBDA j : f[x][j])

\* The swap of x that gains most, the first of them, if any gains.
Swapped(f, current, x) ==
  LET others == current \ {x}
      gain(y) == Cost(f, x, others, current) - Cost(f, y, others, current)
      best == {y \in Experts(f) \ current :
                 gain(y) > 0 /\ \A z \in Experts(f) \ current : gain(z) <= gain(y)}
  IN  IF best = {} THEN current ELSE others \cup {Min(best)}

\* One pass tries every expert pruned when it began; passes go on while they improve.
OnePass(f, current) ==
  FoldLeft(LAMBDA c, x : Swapped(f, c, x), current, SetToSortSeq(current, <))
BinarySwapRefine(f, pruned, maxPasses) ==
  LET after[n \in 0 .. maxPasses] == IF n = 0 THEN pruned ELSE OnePass(f, after[n - 1])
  IN  after[maxPasses]

\* A budget of nothing or of everything is handed to the exhaustive selector with its own limit.
RelaxSelect(f, budget, rounded, maxPasses) ==
  IF ~ValidF(f) THEN NoCertificate("matrix")
  ELSE IF ~ValidBudget(f, budget) THEN NoCertificate("budget")
  ELSE IF budget \in {0, Size(f)} THEN
         LET trivial == ExhaustiveSelect(f, budget, ExactMax)
         IN  IF trivial.method = "refused" THEN trivial
             ELSE [trivial EXCEPT !.method = "relaxation", !.exact = FALSE, !.optimal = FALSE]
  ELSE LET pruned == IF maxPasses = None THEN rounded ELSE BinarySwapRefine(f, rounded, maxPasses)
       IN  [method |-> "relaxation", exact |-> FALSE, optimal |-> FALSE, pruned |-> pruned,
            objective |-> QuadraticObjective(f, pruned), evaluated |-> 0, ties |-> 0]

\* The sets a solution may round to.
Roundings(f, budget) == IF ValidBudget(f, budget) THEN kSubset(budget, Experts(f)) ELSE {{}}

\* "auto" goes by the built-in limit.
Method(f, method) ==
  IF method # "auto" THEN method ELSE IF Size(f) <= ExactMax THEN "exhaustive" ELSE "relaxation"
\* scipy is optional: without it the relaxation is refused, never replaced.
Select(f, budget, method, maxExperts, rounded, maxPasses, scipy) ==
  IF Method(f, method) = "exhaustive" THEN ExhaustiveSelect(f, budget, maxExperts)
  ELSE IF ~scipy THEN NoCertificate("dependency")
  ELSE RelaxSelect(f, budget, rounded, maxPasses)

\* The select command goes by the configured limit instead, and checks what it delivers.
ConfiguredMethod(f, method, maxExperts) ==
  IF method # "auto" THEN method ELSE IF Size(f) <= maxExperts THEN "exhaustive" ELSE "relaxation"
Checked(f, c) ==
  IF c.method # "refused" /\ OracleObjective(f, c.pruned) # c.objective THEN NoCertificate("mismatch") ELSE c

SelectCommand ==
  /\ certificate = None
  /\ \E method \in {"auto", "exhaustive", "relaxation"}, max \in ConfigMax,
        rounded \in problem.roundings, passes \in SwapPasses \cup {None},
        scipy \in BOOLEAN :
       LET m == ConfiguredMethod(problem.f, method, max)
       IN  /\ m = "exhaustive" => passes = None /\ scipy
           /\ certificate' = Checked(problem.f,
                               Select(problem.f, problem.budget, m, max, rounded, passes, scipy))
                             @@ [rounded |-> rounded, passes |-> passes, configured |-> max]
  /\ UNCHANGED problem

SelectRest == certificate # None /\ UNCHANGED selectVars
SelectInit == problem \in Problems /\ certificate = None
SelectNext == SelectCommand \/ SelectRest
SelectSpec == SelectInit /\ [][SelectNext]_selectVars

-----------------------------------------------------------------------------
(* The closed-form cases, for any number of experts and any budget their   *)
(* structure allows: pathologies of the paper with the optimum worked out  *)

Matrix(e, entry(_, _)) == [i \in 0 .. e - 1 |-> [j \in 0 .. e - 1 |-> entry(i, j)]]
Linked(i, j, pairs) == <<i, j>> \in pairs \/ <<j, i>> \in pairs

Uniform(e, k) ==
  [f |-> Matrix(e, LAMBDA i, j : 1), pruned |-> 0 .. k - 1, objective |-> k * k, ties |-> choose(e, k),
   first |-> 0 .. k - 1, firstObjective |-> k * k]
ImportantPair(e, k) ==
  [f |-> Matrix(e, LAMBDA i, j : IF i = j THEN 1 ELSE IF Linked(i, j, {<<0, 1>>}) THEN 1000 ELSE 0),
   pruned |-> {0} \cup 2 .. k, objective |-> k, ties |-> choose(e, k) - choose(e - 2, k - 2),
   first |-> 0 .. k - 1, firstObjective |-> k + 2000]
Redundancy(e, k) ==
  [f |-> Matrix(e, LAMBDA i, j : IF i = j THEN IF i <= 1 THEN 5 ELSE 50
                                 ELSE IF Linked(i, j, {<<0, 1>>}) THEN 40 ELSE 0),
   pruned |-> {0, 2}, objective |-> 55, ties |-> 2 * (e - 2), first |-> {0, 1}, firstObjective |-> 90]
Block(e, k) ==
  LET b == e \div 2
  IN  [f |-> Matrix(e, LAMBDA i, j : IF i = j THEN 1 ELSE IF i \div b = j \div b THEN 30 ELSE 0),
       pruned |-> {0, 1, b, b + 1}, objective |-> 4 + 4 * 30, ties |-> choose(b, 2) * choose(b, 2),
       first |-> 0 .. 3, firstObjective |-> 4 + 2 * 30 * choose(4, 2)]
Ties(e, k) ==
  [f |-> Matrix(e, LAMBDA i, j : IF i = j THEN 1
                                 ELSE IF Linked(i, j, {<<0, 1>>, <<2, 3>>, <<4, 5>>}) THEN 10 ELSE 0),
   pruned |-> {0, 2, 4, 6}, objective |-> k, ties |-> choose(e, k) - (3 * choose(e - 2, k - 2) - 3),
   first |-> 0 .. 3, firstObjective |-> k + 2 * 10 * 2]
Sparse(e, k) ==
  LET best == 0 .. k - 2 \cup {8}
  IN  [f |-> Matrix(e, LAMBDA i, j : IF i = j THEN IF i \in {0, 8} THEN 1 ELSE 10
                                     ELSE IF Linked(i, j, {<<0, 8>>}) THEN 4 ELSE 0),
       pruned |-> best, objective |-> 2 + (k - 2) * 10 + 2 * 4, ties |-> choose(e - 2, k - 2),
       first |-> best, firstObjective |-> 2 + (k - 2) * 10 + 2 * 4]

\* What the suite of the toys asks of one of them.
ToyPasses(toy, budget) ==
  LET exact == ExhaustiveSelect(toy.f, budget, ExactMax)
  IN  /\ exact.pruned = toy.pruned /\ exact.objective = toy.objective /\ exact.ties = toy.ties
      /\ exact.evaluated = choose(Size(toy.f), budget)
      /\ OracleObjective(toy.f, exact.pruned) = exact.objective
      /\ DiagTopkPruned(toy.f, budget) = toy.first
      /\ OracleObjective(toy.f, toy.first) = toy.firstObjective
      /\ exact.objective <= toy.firstObjective

-----------------------------------------------------------------------------
(* The sweep.  A part holds [rows, act, first, count, sum]                 *)

ConditionalF(s) ==
  [i \in DOMAIN s.act |-> [j \in DOMAIN s.act |->
     IF s.count[i][j] = 0 THEN 0 ELSE (Scale * s.sum[i][j]) \div s.count[i][j]]]
FirstOrder(s) ==
  [k \in DOMAIN s.act |-> IF s.act[k] = 0 THEN 0 ELSE (Scale * s.first[k]) \div s.act[k]]

\* The larger score comes first, and of equal ones the smaller id.
\* Mutant: equal scores share a rank.
SharedRanks(scores) ==
  [i \in DOMAIN scores |-> 1 + Cardinality({j \in DOMAIN scores : scores[j] > scores[i]})]
Ranks(scores) ==
  [i \in DOMAIN scores |->
     1 + Cardinality({j \in DOMAIN scores : scores[j] > scores[i] \/ (scores[j] = scores[i] /\ j < i)})]

\* Spearman's rho and Jaccard's index as fractions.
RankStability(prev, cur) ==
  LET n == Cardinality(DOMAIN prev)
      d2 == SumOver(DOMAIN prev, LAMBDA i : (prev[i] - cur[i]) * (prev[i] - cur[i]))
  IN  IF n <= 1 THEN <<1, 1>> ELSE <<n * (n * n - 1) - 6 * d2, n * (n * n - 1)>>
Jaccard(P, Q) ==
  IF P \cup Q = {} THEN <<1, 1>> ELSE <<Cardinality(P \cap Q), Cardinality(P \cup Q)>>

Joined(s, t) ==
  [rows |-> s.rows + t.rows,
   act |-> [k \in DOMAIN s.act |-> s.act[k] + t.act[k]],
   first |-> [k \in DOMAIN s.act |-> s.first[k] + t.first[k]],
   count |-> [i \in DOMAIN s.act |-> [j \in DOMAIN s.act |-> s.count[i][j] + t.count[i][j]]],
   sum |-> [i \in DOMAIN s.act |-> [j \in DOMAIN s.act |-> s.sum[i][j] + t.sum[i][j]]]]

ValidSchedule(budgets) ==
  budgets # <<>> /\ \A i \in DOMAIN budgets : budgets[i] > IF i = 1 THEN 0 ELSE budgets[i - 1]

Budget == schedule[Len(sweep) + 1]
Rows(s) == IF s = None THEN 0 ELSE s.rows
\* Mutant: a budget that is met exactly takes another part.
WantsBeyond(s, budget) == Rows(s) <= budget
WantsMore(s, budget) == Rows(s) < budget

MergePart ==
  /\ ended = None /\ Len(sweep) < Len(schedule)
  /\ consumed < Len(parts) /\ WantsMore(merged, Budget)
  /\ consumed' = consumed + 1
  /\ merged' = IF merged = None THEN parts[consumed'] ELSE Joined(merged, parts[consumed'])
  /\ UNCHANGED <<parts, schedule, pruneBudget, sweep, ended>>

\* The step of one budget: a selection, checked, and its comparison with the step before.
Step(c, budget) ==
  [budget |-> budget, rows |-> merged.rows, consumed |-> consumed, reached |-> merged.rows >= budget,
   pruned |-> c.pruned, exact |-> c.exact, ranks |-> Ranks(FirstOrder(merged)),
   jaccard |-> IF sweep = <<>> THEN None ELSE Jaccard(Last(sweep).pruned, c.pruned),
   stability |-> IF sweep = <<>> THEN None
                 ELSE RankStability(Last(sweep).ranks, Ranks(FirstOrder(merged)))]

SelectAtBudget ==
  /\ ended = None /\ Len(sweep) < Len(schedule)
  /\ merged # None /\ ~(consumed < Len(parts) /\ WantsMore(merged, Budget))
  /\ \E max \in ConfigMax \cup {ExactMax}, rounded \in Roundings(ConditionalF(merged), pruneBudget) :
       LET c == Checked(ConditionalF(merged),
                        Select(ConditionalF(merged), pruneBudget, "auto", max, rounded, None, TRUE))
       IN  IF merged.rows = 0 \/ c.method = "refused"
           THEN ended' = "refused" /\ UNCHANGED sweep
           ELSE /\ sweep' = Append(sweep, Step(c, Budget))
                /\ ended' = IF Len(sweep') = Len(schedule) THEN "reported" ELSE None
  /\ UNCHANGED <<parts, schedule, pruneBudget, merged, consumed>>

SweepRest == ended # None /\ UNCHANGED sweepVars
\* The arguments are checked before a part is read.
SweepInit ==
  /\ parts \in PartLists /\ schedule \in Schedules /\ pruneBudget \in PruneBudgets
  /\ merged = None /\ consumed = 0 /\ sweep = <<>>
  /\ ended = IF parts = <<>> \/ ~ValidSchedule(schedule) \/ pruneBudget < 1 THEN "refused" ELSE None
SweepNext == MergePart \/ SelectAtBudget \/ SweepRest
SweepSpec == SweepInit /\ [][SweepNext]_sweepVars
-----------------------------------------------------------------------------
(* Properties                                                              *)

\* A certificate claims no more than it has: an exact one names the first of the best sets, by ids,
\* and counts its ties; a heuristic one is never labelled exact or optimal, though it is a set of
\* the right size whose objective is its own and no better than the best
\* (exhaustive_select and scipy_relax_select; too many experts are refused, not approximated).
CertificateHonest ==
  certificate # None /\ certificate.method # "refused" =>
    LET f == problem.f
        all == kSubset(problem.budget, Experts(f))
        value == [P \in all |-> OracleObjective(f, P)] @@ <<>>
        least == Min({value[P] : P \in all})
        best == {P \in all : value[P] = least}
        precedes(P, Q) == Min((P \ Q) \cup (Q \ P)) \in P
    IN  /\ certificate.pruned \in all
        /\ certificate.objective = value[certificate.pruned]
        /\ certificate.exact = certificate.optimal /\ certificate.exact = (certificate.method = "exhaustive")
        /\ certificate.objective >= least
        /\ certificate.exact =>
             /\ certificate.pruned \in best /\ certificate.ties = Cardinality(best)
             /\ \A P \in best \ {certificate.pruned} : precedes(certificate.pruned, P)
             /\ Size(f) <= certificate.configured

\* The refinement by swaps only ever improves, and when it was allowed as many passes as there are
\* experts to swap in, no single swap improves its result: the differences it computes are the
\* differences of the objective (_binary_1swap_refine evaluates a move without the objective).
RefineSound ==
  certificate # None /\ certificate.method = "relaxation" /\ certificate.passes # None =>
    LET f == problem.f
        P == certificate.pruned
    IN  /\ QuadraticObjective(f, P) <= QuadraticObjective(f, certificate.rounded)
        /\ OnePass(f, P) = P =>
             \A x \in P, y \in Experts(f) \ P :
               QuadraticObjective(f, (P \ {x}) \cup {y}) >= QuadraticObjective(f, P)

\* Without interactions HOPE is REAP: on the diagonal of a matrix the exact selection is the
\* first-order one, ties included (diag_topk_pruned).
DiagonalIsReap ==
  certificate = None /\ ValidF(problem.f) /\ ValidBudget(problem.f, problem.budget) /\ Size(problem.f) <= ExactMax =>
    LET f == problem.f
        diagonal == [i \in Experts(f) |-> [j \in Experts(f) |-> IF i = j THEN f[i][i] ELSE 0]]
    IN  ExhaustiveSelect(diagonal, problem.budget, ExactMax).pruned = DiagTopkPruned(f, problem.budget)

\* The closed forms of the toy suite are right, and the selectors meet them (run_toys).
ToysPass ==
  LET toy == problem.toy IN certificate = None /\ toy # None => toy.f = problem.f /\ ToyPasses(toy, problem.budget)

\* Each budget of a sweep is met by the fewest parts that meet it, or reported as not reached with
\* every part merged; and what is merged step by step is what the parts hold together.
ShortestPrefix ==
  LET rows(n) == SumOver(1 .. n, LAMBDA i : parts[i].rows)
  IN  \A i \in DOMAIN sweep :
        LET n == sweep[i].consumed
        IN  /\ sweep[i].rows = rows(n) /\ sweep[i].reached = (rows(n) >= sweep[i].budget)
            /\ sweep[i].reached \/ n = Len(parts)
            /\ n = 1 \/ rows(n - 1) < sweep[i].budget

\* The measures of stability mean what they say: both lie between their bounds, Jaccard's index is
\* one exactly when the pruned set stayed, and rho is one exactly when no expert changed its rank,
\* ranks being a permutation (the formula without ties holds because ties are broken by id).
MeasuresSound ==
  \A i \in DOMAIN sweep :
    LET step == sweep[i]
    IN  /\ Range(step.ranks) = 1 .. Cardinality(DOMAIN step.ranks)
        /\ i > 1 =>
             /\ 0 <= step.jaccard[1] /\ step.jaccard[1] <= step.jaccard[2]
             /\ step.jaccard[1] = step.jaccard[2] <=> step.pruned = sweep[i - 1].pruned
             /\ -step.stability[2] <= step.stability[1] /\ step.stability[1] <= step.stability[2]
             /\ step.stability[1] = step.stability[2] <=> step.ranks = sweep[i - 1].ranks

\* A selection is what its certificate says, by whichever selector, and agrees with the closed forms
\* and with REAP where these apply.
SelectionHonest == CertificateHonest /\ RefineSound /\ DiagonalIsReap /\ ToysPass

\* The steps of a sweep use the statistics they say, and compare neighbouring steps soundly.
SweepSound == ShortestPrefix /\ MeasuresSound
=============================================================================
