--------------------------- MODULE PairedOutcomes ---------------------------
(***************************************************************************)
(* evaluation/paired.py: two models run the same tasks under the same      *)
(* seeds, each into a file of its own, and the two files are compared.     *)
(* Runs arrive one at a time, on both sides or on one of them, and the     *)
(* comparison may be asked for at any time.  Rates are integers: a success *)
(* counts Unit, and Unit is divisible by every number of seeds; a ratio    *)
(* counts RatioUnit.                                                       *)
(***************************************************************************)
EXTENDS Optional, Integers, Sequences, FiniteSets, FiniteSetsExt, SequencesExt, Functions, Combinatorics

CONSTANTS
  Keys,        \* <<task, seed>> pairs, in the order of the suite
  Outcomes,    \* [success, catastrophic, turns, context, language]
  Draws,       \* replicates of the bootstrap: sequences of sequences of Nat
  Extras,      \* runs of one side only: [side, record]
  Unit, RatioUnit,
  MaxPairs,    \* runs per side up to which both sides go on together
  MaxExtras    \* the files' lengths differ by less

ASSUME ReasonsAssumption == None \notin {"duplicate", "models"}

VARIABLES
  runs,        \* [reference, candidate]: sequences of records
  report       \* None, a refusal, or the analysis

pairVars == <<runs, report>>

Sides == {"reference", "candidate"}
OtherSide(side) == IF side = "reference" THEN "candidate" ELSE "reference"
Controls(records) == {i \in DOMAIN records : records[i].type = "negative_control"}
Tasks(records) == {i \in DOMAIN records : records[i].type = "task"}
KeyOf(r) == <<r.task, r.seed>>
KeysOf(records) == {KeyOf(records[i]) : i \in DOMAIN records}
TaskKeys(records) == {KeyOf(records[i]) : i \in Tasks(records)}
Run(records, key) == records[CHOOSE i \in DOMAIN records : KeyOf(records[i]) = key]
\* Mutant: a repeated key is no longer refused.
AnyRunsPerKey(records) == TRUE
OneRunPerKey(records) == Cardinality(KeysOf(records)) = Len(records)

-----------------------------------------------------------------------------
(* Records                                                                 *)

TurnsBucket(turns) == CASE turns = 0 -> 0 [] turns \in 1 .. 5 -> 1 [] turns \in 6 .. 15 -> 2
                        [] turns \in 16 .. 30 -> 3 [] turns \in 31 .. 60 -> 4 [] OTHER -> 5
\* The bucket is the number of powers of two from 8K on that are reached.
ContextBucket(tokens) == Cardinality({k \in 3 .. 7 : tokens >= 1024 * 2 ^ k})

\* A run without a turn is a failure.
ValidRecord(r) == r.turns >= 0 /\ r.context >= 0 /\ (r.turns = 0 => ~r.success)

Loads(records) == records # <<>> /\ \A i \in DOMAIN records : ValidRecord(records[i])

\* Every record counts here, controls included.
Refusal(records) ==
  IF ~OneRunPerKey(records) THEN "duplicate"
  ELSE IF \E i, j \in DOMAIN records : records[i].model # records[j].model THEN "models"
  ELSE None

-----------------------------------------------------------------------------
(* The analysis                                                            *)

Successes(records, keys) == Cardinality({k \in keys : Run(records, k).success})
Catastrophes(records, keys) == Cardinality({k \in keys : Run(records, k).catastrophic})

\* Mutant: controls are compared like tasks.
AnyMatched(ref, cand) == KeysOf(ref) \cap KeysOf(cand)
\* Mutant: only the reference's controls are left out.
ReferenceMatched(ref, cand) == TaskKeys(ref) \cap KeysOf(cand)
Matched(ref, cand) == TaskKeys(ref) \cap TaskKeys(cand)
Missing(ref, cand, side) ==
  IF side = "reference" THEN TaskKeys(cand) \ TaskKeys(ref) ELSE TaskKeys(ref) \ TaskKeys(cand)

\* Seeds of one task are one observation: a task counts its mean.
SeedsOf(keys, task) == {k \in keys : k[1] = task}
\* Mutant: the seeds of a task add up.
SumOverSeeds(records, keys, task) == Unit * Successes(records, SeedsOf(keys, task))
Mean(records, keys, task) ==
  (Unit * Successes(records, SeedsOf(keys, task))) \div Cardinality(SeedsOf(keys, task))
MeansOf(records, keys) == [t \in {k[1] : k \in keys} |-> Mean(records, keys, t)]

Total(means) == MapThenSumSet(LAMBDA t : means[t], DOMAIN means)

\* The tasks by name, as clusters.
Clusters(keys) == SetToSortSeq({k[1] : k \in keys}, <)

\* One replicate draws as many clusters as there are.
DrawnSum(means, clusters, draw) ==
  MapThenSumSet(LAMBDA i : means[clusters[1 + (draw[i] % Len(clusters))]], DOMAIN clusters)

Ascending(s) == SortSeq(s, <)

\* The percentile at k fortieths, interpolated, in fortieths.
Percentile(sorted, k) ==
  LET place == k * (Len(sorted) - 1)
      lower == 1 + place \div 40
      rest  == place % 40
  IN  IF sorted = <<>> THEN None
      ELSE 40 * sorted[lower]
             + (IF rest = 0 THEN 0 ELSE rest * (sorted[lower + 1] - sorted[lower]))
\* Mutant: the replicates are not sorted.
UnsortedInterval(samples) == <<Percentile(samples, 1), Percentile(samples, 39)>>
Interval(samples) ==
  LET sorted == Ascending(samples) IN <<Percentile(sorted, 1), Percentile(sorted, 39)>>

Sampled(means, clusters, draws) ==
  [i \in DOMAIN draws |-> DrawnSum(means, clusters, draws[i])]
\* A replicate in which the reference never succeeds has no ratio.
RatioSamples(ref, cand, clusters, draws) ==
  LET with == SelectSeq(draws, LAMBDA d : DrawnSum(ref, clusters, d) > 0)
  IN  [i \in DOMAIN with |-> (RatioUnit * DrawnSum(cand, clusters, with[i]))
                                \div DrawnSum(ref, clusters, with[i])]

\* Of 2 ^ n outcomes, those with at most m heads.
AtMost(n, m) == MapThenSumSet(LAMBDA k : choose(n, k), 0 .. m)
\* 2 ^ n times the exact two-sided p-value.
\* Mutant: one tail.
McNemarTail(b, c) == AtMost(b + c, IF b < c THEN b ELSE c)
McNemarP(b, c) ==
  LET n   == b + c
      two == 2 * AtMost(n, IF b < c THEN b ELSE c)
  IN  IF two < 2 ^ n THEN two ELSE 2 ^ n

McNemar(ref, cand, keys) ==
  LET b == Cardinality({k \in keys : Run(ref, k).success /\ ~Run(cand, k).success})
      c == Cardinality({k \in keys : ~Run(ref, k).success /\ Run(cand, k).success})
  IN  IF \E k \in keys : Cardinality(SeedsOf(keys, k[1])) > 1 THEN [status |-> "not_applicable"]
      ELSE [status |-> "computed", b |-> b, c |-> c, p |-> McNemarP(b, c)]

\* The slices of a pair are those of its reference record, on both sides.
Dimensions == {"language", "turns", "context"}
SliceOf(r, dim) == CASE dim = "language" -> r.language
                     [] dim = "turns" -> TurnsBucket(r.turns)
                     [] OTHER -> ContextBucket(r.context)
\* Mutant: a bucket holds the runs that fell into it themselves.
OwnSlices(ref, cand, keys, dim) ==
  LET of(records, v) == {k \in keys : SliceOf(Run(records, k), dim) = v}
  IN  [v \in {SliceOf(Run(ref, k), dim) : k \in keys} |->
         [reference |-> [pairs |-> Cardinality(of(ref, v)), successes |-> Successes(ref, of(ref, v)),
                         catastrophes |-> Catastrophes(ref, of(ref, v))],
          candidate |-> [pairs |-> Cardinality(of(cand, v)), successes |-> Successes(cand, of(cand, v)),
                         catastrophes |-> Catastrophes(cand, of(cand, v))]]]
Slices(ref, cand, keys, dim) ==
  LET of(v) == {k \in keys : SliceOf(Run(ref, k), dim) = v}
      count(records, v) == [pairs |-> Cardinality(of(v)), successes |-> Successes(records, of(v)),
                            catastrophes |-> Catastrophes(records, of(v))]
  IN  [v \in {SliceOf(Run(ref, k), dim) : k \in keys} |->
         [reference |-> count(ref, v), candidate |-> count(cand, v)]]
Mismatches(ref, cand, keys, dim) ==
  Cardinality({k \in keys : SliceOf(Run(ref, k), dim) # SliceOf(Run(cand, k), dim)})

ControlSummary(records) ==
  LET controls == Controls(records)
  IN  [records |-> Cardinality(controls),
       successes |-> Cardinality({i \in controls : records[i].success}),
       catastrophes |-> Cardinality({i \in controls : records[i].catastrophic})]

Compared(ref, cand, draws) ==
  LET keys == Matched(ref, cand)
      refMeans == MeansOf(ref, keys)  candMeans == MeansOf(cand, keys)
      clusters == Clusters(keys)
      refSum == Total(refMeans)
      candSum == Total(candMeans)
  IN  [status    |-> "analysed",
       pairs     |-> Cardinality(keys),
       tasks     |-> Len(clusters),
       missing   |-> [side \in Sides |-> Missing(ref, cand, side)],
       successes |-> [reference |-> Successes(ref, keys), candidate |-> Successes(cand, keys)],
       rates     |-> [reference |-> refSum, candidate |-> candSum],
       intervals |-> [reference |-> Interval(Sampled(refMeans, clusters, draws)),
                      candidate |-> Interval(Sampled(candMeans, clusters, draws))],
       ratio     |-> IF refSum = 0 THEN None ELSE (RatioUnit * candSum) \div refSum,
       ratioCI   |-> IF refSum = 0 THEN None
                     ELSE Interval(RatioSamples(refMeans, candMeans, clusters, draws)),
       wins      |-> Cardinality({t \in DOMAIN refMeans : candMeans[t] > refMeans[t]}),
       losses    |-> Cardinality({t \in DOMAIN refMeans : candMeans[t] < refMeans[t]}),
       mcnemar   |-> McNemar(ref, cand, keys),
       catastrophes |-> [reference |-> Catastrophes(ref, keys),
                         candidate |-> Catastrophes(cand, keys)],
       slices    |-> [dim \in Dimensions |-> Slices(ref, cand, keys, dim)],
       mismatches |-> [dim \in Dimensions |-> Mismatches(ref, cand, keys, dim)],
       controls  |-> [reference |-> ControlSummary(ref), candidate |-> ControlSummary(cand)]]

Refused(why) == [status |-> "refused", why |-> why]
Analysis(ref, cand, reportMissing, draws) ==
  IF ~Loads(ref) \/ ~Loads(cand) THEN Refused("invalid")
  ELSE IF Refusal(ref) # None THEN Refused(Refusal(ref))
  ELSE IF Refusal(cand) # None THEN Refused(Refusal(cand))
  ELSE IF ref[1].model = cand[1].model THEN Refused("same_model")
  ELSE IF ~reportMissing /\ \E side \in Sides : Missing(ref, cand, side) # {} THEN Refused("unpaired")
  ELSE IF Matched(ref, cand) = {} THEN Refused("no_pairs")
  ELSE Compared(ref, cand, draws)

-----------------------------------------------------------------------------
(* The campaign                                                            *)

Record(side, key, outcome) ==
  [task |-> key[1], seed |-> key[2], model |-> side, type |-> "task",
   success |-> outcome.success, catastrophic |-> outcome.catastrophic, turns |-> outcome.turns,
   context |-> outcome.context, language |-> outcome.language]

RunPair ==
  /\ report = None /\ Len(runs["reference"]) < MaxPairs
  /\ OneRunPerKey(runs["reference"]) /\ OneRunPerKey(runs["candidate"])
  /\ \E i \in DOMAIN Keys, outcome \in [Sides -> Outcomes] :
       LET ran == KeysOf(runs["reference"]) \cup KeysOf(runs["candidate"])
       IN  /\ Keys[i] \notin ran /\ \A j \in 1 .. i - 1 : Keys[j] \in ran
           /\ runs' = [side \in Sides |-> Append(runs[side], Record(side, Keys[i], outcome[side]))]
  /\ UNCHANGED report

\* A run on one side only: another record, a control, a repeated key or a record of a wrong model.
RunOne ==
  /\ report = None /\ Len(runs["reference"]) + Len(runs["candidate"]) < 2 * MaxPairs
  /\ Len(runs["reference"]) - Len(runs["candidate"]) \in -MaxExtras + 1 .. MaxExtras - 1
  /\ \E x \in Extras : runs' = [runs EXCEPT ![x.side] = Append(@, x.record)]
  /\ UNCHANGED report

Analyze ==
  /\ report = None
  /\ \E reportMissing \in BOOLEAN, draws \in Draws :
       report' = [missing |-> reportMissing, draws |-> draws,
                  result |-> Analysis(runs["reference"], runs["candidate"], reportMissing, draws)]
  /\ UNCHANGED runs

PairRest == report # None /\ UNCHANGED pairVars

PairInit == runs = [side \in Sides |-> <<>>] /\ report = None
PairNext == RunPair \/ RunOne \/ Analyze \/ PairRest
PairSpec == PairInit /\ [][PairNext]_pairVars
-----------------------------------------------------------------------------
(* Properties                                                              *)

Analyzed == report # None /\ report.result.status = "analysed"
Ref == runs["reference"]
Cand == runs["candidate"]

\* What the report says holds together: rates are averages over tasks, and the ratio is absent
\* exactly when the reference never succeeded (paired.py never writes an infinite ratio).
PairTypeOK ==
  Analyzed =>
    LET r == report.result
    IN  /\ r.pairs > 0 /\ r.tasks \in 1 .. r.pairs
        /\ \A side \in Sides : r.rates[side] \in 0 .. Unit * r.tasks
        /\ (r.ratio = None) <=> (r.successes["reference"] = 0)
        /\ \A side \in Sides, key \in ToSet(Keys) :
             ~(key \in r.missing[side] /\ key \in r.missing[OtherSide(side)])

\* The slices of one dimension cover the matched pairs once each: their counts add up to the totals
\* of the report on both sides, and each row holds as many pairs of one side as of the other
\* (_bucket_slices counts both models in the bucket of the reference record).
SlicesCover ==
  Analyzed =>
    LET r == report.result
    IN  \A dim \in Dimensions :
          LET of == r.slices[dim]
              total(side, count) == SumFunction([v \in DOMAIN of |-> of[v][side][count]])
          IN  /\ \A v \in DOMAIN of : of[v]["reference"].pairs = of[v]["candidate"].pairs
              /\ \A side \in Sides :
                   /\ total(side, "pairs") = r.pairs
                   /\ total(side, "successes") = r.successes[side]
                   /\ total(side, "catastrophes") = r.catastrophes[side]

\* Neither file is privileged: analysed the other way round, wins and losses, the discordant pairs,
\* the missing keys, the rates and their intervals change sides and nothing else.
Mirror ==
  Analyzed =>
    LET r == report.result
        m == Analysis(Cand, Ref, report.missing, report.draws)
        swapped(f) == [side \in Sides |-> f[OtherSide(side)]]
    IN  /\ m.status = r.status
        /\ m.pairs = r.pairs /\ m.tasks = r.tasks /\ m.wins = r.losses /\ m.losses = r.wins
        /\ m.missing = swapped(r.missing) /\ m.successes = swapped(r.successes)
        /\ m.rates = swapped(r.rates) /\ m.intervals = swapped(r.intervals)
        /\ m.catastrophes = swapped(r.catastrophes) /\ m.controls = swapped(r.controls)
        /\ m.mismatches = r.mismatches
        /\ m.mcnemar.status = r.mcnemar.status
        /\ r.mcnemar.status = "computed" =>
             m.mcnemar = [status |-> "computed", b |-> r.mcnemar.c, c |-> r.mcnemar.b, p |-> r.mcnemar.p]

\* The order of the runs in the files does not matter, not even to the bootstrap's draws: clusters
\* are drawn by the rank of their name, and a key that appears twice is refused, not overwritten.
OrderFree ==
  report # None =>
    report.result = Analysis(Reverse(Ref), Reverse(Cand), report.missing, report.draws)

\* Negative controls stay out of every task statistic: without them the report is the same but for
\* the summary of the controls, whichever side ran them.
WithoutControls(records) ==
  [k \in 1 .. Cardinality(Tasks(records)) |->
     records[CHOOSE i \in Tasks(records) : Cardinality({j \in Tasks(records) : j < i}) = k - 1]]
ControlsApart ==
  Analyzed =>
    LET bare == Analysis(WithoutControls(Ref), WithoutControls(Cand), report.missing, report.draws)
    IN  /\ bare.status = "analysed"
        /\ \A field \in DOMAIN bare \ {"controls"} : bare[field] = report.result[field]

\* McNemar's test is the exact sign test: its p-value is the share of the outcomes of as many fair
\* coins as there are discordant pairs that are at least as lopsided.  It is computed only with one
\* seed per task, and then its discordant pairs are the wins and losses.
McNemarExact ==
  Analyzed =>
    LET r == report.result
        t == r.mcnemar
        n == t.b + t.c
        gap(a, b) == IF a < b THEN b - a ELSE a - b
        heads(s) == Cardinality({i \in 1 .. n : s[i]})
    IN  /\ t.status = "computed" <=> r.tasks = r.pairs
        /\ t.status = "computed" =>
             /\ t.b = r.losses /\ t.c = r.wins
             /\ t.b - t.c = r.successes["reference"] - r.successes["candidate"]
             /\ t.p = Cardinality({s \in [1 .. n -> BOOLEAN] :
                                     gap(heads(s), n - heads(s)) >= gap(t.b, t.c)})

\* A confidence interval runs upwards and stays between the worst and the best task; when every
\* replicate drew the same it is a point, and the ratio has one unless no replicate had a ratio.
IntervalSound ==
  Analyzed =>
    LET r == report.result
        keys == Matched(Ref, Cand)
        means == [reference |-> MeansOf(Ref, keys), candidate |-> MeansOf(Cand, keys)]
        drawn(side, k) == DrawnSum(means[side], Clusters(keys), report.draws[k])
    IN  /\ \A side \in Sides, i \in {1, 2} :
             \E j, k \in DOMAIN report.draws :
               /\ 40 * drawn(side, j) <= r.intervals[side][i]
               /\ r.intervals[side][i] <= 40 * drawn(side, k)
        /\ \A side \in Sides : r.intervals[side][1] <= r.intervals[side][2]
        /\ r.ratio # None =>
             /\ r.ratioCI = <<None, None>>
                  <=> \A k \in DOMAIN report.draws : drawn("reference", k) = 0
             /\ r.ratioCI # <<None, None>> => r.ratioCI[1] <= r.ratioCI[2]

\* The comparison favours nothing: not a side, not an order of the files, not a run of a control
\* (analyze of paired.py).
NothingFavoured == Mirror /\ OrderFree /\ ControlsApart

\* The numbers of a report agree with the runs and with each other: totals with slices, the p-value
\* with the discordant pairs, the intervals with the replicates.
NumbersAgree == PairTypeOK /\ SlicesCover /\ McNemarExact /\ IntervalSound
=============================================================================
