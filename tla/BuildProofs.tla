---------------------------- MODULE BuildProofs ----------------------------
(***************************************************************************)
(* The candidate builder, for any jobs, layers and numbers of experts, and *)
(* for any number of builders.                                             *)
(*                                                                         *)
(* The plan (CandidatePlan): what an output is follows from the map, the   *)
(* order and the ledger; the books and the walk over the source close.     *)
(* The published map (MapPublication): as long as the operator leaves the  *)
(* file alone, whoever got past the comparison stands on a whole file with *)
(* his own map, and nothing but its writer changes a file that is there.   *)
(***************************************************************************)
EXTENDS CandidatePlan, MapPublication, FiniteSums

\* An output is planned.
Placing == DOMAIN planned # {}

NothingPlanned == stage \in {"prepare", "load", "validate", "assign", "open"} => ~Placing

Listed(m) == \A l \in DOMAIN m.layers : m.layers[l].retained \in Seq(Int)
MapGood ==
  /\ stage = "load" => Listed(map)
  /\ stage \in {"validate", "assign", "open", "dispatch"} \/ Placing =>
       Listed(map) /\ MapAccepted(map) /\ map.count = recipe.retained

RecipeGood == stage \in {"assign", "open", "dispatch"} \/ Placing => RecipeSound(recipe)

\* In a layer that is split, the experts to be re-encoded come first.
SplitByOrder(split) ==
  \A l \in Layers : \A e, f \in Elements(Retained[l]) :
    (e \in split[l] /\ f \notin split[l])
      => order # None /\ Position(order[l], e) < Position(order[l], f)
SplitGood == stage \in {"open", "dispatch"} \/ Placing => SplitByOrder(q3)

QueueGood == stage = "dispatch" => queue \in Seq(DOMAIN source.tensors)

\* What p, planned for n, is.
RouterOutput(n, p) ==
  p.action = "slice" =>
    n.kind = "router" /\ n.layer \in Layers /\ p.rows = Retained[n.layer]
ExpertPlaced(n, p) ==
  n.kind = "expert" =>
    /\ n.layer \in Layers /\ p.src.expert \in Experts
    /\ n.expert = NewId(n.layer, p.src.expert) /\ n.expert # None
    /\ p.cls = ExpertClass(n.layer, p.src.expert)
EncodedOutput(p) ==
  p.action \in Encodings =>
    LET entry == source.tensors[p.src]
    IN  /\ p.cls \in DOMAIN ledger
        /\ p.src \in DOMAIN source.tensors
        /\ p.src.kind = "expert" \/ entry.dtype # "F8"
        /\ entry.rows * entry.width > 0
OutputGood(n, p) == RouterOutput(n, p) /\ ExpertPlaced(n, p) /\ EncodedOutput(p)

\* Nothing of FP8 is written re-encoded.
Fp8Kept == \A n \in DOMAIN out : out[n].action \in Encodings => source.tensors[out[n].src].dtype # "F8"

PlanInv ==
  /\ job \in Jobs
  /\ NothingPlanned /\ MapGood /\ RecipeGood /\ SplitGood /\ QueueGood
  /\ \A n \in DOMAIN planned : OutputGood(n, planned[n])
  /\ Fp8Kept

-----------------------------------------------------------------------------
(* Sequences without repetition, and what an accepted map makes of them.   *)

LEMMA ElementsFinite ==
  ASSUME NEW s, s \in Seq(Int)
  PROVE  /\ IsFiniteSet(Elements(s)) /\ Cardinality(Elements(s)) <= Len(s)
         /\ Len(s) \in Nat
         /\ Cardinality(Elements(s)) = Len(s)
              => \A i, k \in 1 .. Len(s) : s[i] = s[k] => i = k
<1>1. Len(s) \in Nat /\ DOMAIN s = 1 .. Len(s)
  OBVIOUS
<1>2. IsFiniteSet(1 .. Len(s)) /\ Cardinality(1 .. Len(s)) = Len(s)
  BY <1>1, FS_Interval
<1>3. s \in Surjection(1 .. Len(s), Elements(s))
  BY <1>1 DEF Surjection, Elements
<1>4. /\ IsFiniteSet(Elements(s)) /\ Cardinality(Elements(s)) <= Len(s)
      /\ Cardinality(Elements(s)) = Len(s) <=> s \in Injection(1 .. Len(s), Elements(s))
  BY <1>2, <1>3, FS_Surjection
<1> QED
  BY <1>1, <1>4 DEF Injection, IsInjective

LEMMA InjectiveSize ==
  ASSUME NEW s, s \in Seq(Int), \A i, k \in 1 .. Len(s) : s[i] = s[k] => i = k
  PROVE  Cardinality(Elements(s)) = Len(s)
<1>1. Len(s) \in Nat /\ DOMAIN s = 1 .. Len(s)
  OBVIOUS
<1>2. IsFiniteSet(1 .. Len(s)) /\ Cardinality(1 .. Len(s)) = Len(s)
  BY <1>1, FS_Interval
<1>3. s \in Surjection(1 .. Len(s), Elements(s))
  BY <1>1 DEF Surjection, Elements
<1>4. s \in Injection(1 .. Len(s), Elements(s))
  BY <1>1, <1>3 DEF Injection, IsInjective, Surjection
<1> QED
  BY <1>2, <1>3, <1>4, FS_Surjection

\* In a layer of an accepted map, new ids are positions and nothing else has one.
LEMMA NewIds ==
  ASSUME NEW entry, NEW count, LayerAccepted(entry, count), entry.retained \in Seq(Int),
         None \notin Int, NEW e \in Experts, entry.new[e] # None
  PROVE  /\ entry.new[e] \in Int /\ entry.new[e] + 1 \in DOMAIN entry.retained
         /\ entry.retained[entry.new[e] + 1] = e
         /\ e \in Elements(entry.retained)
<1>1. e \in Elements(entry.retained)
  BY DEF LayerAccepted
<1>2. PICK i \in DOMAIN entry.retained : entry.retained[i] = e
  BY <1>1 DEF Elements
<1>3. entry.new[e] = i - 1 /\ i \in Int
  BY <1>2 DEF LayerAccepted
<1> QED
  BY <1>1, <1>2, <1>3

LEMMA RetainedOnce ==
  ASSUME NEW entry, NEW count, LayerAccepted(entry, count), entry.retained \in Seq(Int)
  PROVE  /\ IsFiniteSet(Elements(entry.retained)) /\ count \in Nat
         /\ Cardinality(Elements(entry.retained)) = count /\ Len(entry.retained) = count
<1>1. ASSUME NEW i \in 1 .. Len(entry.retained), NEW k \in 1 .. Len(entry.retained),
             entry.retained[i] = entry.retained[k]
      PROVE  i = k
  <2>1. i \in DOMAIN entry.retained /\ k \in DOMAIN entry.retained
    OBVIOUS
  <2>2. entry.new[entry.retained[i]] = i - 1 /\ entry.new[entry.retained[k]] = k - 1
    BY <2>1 DEF LayerAccepted
  <2> QED
    BY <1>1, <2>2
<1>2. Cardinality(Elements(entry.retained)) = Len(entry.retained)
  BY <1>1, InjectiveSize
<1> QED
  BY <1>2, ElementsFinite DEF LayerAccepted

\* A position is where the element stands, if it stands there once.
LEMMA StandsAt ==
  ASSUME NEW s, s \in Seq(Int), \A i, k \in 1 .. Len(s) : s[i] = s[k] => i = k,
         NEW i \in 1 .. Len(s)
  PROVE  Position(s, s[i]) = i - 1
<1>1. DOMAIN s = 1 .. Len(s)
  OBVIOUS
<1> DEFINE k == CHOOSE j \in DOMAIN s : s[j] = s[i]
<1>2. k \in DOMAIN s /\ s[k] = s[i]
  BY <1>1
<1>3. k = i
  BY <1>1, <1>2
<1> QED
  BY <1>3 DEF Position

-----------------------------------------------------------------------------
(* Precision.                                                              *)

\* A layer of an accepted map, as the rest of the build sees it.
LEMMA KeptInLayer ==
  ASSUME Listed(map), MapAccepted(map), NEW l \in Layers
  PROVE  /\ LayerAccepted(map.layers[l], map.count)
         /\ Retained[l] = map.layers[l].retained /\ Retained[l] \in Seq(Int)
         /\ IsFiniteSet(Elements(Retained[l])) /\ map.count \in Nat
         /\ Cardinality(Elements(Retained[l])) = map.count /\ Len(Retained[l]) = map.count
<1>1. LayerAccepted(map.layers[l], map.count) /\ map.layers[l].retained \in Seq(Int)
  BY DEF MapAccepted, Listed
<1>2. Retained[l] = map.layers[l].retained
  BY DEF Retained
<1> QED
  BY <1>1, <1>2, RetainedOnce

LEMMA SharesAreCounts ==
  ASSUME RecipeSound(recipe), NEW l \in Layers
  PROVE  Share(l) \in Nat
BY DEF RecipeSound, DistributionSound, Share

\* With an order, the first ones are before the others.
LEMMA OrderSplits ==
  ASSUME WellFormed(job), Listed(map), MapAccepted(map), RecipeSound(recipe),
         OrderAccepted(Retained), order # None, \A l \in Layers : Share(l) <= Len(Retained[l])
  PROVE  SplitByOrder([l \in Layers |-> First(l)])
<1> SUFFICES ASSUME NEW l \in Layers, NEW e \in Elements(Retained[l]),
                    NEW f \in Elements(Retained[l]), e \in First(l), f \notin First(l)
             PROVE  Position(order[l], e) < Position(order[l], f)
  BY DEF SplitByOrder
<1> DEFINE s == order[l]
<1>1. DOMAIN Retained = Layers
  BY DEF Retained
<1>2. l \in DOMAIN order /\ Len(s) = Len(Retained[l]) /\ Elements(s) = Elements(Retained[l])
  BY <1>1 DEF OrderAccepted
<1>3. s \in Seq(Int)
  BY <1>2 DEF WellFormed, SourceListed, RecordSound, order
<1>4. Cardinality(Elements(s)) = Len(s)
  BY <1>2, KeptInLayer
<1>5. First(l) = {s[i] : i \in 1 .. Share(l)}
  BY DEF First, FirstOf
<1>6. Share(l) \in Nat /\ Share(l) <= Len(s) /\ Len(s) \in Nat /\ DOMAIN s = 1 .. Len(s)
  BY <1>2, <1>3, SharesAreCounts
<1> HIDE DEF s
<1>7. \A i, k \in 1 .. Len(s) : s[i] = s[k] => i = k
  BY <1>3, <1>4, ElementsFinite
<1>8. PICK i \in 1 .. Share(l) : s[i] = e
  BY <1>5
<1>9. PICK k \in 1 .. Len(s) : s[k] = f
  BY <1>2, <1>6 DEF Elements
<1>10. k > Share(l)
  BY <1>5, <1>6, <1>9
<1>11. i \in 1 .. Len(s)
  BY <1>6, <1>8
<1>12. Position(s, e) = i - 1 /\ Position(s, f) = k - 1
  BY <1>3, <1>7, <1>8, <1>9, <1>11, StandsAt
<1>13. Position(s, e) < Position(s, f)
  BY <1>6, <1>8, <1>9, <1>10, <1>12
<1> QED
  BY <1>13 DEF s

\* Parts of equal sets whose sizes add up to nothing, or to everything.
LEMMA NoneIfNoneInAll ==
  ASSUME NEW S, IsFiniteSet(S), NEW w, \A x \in S : w[x] \in Nat,
         SumFunctionOnSet(w, S) = 0, NEW x \in S
  PROVE  w[x] = 0
<1>1. IsFiniteSet(S \ {x})
  BY FS_Subset
<1>2. SumFunctionOnSet(w, S) = w[x] + SumFunctionOnSet(w, S \ {x})
  BY SumAdd
<1>3. SumFunctionOnSet(w, S \ {x}) \in Nat
  BY <1>1, SumIsNatural
<1> QED
  BY <1>2, <1>3

LEMMA AllIfAllInAll ==
  ASSUME NEW S, IsFiniteSet(S), NEW n \in Nat, NEW w, \A x \in S : w[x] \in 0 .. n,
         SumFunctionOnSet(w, S) = n * Cardinality(S), NEW x \in S
  PROVE  w[x] = n
<1> DEFINE v == [y \in S |-> n - w[y]]
           all == [y \in S |-> n]
<1>1. SumFunctionOnSet(all, S) = SumFunctionOnSet(v, S) + SumFunctionOnSet(w, S)
  BY SumPlus
<1>2. SumFunctionOnSet(all, S) = Cardinality(S) * n /\ Cardinality(S) \in Nat
  BY SumOfEqual, FS_CardinalityType
<1>3. \A y \in S : v[y] \in Nat
  OBVIOUS
<1>4. SumFunctionOnSet(v, S) \in Nat
  BY <1>3, SumIsNatural
<1> HIDE DEF all
<1>5. Cardinality(S) * n = n * Cardinality(S) /\ n * Cardinality(S) \in Nat
  BY <1>2
<1>6. SumFunctionOnSet(v, S) = 0
  <2>1. SumFunctionOnSet(w, S) \in Int
    BY SumIsInteger
  <2>2. SumFunctionOnSet(all, S) = SumFunctionOnSet(w, S)
    BY <1>2, <1>5
  <2> HIDE DEF v
  <2> QED
    BY <1>1, <1>4, <2>1, <2>2
<1>7. v[x] = 0
  BY <1>3, <1>6, NoneIfNoneInAll
<1> QED
  BY <1>7

\* Without an order, every layer is re-encoded whole or not at all.
LEMMA NothingToSplit ==
  ASSUME Listed(map), MapAccepted(map), map.count = recipe.retained,
         RecipeSound(recipe), order = None, ~Mixed(recipe),
         Count([l \in Layers |-> First(l)]) = recipe.q3,
         NEW l \in Layers, NEW e \in Elements(Retained[l]), NEW f \in Elements(Retained[l]),
         e \in First(l), f \notin First(l)
  PROVE  FALSE
<1> DEFINE w == [k \in Layers |-> Cardinality(First(k))]
<1>1. Count([k \in Layers |-> First(k)]) = SumFunctionOnSet(w, Layers)
  <2> DEFINE first == [k \in Layers |-> First(k)]
             sizes == [k \in DOMAIN first |-> Cardinality(first[k])]
  <2>1. sizes = w /\ DOMAIN sizes = Layers
    OBVIOUS
  <2>2. Count(first) = SumFunctionOnSet(sizes, DOMAIN sizes)
    BY DEF Count, SumFunction
  <2> HIDE DEF sizes, w
  <2> QED
    BY <2>1, <2>2
<1>2. ASSUME NEW k \in Layers
      PROVE  /\ First(k) \subseteq Elements(Retained[k]) /\ IsFiniteSet(First(k))
             /\ w[k] \in 0 .. map.count
             /\ w[k] = map.count => First(k) = Elements(Retained[k])
             /\ w[k] = 0 => First(k) = {}
  <2>1. First(k) \in SUBSET Elements(Retained[k])
    BY DEF First, Smallest
  <2>2. /\ IsFiniteSet(First(k)) /\ Cardinality(First(k)) <= map.count
        /\ Cardinality(First(k)) = map.count => First(k) = Elements(Retained[k])
    BY <2>1, KeptInLayer, FS_Subset
  <2>3. Cardinality(First(k)) \in Nat /\ (Cardinality(First(k)) = 0 <=> First(k) = {})
    BY <2>2, FS_CardinalityType, FS_EmptySet
  <2> HIDE DEF First
  <2> QED
    BY <2>1, <2>2, <2>3, KeptInLayer
<1> HIDE DEF First, w
<1>3. recipe.q3 \in Nat /\ (recipe.q3 = 0 \/ recipe.q3 = map.count * Cardinality(Layers))
  BY DEF Mixed, RecipeSound, DistributionSound, CountsSound
<1>4. map.count \in Nat /\ IsFiniteSet(Layers)
  BY KeptInLayer, LayersAssumption
<1>5. \A k \in Layers : w[k] \in 0 .. map.count /\ w[k] \in Nat
  BY <1>2, <1>4
<1>6. CASE recipe.q3 = 0
  <2>1. SumFunctionOnSet(w, Layers) = 0
    BY <1>1, <1>6 DEF First
  <2>2. w[l] = 0
    BY <1>4, <1>5, <2>1, NoneIfNoneInAll
  <2> QED
    BY <1>2, <2>2
<1>7. CASE recipe.q3 = map.count * Cardinality(Layers)
  <2>1. SumFunctionOnSet(w, Layers) = map.count * Cardinality(Layers)
    BY <1>1, <1>7 DEF First
  <2>2. w[l] = map.count
    BY <1>4, <1>5, <2>1, AllIfAllInAll
  <2> QED
    BY <1>2, <2>2
<1> QED
  BY <1>3, <1>6, <1>7

LEMMA FirstSplits ==
  ASSUME WellFormed(job), Listed(map), MapAccepted(map), map.count = recipe.retained,
         RecipeSound(recipe), OrderAccepted(Retained), ~(Mixed(recipe) /\ order = None),
         \A l \in Layers : Share(l) <= Len(Retained[l]),
         Count([l \in Layers |-> First(l)]) = recipe.q3
  PROVE  SplitByOrder([l \in Layers |-> First(l)])
<1>1. CASE order # None
  BY <1>1, OrderSplits
<1>2. CASE order = None
  BY <1>2, NothingToSplit DEF SplitByOrder
<1> QED
  BY <1>1, <1>2

-----------------------------------------------------------------------------
(* The steps.                                                              *)

\* A job keeps its documents.
LEMMA JobsAreSound ==
  ASSUME job \in Jobs
  PROVE  None \notin Int /\ WellFormed(job)
BY JobsAssumption

LEMMA SelectedIsListed ==
  ASSUME WellFormed(job), SelectionAccepted(selection)
  PROVE  Listed(PruneMapOf(source.tensors, Selected(selection)))
<1> DEFINE chosen == Selected(selection)
<1> SUFFICES ASSUME NEW l \in Layers
             PROVE  PruneMapOf(source.tensors, chosen).layers[l].retained \in Seq(Int)
  BY DEF Listed, PruneMapOf
<1> DEFINE i == CHOOSE k \in DOMAIN selection.layers : selection.layers[k].layer = l
<1>1. PruneMapOf(source.tensors, chosen).layers[l].retained = chosen[l]
  BY DEF PruneMapOf, LayerEntry
<1>2. chosen[l] = selection.layers[i].retained
  BY DEF Selected
<1>3. i \in DOMAIN selection.layers
  BY DEF SelectionAccepted
<1> HIDE DEF i, chosen
<1>4. selection.layers[i].retained \in Seq(Int)
  BY <1>3 DEF WellFormed, SourceListed, RecordSound, selection
<1> QED
  BY <1>1, <1>2, <1>4

LEMMA PlanStarts == PlanInit => PlanInv
BY DEF PlanInit, PlanInv, NothingPlanned, Placing, MapGood, RecipeGood, SplitGood, QueueGood,
       Fp8Kept, NoNames

LEMMA PrepareStep == PlanInv /\ Prepare => PlanInv'
<1> SUFFICES ASSUME PlanInv, Prepare PROVE PlanInv'
  OBVIOUS
<1>1. /\ job \in Jobs /\ job' = job /\ stage = "prepare" /\ DOMAIN planned = {}
      /\ planned' = planned /\ out' = out /\ q3' = q3 /\ queue' = queue
  BY DEF PlanInv, NothingPlanned, Placing, Prepare
<1>2. stage' \in {"bad_order", "bad_selection", "bad_map", "load"}
  BY DEF Prepare
<1>3. ASSUME stage' = "load" PROVE Listed(map')
  <2>1. CASE map' = given /\ given # None
    BY <1>1, <2>1, JobsAreSound DEF WellFormed, SourceListed, RecordSound, Listed, given
  <2>2. CASE SelectionAccepted(selection) /\ map' = PruneMapOf(source.tensors, Selected(selection))
    BY <1>1, <2>2, JobsAreSound, SelectedIsListed
  <2> QED
    BY <1>3, <2>1, <2>2 DEF Prepare
<1>4. Fp8Kept'
  BY <1>1 DEF PlanInv, Fp8Kept, source
<1> QED
  BY <1>1, <1>2, <1>3, <1>4
     DEF PlanInv, NothingPlanned, Placing, MapGood, RecipeGood, SplitGood, QueueGood

\* A step that leaves the plan alone and does not go back.
LEMMA Onwards ==
  ASSUME PlanInv, UNCHANGED <<job, map, q3, planned, out>>,
         stage' \notin {"prepare", "load", "validate", "assign", "open", "dispatch"}
  PROVE  PlanInv'
<1>1. \A n \in DOMAIN planned : OutputGood(n, planned[n])'
  BY DEF PlanInv, OutputGood, RouterOutput, ExpertPlaced, EncodedOutput, Retained, NewId,
         ExpertClass, source, ledger, recipe
<1>2. Fp8Kept'
  BY DEF PlanInv, Fp8Kept, source
<1>3. Placing' = Placing
  BY DEF Placing
<1>4. SplitGood'
  BY <1>3 DEF PlanInv, SplitGood, SplitByOrder, Retained, order
<1> QED
  BY <1>1, <1>2, <1>3, <1>4
     DEF PlanInv, NothingPlanned, MapGood, RecipeGood, QueueGood, recipe

LEMMA LoadStep == PlanInv /\ Load => PlanInv'
<1> SUFFICES ASSUME PlanInv, Load PROVE PlanInv'
  OBVIOUS
<1>1. CASE stage' = "bad_map"
  BY <1>1, Onwards DEF Load
<1>2. CASE stage' = "validate"
  <2>1. /\ stage = "load" /\ DOMAIN planned = {} /\ Listed(map) /\ MapAccepted(map)
        /\ map.count = recipe.retained /\ UNCHANGED <<job, map, q3, planned, out>>
    BY <1>2 DEF PlanInv, NothingPlanned, Placing, MapGood, Load
  <2>2. Fp8Kept'
    BY <2>1 DEF PlanInv, Fp8Kept, source
  <2> QED
    BY <1>2, <2>1, <2>2
       DEF PlanInv, NothingPlanned, Placing, MapGood, RecipeGood, SplitGood, QueueGood, recipe
<1> QED
  BY <1>1, <1>2 DEF Load

LEMMA ValidateStep == PlanInv /\ Validate => PlanInv'
<1> SUFFICES ASSUME PlanInv, Validate PROVE PlanInv'
  OBVIOUS
<1>1. CASE stage' = "bad_recipe"
  BY <1>1, Onwards DEF Validate
<1>2. CASE stage' = "assign"
  <2>1. /\ stage = "validate" /\ DOMAIN planned = {} /\ RecipeSound(recipe)
        /\ UNCHANGED <<job, map, q3, planned, out>>
    BY <1>2 DEF PlanInv, NothingPlanned, Placing, Validate
  <2>2. Fp8Kept'
    BY <2>1 DEF PlanInv, Fp8Kept, source
  <2> QED
    BY <1>2, <2>1, <2>2
       DEF PlanInv, NothingPlanned, Placing, MapGood, RecipeGood, SplitGood, QueueGood, recipe
<1> QED
  BY <1>1, <1>2 DEF Validate

LEMMA AssignStep == PlanInv /\ Assign => PlanInv'
<1> SUFFICES ASSUME PlanInv, Assign PROVE PlanInv'
  OBVIOUS
<1>1. CASE stage' = "bad_order"
  BY <1>1, Onwards DEF Assign
<1>2. CASE stage' = "open"
  <2>1. /\ stage = "assign" /\ DOMAIN planned = {} /\ UNCHANGED <<job, map, planned, out>>
        /\ OrderAccepted(Retained) /\ ~(Mixed(recipe) /\ order = None)
        /\ \A l \in Layers : Share(l) <= Len(Retained[l])
        /\ Count([l \in Layers |-> First(l)]) = recipe.q3
        /\ q3' = [l \in Layers |-> First(l)]
    <3>1. \A l \in Layers : Len(Retained[l]) \in Nat /\ Share(l) \in Nat
      BY KeptInLayer, SharesAreCounts DEF PlanInv, MapGood, RecipeGood, Assign
    <3>2. ~ \E l \in Layers : Share(l) > Len(Retained[l])
      BY <1>2 DEF Assign
    <3>3. \A l \in Layers : Share(l) <= Len(Retained[l])
      BY <3>1, <3>2
    <3>4. stage = "assign" /\ DOMAIN planned = {}
      BY DEF PlanInv, NothingPlanned, Placing, Assign
    <3> HIDE DEF PlanInv
    <3> QED
      BY <1>2, <3>3, <3>4 DEF Assign
  <2>2. /\ Listed(map) /\ MapAccepted(map) /\ map.count = recipe.retained
        /\ RecipeSound(recipe) /\ WellFormed(job)
    BY <2>1, JobsAreSound DEF PlanInv, MapGood, RecipeGood
  <2>3. SplitByOrder(q3')
    BY <2>1, <2>2, FirstSplits
  <2>4. SplitByOrder(q3)'
    BY <2>1, <2>3 DEF SplitByOrder, Retained, order
  <2>5. Fp8Kept'
    BY <2>1 DEF PlanInv, Fp8Kept, source
  <2> QED
    BY <1>2, <2>1, <2>4, <2>5
       DEF PlanInv, NothingPlanned, Placing, MapGood, RecipeGood, SplitGood, QueueGood, recipe
<1> QED
  BY <1>1, <1>2 DEF Assign

LEMMA OpenStep == PlanInv /\ Open => PlanInv'
<1> SUFFICES ASSUME PlanInv, Open PROVE PlanInv'
  OBVIOUS
<1>1. CASE stage' = "bad_source"
  BY <1>1, Onwards DEF Open
<1>2. CASE stage' = "dispatch"
  <2>1. /\ stage = "open" /\ DOMAIN planned = {} /\ UNCHANGED <<job, map, q3, planned, out>>
        /\ queue' = source.walk
    BY <1>2 DEF PlanInv, NothingPlanned, Placing, Open
  <2>2. queue' \in Seq(DOMAIN source.tensors)
    BY <2>1, JobsAreSound DEF PlanInv, WellFormed, SourceListed, RecordSound, source
  <2>3. QueueGood'
    BY <2>1, <2>2 DEF QueueGood, source
  <2>4. SplitByOrder(q3)'
    BY <2>1 DEF PlanInv, SplitGood, SplitByOrder, Retained, order
  <2>5. Fp8Kept'
    BY <2>1 DEF PlanInv, Fp8Kept, source
  <2> QED
    BY <1>2, <2>1, <2>3, <2>4, <2>5
       DEF PlanInv, NothingPlanned, Placing, MapGood, RecipeGood, SplitGood, recipe
<1> QED
  BY <1>1, <1>2 DEF Open

\* Dispatch: what is new in the plan is good.
LEMMA Dispatched ==
  ASSUME PlanInv, Dispatching, UNCHANGED <<job, stage, map, q3, out>>, queue' = Tail(queue),
         \A n \in DOMAIN planned' : \/ n \in DOMAIN planned /\ planned'[n] = planned[n]
                                    \/ OutputGood(n, planned'[n])
  PROVE  PlanInv'
<1>1. \A n \in DOMAIN planned' : OutputGood(n, planned'[n])
  BY DEF PlanInv
<1>2. \A n \in DOMAIN planned' : OutputGood(n, planned[n])'
  BY <1>1 DEF OutputGood, RouterOutput, ExpertPlaced, EncodedOutput, Retained, NewId,
              ExpertClass, source, ledger, recipe
<1>3. stage = "dispatch" /\ queue \in Seq(DOMAIN source.tensors) /\ queue # <<>>
  BY DEF PlanInv, Dispatching, QueueGood
<1>4. QueueGood'
  <2>1. queue' \in Seq(DOMAIN source.tensors)
    BY <1>3
  <2> QED
    BY <2>1 DEF QueueGood, source
<1>5. SplitByOrder(q3)'
  BY <1>3 DEF PlanInv, SplitGood, SplitByOrder, Retained, order
<1>6. Fp8Kept'
  BY DEF PlanInv, Fp8Kept, source
<1>7. (Listed(map) /\ MapAccepted(map) /\ map.count = recipe.retained /\ RecipeSound(recipe))'
  BY <1>3 DEF PlanInv, MapGood, RecipeGood, recipe
<1> QED
  BY <1>2, <1>3, <1>4, <1>5, <1>6, <1>7
     DEF PlanInv, NothingPlanned, MapGood, RecipeGood, SplitGood

\* Outputs that are joined to the plan.
LEMMA Joins ==
  ASSUME PlanInv, Dispatching, UNCHANGED <<job, stage, map, q3, out>>, queue' = Tail(queue),
         NEW f, planned' = Joined(f, planned), \A n \in DOMAIN f : OutputGood(n, f[n])
  PROVE  PlanInv'
<1>1. \A n \in DOMAIN planned' : \/ n \in DOMAIN planned /\ planned'[n] = planned[n]
                                 \/ OutputGood(n, planned'[n])
  BY DEF Joined
<1> QED
  BY <1>1, Dispatched

LEMMA NameParts ==
  ASSUME NEW n, n = TensorName(n.kind, n.layer, n.expert, n.proj, n.part), NEW x
  PROVE  /\ [n EXCEPT !.expert = x].kind = n.kind /\ [n EXCEPT !.expert = x].layer = n.layer
         /\ [n EXCEPT !.expert = x].expert = x
         /\ [n EXCEPT !.expert = x].proj = n.proj /\ [n EXCEPT !.expert = x].part = n.part
         /\ ScaleOf([n EXCEPT !.expert = x]).kind = n.kind
         /\ ScaleOf([n EXCEPT !.expert = x]).layer = n.layer
         /\ ScaleOf([n EXCEPT !.expert = x]).expert = x
         /\ ScaleOf(n).kind = n.kind /\ ScaleOf(n).layer = n.layer
         /\ ScaleOf(n).expert = n.expert
BY DEF TensorName, ScaleOf

LEMMA CurrentKnown ==
  ASSUME PlanInv, Dispatching
  PROVE  /\ Current \in DOMAIN source.tensors
         /\ Current = TensorName(Current.kind, Current.layer, Current.expert, Current.proj,
                                 Current.part)
         /\ Entry.rows \in Nat /\ Entry.width \in Nat /\ Entry.params \in Nat
         /\ Entry.bytes \in Nat
<1>1. queue \in Seq(DOMAIN source.tensors) /\ queue # <<>>
  BY DEF PlanInv, Dispatching, QueueGood
<1>2. Current \in DOMAIN source.tensors
  BY <1>1 DEF Current
<1>3. WellFormed(job)
  BY JobsAreSound DEF PlanInv
<1> QED
  BY <1>2, <1>3 DEF WellFormed, SourceListed, RecordSound, source, Entry

LEMMA DropSteps == PlanInv /\ (DropScale \/ DropPruned) => PlanInv'
BY Dispatched DEF DropScale, DropPruned

LEMMA CopySteps == PlanInv /\ (CopyOther \/ CopyText) => PlanInv'
<1> SUFFICES ASSUME PlanInv, CopyOther \/ CopyText PROVE PlanInv'
  OBVIOUS
<1>1. PICK c, b : planned' = Put(planned, Current, Planned(Current, "copy", c, b, None))
  BY DEF CopyOther, CopyText
<1> DEFINE f == [n \in {Current} |-> Planned(Current, "copy", c, b, None)]
<1>2. Current.kind = "text"
  BY DEF CopyOther, CopyText, OtherFits, CopyFits, TextFits
<1>3. \A n \in DOMAIN f : OutputGood(n, f[n])
  BY <1>2 DEF OutputGood, RouterOutput, ExpertPlaced, EncodedOutput, Planned, Encodings
<1>4. planned' = Joined(f, planned)
  BY <1>1 DEF Put
<1> HIDE DEF f
<1> QED
  BY <1>3, <1>4, Joins DEF CopyOther, CopyText

LEMMA SliceStep == PlanInv /\ SliceRouter => PlanInv'
<1> SUFFICES ASSUME PlanInv, SliceRouter PROVE PlanInv'
  OBVIOUS
<1> DEFINE f == [n \in {Current} |-> Planned(Current, "slice", "router", SlicedBytes,
                                             Retained[Current.layer])]
<1>1. Current.kind = "router" /\ Current.layer \in Layers
  BY DEF SliceRouter, RouterFits
<1>2. \A n \in DOMAIN f : OutputGood(n, f[n])
  BY <1>1 DEF OutputGood, RouterOutput, ExpertPlaced, EncodedOutput, Planned, Encodings
<1>3. planned' = Joined(f, planned)
  BY DEF Put, SliceRouter
<1> HIDE DEF f
<1> QED
  BY <1>2, <1>3, Joins DEF SliceRouter

\* What is encoded again is in the ledger, and not empty.
LEMMA EncodedIsGood ==
  ASSUME PlanInv, Dispatching, NEW c, EncodeFits(c),
         Current.kind = "expert" \/ Entry.dtype # "F8", NEW p, p.cls = c, p.src = Current
  PROVE  EncodedOutput(p)
BY CurrentKnown DEF EncodedOutput, EncodeFits, InLedger, WholeGroups, Entry

LEMMA EncodeTextStep == PlanInv /\ EncodeText => PlanInv'
<1> SUFFICES ASSUME PlanInv, EncodeText PROVE PlanInv'
  OBVIOUS
<1> DEFINE f == Codes(Current, Current, TextClass, Entry.params, rows[TextClass].format)
<1>1. Dispatching /\ Current.kind = "text" /\ EncodeFits(TextClass) /\ Entry.dtype \in {"U8", "BF16"}
  BY DEF EncodeText, TextEncodeFits, TextFits
<1>2. ASSUME NEW n \in DOMAIN f
      PROVE  /\ n.kind = "text" /\ f[n].action # "slice"
             /\ f[n].cls = TextClass /\ f[n].src = Current
  BY <1>1, CurrentKnown, NameParts DEF Codes, Planned
<1>3. \A n \in DOMAIN f : EncodedOutput(f[n])
  <2> HIDE DEF f
  <2> QED
    BY <1>1, <1>2, EncodedIsGood
<1>4. \A n \in DOMAIN f : OutputGood(n, f[n])
  BY <1>2, <1>3 DEF OutputGood, RouterOutput, ExpertPlaced
<1>5. planned' = Joined(f, planned)
  BY DEF EncodeText
<1> HIDE DEF f
<1> QED
  BY <1>1, <1>4, <1>5, Joins DEF EncodeText

LEMMA PlaceExpertStep == PlanInv /\ PlaceExpert => PlanInv'
<1> SUFFICES ASSUME PlanInv, PlaceExpert PROVE PlanInv'
  OBVIOUS
<1> DEFINE f == ExpertOutputs
           x == NewId(Current.layer, Current.expert)
<1>1. /\ Dispatching /\ Current.kind = "expert" /\ Survives(Current)
      /\ NativeFits(CurrentClass) \/ EncodeFits(CurrentClass)
  BY DEF PlaceExpert, ExpertFits
<1>2. /\ Current.layer \in Layers /\ Current.expert \in Experts
      /\ x = NewId(Current.layer, Current.expert) /\ x # None
  BY <1>1 DEF Survives, InMap, PlanInv, MapGood, MapAccepted, Dispatching
<1>3. Renamed(Current) = [Current EXCEPT !.expert = x]
  BY DEF Renamed
<1>4. \A n \in DOMAIN f : n \in {Renamed(Current), ScaleOf(Renamed(Current))}
  BY DEF ExpertOutputs, Codes
<1> HIDE DEF x
<1>5. ASSUME NEW n \in DOMAIN f
      PROVE  n.kind = "expert" /\ n.layer = Current.layer /\ n.expert = x
  <2>1. CASE n = [Current EXCEPT !.expert = x]
    BY <1>1, <2>1, CurrentKnown, NameParts
  <2>2. CASE n = ScaleOf([Current EXCEPT !.expert = x])
    BY <1>1, <2>2, CurrentKnown, NameParts
  <2> QED
    BY <1>3, <1>4, <2>1, <2>2
<1>6. ASSUME NEW n \in DOMAIN f
      PROVE  /\ f[n].action # "slice" /\ f[n].cls = CurrentClass
             /\ f[n].src.expert = Current.expert
             /\ EncodedOutput(f[n])
  <2>1. CASE Mode(rows[CurrentClass].format) = "mxfp4"
    <3>1. PICK s \in {Current, ScaleOf(Current)} :
            f[n] = Planned(s, "copy", CurrentClass, source.header[s].bytes, None)
      BY <2>1 DEF ExpertOutputs
    <3>2. s.expert = Current.expert
      <4>1. ScaleOf(Current).expert = Current.expert
        BY <1>1, CurrentKnown, NameParts
      <4> QED
        BY <4>1
    <3> HIDE DEF f
    <3> QED
      BY <3>1, <3>2 DEF Planned, EncodedOutput, Encodings
  <2>2. CASE Mode(rows[CurrentClass].format) # "mxfp4"
    <3>1. EncodeFits(CurrentClass)
      BY <1>1, <2>2 DEF NativeFits
    <3>2. f[n].src = Current /\ f[n].cls = CurrentClass /\ f[n].action # "slice"
      BY <2>2 DEF ExpertOutputs, Codes, Planned
    <3>3. EncodedOutput(f[n])
      <4> HIDE DEF f
      <4> QED
        BY <1>1, <3>1, <3>2, EncodedIsGood
    <3> QED
      BY <3>2, <3>3
  <2> QED
    BY <2>1, <2>2
<1>7. planned' = Joined(f, planned)
  BY DEF PlaceExpert
<1> HIDE DEF f
<1>8. \A n \in DOMAIN f : OutputGood(n, f[n])
  BY <1>2, <1>5, <1>6 DEF OutputGood, RouterOutput, ExpertPlaced, CurrentClass
<1> QED
  BY <1>7, <1>8, <1>1, Joins DEF PlaceExpert

\* What is encoded again decodes, so it is not FP8.
LEMMA WriteStep == PlanInv /\ Write => PlanInv'
<1> SUFFICES ASSUME PlanInv, Write PROVE PlanInv'
  OBVIOUS
<1>1. CASE stage' = "bad_packing" /\ out' = out
  BY <1>1, Onwards DEF Write
<1>2. CASE /\ \A n \in Reencoded : Decodes(planned[n].src)
           /\ stage' = "adapt" /\ out' = [n \in DOMAIN planned |-> Content(planned[n])]
  <2>1. ASSUME NEW n \in DOMAIN out', out'[n].action \in Encodings
        PROVE  source.tensors[out'[n].src].dtype # "F8"
    <3> DEFINE src == planned[n].src
               entry == source.tensors[src]
    <3>1. n \in Reencoded /\ out'[n].src = src /\ EncodedOutput(planned[n])
      BY <1>2, <2>1 DEF Content, Reencoded, PlanInv, OutputGood
    <3>2. /\ src \in DOMAIN source.tensors
          /\ src.kind = "expert" \/ entry.dtype # "F8"
          /\ entry.rows * entry.width > 0
      BY <3>1, <2>1, <1>2 DEF EncodedOutput, Content
    <3>3. /\ entry.rows \in Nat /\ entry.width \in Nat
          /\ entry.dtype = "F8" => entry.bytes = entry.rows * entry.width
      <4>1. WellFormed(job) /\ src \in DOMAIN job.source.tensors
        BY <3>2, JobsAreSound DEF PlanInv, source
      <4> HIDE DEF src
      <4> QED
        BY <4>1 DEF WellFormed, SourceListed, RecordSound, source
    <3>4. CASE src.kind = "expert"
      <4>1. entry.bytes \div entry.rows = entry.width \div 2
        BY <1>2, <3>1, <3>4 DEF Decodes
      <4>2. ASSUME entry.dtype = "F8" PROVE FALSE
        <5> HIDE DEF entry
        <5>1. entry.rows > 0 /\ entry.width > 0
          BY <3>2, <3>3
        <5>2. entry.bytes \div entry.rows = entry.width
          BY <3>3, <4>2, <5>1
        <5> QED
          BY <3>3, <4>1, <5>1, <5>2
      <4> QED
        BY <3>1, <4>2
    <3> QED
      BY <3>1, <3>2, <3>4
  <2>2. Fp8Kept'
    BY <2>1 DEF Fp8Kept, source, Write
  <2>3. \A n \in DOMAIN planned : OutputGood(n, planned[n])'
    BY DEF Write, PlanInv, OutputGood, RouterOutput, ExpertPlaced, EncodedOutput, Retained,
           NewId, ExpertClass, source, ledger, recipe
  <2>4. SplitGood'
    BY <1>2 DEF Write, PlanInv, SplitGood, SplitByOrder, Retained, order, Placing
  <2> QED
    BY <1>2, <2>2, <2>3, <2>4
       DEF Write, PlanInv, NothingPlanned, Placing, MapGood, RecipeGood, QueueGood, recipe
<1> QED
  BY <1>1, <1>2 DEF Write

LEMMA LateSteps ==
  PlanInv /\ (RefuseTensor \/ Close \/ Adapt \/ Verify \/ Report) => PlanInv'
<1> SUFFICES ASSUME PlanInv, RefuseTensor \/ Close \/ Adapt \/ Verify \/ Report PROVE PlanInv'
  OBVIOUS
<1>1. /\ UNCHANGED <<job, map, q3, planned, out>>
      /\ stage' \in {"crashed", "bad_tensor", "bad_accounting", "write", "verify", "bad_metadata",
                     "report", "bad_config", "built", "bad_record"}
  BY DEF RefuseTensor, Close, Adapt, Verify, Report
<1> QED
  BY <1>1, Onwards

LEMMA NothingHappens == PlanInv /\ UNCHANGED planVars => PlanInv'
BY DEF planVars, PlanInv, NothingPlanned, Placing, MapGood, RecipeGood, SplitGood, SplitByOrder,
       QueueGood, Fp8Kept, OutputGood, RouterOutput, ExpertPlaced, EncodedOutput, Retained, NewId,
       ExpertClass, source, ledger, recipe, order

LEMMA PlanStep == PlanInv /\ [PlanNext]_planVars => PlanInv'
BY PrepareStep, LoadStep, ValidateStep, AssignStep, OpenStep, DropSteps, CopySteps, SliceStep,
   EncodeTextStep, PlaceExpertStep, WriteStep, LateSteps, NothingHappens
   DEF PlanNext, Dispatch, PlanRest

\* The invariant of the plan, for all layers, experts, jobs and orders.
THEOREM PlanInvariant == PlanSpec => []PlanInv
BY PlanStarts, PlanStep, PTL DEF PlanSpec

-----------------------------------------------------------------------------
(* What it means.                                                          *)

\* An expert that is planned is one the map keeps, under its position.
LEMMA PlacedIsKept ==
  ASSUME PlanInv, NEW n, ExpertOutput(n)
  PROVE  /\ n.layer \in Layers /\ n.expert \in Int
         /\ n.expert + 1 \in DOMAIN Retained[n.layer]
         /\ Retained[n.layer][n.expert + 1] = planned[n].src.expert
         /\ planned[n].src.expert \in Elements(Retained[n.layer])
         /\ n.expert = NewId(n.layer, planned[n].src.expert)
<1> DEFINE e == planned[n].src.expert
           entry == map.layers[n.layer]
<1>1. n \in DOMAIN planned /\ Placing /\ ExpertPlaced(n, planned[n]) /\ n.kind = "expert"
  BY DEF PlanInv, OutputGood, ExpertOutput, Placing
<1>2. n.layer \in Layers /\ e \in Experts /\ n.expert = entry.new[e] /\ n.expert # None
  BY <1>1 DEF ExpertPlaced, NewId
<1>3. Listed(map) /\ MapAccepted(map)
  BY <1>1 DEF PlanInv, MapGood
<1>4. /\ LayerAccepted(entry, map.count) /\ Retained[n.layer] = entry.retained
      /\ entry.retained \in Seq(Int)
  BY <1>2, <1>3, KeptInLayer
<1>5. None \notin Int
  BY JobsAreSound DEF PlanInv
<1>6. entry.new[e] # None
  BY <1>2
<1> HIDE DEF e, entry
<1>7. /\ entry.new[e] \in Int /\ entry.new[e] + 1 \in DOMAIN entry.retained
      /\ entry.retained[entry.new[e] + 1] = e /\ e \in Elements(entry.retained)
  BY <1>2, <1>4, <1>5, <1>6, NewIds
<1> QED
  BY <1>2, <1>4, <1>7 DEF e, entry, NewId

LEMMA RoutersFollow == PlanInv => RoutersServeExperts
<1> SUFFICES ASSUME PlanInv, NEW r \in DOMAIN planned, NEW n \in DOMAIN planned,
                    planned[r].action = "slice", ExpertOutput(n), n.layer = r.layer
             PROVE  /\ n.expert + 1 \in DOMAIN planned[r].rows
                    /\ planned[r].rows[n.expert + 1] = planned[n].src.expert
  BY DEF RoutersServeExperts
<1>1. planned[r].rows = Retained[r.layer]
  BY DEF PlanInv, OutputGood, RouterOutput
<1> QED
  BY <1>1, PlacedIsKept

LEMMA IdsAreTaken == PlanInv => OneExpertPerId
<1> SUFFICES ASSUME PlanInv, NEW n \in DOMAIN planned, NEW m \in DOMAIN planned,
                    ExpertOutput(n), ExpertOutput(m), n.layer = m.layer
             PROVE  n.expert = m.expert <=> planned[n].src.expert = planned[m].src.expert
  BY DEF OneExpertPerId
<1>1. /\ Retained[n.layer][n.expert + 1] = planned[n].src.expert
      /\ Retained[n.layer][m.expert + 1] = planned[m].src.expert
      /\ n.expert = NewId(n.layer, planned[n].src.expert)
      /\ m.expert = NewId(n.layer, planned[m].src.expert)
  BY PlacedIsKept
<1> QED
  BY <1>1

LEMMA PrecisionFollows == PlanInv => PrecisionFollowsOrder
<1> SUFFICES ASSUME PlanInv, NEW n \in DOMAIN planned, NEW m \in DOMAIN planned,
                    ExpertOutput(n), ExpertOutput(m), n.layer = m.layer,
                    planned[n].cls = "experts_second_gen", planned[m].cls = "experts_native"
             PROVE  /\ order # None
                    /\ Position(order[n.layer], planned[n].src.expert)
                         < Position(order[n.layer], planned[m].src.expert)
  BY DEF PrecisionFollowsOrder
<1>1. ExpertPlaced(n, planned[n]) /\ ExpertPlaced(m, planned[m]) /\ SplitByOrder(q3)
  BY DEF PlanInv, OutputGood, SplitGood, Placing
<1>2. planned[n].src.expert \in q3[n.layer] /\ planned[m].src.expert \notin q3[n.layer]
  BY <1>1 DEF ExpertPlaced, ExpertClass, ExpertOutput
<1>3. /\ n.layer \in Layers /\ planned[n].src.expert \in Elements(Retained[n.layer])
      /\ planned[m].src.expert \in Elements(Retained[n.layer])
  BY PlacedIsKept
<1> QED
  BY <1>1, <1>2, <1>3 DEF SplitByOrder

LEMMA LedgerFollows == PlanInv => SecondGenDeclared
<1> SUFFICES ASSUME PlanInv, NEW n \in Reencoded
             PROVE  /\ planned[n].cls \in DOMAIN ledger
                    /\ ledger[planned[n].cls].format = rows[planned[n].cls].format
  BY DEF SecondGenDeclared, PlanInv, Fp8Kept
<1>1. EncodedOutput(planned[n]) /\ RecipeSound(recipe)
  BY DEF Reencoded, PlanInv, OutputGood, RecipeGood, Placing
<1> QED
  BY <1>1 DEF EncodedOutput, Reencoded, RecipeSound, LedgerSound, rows, ledger

\* Rows and tensors, handled in different branches of the plan, end up under the
\* same ids; experts are re-encoded in the given order, and nothing without a
\* ledger entry; no FP8 tensor is encoded again (_plan_build, _write_shards).
THEOREM PlanFollows == PlanSpec => []PlanFollowsMap
<1>1. PlanInv => PlanFollowsMap
  BY RoutersFollow, IdsAreTaken, PrecisionFollows, LedgerFollows DEF PlanFollowsMap
<1> QED
  BY <1>1, PlanInvariant, PTL

-----------------------------------------------------------------------------
(* The books of the plan, and what becomes of every tensor.                *)

BytesIn(plan, c) ==
  SumFunctionOnSet([n \in DOMAIN plan |-> plan[n].bytes], {n \in DOMAIN plan : plan[n].cls = c})
TotalOf(plan) == Total([n \in DOMAIN plan |-> plan[n].bytes])

\* Only what the ledger declares is charged to a class that is encoded again.
Charged(p) ==
  /\ p.action \in Actions /\ p.cls \in Classes \cup {None} /\ p.bytes \in Nat
  /\ p.cls # None => /\ p.cls \in DOMAIN rows
                     /\ rows[p.cls].second_gen => InLedger(p.cls)

Types ==
  /\ stage \in Stages
  /\ queue = None \/ queue \in Seq(RootTensors)
  /\ stage = "dispatch" => queue \in Seq(RootTensors)
  /\ consumed \subseteq DOMAIN source.tensors \cup {ScaleOf(n) : n \in DOMAIN source.tensors}
  /\ units \in [Classes -> Nat] /\ bytes \in [Classes -> Nat]
  /\ \A key \in DOMAIN instance : instance[key] \in Nat

Books ==
  /\ IsFiniteSet(DOMAIN planned)
  /\ \A n \in DOMAIN planned : Charged(planned[n])
  /\ \A c \in Classes : bytes[c] = BytesIn(planned, c)

Settled ==
  /\ Writing => /\ \A c \in DOMAIN rows : bytes[c] = rows[c].class_bytes
                /\ recipe.planned \in {None, TextBytes}
  /\ record # None => stage = "built" /\ record.resident = TextBytes

\* What dispatch has done with a tensor: planned it, dropped it with its expert,
\* or left a scale to its weight.
Made(n) == \E m \in DOMAIN planned : planned[m].src = n
Handled(n) ==
  IF n.kind = "expert" /\ n.part = "scale" THEN OnDisk(WeightOf(n))
  ELSE Made(n) \/ (n.kind = "expert" /\ ~Survives(n))
Walked ==
  stage = "dispatch" =>
    SourceSound(source) /\ \A n \in RootTensors : n \in Elements(queue) \/ Handled(n)

\* A weight that is not encoded again has its scale beside it.
Paired ==
  \A n \in DOMAIN planned :
    planned[n].src.kind = "expert" /\ planned[n].action \notin Encodings =>
      Made(ScaleOf(planned[n].src))

ClosedInv == Types /\ Books /\ Settled /\ Walked /\ Paired /\ NothingLost /\ CrashesKnown

WritingStages == {"write", "adapt", "verify", "report", "built"}

-----------------------------------------------------------------------------
\* A plan over two sets of outputs that do not meet.
LEMMA BytesJoin ==
  ASSUME NEW f, NEW g, IsFiniteSet(DOMAIN f), IsFiniteSet(DOMAIN g),
         DOMAIN f \cap DOMAIN g = {},
         \A n \in DOMAIN f : f[n].bytes \in Int, \A n \in DOMAIN g : g[n].bytes \in Int,
         NEW c
  PROVE  /\ IsFiniteSet(DOMAIN Joined(f, g))
         /\ BytesIn(Joined(f, g), c) = BytesIn(f, c) + BytesIn(g, c)
<1> DEFINE h == Joined(f, g)
           in(p) == {n \in DOMAIN p : p[n].cls = c}
           w(p) == [n \in DOMAIN p |-> p[n].bytes]
<1>1. DOMAIN h = DOMAIN f \cup DOMAIN g
  BY DEF Joined
<1>2. \A n \in DOMAIN f : h[n] = f[n]
  BY DEF Joined
<1>3. \A n \in DOMAIN g : h[n] = g[n]
  BY DEF Joined
<1>4. IsFiniteSet(DOMAIN h)
  BY <1>1, FS_Union
<1> HIDE DEF h
<1>5. in(h) \in SUBSET DOMAIN h /\ in(f) \in SUBSET in(h) /\ in(h) \ in(f) = in(g)
  BY <1>1, <1>2, <1>3
<1>6. IsFiniteSet(in(h)) /\ IsFiniteSet(in(f)) /\ IsFiniteSet(in(g))
  <2>1. in(f) \in SUBSET DOMAIN f /\ in(g) \in SUBSET DOMAIN g
    OBVIOUS
  <2> HIDE DEF in
  <2> QED
    BY <1>4, <1>5, <2>1, FS_Subset
<1>7. \A n \in in(h) : w(h)[n] \in Int
  BY <1>1, <1>2, <1>3
<1>8. SumFunctionOnSet(w(h), in(h))
        = SumFunctionOnSet(w(h), in(f)) + SumFunctionOnSet(w(h), in(h) \ in(f))
  <2> HIDE DEF in, w
  <2> QED
    BY <1>5, <1>6, <1>7, SumOfUnion
<1>9. SumFunctionOnSet(w(h), in(f)) = SumFunctionOnSet(w(f), in(f))
  <2>1. \A n \in in(f) : w(h)[n] = w(f)[n]
    BY <1>1, <1>2
  <2> HIDE DEF in, w
  <2> QED
    BY <2>1, <1>6, SumSame
<1>10. SumFunctionOnSet(w(h), in(g)) = SumFunctionOnSet(w(g), in(g))
  <2>1. \A n \in in(g) : w(h)[n] = w(g)[n]
    BY <1>1, <1>3
  <2> HIDE DEF in, w
  <2> QED
    BY <2>1, <1>6, SumSame
<1>11. BytesIn(f, c) = SumFunctionOnSet(w(f), in(f)) /\ BytesIn(g, c) = SumFunctionOnSet(w(g), in(g))
       /\ BytesIn(h, c) = SumFunctionOnSet(w(h), in(h))
  BY DEF BytesIn
<1>12. BytesIn(h, c) = BytesIn(f, c) + BytesIn(g, c)
  BY <1>5, <1>8, <1>9, <1>10, <1>11
<1> QED
  BY <1>4, <1>12 DEF h

\* Outputs of one class are charged to it alone.
LEMMA BytesOfOneClass ==
  ASSUME NEW f, NEW k, \A n \in DOMAIN f : f[n].cls = k
  PROVE  /\ BytesIn(f, k) = TotalOf(f)
         /\ \A c : c # k => BytesIn(f, c) = 0
<1> DEFINE w == [n \in DOMAIN f |-> f[n].bytes]
<1>1. {n \in DOMAIN f : f[n].cls = k} = DOMAIN w
  OBVIOUS
<1>2. TotalOf(f) = SumFunctionOnSet(w, DOMAIN w)
  BY DEF TotalOf, Total, SumFunction
<1>3. BytesIn(f, k) = SumFunctionOnSet(w, {n \in DOMAIN f : f[n].cls = k})
  BY DEF BytesIn
<1>4. ASSUME NEW c, c # k PROVE BytesIn(f, c) = 0
  <2>1. {n \in DOMAIN f : f[n].cls = c} = {}
    BY <1>4
  <2> QED
    BY <2>1, SumOfNothing DEF BytesIn
<1> HIDE DEF w
<1> QED
  BY <1>1, <1>2, <1>3, <1>4

LEMMA TotalOfOne ==
  ASSUME NEW x, NEW f, DOMAIN f = {x}, f[x].bytes \in Int
  PROVE  TotalOf(f) = f[x].bytes
<1> DEFINE w == [n \in DOMAIN f |-> f[n].bytes]
<1>1. TotalOf(f) = SumFunctionOnSet(w, {x})
  BY DEF TotalOf, Total, SumFunction
<1>2. IsFiniteSet({x}) /\ \A n \in {x} : w[n] \in Int
  BY FS_Singleton
<1>3. SumFunctionOnSet(w, {x}) = w[x] + SumFunctionOnSet(w, {x} \ {x})
  <2> HIDE DEF w
  <2> QED
    BY <1>2, SumAdd
<1>4. {x} \ {x} = {}
  OBVIOUS
<1>5. SumFunctionOnSet(w, {x} \ {x}) = 0
  BY <1>4, SumOfNothing
<1> QED
  BY <1>1, <1>3, <1>5

LEMMA TotalOfTwo ==
  ASSUME NEW x, NEW y, x # y, NEW f, DOMAIN f = {x, y}, f[x].bytes \in Int, f[y].bytes \in Int
  PROVE  TotalOf(f) = f[x].bytes + f[y].bytes
<1> DEFINE w == [n \in DOMAIN f |-> f[n].bytes]
<1>1. TotalOf(f) = SumFunctionOnSet(w, {x, y})
  BY DEF TotalOf, Total, SumFunction
<1>2. IsFiniteSet({y}) /\ \A n \in {y} \cup {x} : w[n] \in Int
  BY FS_Singleton
<1>3. SumFunctionOnSet(w, {y} \cup {x}) = SumFunctionOnSet(w, {y}) + w[x]
  <2> HIDE DEF w
  <2> QED
    BY <1>2, SumWith
<1>4. SumFunctionOnSet(w, {y}) = w[y]
  <2>1. SumFunctionOnSet(w, {y}) = w[y] + SumFunctionOnSet(w, {y} \ {y})
    <3> HIDE DEF w
    <3> QED
      BY <1>2, SumAdd
  <2>2. {y} \ {y} = {}
    OBVIOUS
  <2>3. SumFunctionOnSet(w, {y} \ {y}) = 0
    BY <2>2, SumOfNothing
  <2>4. w[y] \in Int
    OBVIOUS
  <2> HIDE DEF w
  <2> QED
    BY <2>1, <2>3, <2>4
<1>5. {y} \cup {x} = {x, y}
  OBVIOUS
<1>6. w[x] = f[x].bytes /\ w[y] = f[y].bytes
  OBVIOUS
<1> HIDE DEF w
<1> QED
  BY <1>1, <1>3, <1>4, <1>5, <1>6

LEMMA FormatSizes ==
  ASSUME NEW fmt, Mode(fmt) = "affine", NEW n \in Nat
  PROVE  /\ CodeBytes(n, fmt) \in Nat /\ ScaleBytes(n, fmt) \in Nat
         /\ AffineBytes(n, fmt) = CodeBytes(n, fmt) + ScaleBytes(n, fmt)
<1>1. fmt \in DOMAIN Affine
  BY DEF Mode
<1>2. Affine[fmt].bits \in Nat /\ Affine[fmt].group \in Nat \ {0}
  BY <1>1 DEF Affine
<1>3. (n * Affine[fmt].bits) \div 8 \in Nat
  <2>1. n * Affine[fmt].bits \in Nat
    BY <1>2
  <2> QED
    BY <2>1
<1>4. (n \div Affine[fmt].group) * 2 \in Nat
  BY <1>2
<1> QED
  BY <1>3, <1>4 DEF CodeBytes, ScaleBytes, AffineBytes

LEMMA ClosedStarts == PlanInit => ClosedInv
<1> SUFFICES ASSUME PlanInit PROVE ClosedInv
  OBVIOUS
<1>1. DOMAIN planned = {} /\ DOMAIN instance = {} /\ stage = "prepare" /\ queue = None
      /\ consumed = {} /\ record = None /\ units = [c \in Classes |-> 0]
      /\ bytes = [c \in Classes |-> 0]
  BY DEF PlanInit, NoNames
<1>2. Types
  BY <1>1 DEF Types, Stages
<1>3. Books
  <2>1. ASSUME NEW c \in Classes PROVE BytesIn(planned, c) = 0
    <3>1. {n \in DOMAIN planned : planned[n].cls = c} = {}
      BY <1>1
    <3> QED
      BY <3>1, SumOfNothing DEF BytesIn
  <2> QED
    BY <1>1, <2>1, FS_EmptySet DEF Books
<1> QED
  BY <1>1, <1>2, <1>3 DEF ClosedInv, Settled, Walked, Paired, NothingLost, CrashesKnown, Writing

\* The books are about the plan and the job.
LEMMA BooksKept ==
  ASSUME Books, Paired, UNCHANGED <<job, planned, bytes>>
  PROVE  Books' /\ Paired'
BY DEF Books, Paired, Made, Charged, InLedger, rows, ledger, recipe

LEMMA TypesKept ==
  ASSUME Types, UNCHANGED <<job, queue, consumed, units, bytes, instance>>,
         stage' \in Stages \ {"dispatch"}
  PROVE  Types'
BY DEF Types, RootTensors, source

\* A step that settles nothing: before dispatch, or a refusal.
LEMMA Quietly ==
  ASSUME ClosedInv, UNCHANGED <<job, queue, consumed, planned, units, bytes, instance, record>>,
         stage # "built", stage' \in Stages \ (WritingStages \cup {"dispatch", "crashed"})
  PROVE  ClosedInv'
<1>1. Types'
  BY TypesKept DEF ClosedInv
<1>2. Books' /\ Paired'
  BY BooksKept DEF ClosedInv
<1>3. Settled'
  BY DEF ClosedInv, Settled, Writing, WritingStages, TextBytes, recipe, rows
<1> QED
  BY <1>1, <1>2, <1>3 DEF ClosedInv, Walked, NothingLost, CrashesKnown, Writing, WritingStages

\* A step between two stages of writing.
LEMMA Writes ==
  ASSUME ClosedInv, Writing,
         UNCHANGED <<job, map, queue, consumed, planned, units, bytes, instance>>,
         stage # "built", stage' \in WritingStages,
         record' = record \/ (stage' = "built" /\ record'.resident = TextBytes)
  PROVE  ClosedInv'
<1>1. Types'
  BY TypesKept DEF ClosedInv, WritingStages, Stages
<1>2. Books' /\ Paired'
  BY BooksKept DEF ClosedInv
<1>3. Settled'
  BY DEF ClosedInv, Settled, Writing, WritingStages, TextBytes, recipe, rows
<1>4. NothingLost'
  BY DEF ClosedInv, NothingLost, Writing, source, Survives, InMap, NewId, Reencoded
<1> QED
  BY <1>1, <1>2, <1>3, <1>4 DEF ClosedInv, Walked, CrashesKnown, WritingStages

LEMMA EarlySteps ==
  ClosedInv /\ (Prepare \/ Load \/ Validate \/ Assign) => ClosedInv'
<1> SUFFICES ASSUME ClosedInv, Prepare \/ Load \/ Validate \/ Assign PROVE ClosedInv'
  OBVIOUS
<1>1. /\ UNCHANGED <<job, queue, consumed, planned, units, bytes, instance, record>>
      /\ stage # "built"
      /\ stage' \in {"bad_order", "bad_selection", "bad_map", "load", "validate", "bad_recipe",
                     "assign", "open"}
  BY DEF Prepare, Load, Validate, Assign
<1> QED
  BY <1>1, Quietly DEF Stages, Refusals, WritingStages

LEMMA OpenSettles == PlanInv /\ ClosedInv /\ Open => ClosedInv'
<1> SUFFICES ASSUME PlanInv, ClosedInv, Open PROVE ClosedInv'
  OBVIOUS
<1>1. CASE stage' = "bad_source"
  BY <1>1, Quietly DEF Open, Stages, Refusals, WritingStages
<1>2. CASE stage' = "dispatch"
  <2>1. /\ SourceSound(source) /\ queue' = source.walk /\ stage = "open"
        /\ UNCHANGED <<job, map, consumed, planned, units, bytes, instance, record>>
    BY <1>2 DEF Open
  <2>2. source.walk \in Seq(DOMAIN source.tensors) /\ Elements(source.walk) = RootTensors
    BY JobsAreSound DEF PlanInv, WellFormed, SourceListed, RecordSound, source, RootTensors
  <2>3. source.walk \in Seq(RootTensors)
    <3>1. \A i \in 1 .. Len(source.walk) : source.walk[i] \in RootTensors
      BY <2>2 DEF Elements
    <3> QED
      BY <2>2, <3>1
  <2>4. Types'
    BY <1>2, <2>1, <2>3 DEF ClosedInv, Types, Stages, RootTensors, source
  <2>5. Books' /\ Paired'
    BY <2>1, BooksKept DEF ClosedInv
  <2>6. Walked'
    BY <2>1, <2>2 DEF Walked, RootTensors, source, SourceSound
  <2>7. Settled'
    BY <1>2, <2>1 DEF ClosedInv, Settled, Writing, TextBytes, recipe, rows
  <2> QED
    BY <1>2, <2>4, <2>5, <2>6, <2>7 DEF ClosedInv, NothingLost, CrashesKnown, Writing
<1> QED
  BY <1>1, <1>2 DEF Open

\* What is handled stays handled while the plan grows.
Grows == \A n \in DOMAIN planned : n \in DOMAIN planned' /\ planned'[n] = planned[n]

LEMMA WalksOn ==
  ASSUME PlanInv, ClosedInv, Dispatching, Grows, UNCHANGED <<job, stage, map>>,
         queue' = Tail(queue), NEW t, t = Current, Handled(t)'
  PROVE  Walked' /\ queue' \in Seq(RootTensors)
<1>1. queue \in Seq(RootTensors) /\ queue # <<>> /\ stage = "dispatch"
  BY DEF PlanInv, ClosedInv, Types, Dispatching, QueueGood
<1>2. queue' \in Seq(RootTensors)
  BY <1>1
<1>3. ASSUME NEW n, Handled(n) PROVE Handled(n)'
  BY <1>3 DEF Handled, Grows, Made, OnDisk, Survives, InMap, NewId, source
<1>4. ASSUME NEW n \in Elements(queue), n # Current PROVE n \in Elements(queue')
  <2>1. PICK i \in 1 .. Len(queue) : queue[i] = n
    BY <1>1 DEF Elements
  <2>2. i # 1
    BY <1>1, <1>4, <2>1 DEF Current
  <2>3. i - 1 \in 1 .. Len(queue') /\ queue'[i - 1] = n /\ DOMAIN queue' = 1 .. Len(queue')
    BY <1>1, <2>1, <2>2
  <2> QED
    BY <2>3 DEF Elements
<1>5. \A n \in RootTensors : n \in Elements(queue') \/ Handled(n)'
  <2> SUFFICES ASSUME NEW n \in RootTensors, n \notin Elements(queue') PROVE Handled(n)'
    OBVIOUS
  <2>1. CASE n = Current
    BY <2>1
  <2>2. CASE n # Current
    BY <2>2, <1>1, <1>3, <1>4 DEF ClosedInv, Walked
  <2> QED
    BY <2>1, <2>2
<1>6. SourceSound(source)
  BY <1>1 DEF ClosedInv, Walked
<1> QED
  BY <1>2, <1>5, <1>6 DEF Walked, RootTensors, source, SourceSound

\* Outputs of one class join the plan, and its books.
LEMMA BooksJoin ==
  ASSUME ClosedInv, job' = job, NEW f, planned' = Joined(f, planned), IsFiniteSet(DOMAIN f),
         DOMAIN f \cap DOMAIN planned = {}, \A n \in DOMAIN f : Charged(f[n]),
         NEW k, \A n \in DOMAIN f : f[n].cls = k,
         \/ k = None /\ bytes' = bytes
         \/ k \in Classes /\ bytes' = [bytes EXCEPT ![k] = @ + TotalOf(f)],
         \A n \in DOMAIN f : f[n].src.kind = "expert" /\ f[n].action \notin Encodings =>
           \E m \in DOMAIN f : f[m].src = ScaleOf(f[n].src)
  PROVE  /\ Books' /\ Paired' /\ Grows /\ bytes' \in [Classes -> Nat]
         /\ \A n \in DOMAIN f : Made(f[n].src)'
<1>1. /\ IsFiniteSet(DOMAIN planned) /\ \A n \in DOMAIN planned : Charged(planned[n])
      /\ \A c \in Classes : bytes[c] = BytesIn(planned, c)
      /\ bytes \in [Classes -> Nat]
  BY DEF ClosedInv, Books, Types
<1>2. /\ \A n \in DOMAIN f : f[n].bytes \in Nat
      /\ \A n \in DOMAIN planned : planned[n].bytes \in Nat
  BY <1>1 DEF Charged
<1>3. IsFiniteSet(DOMAIN planned') /\ \A c : BytesIn(planned', c) = BytesIn(f, c) + BytesIn(planned, c)
  BY <1>1, <1>2, BytesJoin
<1>4. BytesIn(f, k) = TotalOf(f) /\ \A c : c # k => BytesIn(f, c) = 0
  BY BytesOfOneClass
<1>5. TotalOf(f) \in Nat
  <2> DEFINE w == [n \in DOMAIN f |-> f[n].bytes]
  <2>1. TotalOf(f) = SumFunctionOnSet(w, DOMAIN f)
    BY DEF TotalOf, Total, SumFunction
  <2>2. \A n \in DOMAIN f : w[n] \in Nat
    BY <1>2
  <2> HIDE DEF w
  <2> QED
    BY <2>1, <2>2, SumIsNatural
<1>6. None \notin Classes
  BY JobsAssumption
<1>7. bytes' \in [Classes -> Nat] /\ \A c \in Classes : bytes'[c] = BytesIn(planned', c)
  BY <1>1, <1>3, <1>4, <1>5, <1>6
<1>8. DOMAIN planned' = DOMAIN f \cup DOMAIN planned
  BY DEF Joined
<1>9. /\ \A n \in DOMAIN f : planned'[n] = f[n]
      /\ \A n \in DOMAIN planned : planned'[n] = planned[n]
  BY DEF Joined
<1>10. Grows
  BY <1>8, <1>9 DEF Grows
<1>11. \A p : Charged(p) => Charged(p)'
  BY DEF Charged, InLedger, rows, ledger, recipe
<1>12. Books'
  <2>1. \A n \in DOMAIN planned' : Charged(planned'[n])
    BY <1>1, <1>8, <1>9
  <2>2. \A n \in DOMAIN planned' : Charged(planned[n])'
    BY <2>1 DEF Charged, InLedger, rows, ledger, recipe
  <2>3. \A c \in Classes : (bytes[c] = BytesIn(planned, c))'
    BY <1>7 DEF BytesIn
  <2> QED
    BY <1>3, <2>2, <2>3 DEF Books
<1>13. \A n \in DOMAIN f : Made(f[n].src)'
  BY <1>8, <1>9 DEF Made
<1>14. Paired'
  <2>1. ASSUME NEW n \in DOMAIN planned', planned'[n].src.kind = "expert",
               planned'[n].action \notin Encodings
        PROVE  \E m \in DOMAIN planned' : planned'[m].src = ScaleOf(planned'[n].src)
    <3>1. CASE n \in DOMAIN f
      BY <2>1, <3>1, <1>8, <1>9
    <3>2. CASE n \in DOMAIN planned
      BY <2>1, <3>2, <1>8, <1>9 DEF ClosedInv, Paired, Made
    <3> QED
      BY <1>8, <3>1, <3>2
  <2> QED
    BY <2>1 DEF Paired, Made
<1> QED
  BY <1>7, <1>10, <1>12, <1>13, <1>14

\* A step of dispatch that handles its tensor.
LEMMA Dispatches ==
  ASSUME PlanInv, ClosedInv, Dispatching, UNCHANGED <<job, stage, map, record>>,
         queue' = Tail(queue), Books', Paired', Grows,
         bytes' \in [Classes -> Nat], units' \in [Classes -> Nat],
         \A key \in DOMAIN instance' : instance'[key] \in Nat,
         consumed' \subseteq DOMAIN source.tensors \cup {ScaleOf(n) : n \in DOMAIN source.tensors},
         NEW t, t = Current, Handled(t)'
  PROVE  ClosedInv'
<1>1. Walked' /\ queue' \in Seq(RootTensors)
  BY WalksOn
<1>2. stage = "dispatch" /\ stage' = "dispatch"
  BY DEF Dispatching
<1>3. Types'
  BY <1>1, <1>2 DEF Types, RootTensors, source, Stages
<1>4. Settled' /\ NothingLost' /\ CrashesKnown'
  <2>1. record' = None
    BY <1>2 DEF ClosedInv, Settled
  <2> QED
    BY <1>2, <2>1 DEF Settled, NothingLost, CrashesKnown, Writing
<1> QED
  BY <1>1, <1>3, <1>4 DEF ClosedInv

LEMMA NothingGrows == planned' = planned => Grows
BY DEF Grows

LEMMA DropScaleSettles == PlanInv /\ ClosedInv /\ DropScale => ClosedInv'
<1> SUFFICES ASSUME PlanInv, ClosedInv, DropScale PROVE ClosedInv'
  OBVIOUS
<1>0. PICK t : t = Current
  OBVIOUS
<1>1. /\ Dispatching /\ UNCHANGED <<job, stage, map, planned, units, bytes, instance, record>>
      /\ queue' = Tail(queue) /\ consumed' = consumed \cup {t}
      /\ t.kind = "expert" /\ t.part = "scale" /\ OnDisk(WeightOf(t))
  BY <1>0 DEF DropScale, ScaleFits
<1>2. t \in DOMAIN source.tensors
  BY <1>0, <1>1, CurrentKnown
<1>3. Handled(t)'
  BY <1>1 DEF Handled, OnDisk, source
<1>4. Books' /\ Paired' /\ Grows
  BY <1>1, BooksKept, NothingGrows DEF ClosedInv
<1>5. /\ bytes' \in [Classes -> Nat] /\ units' \in [Classes -> Nat]
      /\ \A key \in DOMAIN instance' : instance'[key] \in Nat
      /\ consumed' \subseteq DOMAIN source.tensors \cup {ScaleOf(n) : n \in DOMAIN source.tensors}
  BY <1>1, <1>2 DEF ClosedInv, Types
<1> QED
  BY <1>1, <1>3, <1>4, <1>5, <1>0, Dispatches

LEMMA DropPrunedSettles == PlanInv /\ ClosedInv /\ DropPruned => ClosedInv'
<1> SUFFICES ASSUME PlanInv, ClosedInv, DropPruned PROVE ClosedInv'
  OBVIOUS
<1>0. PICK t : t = Current
  OBVIOUS
<1>1. /\ Dispatching
      /\ UNCHANGED <<job, stage, map, consumed, planned, units, bytes, instance, record>>
      /\ queue' = Tail(queue) /\ t.kind = "expert" /\ t.part = "weight" /\ ~Survives(t)
  BY <1>0 DEF DropPruned, PrunedFits
<1>2. Handled(t)'
  BY <1>1 DEF Handled, Survives, InMap, NewId
<1>3. Books' /\ Paired' /\ Grows
  BY <1>1, BooksKept, NothingGrows DEF ClosedInv
<1>4. /\ bytes' \in [Classes -> Nat] /\ units' \in [Classes -> Nat]
      /\ \A key \in DOMAIN instance' : instance'[key] \in Nat
      /\ consumed' \subseteq DOMAIN source.tensors \cup {ScaleOf(n) : n \in DOMAIN source.tensors}
  BY <1>1 DEF ClosedInv, Types
<1> QED
  BY <1>1, <1>2, <1>3, <1>4, <1>0, Dispatches

\* What a row of a sound recipe says of its mode.
LEMMA RowModes ==
  ASSUME PlanInv, Dispatching, NEW c \in DOMAIN rows
  PROVE  /\ rows[c].second_gen = (Mode(rows[c].format) = "affine")
         /\ c \in Classes /\ RowSound(rows[c])
<1>1. RecipeSound(recipe)
  BY DEF PlanInv, RecipeGood, Dispatching
<1> QED
  BY <1>1 DEF RecipeSound, RowSound, rows

\* One output, of no class or charged to one.
LEMMA OneJoins ==
  ASSUME PlanInv, ClosedInv, Dispatching, UNCHANGED <<job, stage, map, instance, consumed, record>>,
         queue' = Tail(queue), Free({Current}), Current.kind \in {"text", "router"},
         NEW p, planned' = Put(planned, Current, p), p.src = Current, Charged(p),
         units' \in [Classes -> Nat],
         \/ p.cls = None /\ bytes' = bytes
         \/ p.cls \in Classes /\ bytes' = [bytes EXCEPT ![p.cls] = @ + p.bytes]
  PROVE  ClosedInv'
<1>1. PICK t : t = Current
  OBVIOUS
<1>2. PICK f : f = [n \in {t} |-> p]
  OBVIOUS
<1>3. planned' = Joined(f, planned)
  BY <1>1, <1>2 DEF Put
<1>4. DOMAIN f = {t} /\ f[t] = p /\ \A n \in DOMAIN f : n = t /\ f[n] = p
  BY <1>2
<1>5. TotalOf(f) = p.bytes
  <2>1. f[t].bytes \in Int
    BY <1>4 DEF Charged
  <2> QED
    BY <2>1, <1>4, TotalOfOne
<1>6. IsFiniteSet(DOMAIN f) /\ DOMAIN f \cap DOMAIN planned = {}
  <2>1. {t} \cap DOMAIN planned = {}
    BY <1>1 DEF Free
  <2>2. IsFiniteSet({t})
    BY FS_Singleton
  <2> QED
    BY <1>4, <2>1, <2>2
<1>7. t.kind # "expert"
  BY <1>1
<1>8. \A n \in DOMAIN f : /\ Charged(f[n]) /\ f[n].cls = p.cls /\ f[n].src.kind # "expert"
  BY <1>1, <1>4, <1>7
<1>9. Books' /\ Paired' /\ Grows /\ bytes' \in [Classes -> Nat] /\ \A n \in DOMAIN f : Made(f[n].src)'
  BY <1>3, <1>5, <1>6, <1>8, BooksJoin
<1>10. Made(t)'
  <2>1. f[t].src = t /\ t \in DOMAIN f
    BY <1>1, <1>4
  <2> QED
    BY <2>1, <1>9 DEF Made
<1>11. Handled(t)'
  BY <1>7, <1>10 DEF Handled, Made
<1>12. /\ \A key \in DOMAIN instance' : instance'[key] \in Nat
       /\ consumed' \subseteq DOMAIN source.tensors \cup {ScaleOf(n) : n \in DOMAIN source.tensors}
  BY DEF ClosedInv, Types
<1> QED
  BY <1>1, <1>9, <1>11, <1>12, Dispatches

LEMMA CopyOtherSettles == PlanInv /\ ClosedInv /\ CopyOther => ClosedInv'
<1> SUFFICES ASSUME PlanInv, ClosedInv, CopyOther PROVE ClosedInv'
  OBVIOUS
<1>1. /\ Dispatching /\ UNCHANGED <<job, stage, map, instance, consumed, record, units, bytes>>
      /\ queue' = Tail(queue) /\ Free({Current}) /\ Current.kind = "text"
      /\ planned' = Put(planned, Current, Planned(Current, "copy", None, Entry.bytes, None))
  BY DEF CopyOther, OtherFits
<1>2. Entry.bytes \in Nat /\ units' \in [Classes -> Nat]
  BY <1>1, CurrentKnown DEF ClosedInv, Types
<1>3. PICK p : p = Planned(Current, "copy", None, Entry.bytes, None)
  OBVIOUS
<1>4. Charged(p) /\ p.src = Current /\ p.cls = None
  BY <1>2, <1>3 DEF Charged, Planned, Actions
<1> QED
  BY <1>1, <1>2, <1>3, <1>4, OneJoins

LEMMA CopyTextSettles == PlanInv /\ ClosedInv /\ CopyText => ClosedInv'
<1> SUFFICES ASSUME PlanInv, ClosedInv, CopyText PROVE ClosedInv'
  OBVIOUS
<1> DEFINE c == TextClass
<1>1. /\ Dispatching /\ UNCHANGED <<job, stage, map, instance, consumed, record>>
      /\ queue' = Tail(queue) /\ Free({Current}) /\ Current.kind = "text"
      /\ c \in Classes /\ c \in DOMAIN rows /\ Mode(rows[c].format) = "passthrough"
      /\ planned' = Put(planned, Current, Planned(Current, "copy", c, Entry.bytes, None))
      /\ bytes' = [bytes EXCEPT ![c] = @ + Entry.bytes]
      /\ units' = [units EXCEPT ![c] = @ + 1]
  BY DEF CopyText, CopyFits, TextFits, Bump
<1> HIDE DEF c
<1>2. Entry.bytes \in Nat /\ units' \in [Classes -> Nat]
  BY <1>1, CurrentKnown DEF ClosedInv, Types
<1>3. ~rows[c].second_gen
  BY <1>1, RowModes
<1>4. PICK p : p = Planned(Current, "copy", c, Entry.bytes, None)
  OBVIOUS
<1>5. Charged(p) /\ p.src = Current /\ p.cls = c /\ p.bytes = Entry.bytes
  BY <1>1, <1>2, <1>3, <1>4 DEF Charged, Planned, Actions
<1> QED
  BY <1>1, <1>2, <1>4, <1>5, OneJoins

LEMMA SliceSettles == PlanInv /\ ClosedInv /\ SliceRouter => ClosedInv'
<1> SUFFICES ASSUME PlanInv, ClosedInv, SliceRouter PROVE ClosedInv'
  OBVIOUS
<1> DEFINE c == "router"
           b == SlicedBytes
           s == Retained[Current.layer]
<1>1. /\ Dispatching /\ UNCHANGED <<job, stage, map, instance, consumed, record>>
      /\ queue' = Tail(queue) /\ Free({Current}) /\ Current.kind = "router"
      /\ Current.layer \in Layers
      /\ c \in DOMAIN rows /\ Mode(rows[c].format) = "row_slice"
      /\ planned' = Put(planned, Current, Planned(Current, "slice", c, b, s))
      /\ bytes' = [bytes EXCEPT ![c] = @ + b]
      /\ units' = [units EXCEPT ![c] = @ + 0]
  BY DEF SliceRouter, RouterFits, Bump
<1>2. b \in Nat
  <2>1. Len(Retained[Current.layer]) \in Nat
    BY <1>1, KeptInLayer DEF PlanInv, MapGood, Dispatching
  <2>2. Entry.width \in Nat /\ ItemSize(Entry.dtype) \in Nat
    BY <1>1, CurrentKnown DEF ItemSize
  <2> QED
    BY <2>1, <2>2 DEF SlicedBytes
<1>3. c \in Classes
  BY DEF Classes
<1> HIDE DEF b, s, c
<1>4. units' \in [Classes -> Nat]
  BY <1>1, <1>3 DEF ClosedInv, Types
<1>5. ~rows[c].second_gen
  BY <1>1, RowModes
<1>6. PICK p : p = Planned(Current, "slice", c, b, s)
  OBVIOUS
<1>7. Charged(p) /\ p.src = Current /\ p.cls = c /\ p.bytes = b
  BY <1>1, <1>2, <1>3, <1>5, <1>6 DEF Charged, Planned, Actions
<1> QED
  BY <1>1, <1>3, <1>4, <1>6, <1>7, OneJoins

\* A weight and its scale have two names, also under a new id.
LEMMA ScaleDiffers ==
  ASSUME NEW n, n = TensorName(n.kind, n.layer, n.expert, n.proj, n.part), n.part = "weight",
         NEW x
  PROVE  /\ ScaleOf(n) # n /\ ScaleOf(ScaleOf(n)) = ScaleOf(n)
         /\ ScaleOf([n EXCEPT !.expert = x]) # [n EXCEPT !.expert = x]
BY DEF TensorName, ScaleOf

LEMMA PairFinite == ASSUME NEW x, NEW y PROVE IsFiniteSet({x, y})
<1>1. IsFiniteSet({x} \cup {y})
  BY FS_Singleton, FS_AddElement
<1>2. {x} \cup {y} = {x, y}
  OBVIOUS
<1> QED
  BY <1>1, <1>2

\* The two outputs of a tensor that is encoded again.
EncodedAs(f, src, name, c, nbytes) ==
  /\ DOMAIN f = {name, ScaleOf(name)} /\ IsFiniteSet(DOMAIN f)
  /\ \A m \in DOMAIN f : /\ f[m].src = src /\ f[m].cls = c
                         /\ f[m].action \in Encodings /\ f[m].bytes \in Nat
  /\ TotalOf(f) = nbytes

LEMMA CodesOf ==
  ASSUME NEW src, NEW name, ScaleOf(name) # name, NEW c, NEW size \in Nat, NEW fmt,
         Mode(fmt) = "affine"
  PROVE  EncodedAs(Codes(src, name, c, size, fmt), src, name, c, AffineBytes(size, fmt))
<1>0. PICK f : f = Codes(src, name, c, size, fmt)
  OBVIOUS
<1>1. PICK s : s = ScaleOf(name)
  OBVIOUS
<1>2. /\ CodeBytes(size, fmt) \in Nat /\ ScaleBytes(size, fmt) \in Nat
      /\ AffineBytes(size, fmt) = CodeBytes(size, fmt) + ScaleBytes(size, fmt)
  BY FormatSizes
<1>3. /\ DOMAIN f = {name, s}
      /\ f[name] = Planned(src, "codes", c, CodeBytes(size, fmt), None)
      /\ f[s] = Planned(src, "scales", c, ScaleBytes(size, fmt), None)
  BY <1>0, <1>1 DEF Codes
<1>4. IsFiniteSet({name, s})
  BY PairFinite
<1>5. \A m \in DOMAIN f : /\ f[m].src = src /\ f[m].cls = c
                          /\ f[m].action \in Encodings /\ f[m].bytes \in Nat
  BY <1>2, <1>3 DEF Planned, Encodings
<1>6. f[name].bytes = CodeBytes(size, fmt) /\ f[s].bytes = ScaleBytes(size, fmt)
  BY <1>3 DEF Planned
<1>7. TotalOf(f) = f[name].bytes + f[s].bytes
  <2>1. name # s /\ f[name].bytes \in Int /\ f[s].bytes \in Int
    BY <1>1, <1>2, <1>6
  <2> QED
    BY <2>1, <1>3, TotalOfTwo
<1> QED
  BY <1>0, <1>1, <1>2, <1>3, <1>4, <1>5, <1>6, <1>7 DEF EncodedAs

LEMMA EncodeTextSettles == PlanInv /\ ClosedInv /\ EncodeText => ClosedInv'
<1> SUFFICES ASSUME PlanInv, ClosedInv, EncodeText PROVE ClosedInv'
  OBVIOUS
<1>1. PICK t, c, fmt, size, f :
        /\ t = Current /\ c = TextClass /\ fmt = rows[c].format /\ size = Entry.params
        /\ f = Codes(t, t, c, size, fmt)
  OBVIOUS
<1>2. /\ Dispatching /\ UNCHANGED <<job, stage, map, instance, record>>
      /\ queue' = Tail(queue) /\ t.kind = "text" /\ t.part = "weight"
      /\ Free({t, ScaleOf(t)})
      /\ c \in Classes /\ c \in DOMAIN rows /\ Mode(fmt) = "affine" /\ InLedger(c)
      /\ planned' = Joined(f, planned)
      /\ bytes' = [bytes EXCEPT ![c] = @ + AffineBytes(size, fmt)]
      /\ units' = [units EXCEPT ![c] = @ + 1]
      /\ consumed' = IF Entry.quant = "mxfp4" THEN consumed \cup {ScaleOf(t)} ELSE consumed
  BY <1>1 DEF EncodeText, TextEncodeFits, TextFits, EncodeFits, Bump
<1>3. /\ t \in DOMAIN source.tensors /\ size \in Nat
      /\ t = TensorName(t.kind, t.layer, t.expert, t.proj, t.part)
  BY <1>1, <1>2, CurrentKnown
<1>4. ScaleOf(t) # t
  BY <1>2, <1>3, ScaleDiffers
<1>5. /\ DOMAIN f = {t, ScaleOf(t)} /\ IsFiniteSet(DOMAIN f)
      /\ \A m \in DOMAIN f : /\ f[m].src = t /\ f[m].cls = c
                             /\ f[m].action \in Encodings /\ f[m].bytes \in Nat
      /\ TotalOf(f) = AffineBytes(size, fmt)
  <2>1. EncodedAs(f, t, t, c, AffineBytes(size, fmt))
    BY <1>1, <1>2, <1>3, <1>4, CodesOf
  <2> QED
    BY <2>1 DEF EncodedAs
<1>6. \A m \in DOMAIN f : Charged(f[m])
  BY <1>2, <1>5 DEF Charged, Actions, Encodings
<1>7. DOMAIN f \cap DOMAIN planned = {}
  BY <1>2, <1>5 DEF Free
<1>8. \A m \in DOMAIN f : f[m].src.kind # "expert" /\ f[m].cls = c
  BY <1>2, <1>5
<1>9. bytes' = [bytes EXCEPT ![c] = @ + TotalOf(f)] /\ IsFiniteSet(DOMAIN f)
  BY <1>2, <1>5
<1>10. /\ Books' /\ Paired' /\ Grows /\ bytes' \in [Classes -> Nat]
       /\ \A m \in DOMAIN f : Made(f[m].src)'
  BY <1>2, <1>6, <1>7, <1>8, <1>9, BooksJoin
<1>11. Handled(t)'
  <2>1. t \in DOMAIN f /\ f[t].src = t
    BY <1>5
  <2>2. \E m \in DOMAIN planned' : planned'[m].src = t
    BY <2>1, <1>10 DEF Made
  <2> QED
    BY <2>2, <1>2 DEF Handled, Made
<1>12. /\ units' \in [Classes -> Nat]
       /\ \A key \in DOMAIN instance' : instance'[key] \in Nat
       /\ consumed' \subseteq DOMAIN source.tensors \cup {ScaleOf(n) : n \in DOMAIN source.tensors}
  BY <1>2, <1>3 DEF ClosedInv, Types
<1> QED
  BY <1>1, <1>2, <1>10, <1>11, <1>12, Dispatches

\* The two outputs of a surviving expert: its own bytes, or codes and scales.
ExpertPair(f, t, c) ==
  /\ IsFiniteSet(DOMAIN f)
  /\ DOMAIN f = {Renamed(t), ScaleOf(Renamed(t))} /\ f[Renamed(t)].src = t
  /\ \A m \in DOMAIN f : f[m].cls = c /\ Charged(f[m])
  /\ \A m \in DOMAIN f : f[m].action \notin Encodings =>
       \E k \in DOMAIN f : f[k].src = ScaleOf(f[m].src)
  /\ TotalOf(f) \in Nat

LEMMA ExpertOutputsAre ==
  ASSUME PlanInv, Dispatching, Agrees, ExpertFits
  PROVE  ExpertPair(ExpertOutputs, Current, CurrentClass)
<1>0. PICK t, f : t = Current /\ f = ExpertOutputs
  OBVIOUS
<1>1. PICK c, name, s : c = CurrentClass /\ name = Renamed(t) /\ s = ScaleOf(name)
  OBVIOUS
<1>2. /\ t = TensorName(t.kind, t.layer, t.expert, t.proj, t.part)
      /\ t.part = "weight" /\ Entry.params \in Nat
      /\ c \in DOMAIN rows /\ (NativeFits(c) \/ EncodeFits(c))
      /\ OnDisk(t) /\ OnDisk(ScaleOf(t))
  BY <1>0, <1>1, CurrentKnown DEF ExpertFits, Agrees
<1>3. name # s /\ ScaleOf(t) # t /\ ScaleOf(ScaleOf(t)) = ScaleOf(t)
  BY <1>1, <1>2, ScaleDiffers DEF Renamed
<1>4. c \in Classes /\ rows[c].second_gen = (Mode(rows[c].format) = "affine")
  BY <1>2, RowModes
<1>5. CASE Mode(rows[c].format) = "mxfp4"
  <2>1. source.header[t].bytes \in Nat /\ source.header[ScaleOf(t)].bytes \in Nat
    BY <1>2, JobsAreSound DEF PlanInv, WellFormed, SourceListed, RecordSound, OnDisk, source
  <2>2. /\ DOMAIN f = {name, s}
        /\ f[name] = Planned(t, "copy", c, source.header[t].bytes, None)
        /\ f[s] = Planned(ScaleOf(t), "copy", c, source.header[ScaleOf(t)].bytes, None)
    BY <1>0, <1>1, <1>3, <1>5 DEF ExpertOutputs
  <2>3. /\ f[name].src = t /\ f[s].src = ScaleOf(t)
        /\ f[name].bytes \in Nat /\ f[s].bytes \in Nat
        /\ \A m \in DOMAIN f : f[m].cls = c /\ f[m].action = "copy" /\ f[m].bytes \in Nat
    BY <2>1, <2>2 DEF Planned
  <2>4. \A m \in DOMAIN f : Charged(f[m])
    BY <2>3, <1>2, <1>4, <1>5 DEF Charged, Actions
  <2>5. TotalOf(f) = f[name].bytes + f[s].bytes
    <3>1. f[name].bytes \in Int /\ f[s].bytes \in Int
      BY <2>3
    <3> QED
      BY <3>1, <2>2, <1>3, TotalOfTwo
  <2>6. IsFiniteSet({name, s})
    BY PairFinite
  <2>7. \A m \in DOMAIN f : f[s].src = ScaleOf(f[m].src)
    BY <2>2, <2>3, <1>3
  <2> QED
    BY <1>0, <1>1, <2>2, <2>3, <2>4, <2>5, <2>6, <2>7 DEF ExpertPair
<1>6. CASE Mode(rows[c].format) # "mxfp4"
  <2>1. Mode(rows[c].format) = "affine" /\ InLedger(c)
    BY <1>2, <1>6 DEF NativeFits, EncodeFits
  <2>2. f = Codes(t, name, c, Entry.params, rows[c].format)
    BY <1>0, <1>1, <1>6 DEF ExpertOutputs
  <2>3. EncodedAs(f, t, name, c, AffineBytes(Entry.params, rows[c].format))
    BY <2>1, <2>2, <1>1, <1>2, <1>3, CodesOf
  <2>4. /\ DOMAIN f = {name, s} /\ IsFiniteSet(DOMAIN f) /\ f[name].src = t
        /\ \A m \in DOMAIN f : f[m].cls = c /\ f[m].action \in Encodings /\ f[m].bytes \in Nat
        /\ TotalOf(f) = AffineBytes(Entry.params, rows[c].format)
    BY <2>3, <1>1 DEF EncodedAs
  <2>5. \A m \in DOMAIN f : Charged(f[m])
    BY <2>1, <2>4, <1>2, <1>4 DEF Charged, Actions, Encodings
  <2>6. TotalOf(f) \in Nat
    BY <2>1, <2>4, <1>2, FormatSizes
  <2> QED
    BY <1>0, <1>1, <2>4, <2>5, <2>6 DEF ExpertPair
<1> QED
  BY <1>5, <1>6

LEMMA PlaceExpertSettles == PlanInv /\ ClosedInv /\ PlaceExpert => ClosedInv'
<1> SUFFICES ASSUME PlanInv, ClosedInv, PlaceExpert PROVE ClosedInv'
  OBVIOUS
<1>1. PICK t, c, f : t = Current /\ c = CurrentClass /\ f = ExpertOutputs
  OBVIOUS
<1>2. PICK key, cost :
        /\ cost = TotalOf(f)
        /\ units' = [units EXCEPT ![c] = @ + 0] /\ bytes' = [bytes EXCEPT ![c] = @ + cost]
        /\ instance' = Put(instance, key, cost + (IF key \in DOMAIN instance THEN instance[key] ELSE 0))
  BY <1>1 DEF PlaceExpert, TotalOf, Bump
<1>3. /\ Dispatching /\ Agrees /\ ExpertFits
      /\ UNCHANGED <<job, stage, map, consumed, record>> /\ queue' = Tail(queue)
      /\ planned' = Joined(f, planned)
  BY <1>1 DEF PlaceExpert
<1>4. /\ IsFiniteSet(DOMAIN f)
      /\ DOMAIN f = {Renamed(t), ScaleOf(Renamed(t))} /\ f[Renamed(t)].src = t
      /\ \A m \in DOMAIN f : f[m].cls = c /\ Charged(f[m])
      /\ \A m \in DOMAIN f : f[m].action \notin Encodings =>
           \E k \in DOMAIN f : f[k].src = ScaleOf(f[m].src)
      /\ TotalOf(f) \in Nat
  BY <1>1, <1>3, ExpertOutputsAre DEF ExpertPair
<1>5. t.part = "weight" /\ c \in Classes /\ DOMAIN f \cap DOMAIN planned = {}
  <2>1. t.part = "weight" /\ c \in DOMAIN rows /\ Free({Renamed(t), ScaleOf(Renamed(t))})
    BY <1>1, <1>3 DEF ExpertFits
  <2> QED
    BY <2>1, <1>3, <1>4, RowModes DEF Free
<1>6. bytes' = [bytes EXCEPT ![c] = @ + TotalOf(f)]
  BY <1>2
<1>7. /\ Books' /\ Paired' /\ Grows /\ bytes' \in [Classes -> Nat]
      /\ \A m \in DOMAIN f : Made(f[m].src)'
  BY <1>3, <1>4, <1>5, <1>6, BooksJoin
<1>8. Handled(t)'
  <2>1. Renamed(t) \in DOMAIN f
    BY <1>4
  <2>2. \E m \in DOMAIN planned' : planned'[m].src = t
    BY <2>1, <1>4, <1>7 DEF Made
  <2> QED
    BY <2>2, <1>5 DEF Handled, Made
<1>9. \A k \in DOMAIN instance' : instance'[k] \in Nat
  <2>1. \A k \in DOMAIN instance : instance[k] \in Nat
    BY DEF ClosedInv, Types
  <2>2. cost + (IF key \in DOMAIN instance THEN instance[key] ELSE 0) \in Nat
    BY <2>1, <1>2, <1>4
  <2> QED
    BY <2>1, <2>2, <1>2 DEF Put, Joined
<1>10. /\ units' \in [Classes -> Nat]
       /\ consumed' \subseteq DOMAIN source.tensors \cup {ScaleOf(n) : n \in DOMAIN source.tensors}
  BY <1>2, <1>3, <1>5 DEF ClosedInv, Types
<1> QED
  BY <1>1, <1>3, <1>7, <1>8, <1>9, <1>10, Dispatches

\* The one way to crash while dispatching.
LEMMA RefuseSettles == PlanInv /\ ClosedInv /\ RefuseTensor => ClosedInv'
<1> SUFFICES ASSUME PlanInv, ClosedInv, RefuseTensor PROVE ClosedInv'
  OBVIOUS
<1>1. /\ Dispatching /\ stage = "dispatch"
      /\ UNCHANGED <<job, map, queue, consumed, planned, units, bytes, instance, record>>
  BY DEF RefuseTensor, Dispatching
<1>2. CASE stage' = "bad_tensor"
  BY <1>1, <1>2, Quietly DEF Stages, Refusals, WritingStages
<1>3. CASE stage' = "crashed" /\ LookupFails
  <2>1. Types' /\ Books' /\ Paired'
    BY <1>1, <1>3, TypesKept, BooksKept DEF ClosedInv, Stages
  <2>2. record' = None
    BY <1>1 DEF ClosedInv, Settled
  <2>3. \E n \in DOMAIN source.tensors : n.kind = "router" /\ n.layer \notin Layers
    BY <1>1, <1>3, CurrentKnown DEF LookupFails
  <2>4. CrashesKnown'
    BY <2>3, <1>1 DEF CrashesKnown, source
  <2> QED
    BY <1>3, <2>1, <2>2, <2>4 DEF ClosedInv, Settled, Walked, NothingLost, Writing
<1> QED
  BY <1>2, <1>3 DEF RefuseTensor

\* Once the walk is over, every tensor is accounted for.
LEMMA WalkedAll ==
  ASSUME PlanInv, ClosedInv, stage = "dispatch", queue = <<>>, NEW n \in DOMAIN source.tensors
  PROVE  \/ source.tensors[n].sub /\ source.tensors[n].component # "text"
         \/ Made(n)
         \/ n.kind = "expert" /\ ~Survives(n)
         \/ n.part = "scale" /\ \E m \in Reencoded : planned[m].src = WeightOf(n)
<1>1. SourceSound(source) /\ \A k \in RootTensors : Handled(k)
  BY DEF ClosedInv, Walked, Elements
<1>2. CASE source.tensors[n].sub
  BY <1>1, <1>2 DEF SourceSound
<1>3. CASE ~source.tensors[n].sub /\ ~(n.kind = "expert" /\ n.part = "scale")
  BY <1>1, <1>3 DEF RootTensors, Handled
<1>4. CASE ~source.tensors[n].sub /\ n.kind = "expert" /\ n.part = "scale"
  <2>1. PICK w : w = WeightOf(n)
    OBVIOUS
  <2>2. WellFormed(job)
    BY JobsAreSound DEF PlanInv
  <2>3. w \in RootTensors
    <3>1. OnDisk(w)
      BY <1>1, <1>4, <2>1 DEF RootTensors, Handled
    <3> QED
      BY <3>1, <2>2 DEF WellFormed, SourceListed, RecordSound, OnDisk, RootTensors, source
  <2>4. n = TensorName(n.kind, n.layer, n.expert, n.proj, n.part)
    BY <2>2 DEF WellFormed, SourceListed, RecordSound, source
  <2>5. /\ w.kind = "expert" /\ w.part = "weight" /\ w.layer = n.layer /\ w.expert = n.expert
        /\ ScaleOf(w) = n
    BY <1>4, <2>1, <2>4 DEF WeightOf, ExpertTensor, TensorName, ScaleOf
  <2>6. Made(w) \/ ~Survives(w)
    BY <1>1, <2>3, <2>5 DEF Handled
  <2>7. CASE ~Survives(w)
    BY <1>4, <2>5, <2>7 DEF Survives, InMap
  <2>8. CASE Made(w)
    <3>1. PICK m \in DOMAIN planned : planned[m].src = w
      BY <2>8 DEF Made
    <3>2. CASE planned[m].action \in Encodings
      BY <1>4, <2>1, <3>1, <3>2 DEF Reencoded
    <3>3. CASE planned[m].action \notin Encodings
      BY <2>5, <3>1, <3>3 DEF ClosedInv, Paired
    <3> QED
      BY <3>2, <3>3
  <2> QED
    BY <2>6, <2>7, <2>8
<1> QED
  BY <1>2, <1>3, <1>4

\* A class of the recipe that is encoded again and in no ledger has no outputs.
LEMMA NothingUndeclared ==
  ASSUME ClosedInv, NEW c \in Classes, c \notin DOMAIN rows \/ (rows[c].second_gen /\ ~InLedger(c))
  PROVE  OutputsOf(c) = {}
<1>1. None \notin Classes
  BY JobsAssumption
<1> QED
  BY <1>1 DEF ClosedInv, Books, Charged, OutputsOf

LEMMA CloseSettles == PlanInv /\ ClosedInv /\ Close => ClosedInv'
<1> SUFFICES ASSUME PlanInv, ClosedInv, Close PROVE ClosedInv'
  OBVIOUS
<1>1. /\ stage = "dispatch" /\ queue = <<>>
      /\ UNCHANGED <<job, map, queue, consumed, planned, units, bytes, instance, record>>
  BY DEF Close
<1>2. record' = None
  BY <1>1 DEF ClosedInv, Settled
<1>3. CASE stage' = "bad_accounting"
  BY <1>1, <1>3, Quietly DEF Stages, Refusals, WritingStages
<1>4. CASE stage' = "crashed" /\ ~FloorKnown
  <2>1. Types' /\ Books' /\ Paired'
    BY <1>1, <1>4, TypesKept, BooksKept DEF ClosedInv, Stages
  <2>2. PICK c \in DOMAIN rows : rows[c].second_gen /\ ~InLedger(c)
    BY <1>4 DEF FloorKnown
  <2>3. c \in Classes
    BY <1>1 DEF PlanInv, RecipeGood, RecipeSound, rows
  <2>4. OutputsOf(c) = {}
    BY <2>2, <2>3, NothingUndeclared
  <2>5. CrashesKnown'
    BY <2>2, <2>4, <1>1 DEF CrashesKnown, OutputsOf, InLedger, rows, ledger, recipe
  <2> QED
    BY <1>2, <1>4, <2>1, <2>5 DEF ClosedInv, Settled, Walked, NothingLost, Writing
<1>5. CASE stage' = "write" /\ RowsClose /\ recipe.planned \in {None, TextBytes}
  <2>1. Types' /\ Books' /\ Paired'
    BY <1>1, <1>5, TypesKept, BooksKept DEF ClosedInv, Stages
  <2>2. Settled'
    BY <1>1, <1>2, <1>5 DEF Settled, RowsClose, TextBytes, rows, recipe
  <2>3. NothingLost'
    BY <1>1, WalkedAll DEF NothingLost, Made, source, Survives, InMap, NewId, Reencoded
  <2> QED
    BY <1>5, <2>1, <2>2, <2>3 DEF ClosedInv, Walked, CrashesKnown
<1> QED
  BY <1>3, <1>4, <1>5 DEF Close

LEMMA LateSettles ==
  PlanInv /\ ClosedInv /\ (Write \/ Adapt \/ Verify \/ Report) => ClosedInv'
<1> SUFFICES ASSUME ClosedInv, Write \/ Adapt \/ Verify \/ Report PROVE ClosedInv'
  OBVIOUS
<1>1. /\ UNCHANGED <<job, map, queue, consumed, planned, units, bytes, instance>>
      /\ stage \in {"write", "adapt", "verify", "report"}
  BY DEF Write, Adapt, Verify, Report
<1>2. CASE stage' \in WritingStages
  <2>1. record' = record \/ (stage' = "built" /\ record'.resident = TextBytes)
    BY <1>2 DEF Write, Adapt, Verify, Report
  <2> QED
    BY <1>1, <1>2, <2>1, Writes DEF Writing
<1>3. CASE stage' \notin WritingStages
  <2>1. record' = record /\ stage' \in {"bad_packing", "bad_metadata", "bad_config", "bad_record"}
    BY <1>3 DEF Write, Adapt, Verify, Report, WritingStages
  <2> QED
    BY <1>1, <2>1, Quietly DEF Stages, Refusals, WritingStages
<1> QED
  BY <1>2, <1>3

LEMMA ClosedRests == ClosedInv /\ UNCHANGED planVars => ClosedInv'
<1> SUFFICES ASSUME ClosedInv, UNCHANGED planVars PROVE ClosedInv'
  OBVIOUS
<1>1. Types' /\ Books' /\ Paired'
  <2>1. Types'
    BY DEF ClosedInv, planVars, Types, RootTensors, source
  <2> QED
    BY <2>1, BooksKept DEF ClosedInv, planVars
<1>2. Settled' /\ Walked'
  BY DEF ClosedInv, planVars, Settled, Walked, Writing, TextBytes, RootTensors, Handled, Made,
         OnDisk, Survives, InMap, NewId, source, rows, recipe
<1>3. NothingLost' /\ CrashesKnown'
  BY DEF ClosedInv, planVars, NothingLost, CrashesKnown, Writing, Survives, InMap, NewId, Reencoded,
         OutputsOf, InLedger, source, rows, ledger, recipe
<1> QED
  BY <1>1, <1>2, <1>3 DEF ClosedInv

LEMMA ClosedStep == PlanInv /\ ClosedInv /\ [PlanNext]_planVars => ClosedInv'
BY EarlySteps, OpenSettles, DropScaleSettles, DropPrunedSettles, PlaceExpertSettles, SliceSettles,
   CopyOtherSettles, CopyTextSettles, EncodeTextSettles, RefuseSettles, CloseSettles, LateSettles,
   ClosedRests DEF PlanNext, Dispatch, PlanRest

\* The books are those of the outputs: charged to a class is what the recipe
\* plans for it, and nothing is charged to a class it does not plan.
LEMMA ClosedBalances == ClosedInv => BooksBalance
<1> SUFFICES ASSUME ClosedInv, Writing PROVE BooksBalance
  BY DEF BooksBalance
<1>1. \A c \in Classes : ClassBytes(c) = bytes[c]
  BY DEF ClosedInv, Books, BytesIn, ClassBytes, OutputsOf
<1>2. \A c \in DOMAIN rows : bytes[c] = rows[c].class_bytes
  BY DEF ClosedInv, Settled
<1>3. ASSUME NEW c \in Classes, c \notin DOMAIN rows PROVE ClassBytes(c) = 0
  <2>1. OutputsOf(c) = {}
    BY <1>3, NothingUndeclared
  <2> QED
    BY <2>1, SumOfNothing DEF ClassBytes
<1>4. bytes = [c \in Classes |-> ClassBytes(c)]
  BY <1>1 DEF ClosedInv, Types
<1>5. AllBytes = TextBytes
  BY <1>4 DEF AllBytes, TextBytes, Total
<1>6. recipe.planned \in {None, AllBytes} /\ (record # None => record.resident = AllBytes)
  BY <1>5 DEF ClosedInv, Settled
<1> QED
  BY <1>1, <1>2, <1>3, <1>6 DEF BooksBalance

LEMMA ClosedIsTyped == ClosedInv => PlanTypeOK
<1> SUFFICES ASSUME ClosedInv PROVE PlanTypeOK
  OBVIOUS
<1>1. queue = None \/ Elements(queue) \subseteq RootTensors
  BY DEF ClosedInv, Types, Elements
<1> QED
  BY <1>1 DEF ClosedInv, Types, Books, Charged, PlanTypeOK

\* From the first shard written on, what is planned for every class adds up to
\* its row of the recipe, and the recipe's and the record's totals are theirs; no
\* root tensor is missing but the pruned experts and the scales of re-encoded
\* weights; the plan crashes only where a lookup error is known (_plan_build and
\* the checks that close it).
THEOREM PlanCloses == PlanSpec => []PlanClosed
<1>1. PlanInit => PlanInv /\ ClosedInv
  BY PlanStarts, ClosedStarts
<1>2. PlanInv /\ ClosedInv /\ [PlanNext]_planVars => (PlanInv /\ ClosedInv)'
  BY PlanStep, ClosedStep
<1>3. PlanInv /\ ClosedInv => PlanClosed
  BY ClosedBalances, ClosedIsTyped DEF ClosedInv, PlanClosed
<1> QED
  BY <1>1, <1>2, <1>3, PTL DEF PlanSpec

-----------------------------------------------------------------------------
(* Documents.  Ranks: what a candidate block is sorted by.                 *)

LEMMA LeastIn ==
  ASSUME NEW S \in SUBSET Int, IsFiniteSet(S), S # {}
  PROVE  Min(S) \in S
<1> DEFINE T == {Below(S, x) : x \in S}
<1>1. T \in SUBSET SUBSET S /\ T # {}
  BY DEF Below
<1> HIDE DEF T
<1>2. PICK t \in T : \A u \in SUBSET t : u # t => u \notin T
  BY <1>1, SmallestSubset
<1>3. PICK x \in S : t = Below(S, x)
  BY <1>2 DEF T
<1>4. \A z \in S : z \in Int
  OBVIOUS
<1>5. ASSUME NEW y \in S, y < x PROVE FALSE
  <2>1. \A z \in S : z < y => z < x
    BY <1>4, <1>5
  <2>2. Below(S, y) \in SUBSET t
    BY <1>3, <2>1 DEF Below
  <2>3. y \in t /\ y \notin Below(S, y)
    BY <1>3, <1>4, <1>5 DEF Below
  <2>4. Below(S, y) \in T
    BY DEF T
  <2> QED
    BY <1>2, <2>2, <2>3, <2>4
<1>6. \A y \in S : x =< y
  BY <1>4, <1>5
<1> QED
  BY <1>6 DEF Min

-----------------------------------------------------------------------------
(* A derived map.                                                          *)

LEMMA Repeatless ==
  ASSUME NEW s, s \in Seq(Int), Distinct(s)
  PROVE  /\ \A i \in DOMAIN s : Position(s, s[i]) = i - 1
         /\ \A x \in Elements(s) : /\ Position(s, x) + 1 \in DOMAIN s /\ Position(s, x) \in Int
                                   /\ s[Position(s, x) + 1] = x
<1>1. DOMAIN s = 1 .. Len(s) /\ Len(s) \in Nat
  OBVIOUS
<1>2. \A i, k \in 1 .. Len(s) : s[i] = s[k] => i = k
  BY ElementsFinite DEF Distinct
<1>3. ASSUME NEW i \in DOMAIN s PROVE Position(s, s[i]) = i - 1
  BY <1>1, <1>2, StandsAt
<1>4. ASSUME NEW x \in Elements(s)
      PROVE  /\ Position(s, x) + 1 \in DOMAIN s /\ Position(s, x) \in Int
             /\ s[Position(s, x) + 1] = x
  <2>1. PICK i \in DOMAIN s : s[i] = x
    BY DEF Elements
  <2>2. Position(s, x) = i - 1 /\ i \in Int
    BY <1>1, <1>3, <2>1
  <2> QED
    BY <2>1, <2>2
<1> QED
  BY <1>3, <1>4

KeptList(r, count) ==
  /\ r \in Seq(Int) /\ r # <<>> /\ Distinct(r) /\ Elements(r) \subseteq Experts /\ Len(r) = count

LEMMA RenumberedAccepted ==
  ASSUME NEW r, NEW count, KeptList(r, count), NEW inv, NEW l
  PROVE  LayerAccepted(LayerEntry(inv, l, r), count)
<1> DEFINE entry == LayerEntry(inv, l, r)
<1>1. /\ entry.retained = r /\ entry.pruned = Experts \ Elements(r)
      /\ entry.new = Renumbered(r)
  BY DEF LayerEntry
<1> HIDE DEF entry
<1>2. ASSUME NEW i \in DOMAIN r PROVE entry.new[r[i]] = i - 1
  <2>1. r[i] \in Elements(r) /\ r[i] \in Experts
    BY DEF Elements, KeptList
  <2>2. Position(r, r[i]) = i - 1
    BY Repeatless DEF KeptList
  <2> QED
    BY <1>1, <2>1, <2>2 DEF Renumbered
<1>3. ASSUME NEW e \in Experts \ Elements(r) PROVE entry.new[e] = None
  BY <1>1 DEF Renumbered
<1> QED
  BY <1>1, <1>2, <1>3 DEF LayerAccepted, KeptList, entry

ListedSelection(sel) == \A i \in DOMAIN sel.layers : sel.layers[i].retained \in Seq(Int)

LEMMA SelectedLists ==
  ASSUME NEW sel, ListedSelection(sel), SelectionAccepted(sel), NEW l \in Layers
  PROVE  KeptList(Selected(sel)[l], Len(sel.layers[1].retained))
<1> DEFINE i == CHOOSE k \in DOMAIN sel.layers : sel.layers[k].layer = l
<1>1. Selected(sel)[l] = sel.layers[i].retained
  BY DEF Selected
<1>2. i \in DOMAIN sel.layers
  BY DEF SelectionAccepted
<1> HIDE DEF i
<1> QED
  BY <1>1, <1>2 DEF SelectionAccepted, EntryAccepted, KeptList, ListedSelection

SelectsAgain(m, sel) ==
  /\ MapAccepted(m)
  /\ SelectionAccepted(CandidateBlock(m))
  /\ Selected(CandidateBlock(m)) = Selected(sel)

LEMMA DerivedIsAccepted ==
  ASSUME NEW sel, ListedSelection(sel), SelectionAccepted(sel), NEW inv
  PROVE  SelectsAgain(PruneMapOf(inv, Selected(sel)), sel)
<1>0. PICK chosen, m, n : /\ chosen = Selected(sel) /\ m = PruneMapOf(inv, chosen)
                          /\ n = Len(sel.layers[1].retained)
  OBVIOUS
<1>1. \A l \in Layers : KeptList(chosen[l], n)
  BY <1>0, SelectedLists
<1>2. /\ m.mode = "external_selection" /\ m.count = Len(chosen[Min(Layers)])
      /\ m.layers = [l \in Layers |-> LayerEntry(inv, l, chosen[l])]
  BY <1>0 DEF PruneMapOf
<1>3. m.count = n
  BY <1>1, <1>2, LeastIn, LayersAssumption DEF KeptList
<1>4. \A l \in Layers : /\ LayerAccepted(m.layers[l], n) /\ m.layers[l].retained = chosen[l]
                        /\ m.layers[l].pruned = Experts \ Elements(chosen[l])
  <2> SUFFICES ASSUME NEW l \in Layers
               PROVE  /\ LayerAccepted(m.layers[l], n) /\ m.layers[l].retained = chosen[l]
                      /\ m.layers[l].pruned = Experts \ Elements(chosen[l])
    OBVIOUS
  <2>1. m.layers[l] = LayerEntry(inv, l, chosen[l])
    BY <1>2
  <2>2. LayerAccepted(LayerEntry(inv, l, chosen[l]), n)
    BY <1>1, RenumberedAccepted
  <2> QED
    BY <2>1, <2>2 DEF LayerEntry
<1>5. DOMAIN m.layers = Layers
  BY <1>2
<1>6. MapAccepted(m)
  BY <1>2, <1>3, <1>4, <1>5 DEF MapAccepted
<1>7. PICK asc, size : asc = Ascending(Layers) /\ size = Cardinality(Layers)
  OBVIOUS
<1>8. /\ Matches(asc, 1 .. size, Layers) /\ DOMAIN asc = 1 .. size /\ size \in Nat /\ size # 0
  BY <1>7, Ascends, LayersAssumption, FS_CardinalityType, FS_EmptySet DEF Ascending
<1>9. PICK block : block = CandidateBlock(m)
  OBVIOUS
<1>10. /\ block.topK = None /\ DOMAIN block.layers = 1 .. size
       /\ \A i \in 1 .. size : /\ block.layers[i].layer = asc[i]
                               /\ block.layers[i].original = NExperts
                               /\ block.layers[i].retained = m.layers[asc[i]].retained
                               /\ block.layers[i].pruned = m.layers[asc[i]].pruned
  BY <1>5, <1>7, <1>8, <1>9 DEF CandidateBlock
<1>11. \A i \in 1 .. size : /\ block.layers[i].layer \in Layers
                            /\ block.layers[i].retained = chosen[block.layers[i].layer]
                            /\ block.layers[i].pruned = Experts \ Elements(block.layers[i].retained)
  BY <1>4, <1>8, <1>10 DEF Matches
<1>12. 1 \in 1 .. size /\ block.layers # <<>>
  BY <1>8, <1>10
<1>13. Len(block.layers[1].retained) = n
  BY <1>1, <1>11, <1>12 DEF KeptList
<1>14. \A i \in 1 .. size : EntryAccepted(block.layers[i], n)
  BY <1>1, <1>10, <1>11 DEF EntryAccepted, KeptList
<1>15. \A i, j \in 1 .. size : block.layers[i].layer = block.layers[j].layer => i = j
  BY <1>8, <1>10 DEF Matches
<1>16. \A l \in Layers : \E i \in 1 .. size : block.layers[i].layer = l
  BY <1>8, <1>10 DEF Matches
<1>17. {block.layers[i].layer : i \in DOMAIN block.layers} = Layers
  BY <1>10, <1>11, <1>16
<1>18. SelectionAccepted(block)
  BY <1>10, <1>12, <1>13, <1>14, <1>15, <1>17 DEF SelectionAccepted
<1>19. ASSUME NEW l \in Layers PROVE Selected(block)[l] = chosen[l]
  <2> DEFINE i == CHOOSE k \in DOMAIN block.layers : block.layers[k].layer = l
  <2>1. Selected(block)[l] = block.layers[i].retained
    BY DEF Selected
  <2>2. i \in 1 .. size /\ block.layers[i].layer = l
    BY <1>10, <1>16
  <2> HIDE DEF i
  <2> QED
    BY <1>11, <2>1, <2>2
<1>20. Selected(block) = chosen
  <2>1. Selected(block) = [l \in Layers |-> Selected(block)[l]] /\ chosen = [l \in Layers |-> chosen[l]]
    BY <1>0 DEF Selected
  <2> QED
    BY <1>19, <2>1
<1> QED
  BY <1>0, <1>6, <1>9, <1>18, <1>20 DEF SelectsAgain

-----------------------------------------------------------------------------
\* A map derived from a selection stays what was derived.
Derives ==
  given = None /\ stage \notin {"prepare"} \cup Refusals =>
    /\ SelectionAccepted(selection) /\ Structured(source.tensors)
    /\ map = PruneMapOf(source.tensors, Selected(selection))

\* The headers that were looked at say what the inventory says.
SameOnDisk(n) == OnDisk(n) /\ source.header[n].bytes = source.tensors[n].bytes
HeadersAgree ==
  /\ stage = "dispatch" \/ Writing => SourceSound(source)
  /\ stage = "dispatch" => \A n \in RootTensors : n \in Elements(queue) \/ SameOnDisk(n)
  /\ Writing => \A n \in RootTensors : SameOnDisk(n)

\* What an output was made from, and what is kept of its name and bytes.
NameOf(t) == IF t.kind = "expert" THEN Renamed(t) ELSE t
MadeFrom(n, p) ==
  LET t == p.src
  IN  /\ t \in RootTensors /\ n.kind = t.kind
      /\ n = TensorName(n.kind, n.layer, n.expert, n.proj, n.part)
      /\ t.kind = "expert" => Survives(t)
      /\ t.kind = "router" <=> p.action = "slice"
      /\ p.action \notin Encodings => n = NameOf(t)
      /\ p.action = "copy" => p.bytes = source.header[t].bytes
      /\ p.action = "slice" => t.layer \in Layers /\ p.bytes = map.layers[t.layer].router[t.part]
      /\ p.cls = None <=> t.kind = "text" /\ source.tensors[t].component # "text"

\* An expert's scale is planned beside its weight.
Beside(n, names) == n.kind = "expert" /\ n.part = "weight" => ScaleOf(n) \in names

\* What is written is what was planned, and the config what was checked.
Shown ==
  /\ stage \in {"adapt", "verify", "report", "built"} =>
       out = [n \in DOMAIN planned |-> Content(planned[n])]
  /\ config # None => /\ stage \in {"verify", "report", "built", "bad_config", "bad_record"}
                      /\ source.config # None /\ config = Adapted(source.config)
  /\ stage \in {"report", "built"} /\ config # None => ConfigAgrees

DescInv ==
  /\ Derives /\ HeadersAgree /\ Shown
  /\ \A n \in DOMAIN planned : MadeFrom(n, planned[n]) /\ Beside(n, DOMAIN planned)


LEMMA DescStarts == PlanInit => DescInv
<1> SUFFICES ASSUME PlanInit PROVE DescInv
  OBVIOUS
<1>1. DOMAIN planned = {}
  BY DEF PlanInit, NoNames
<1> QED
  BY <1>1 DEF PlanInit, DescInv, Derives, HeadersAgree, Shown, Writing

\* Outputs stay what they were made from.
LEMMA OutputsStand ==
  ASSUME DescInv, UNCHANGED <<job, map, planned>>
  PROVE  \A n \in DOMAIN planned' : MadeFrom(n, planned[n])' /\ Beside(n, DOMAIN planned)'
BY DEF DescInv, MadeFrom, Beside, RootTensors, Survives, InMap, NewId, NameOf, Renamed, source

LEMMA StillDerived ==
  ASSUME DescInv, UNCHANGED <<job, map>>, stage \notin {"prepare"} \cup Refusals \/ stage' \in Refusals
  PROVE  Derives'
BY DEF DescInv, Derives, given, selection, source

\* The steps before dispatch, and those that end a build.
LEMMA EarlyStands ==
  ASSUME DescInv, UNCHANGED <<job, map, planned, config, out>>, config = None,
         stage \notin {"prepare"} \cup Refusals, ~Writing',
         stage' = "dispatch" => HeadersAgree'
  PROVE  DescInv'
<1>1. Derives'
  BY StillDerived
<1>2. Shown'
  BY DEF Writing, Shown
<1>3. HeadersAgree'
  BY DEF HeadersAgree
<1> QED
  BY <1>1, <1>2, <1>3, OutputsStand DEF DescInv

LEMMA NoConfigYet ==
  ASSUME DescInv, stage \notin {"verify", "report", "built"} \cup Refusals
  PROVE  config = None
BY DEF DescInv, Shown, Refusals

LEMMA PrepareDescribes == PlanInv /\ DescInv /\ Prepare => DescInv'
<1> SUFFICES ASSUME PlanInv, DescInv, Prepare PROVE DescInv'
  OBVIOUS
<1>1. /\ stage = "prepare" /\ UNCHANGED <<job, planned, config, out>>
      /\ DOMAIN planned = {} /\ config = None
  BY NoConfigYet DEF Prepare, PlanInv, NothingPlanned, Placing, Refusals
<1>2. stage' \in Refusals \cup {"load"}
  BY DEF Prepare, Refusals
<1>3. stage' = "load" /\ given = None =>
        /\ SelectionAccepted(selection) /\ Structured(source.tensors)
        /\ map' = PruneMapOf(source.tensors, Selected(selection))
  BY DEF Prepare, MapRefused
<1>4. Derives'
  BY <1>1, <1>2, <1>3 DEF Derives, given, selection, source, Refusals
<1>5. Shown' /\ HeadersAgree'
  BY <1>1, <1>2 DEF Shown, HeadersAgree, Writing, Refusals
<1> QED
  BY <1>1, <1>4, <1>5 DEF DescInv

LEMMA ChecksDescribe == DescInv /\ (Load \/ Validate \/ Assign) => DescInv'
<1> SUFFICES ASSUME DescInv, Load \/ Validate \/ Assign PROVE DescInv'
  OBVIOUS
<1>1. /\ UNCHANGED <<job, map, planned, config, out>>
      /\ stage \in {"load", "validate", "assign"}
      /\ stage' \in {"validate", "assign", "open", "bad_map", "bad_recipe", "bad_order"}
  BY DEF Load, Validate, Assign
<1>2. config = None
  BY <1>1, NoConfigYet DEF Refusals
<1> QED
  BY <1>1, <1>2, EarlyStands DEF Writing, Refusals

LEMMA OpenDescribes == PlanInv /\ DescInv /\ Open => DescInv'
<1> SUFFICES ASSUME PlanInv, DescInv, Open PROVE DescInv'
  OBVIOUS
<1>1. /\ UNCHANGED <<job, map, planned, config, out>> /\ stage = "open"
      /\ stage' \in {"dispatch", "bad_source"}
  BY DEF Open
<1>2. config = None
  BY <1>1, NoConfigYet DEF Refusals
<1>3. ASSUME stage' = "dispatch" PROVE HeadersAgree'
  <2>1. SourceSound(source) /\ queue' = source.walk
    BY <1>3 DEF Open
  <2>2. RootTensors = Elements(source.walk)
    BY JobsAreSound DEF PlanInv, WellFormed, SourceListed, RootTensors, source
  <2> QED
    BY <1>1, <1>3, <2>1, <2>2 DEF HeadersAgree, Writing, RootTensors, source
<1> QED
  BY <1>1, <1>2, <1>3, EarlyStands DEF Writing, Refusals

\* Dispatch: what is new in the plan was made from a tensor of the source.
LEMMA DispatchDescribes ==
  ASSUME ClosedInv, DescInv, Dispatching, Agrees, UNCHANGED <<job, stage, map, config, out>>,
         queue' = Tail(queue), DOMAIN planned \subseteq DOMAIN planned',
         \A n \in DOMAIN planned' :
           \/ n \in DOMAIN planned /\ planned'[n] = planned[n]
           \/ MadeFrom(n, planned'[n]) /\ Beside(n, DOMAIN planned')
  PROVE  DescInv'
<1>0. PICK t : t = Current
  OBVIOUS
<1>1. /\ stage = "dispatch" /\ stage' = "dispatch" /\ queue # <<>>
      /\ queue \in Seq(RootTensors) /\ SameOnDisk(t)
  BY <1>0 DEF Dispatching, ClosedInv, Types, Agrees, SameOnDisk, Entry
<1>2. \A n \in Elements(queue) : n = t \/ n \in Elements(queue')
  <2> SUFFICES ASSUME NEW i \in 1 .. Len(queue)
               PROVE  queue[i] = t \/ \E k \in DOMAIN queue' : queue'[k] = queue[i]
    BY <1>1 DEF Elements
  <2>1. CASE i = 1
    BY <1>0, <1>1, <2>1 DEF Current
  <2>2. CASE i # 1
    <3>1. i - 1 \in DOMAIN queue' /\ queue'[i - 1] = queue[i]
      BY <1>1, <2>2
    <3> QED
      BY <3>1
  <2> QED
    BY <2>1, <2>2
<1>3. HeadersAgree'
  <2>1. \A n \in RootTensors : n \in Elements(queue') \/ SameOnDisk(n)
    BY <1>1, <1>2 DEF DescInv, HeadersAgree
  <2>2. SourceSound(source)
    BY <1>1 DEF DescInv, HeadersAgree
  <2> QED
    BY <1>1, <2>1, <2>2 DEF HeadersAgree, Writing, RootTensors, SameOnDisk, OnDisk, source
<1>4. Derives'
  BY <1>1, StillDerived DEF Refusals
<1>5. Shown'
  BY <1>1 DEF DescInv, Shown
<1>6. \A n \in DOMAIN planned' : MadeFrom(n, planned'[n]) /\ Beside(n, DOMAIN planned')
  BY DEF DescInv, Beside
<1>7. \A n \in DOMAIN planned' : MadeFrom(n, planned[n])' /\ Beside(n, DOMAIN planned)'
  BY <1>6 DEF MadeFrom, Beside, RootTensors, Survives, InMap, NewId, NameOf, Renamed, source
<1> QED
  BY <1>3, <1>4, <1>5, <1>7 DEF DescInv

LEMMA DescJoins ==
  ASSUME ClosedInv, DescInv, Dispatching, Agrees, UNCHANGED <<job, stage, map, config, out>>,
         queue' = Tail(queue), NEW f, planned' = Joined(f, planned),
         \A n \in DOMAIN f : MadeFrom(n, f[n]) /\ Beside(n, DOMAIN f)
  PROVE  DescInv'
<1>1. DOMAIN planned' = DOMAIN f \cup DOMAIN planned
  BY DEF Joined
<1>2. \A n \in DOMAIN planned' : IF n \in DOMAIN f THEN planned'[n] = f[n] ELSE planned'[n] = planned[n]
  BY DEF Joined
<1>3. \A n \in DOMAIN f : Beside(n, DOMAIN planned')
  BY <1>1 DEF Beside
<1>4. \A n \in DOMAIN planned' :
        \/ n \in DOMAIN planned /\ planned'[n] = planned[n]
        \/ MadeFrom(n, planned'[n]) /\ Beside(n, DOMAIN planned')
  BY <1>1, <1>2, <1>3
<1> QED
  BY <1>1, <1>4, DispatchDescribes

LEMMA DropsDescribe == ClosedInv /\ DescInv /\ (DropScale \/ DropPruned) => DescInv'
BY DispatchDescribes DEF DropScale, DropPruned

\* The tensor in turn: its record, and the header that agrees with it.
LEMMA CurrentListed ==
  ASSUME PlanInv, ClosedInv, Dispatching, Agrees
  PROVE  /\ Current \in RootTensors /\ RecordSound(Current, Entry)
         /\ Entry = source.tensors[Current]
         /\ OnDisk(Current) /\ source.header[Current].bytes = Entry.bytes
         /\ \A n : OnDisk(n) => n \in RootTensors
<1>1. WellFormed(job)
  BY JobsAreSound DEF PlanInv
<1>2. queue \in Seq(RootTensors) /\ queue # <<>>
  BY DEF Dispatching, ClosedInv, Types
<1>3. Current \in RootTensors
  BY <1>2 DEF Current
<1>4. RecordSound(Current, Entry)
  BY <1>1, <1>3 DEF WellFormed, SourceListed, RootTensors, source, Entry
<1>5. \A n : OnDisk(n) => n \in RootTensors
  BY <1>1 DEF WellFormed, SourceListed, OnDisk, RootTensors, source
<1> QED
  BY <1>3, <1>4, <1>5 DEF Agrees, Entry

LEMMA OneDescribes ==
  ASSUME ClosedInv, DescInv, Dispatching, Agrees, UNCHANGED <<job, stage, map, config, out>>,
         queue' = Tail(queue), NEW p, planned' = Put(planned, Current, p),
         MadeFrom(Current, p), Current.kind # "expert"
  PROVE  DescInv'
<1>1. PICK t, f : t = Current /\ f = [n \in {t} |-> p]
  OBVIOUS
<1>2. planned' = Joined(f, planned)
  BY <1>1 DEF Put
<1>3. \A n \in DOMAIN f : MadeFrom(n, f[n]) /\ Beside(n, DOMAIN f)
  BY <1>1 DEF Beside
<1> QED
  BY <1>2, <1>3, DescJoins

LEMMA CopiesDescribe == PlanInv /\ ClosedInv /\ DescInv /\ (CopyOther \/ CopyText) => DescInv'
<1> SUFFICES ASSUME PlanInv, ClosedInv, DescInv, CopyOther \/ CopyText PROVE DescInv'
  OBVIOUS
<1>1. /\ Dispatching /\ Agrees /\ UNCHANGED <<job, stage, map, config, out>>
      /\ queue' = Tail(queue) /\ Current.kind = "text"
  BY DEF CopyOther, CopyText, OtherFits, CopyFits, TextFits
<1>2. PICK c : /\ planned' = Put(planned, Current, Planned(Current, "copy", c, Entry.bytes, None))
               /\ (c = None) = (Entry.component # "text")
  BY JobsAssumption DEF CopyOther, CopyText, OtherFits, CopyFits, TextFits
<1>3. PICK p : p = Planned(Current, "copy", c, Entry.bytes, None)
  OBVIOUS
<1>4. MadeFrom(Current, p)
  BY <1>1, <1>2, <1>3, CurrentListed DEF MadeFrom, Planned, NameOf, RecordSound
<1> QED
  BY <1>1, <1>2, <1>3, <1>4, OneDescribes

LEMMA SliceDescribes == PlanInv /\ ClosedInv /\ DescInv /\ SliceRouter => DescInv'
<1> SUFFICES ASSUME PlanInv, ClosedInv, DescInv, SliceRouter PROVE DescInv'
  OBVIOUS
<1>1. /\ Dispatching /\ Agrees /\ UNCHANGED <<job, stage, map, config, out>>
      /\ queue' = Tail(queue) /\ Current.kind = "router" /\ Current.layer \in Layers
      /\ map.layers[Current.layer].router[Current.part] = SlicedBytes
  BY DEF SliceRouter, RouterFits
<1>2. PICK p : p = Planned(Current, "slice", "router", SlicedBytes, Retained[Current.layer])
  OBVIOUS
<1>3. planned' = Put(planned, Current, p)
  BY <1>2 DEF SliceRouter
<1>4. "router" # None
  BY JobsAssumption DEF Classes
<1>5. MadeFrom(Current, p)
  BY <1>1, <1>2, <1>4, CurrentListed DEF MadeFrom, Planned, NameOf, RecordSound, Encodings
<1> QED
  BY <1>1, <1>3, <1>5, OneDescribes

LEMMA EncodeTextDescribes == PlanInv /\ ClosedInv /\ DescInv /\ EncodeText => DescInv'
<1> SUFFICES ASSUME PlanInv, ClosedInv, DescInv, EncodeText PROVE DescInv'
  OBVIOUS
<1>1. PICK t, c, f : /\ t = Current /\ c = TextClass
                     /\ f = Codes(t, t, c, Entry.params, rows[c].format)
  OBVIOUS
<1>2. /\ Dispatching /\ Agrees /\ UNCHANGED <<job, stage, map, config, out>>
      /\ queue' = Tail(queue) /\ t.kind = "text" /\ Entry.component = "text" /\ c \in Classes
      /\ planned' = Joined(f, planned)
  BY <1>1 DEF EncodeText, TextEncodeFits, TextFits
<1>3. t \in RootTensors /\ RecordSound(t, Entry) /\ Entry = source.tensors[t]
  BY <1>1, <1>2, CurrentListed
<1>4. c # None
  BY <1>2, JobsAssumption
<1>5. \A n \in DOMAIN f : /\ n \in {t, ScaleOf(t)} /\ f[n].src = t /\ f[n].cls = c
                          /\ f[n].action \in Encodings
  BY <1>1 DEF Codes, Planned, Encodings
<1>6. \A n \in {t, ScaleOf(t)} : /\ n.kind = "text"
                                 /\ n = TensorName(n.kind, n.layer, n.expert, n.proj, n.part)
  BY <1>2, <1>3 DEF RecordSound, ScaleOf, TensorName
<1>7. \A n \in DOMAIN f : MadeFrom(n, f[n]) /\ Beside(n, DOMAIN f)
  BY <1>2, <1>3, <1>4, <1>5, <1>6 DEF MadeFrom, Beside, Encodings
<1> QED
  BY <1>2, <1>7, DescJoins

LEMMA ExpertNamed ==
  ASSUME NEW t, RecordSound(t, source.tensors[t]), t.kind = "expert", t.part = "weight"
  PROVE  /\ ScaleOf(t).kind = "expert" /\ ScaleOf(t).layer = t.layer
         /\ ScaleOf(t).expert = t.expert
         /\ Renamed(ScaleOf(t)) = ScaleOf(Renamed(t)) /\ ScaleOf(Renamed(t)) # Renamed(t)
         /\ Renamed(t).kind = "expert" /\ ScaleOf(Renamed(t)).kind = "expert"
         /\ ScaleOf(Renamed(t)).part = "scale"
         /\ \A n \in {Renamed(t), ScaleOf(Renamed(t))} :
              n = TensorName(n.kind, n.layer, n.expert, n.proj, n.part)
<1>1. t = TensorName("expert", t.layer, t.expert, t.proj, "weight")
  BY DEF RecordSound
<1>2. PICK x : x = NewId(t.layer, t.expert)
  OBVIOUS
<1>3. /\ Renamed(t) = TensorName("expert", t.layer, x, t.proj, "weight")
      /\ ScaleOf(t) = TensorName("expert", t.layer, t.expert, t.proj, "scale")
  BY <1>1, <1>2 DEF Renamed, ScaleOf, TensorName
<1>4. ScaleOf(t).layer = t.layer /\ ScaleOf(t).expert = t.expert
  BY <1>3 DEF TensorName
<1>5. Renamed(ScaleOf(t)) = [ScaleOf(t) EXCEPT !.expert = x]
  BY <1>2, <1>4 DEF Renamed
<1>6. /\ Renamed(ScaleOf(t)) = TensorName("expert", t.layer, x, t.proj, "scale")
      /\ ScaleOf(Renamed(t)) = TensorName("expert", t.layer, x, t.proj, "scale")
  <2>1. Renamed(ScaleOf(t)) = TensorName("expert", t.layer, x, t.proj, "scale")
    BY <1>3, <1>5 DEF TensorName
  <2>2. ScaleOf(Renamed(t)) = [Renamed(t) EXCEPT !.part = "scale"]
    BY DEF ScaleOf
  <2>3. ScaleOf(Renamed(t)) = TensorName("expert", t.layer, x, t.proj, "scale")
    BY <1>3, <2>2 DEF TensorName
  <2> QED
    BY <2>1, <2>3
<1> QED
  BY <1>3, <1>6 DEF TensorName

LEMMA PlaceExpertDescribes == PlanInv /\ ClosedInv /\ DescInv /\ PlaceExpert => DescInv'
<1> SUFFICES ASSUME PlanInv, ClosedInv, DescInv, PlaceExpert PROVE DescInv'
  OBVIOUS
<1>1. PICK t, c, f, name : /\ t = Current /\ c = CurrentClass /\ f = ExpertOutputs
                           /\ name = Renamed(t)
  OBVIOUS
<1>2. /\ Dispatching /\ Agrees /\ UNCHANGED <<job, stage, map, config, out>>
      /\ queue' = Tail(queue) /\ planned' = Joined(f, planned)
      /\ t.kind = "expert" /\ t.part = "weight" /\ Survives(t) /\ OnDisk(ScaleOf(t))
  BY <1>1 DEF PlaceExpert, ExpertFits
<1>3. /\ t \in RootTensors /\ RecordSound(t, source.tensors[t]) /\ ScaleOf(t) \in RootTensors
  BY <1>1, <1>2, CurrentListed
<1>4. c # None
  BY <1>1, JobsAssumption DEF CurrentClass, ExpertClass, Classes
<1>5. /\ ScaleOf(t).kind = "expert" /\ Survives(ScaleOf(t))
      /\ NameOf(t) = name /\ NameOf(ScaleOf(t)) = ScaleOf(name) /\ ScaleOf(name) # name
      /\ name.kind = "expert" /\ ScaleOf(name).kind = "expert" /\ ScaleOf(name).part = "scale"
      /\ \A n \in {name, ScaleOf(name)} : n = TensorName(n.kind, n.layer, n.expert, n.proj, n.part)
  BY <1>1, <1>2, <1>3, ExpertNamed DEF NameOf, Survives, InMap, NewId
<1>6. CASE Mode(rows[c].format) = "mxfp4"
  <2>1. /\ DOMAIN f = {name, ScaleOf(name)}
        /\ f[name] = Planned(t, "copy", c, source.header[t].bytes, None)
        /\ f[ScaleOf(name)] = Planned(ScaleOf(t), "copy", c, source.header[ScaleOf(t)].bytes, None)
    BY <1>1, <1>5, <1>6 DEF ExpertOutputs
  <2>2. MadeFrom(name, f[name]) /\ MadeFrom(ScaleOf(name), f[ScaleOf(name)])
    BY <1>2, <1>3, <1>4, <1>5, <2>1 DEF MadeFrom, Planned
  <2>3. \A n \in DOMAIN f : MadeFrom(n, f[n]) /\ Beside(n, DOMAIN f)
    BY <1>5, <2>1, <2>2 DEF Beside
  <2> QED
    BY <1>2, <2>3, DescJoins
<1>7. CASE Mode(rows[c].format) # "mxfp4"
  <2>1. f = Codes(t, name, c, Entry.params, rows[c].format)
    BY <1>1, <1>7 DEF ExpertOutputs
  <2>2. /\ DOMAIN f = {name, ScaleOf(name)}
        /\ \A n \in DOMAIN f : f[n].src = t /\ f[n].cls = c /\ f[n].action \in Encodings
    BY <2>1 DEF Codes, Planned, Encodings
  <2>3. \A n \in DOMAIN f : MadeFrom(n, f[n]) /\ Beside(n, DOMAIN f)
    BY <1>2, <1>3, <1>4, <1>5, <2>2 DEF MadeFrom, Beside, Encodings
  <2> QED
    BY <1>2, <2>3, DescJoins
<1> QED
  BY <1>6, <1>7

LEMMA RefuseDescribes == DescInv /\ RefuseTensor => DescInv'
<1> SUFFICES ASSUME DescInv, RefuseTensor PROVE DescInv'
  OBVIOUS
<1>1. /\ UNCHANGED <<job, map, planned, config, out>> /\ stage = "dispatch"
      /\ stage' \in {"crashed", "bad_tensor"}
  BY DEF RefuseTensor, Dispatching
<1>2. config = None
  BY <1>1, NoConfigYet DEF Refusals
<1> QED
  BY <1>1, <1>2, EarlyStands DEF Writing, Refusals

\* While shards are written the plan stays.
LEMMA LateStands ==
  ASSUME DescInv, UNCHANGED <<job, map, planned>>, stage \in WritingStages,
         stage' \in WritingStages \cup Refusals, Shown'
  PROVE  DescInv'
<1>1. Derives'
  BY StillDerived DEF WritingStages, Refusals
<1>2. HeadersAgree'
  BY DEF DescInv, HeadersAgree, Writing, WritingStages, Refusals, RootTensors, SameOnDisk, OnDisk,
         source
<1> QED
  BY <1>1, <1>2, OutputsStand DEF DescInv

LEMMA CloseDescribes == DescInv /\ Close => DescInv'
<1> SUFFICES ASSUME DescInv, Close PROVE DescInv'
  OBVIOUS
<1>1. /\ UNCHANGED <<job, map, planned, config, out>> /\ stage = "dispatch" /\ queue = <<>>
      /\ stage' \in {"crashed", "bad_accounting", "write"}
  BY DEF Close
<1>2. config = None
  BY <1>1, NoConfigYet DEF Refusals
<1>3. CASE stage' # "write"
  BY <1>1, <1>2, <1>3, EarlyStands DEF Writing, Refusals
<1>4. CASE stage' = "write"
  <2>1. Derives'
    BY <1>1, StillDerived DEF Refusals
  <2>2. Elements(queue) = {}
    BY <1>1 DEF Elements
  <2>3. SourceSound(source) /\ \A n \in RootTensors : SameOnDisk(n)
    BY <1>1, <2>2 DEF DescInv, HeadersAgree
  <2>4. HeadersAgree'
    BY <1>1, <1>4, <2>3 DEF HeadersAgree, Writing, RootTensors, SameOnDisk, OnDisk, source
  <2>5. Shown'
    BY <1>1, <1>2, <1>4 DEF Shown
  <2> QED
    BY <1>1, <2>1, <2>4, <2>5, OutputsStand DEF DescInv
<1> QED
  BY <1>3, <1>4

LEMMA WriteDescribes == DescInv /\ Write => DescInv'
<1> SUFFICES ASSUME DescInv, Write PROVE DescInv'
  OBVIOUS
<1>1. /\ UNCHANGED <<job, map, planned, config>> /\ stage = "write"
      /\ stage' = "adapt" => out' = [n \in DOMAIN planned |-> Content(planned[n])]
      /\ stage' \in {"adapt", "bad_packing"}
  BY DEF Write
<1>2. config = None
  BY <1>1, NoConfigYet DEF Refusals
<1>3. Shown'
  BY <1>1, <1>2 DEF Shown, Content
<1> QED
  BY <1>1, <1>3, LateStands DEF WritingStages, Refusals

LEMMA AdaptDescribes == DescInv /\ Adapt => DescInv'
<1> SUFFICES ASSUME DescInv, Adapt PROVE DescInv'
  OBVIOUS
<1>1. /\ UNCHANGED <<job, map, planned, out>> /\ stage = "adapt"
      /\ stage' \in {"verify", "bad_metadata"}
      /\ \/ config' = config
         \/ stage' = "verify" /\ source.config # None /\ config' = Adapted(source.config)
  BY DEF Adapt
<1>2. config = None
  BY <1>1, NoConfigYet DEF Refusals
<1>3. out = [n \in DOMAIN planned |-> Content(planned[n])]
  BY <1>1 DEF DescInv, Shown
<1>4. Shown'
  <2>1. config' # None => stage' = "verify" /\ source.config # None /\ config' = Adapted(source.config)
    BY <1>1, <1>2
  <2>2. config' # None => source'.config # None /\ config' = Adapted(source.config)'
    BY <1>1, <2>1 DEF Adapted, Reencoded, source
  <2> QED
    BY <1>1, <1>3, <2>1, <2>2 DEF Shown, Content, source
<1> QED
  BY <1>1, <1>4, LateStands DEF WritingStages, Refusals

LEMMA ChecksAgree ==
  ASSUME UNCHANGED <<map, planned, config>>, ConfigAgrees
  PROVE  ConfigAgrees'
BY DEF ConfigAgrees, WrittenIds

LEMMA EndDescribes == DescInv /\ (Verify \/ Report) => DescInv'
<1> SUFFICES ASSUME DescInv, Verify \/ Report PROVE DescInv'
  OBVIOUS
<1>1. /\ UNCHANGED <<job, map, planned, config, out>> /\ stage \in {"verify", "report"}
      /\ stage' \in {"report", "built", "bad_config", "bad_record"}
      /\ out = [n \in DOMAIN planned |-> Content(planned[n])]
  BY DEF Verify, Report, DescInv, Shown
<1>2. stage' \in {"report", "built"} /\ config # None => ConfigAgrees
  BY DEF Verify, Report, DescInv, Shown
<1>3. config # None => source.config # None /\ config = Adapted(source.config)
  BY DEF DescInv, Shown
<1>4. config' # None => source'.config # None /\ config' = Adapted(source.config)'
  BY <1>1, <1>3 DEF Adapted, Reencoded, source
<1>5. stage' \in {"report", "built"} /\ config' # None => ConfigAgrees'
  BY <1>1, <1>2, ChecksAgree
<1>6. Shown'
  BY <1>1, <1>4, <1>5 DEF Shown, Content, source
<1> QED
  BY <1>1, <1>6, LateStands DEF WritingStages, Refusals

LEMMA DescRests == DescInv /\ UNCHANGED planVars => DescInv'
<1> SUFFICES ASSUME DescInv, UNCHANGED planVars PROVE DescInv'
  OBVIOUS
<1>1. UNCHANGED <<job, stage, map, queue, planned, config, out>>
  BY DEF planVars
<1>2. Derives' /\ HeadersAgree'
  BY <1>1 DEF DescInv, Derives, HeadersAgree, Writing, given, selection, source, RootTensors,
              SameOnDisk, OnDisk
<1>3. Shown'
  <2>1. stage \in {"report", "built"} /\ config # None => ConfigAgrees'
    BY <1>1, ChecksAgree DEF DescInv, Shown
  <2>2. config # None => config' = Adapted(source.config)'
    BY <1>1 DEF DescInv, Shown, Adapted, Reencoded, source
  <2> QED
    BY <1>1, <2>1, <2>2 DEF DescInv, Shown, Content, source
<1> QED
  BY <1>1, <1>2, <1>3, OutputsStand DEF DescInv

LEMMA DescStep == PlanInv /\ ClosedInv /\ DescInv /\ [PlanNext]_planVars => DescInv'
BY PrepareDescribes, ChecksDescribe, OpenDescribes, DropsDescribe, PlaceExpertDescribes,
   SliceDescribes, CopiesDescribe, EncodeTextDescribes, RefuseDescribes, CloseDescribes,
   WriteDescribes, AdaptDescribes, EndDescribes, DescRests DEF PlanNext, Dispatch, PlanRest

-----------------------------------------------------------------------------
(* What it means.                                                          *)

LEMMA MapsAreBijections == PlanInv => MapIsBijection
<1> SUFFICES ASSUME PlanInv, stage \in {"validate", "assign", "open", "dispatch"}, NEW l \in Layers
             PROVE  LET new == map.layers[l].new
                        kept == {e \in Experts : new[e] # None}
                    IN  /\ {new[e] : e \in kept} = 0 .. map.count - 1
                        /\ Cardinality(kept) = map.count
                        /\ map.layers[l].pruned = Experts \ kept
  BY DEF MapIsBijection
<1>1. PICK entry, r : entry = map.layers[l] /\ r = entry.retained
  OBVIOUS
<1>2. /\ LayerAccepted(entry, map.count) /\ r \in Seq(Int) /\ map.count \in Nat
      /\ Cardinality(Elements(r)) = map.count /\ Len(r) = map.count
  BY <1>1, KeptInLayer DEF PlanInv, MapGood
<1>3. None \notin Int
  BY JobsAreSound DEF PlanInv
<1>4. DOMAIN r = 1 .. map.count
  BY <1>2
<1> DEFINE kept == {e \in Experts : entry.new[e] # None}
<1>5. ASSUME NEW i \in 1 .. map.count PROVE r[i] \in kept /\ entry.new[r[i]] = i - 1
  <2>1. r[i] \in Experts /\ entry.new[r[i]] = i - 1
    BY <1>1, <1>2, <1>4 DEF LayerAccepted, Elements
  <2> QED
    BY <1>3, <2>1
<1>6. ASSUME NEW e \in kept
      PROVE  e \in Elements(r) /\ entry.new[e] \in 0 .. map.count - 1
  <2>1. e \in Experts /\ entry.new[e] # None
    OBVIOUS
  <2>2. entry.new[e] \in Int /\ entry.new[e] + 1 \in DOMAIN r /\ e \in Elements(r)
    BY <1>1, <1>2, <1>3, <2>1, NewIds
  <2> QED
    BY <1>2, <1>4, <2>2
<1>7. kept = Elements(r)
  BY <1>4, <1>5, <1>6 DEF Elements
<1>8. {entry.new[e] : e \in kept} = 0 .. map.count - 1
  <2>1. ASSUME NEW k \in 0 .. map.count - 1 PROVE \E e \in kept : entry.new[e] = k
    <3>1. k + 1 \in 1 .. map.count /\ (k + 1) - 1 = k
      BY <1>2
    <3> HIDE DEF kept
    <3> QED
      BY <1>5, <3>1
  <2> HIDE DEF kept
  <2> QED
    BY <1>6, <2>1
<1>9. entry.pruned = Experts \ kept
  BY <1>1, <1>2, <1>7 DEF LayerAccepted
<1> QED
  BY <1>1, <1>2, <1>7, <1>8, <1>9

LEMMA DerivedMapsAccepted == PlanInv /\ DescInv => DerivedMapAccepted
<1> SUFFICES ASSUME PlanInv, DescInv, stage = "load", given = None
             PROVE  /\ MapAccepted(map)
                    /\ SelectionAccepted(CandidateBlock(map))
                    /\ Selected(CandidateBlock(map)) = Selected(selection)
  BY DEF DerivedMapAccepted
<1>1. /\ SelectionAccepted(selection)
      /\ map = PruneMapOf(source.tensors, Selected(selection))
  BY DEF DescInv, Derives, Refusals
<1>2. ListedSelection(selection)
  BY JobsAreSound DEF PlanInv, WellFormed, ListedSelection, selection
<1>3. SelectsAgain(PruneMapOf(source.tensors, Selected(selection)), selection)
  BY <1>1, <1>2, DerivedIsAccepted
<1> QED
  BY <1>1, <1>3 DEF SelectsAgain

LEMMA ConfigsDescribe == PlanInv /\ ClosedInv /\ DescInv => ConfigDescribes
<1> SUFFICES ASSUME PlanInv, ClosedInv, DescInv, stage = "built", config # None
             PROVE  ConfigDescribes
  BY DEF ConfigDescribes
<1>1. /\ out = [n \in DOMAIN planned |-> Content(planned[n])] /\ ConfigAgrees
      /\ source.config # None /\ config = Adapted(source.config)
  BY DEF DescInv, Shown
<1>2. /\ DOMAIN out = DOMAIN planned
      /\ \A n \in DOMAIN planned : /\ out[n].src = planned[n].src /\ out[n].rows = planned[n].rows
                                   /\ out[n].action = planned[n].action
  BY <1>1 DEF Content
<1>3. ASSUME NEW l \in Layers, NEW p \in Projections, NEW i \in 0 .. config.routed - 1,
             NEW t \in Parts
      PROVE  \E e \in Elements(Retained[l]) :
               /\ ExpertTensor(l, i, p, t) \in DOMAIN out
               /\ out[ExpertTensor(l, i, p, t)].src.expert = e
  <2>1. i \in WrittenIds(l, p)
    BY <1>1 DEF ConfigAgrees
  <2>2. PICK n \in DOMAIN planned :
          n.kind = "expert" /\ n.layer = l /\ n.proj = p /\ n.part = "weight" /\ n.expert = i
    BY <2>1 DEF WrittenIds
  <2>3. /\ n = TensorName(n.kind, n.layer, n.expert, n.proj, n.part)
        /\ ScaleOf(n) \in DOMAIN planned
    BY <2>2 DEF DescInv, MadeFrom, Beside
  <2>4. n = ExpertTensor(l, i, p, "weight") /\ ScaleOf(n) = ExpertTensor(l, i, p, "scale")
    BY <2>2, <2>3 DEF ExpertTensor, TensorName, ScaleOf
  <2>5. PICK m : m = ExpertTensor(l, i, p, t)
    OBVIOUS
  <2>6. m \in DOMAIN planned
    BY <2>2, <2>3, <2>4, <2>5 DEF Parts
  <2>7. ExpertOutput(m) /\ m.layer = l
    BY <2>5, <2>6 DEF ExpertOutput, ExpertTensor, TensorName
  <2>8. planned[m].src.expert \in Elements(Retained[l])
    BY <2>7, PlacedIsKept
  <2> QED
    BY <1>2, <2>5, <2>6, <2>8
<1>4. ASSUME NEW n \in DOMAIN out, n.kind = "router" PROVE Len(out[n].rows) = config.routed
  <2>1. planned[n].action = "slice"
    BY <1>2, <1>4 DEF DescInv, MadeFrom
  <2> QED
    BY <1>1, <1>2, <2>1 DEF ConfigAgrees
<1>5. config.topK # None => config.topK <= config.routed
  BY <1>1 DEF ConfigAgrees
<1>6. ASSUME config.store = "mxfp4", NEW n \in DOMAIN out, n.kind = "expert"
      PROVE  out[n].action = "copy"
  <2>1. DOMAIN source.config = {"routed", "topK", "store"}
    BY <1>1, JobsAreSound DEF PlanInv, WellFormed, SourceListed, source
  <2>2. config.store = IF source.config.store = "mxfp4" /\ \E m \in Reencoded : m.kind = "expert"
                         THEN "second_gen_affine" ELSE source.config.store
    BY <1>1, <2>1 DEF Adapted
  <2>3. n \notin Reencoded
    BY <1>6, <2>2
  <2>4. planned[n].action \notin Encodings /\ planned[n].action \in Actions
    BY <1>2, <2>3 DEF Reencoded, ClosedInv, Books, Charged
  <2>5. planned[n].action # "slice"
    BY <1>2, <1>6 DEF DescInv, MadeFrom
  <2> QED
    BY <1>2, <2>4, <2>5 DEF Actions, Encodings
<1> QED
  BY <1>3, <1>4, <1>5, <1>6 DEF ConfigDescribes

LEMMA ClassesFinite == IsFiniteSet(Classes)
<1> DEFINE s == <<"experts_native", "experts_second_gen", "router", "attention_qkv",
                  "attention_qkv_scales", "attention_o_proj", "attention_sinks", "dense_ffn",
                  "dense_ffn_scales", "embeddings_lm_head", "norms">>
           f == [i \in 1 .. 11 |-> s[i]]
<1>1. \A i \in 1 .. 11 : s[i] \in Classes
  BY DEF Classes
<1>2. \A c \in Classes : \E i \in 1 .. 11 : s[i] = c
  BY DEF Classes
<1> HIDE DEF s
<1>3. f \in Surjection(1 .. 11, Classes)
  BY <1>1, <1>2 DEF Surjection
<1>4. IsFiniteSet(1 .. 11)
  <2>1. 1 \in Int /\ 11 \in Int
    OBVIOUS
  <2> QED
    BY <2>1, FS_Interval
<1> HIDE DEF f
<1> QED
  BY <1>3, <1>4, FS_Surjection

\* Outputs that count, and the tensors a map counts.
Counted == {n \in DOMAIN planned : planned[n].cls # None}
Untampered(inv) == TextNames(inv) \cap Untouched(inv)
Stack(inv, chosen) == Kept(inv, chosen) \cup Untampered(inv) \cup RouterNames(inv)
BytesAfter(inv, chosen, t) ==
  IF t \in RouterNames(inv) THEN SlicedRouters(inv, chosen)[t] ELSE inv[t].bytes

LEMMA TextIsCounted ==
  ASSUME ClosedInv
  PROVE  TextBytes = SumFunctionOnSet([n \in DOMAIN planned |-> planned[n].bytes], Counted)
<1> DEFINE w == [n \in DOMAIN planned |-> planned[n].bytes]
           k == [n \in DOMAIN planned |-> planned[n].cls]
<1>1. /\ IsFiniteSet(DOMAIN planned) /\ \A n \in DOMAIN planned : Charged(planned[n])
      /\ bytes \in [Classes -> Nat] /\ \A c \in Classes : bytes[c] = BytesIn(planned, c)
  BY DEF ClosedInv, Books, Types
<1>2. IsFiniteSet(Counted)
  BY <1>1, FS_Subset DEF Counted
<1>3. None \notin Classes
  BY JobsAssumption
<1>4. \A n \in Counted : k[n] \in Classes /\ w[n] \in Int
  BY <1>1 DEF Counted, Charged
<1>5. ASSUME NEW c \in Classes PROVE bytes[c] = SumFunctionOnSet(w, OfClass(k, Counted, c))
  <2>1. OfClass(k, Counted, c) = {n \in DOMAIN planned : planned[n].cls = c}
    BY <1>3 DEF OfClass, Counted
  <2> QED
    BY <1>1, <2>1 DEF BytesIn
<1>6. TextBytes = SumFunctionOnSet(bytes, Classes)
  BY <1>1 DEF TextBytes, Total, SumFunction
<1> HIDE DEF w, k
<1>7. SumFunctionOnSet(bytes, Classes) = SumFunctionOnSet(w, Counted)
  BY <1>2, <1>4, <1>5, ClassesFinite, SumByClass
<1> QED
  BY <1>6, <1>7 DEF w

\* What a map derived from a selection says of a survivor.
LEMMA DerivedSurvivors ==
  ASSUME PlanInv, DescInv, given = None, stage \notin {"prepare"} \cup Refusals,
         NEW t, t.layer \in Layers, t.expert \in Experts
  PROVE  /\ DOMAIN map.layers = Layers
         /\ Survives(t) <=> t.expert \in Elements(Selected(selection)[t.layer])
<1>1. /\ SelectionAccepted(selection)
      /\ map = PruneMapOf(source.tensors, Selected(selection))
  BY DEF DescInv, Derives
<1>2. ListedSelection(selection)
  BY JobsAreSound DEF PlanInv, WellFormed, ListedSelection, selection
<1>3. PICK r : r = Selected(selection)[t.layer]
  OBVIOUS
<1>4. r \in Seq(Int) /\ Distinct(r)
  BY <1>1, <1>2, <1>3, SelectedLists DEF KeptList
<1>5. DOMAIN map.layers = Layers /\ map.layers[t.layer] = LayerEntry(source.tensors, t.layer, r)
  BY <1>1, <1>3 DEF PruneMapOf
<1>6. NewId(t.layer, t.expert) = Renumbered(r)[t.expert]
  BY <1>5 DEF NewId, LayerEntry
<1>7. NewId(t.layer, t.expert) = IF t.expert \in Elements(r) THEN Position(r, t.expert) ELSE None
  BY <1>6 DEF Renumbered
<1>8. t.expert \in Elements(r) => Position(r, t.expert) # None
  BY <1>4, Repeatless, JobsAreSound DEF PlanInv
<1> QED
  BY <1>3, <1>5, <1>7, <1>8 DEF Survives, InMap

\* The outputs of a build that re-encodes nothing are the tensors the map counts,
\* one to one and byte for byte.
LEMMA OutputsAreStack ==
  ASSUME PlanInv, ClosedInv, DescInv, Writing, given = None, \A n \in DOMAIN planned : n \notin Reencoded,
         NEW n \in Counted
  PROVE  /\ planned[n].src \in Stack(source.tensors, Selected(selection))
         /\ planned[n].bytes \in Int
         /\ planned[n].bytes = BytesAfter(source.tensors, Selected(selection), planned[n].src)
         /\ n = NameOf(planned[n].src)
<1>1. PICK t, p, inv, chosen : /\ t = planned[n].src /\ p = planned[n] /\ inv = source.tensors
                               /\ chosen = Selected(selection)
  OBVIOUS
<1>2. /\ p.action \in {"copy", "slice"} /\ p.bytes \in Int
  BY <1>1 DEF Counted, Reencoded, ClosedInv, Books, Charged, Actions, Encodings
<1>3. /\ t \in RootTensors
      /\ t.kind = "expert" => Survives(t)
      /\ t.kind = "router" <=> p.action = "slice"
      /\ n = NameOf(t)
      /\ p.action = "copy" => p.bytes = source.header[t].bytes
      /\ p.action = "slice" => t.layer \in Layers /\ p.bytes = map.layers[t.layer].router[t.part]
      /\ t.kind = "text" => inv[t].component = "text"
  BY <1>1, <1>2 DEF DescInv, MadeFrom, Counted, Encodings
<1>4. t \in DOMAIN inv /\ RecordSound(t, inv[t]) /\ source.header[t].bytes = inv[t].bytes
  BY <1>1, <1>3, JobsAreSound
     DEF PlanInv, WellFormed, SourceListed, RootTensors, source, DescInv, HeadersAgree, SameOnDisk
<1>5. stage \notin {"prepare"} \cup Refusals
  BY DEF Writing, Refusals
<1>6. Structured(inv) /\ map = PruneMapOf(inv, chosen)
  BY <1>1, <1>5 DEF DescInv, Derives
<1>7. CASE t.kind = "expert"
  <2>1. t.layer \in Layers /\ t.expert \in Experts
    BY <1>3, <1>6, <1>7 DEF Survives, InMap, PruneMapOf
  <2>2. t = ExpertTensor(t.layer, t.expert, t.proj, t.part) /\ t.proj \in Projections /\ t.part \in Parts
    BY <1>4, <1>7 DEF RecordSound, ExpertTensor
  <2>3. t \in ExpertNames(inv)
    BY <1>6, <2>1, <2>2 DEF Structured, Complete
  <2>4. t \in Kept(inv, chosen)
    BY <1>1, <1>3, <1>5, <1>7, <2>1, <2>3, DerivedSurvivors DEF Kept
  <2>5. p.bytes = BytesAfter(inv, chosen, t)
    BY <1>2, <1>3, <1>4, <1>7 DEF BytesAfter, RouterNames
  <2> QED
    BY <1>1, <1>2, <1>3, <2>4, <2>5 DEF Stack
<1>8. CASE t.kind = "router"
  <2>1. t = RouterTensor(t.layer, t.part) /\ t.part \in RouterParts /\ t.layer \in Layers
    BY <1>3, <1>4, <1>8 DEF RecordSound
  <2>2. t \in RouterNames(inv)
    BY <1>6, <2>1 DEF Structured, Complete
  <2>3. p.bytes = PostRemapBytes(inv[t], Len(chosen[t.layer]))
    <3>1. map.layers[t.layer] = LayerEntry(inv, t.layer, chosen[t.layer])
      BY <1>6, <2>1 DEF PruneMapOf
    <3>2. map.layers[t.layer].router[t.part]
            = PostRemapBytes(inv[RouterTensor(t.layer, t.part)], Len(chosen[t.layer]))
      BY <2>1, <3>1 DEF LayerEntry
    <3> QED
      BY <1>3, <1>8, <2>1, <3>2
  <2>4. p.bytes = BytesAfter(inv, chosen, t)
    BY <2>2, <2>3 DEF BytesAfter, SlicedRouters
  <2> QED
    BY <1>1, <1>2, <1>3, <2>2, <2>4 DEF Stack
<1>9. CASE t.kind = "text"
  <2>1. t \in TextNames(inv) /\ t \notin ExpertNames(inv) /\ t \notin RouterNames(inv)
    BY <1>3, <1>4, <1>9 DEF TextNames, TextMain, ExpertNames, RouterNames
  <2>2. t \in Untampered(inv)
    BY <1>4, <2>1 DEF Untampered, Untouched
  <2>3. p.bytes = BytesAfter(inv, chosen, t)
    BY <1>2, <1>3, <1>4, <1>9, <2>1 DEF BytesAfter
  <2> QED
    BY <1>1, <1>2, <1>3, <2>2, <2>3 DEF Stack
<1> QED
  BY <1>4, <1>7, <1>8, <1>9 DEF RecordSound

LEMMA StackIsPlanned ==
  ASSUME PlanInv, ClosedInv, DescInv, Writing, given = None, \A n \in DOMAIN planned : n \notin Reencoded,
         NEW t \in Stack(source.tensors, Selected(selection))
  PROVE  \E n \in Counted : planned[n].src = t
<1>1. PICK inv, chosen : inv = source.tensors /\ chosen = Selected(selection)
  OBVIOUS
<1>2. t \in TextNames(inv)
  BY <1>1 DEF Stack, Kept, Untampered, ExpertNames, RouterNames
<1>3. t \in DOMAIN inv /\ TextMain(inv[t])
  BY <1>2 DEF TextNames
<1>4. inv[t].component = "text"
  <2>1. RecordSound(t, inv[t])
    BY <1>1, <1>3, JobsAreSound DEF PlanInv, WellFormed, SourceListed, source
  <2> QED
    BY <1>3, <2>1 DEF TextMain, RecordSound, Components
<1>5. stage \notin {"prepare"} \cup Refusals
  BY DEF Writing, Refusals
<1>6. ASSUME t.kind = "expert" PROVE Survives(t)
  <2>1. t \in ExpertNames(inv)
    BY <1>2, <1>6 DEF ExpertNames
  <2>2. t \in Kept(inv, chosen)
    BY <1>1, <1>6, <2>1 DEF Stack, Untampered, Untouched, RouterNames
  <2>3. Structured(inv)
    BY <1>1, <1>5 DEF DescInv, Derives
  <2>4. t.layer \in Layers /\ t.expert \in Experts
    BY <2>1, <2>3 DEF Structured, Complete, ExpertTensor, TensorName
  <2>5. t.expert \in Elements(chosen[t.layer])
    BY <2>2 DEF Kept
  <2> QED
    BY <1>1, <1>5, <2>4, <2>5, DerivedSurvivors
<1>7. \E m \in DOMAIN planned : planned[m].src = t
  BY <1>1, <1>3, <1>4, <1>6 DEF ClosedInv, NothingLost, Reencoded
<1>8. PICK m \in DOMAIN planned : planned[m].src = t
  BY <1>7
<1>9. planned[m].cls # None
  BY <1>1, <1>4, <1>8 DEF DescInv, MadeFrom
<1> QED
  BY <1>8, <1>9 DEF Counted

LEMMA MapsPredict == PlanInv /\ ClosedInv /\ DescInv => MapPredictsBuild
<1> SUFFICES ASSUME PlanInv, ClosedInv, DescInv, Writing, given = None,
                    \A n \in DOMAIN planned : n \notin Reencoded
             PROVE  map.text = TextBytes
  BY DEF MapPredictsBuild
<1>1. PICK inv, chosen : inv = source.tensors /\ chosen = Selected(selection)
  OBVIOUS
<1>2. PICK K, U, R, T : /\ K = Kept(inv, chosen) /\ U = Untampered(inv) /\ R = RouterNames(inv)
                        /\ T = Stack(inv, chosen)
  OBVIOUS
<1> DEFINE w == [n \in DOMAIN planned |-> planned[n].bytes]
           h == [n \in DOMAIN planned |-> planned[n].src]
           v == [t \in T |-> BytesAfter(inv, chosen, t)]
<1>3. IsFiniteSet(Counted)
  BY FS_Subset DEF Counted, ClosedInv, Books
<1>4. \A n \in Counted : h[n] \in T /\ w[n] \in Int /\ w[n] = v[h[n]] /\ n = NameOf(h[n])
  BY <1>1, <1>2, OutputsAreStack DEF Counted
<1>5. \A t \in T : \E n \in Counted : h[n] = t
  BY <1>1, <1>2, StackIsPlanned DEF Counted
<1>6. \A t \in T : v[t] \in Int
  <2> HIDE DEF w, h, v
  <2> QED
    BY <1>4, <1>5
<1>7. Matches(h, Counted, T)
  <2> HIDE DEF w, h, v
  <2> QED
    BY <1>4, <1>5 DEF Matches
<1>8. SumFunctionOnSet(w, Counted) = SumFunctionOnSet(v, T) /\ IsFiniteSet(T)
  <2> HIDE DEF w, h, v
  <2> QED
    BY <1>3, <1>4, <1>7, SumMatched
<1>9. /\ T = K \cup (U \cup R) /\ K \in SUBSET T /\ T \ K = U \cup R /\ U \in SUBSET (U \cup R)
      /\ (U \cup R) \ U = R
  BY <1>2 DEF Stack, Kept, Untampered, Untouched, ExpertNames, RouterNames
<1>10. /\ \A t \in K \cup U : v[t] = inv[t].bytes
       /\ \A t \in R : v[t] = SlicedRouters(inv, chosen)[t]
  BY <1>2, <1>9 DEF BytesAfter, Kept, Untampered, Untouched, ExpertNames, RouterNames
<1>11. IsFiniteSet(K) /\ IsFiniteSet(U \cup R) /\ IsFiniteSet(U) /\ IsFiniteSet(R)
  BY <1>8, <1>9, FS_Subset
<1>12. SumFunctionOnSet(v, T)
         = SumFunctionOnSet(v, K) + (SumFunctionOnSet(v, U) + SumFunctionOnSet(v, R))
  <2> HIDE DEF v
  <2>1. SumFunctionOnSet(v, T) = SumFunctionOnSet(v, K) + SumFunctionOnSet(v, T \ K)
    BY <1>6, <1>8, <1>9, SumOfUnion
  <2>2. \A t \in U \cup R : v[t] \in Int
    BY <1>6, <1>9
  <2>3. SumFunctionOnSet(v, U \cup R) = SumFunctionOnSet(v, U) + SumFunctionOnSet(v, (U \cup R) \ U)
    BY <1>9, <1>11, <2>2, SumOfUnion
  <2> QED
    BY <1>9, <2>1, <2>3
<1> DEFINE b == [n \in DOMAIN inv |-> inv[n].bytes]
<1>13. SumFunctionOnSet(v, K) = BytesOf(inv, K) /\ SumFunctionOnSet(v, U) = BytesOf(inv, U)
  <2>1. \A t \in K \cup U : v[t] = b[t]
    BY <1>2, <1>10 DEF Kept, Untampered, TextNames, ExpertNames
  <2> HIDE DEF v, b
  <2>2. SumFunctionOnSet(v, K) = SumFunctionOnSet(b, K) /\ SumFunctionOnSet(v, U) = SumFunctionOnSet(b, U)
    BY <1>11, <2>1, SumSame
  <2> QED
    BY <2>2 DEF BytesOf, b
<1>14. PICK routers : routers = SlicedRouters(inv, chosen)
  OBVIOUS
<1>15. DOMAIN routers = R
  BY <1>2, <1>14 DEF SlicedRouters
<1>16. SumFunctionOnSet(v, R) = SumFunction(routers)
  <2> HIDE DEF v
  <2>1. SumFunctionOnSet(v, R) = SumFunctionOnSet(routers, R)
    BY <1>10, <1>11, <1>14, SumSame
  <2> QED
    BY <1>15, <2>1 DEF SumFunction
<1>17. \A t \in DOMAIN routers : routers[t] # None
  <2> HIDE DEF v
  <2> QED
    BY <1>6, <1>9, <1>10, <1>14, <1>15, JobsAssumption
<1>18. TextBytesAfter(inv, chosen) = BytesOf(inv, K) + BytesOf(inv, U) + SumFunction(routers)
  BY <1>2, <1>14, <1>17 DEF TextBytesAfter, Untampered
<1>19. map.text = TextBytesAfter(inv, chosen)
  BY <1>1 DEF DescInv, Derives, PruneMapOf, Writing, Refusals
<1>20. SumFunctionOnSet(v, K) \in Int /\ SumFunctionOnSet(v, U) \in Int /\ SumFunctionOnSet(v, R) \in Int
  <2> HIDE DEF v
  <2> QED
    BY <1>6, <1>9, <1>11, SumIsInteger
<1>21. TextBytes = SumFunctionOnSet(w, Counted)
  BY TextIsCounted
<1> HIDE DEF w, v, b
<1> QED
  BY <1>8, <1>12, <1>13, <1>16, <1>18, <1>19, <1>20, <1>21

\* The documents describe the weights: a map derived from a selection is one the
\* builder accepts and stands for that selection again; it predicts the bytes of a
\* build that encodes nothing again; a map that is read renumbers the survivors
\* without gaps; the config of a built candidate describes what was written
\* (build_prune_map, _adapt_config, _verify_output_config).
THEOREM DescriptionsHold == PlanSpec => []DescriptionsAgree
<1>1. PlanInit => PlanInv /\ ClosedInv /\ DescInv
  BY PlanStarts, ClosedStarts, DescStarts
<1>2. PlanInv /\ ClosedInv /\ DescInv /\ [PlanNext]_planVars => (PlanInv /\ ClosedInv /\ DescInv)'
  BY PlanStep, ClosedStep, DescStep
<1>3. PlanInv /\ ClosedInv /\ DescInv => DescriptionsAgree
  BY ConfigsDescribe, DerivedMapsAccepted, MapsPredict, MapsAreBijections DEF DescriptionsAgree
<1> QED
  BY <1>1, <1>2, <1>3, PTL DEF PlanSpec

-----------------------------------------------------------------------------
(* The published map: who writes the file, and who stands on it.           *)

\* A file is in somebody's hands only while it is written.
WriterOfPart == file.by # Nobody => ~file.whole

Past == {"recheck", "load", "shards", "carry", "built"}
Read == {"shards", "carry", "built"}

WriterFills(b) == /\ file.by = b => file.text = Choice[b] /\ builder[b].at = "fill"
                  /\ builder[b].at = "fill" => file.by = b
StandsOnOwn(b) == builder[b].at \in Past => file = Whole(Choice[b])
UsesOwn(b) == /\ builder[b].used \in {NoText, Choice[b]}
              /\ builder[b].at \in Read => builder[b].used = Choice[b]
CarriesOwn(b) == builder[b].at = "built" => builder[b].carried = Choice[b]

LeftAlone ==
  edits = 0 => \A b \in Builders : WriterFills(b) /\ StandsOnOwn(b) /\ UsesOwn(b) /\ CarriesOwn(b)

PubInv == PubTypeOK /\ WriterOfPart /\ LeftAlone

-----------------------------------------------------------------------------
\* What the start leaves behind: a whole file or none, and fresh builders.
LEMMA FreshStart ==
  ASSUME PubInit
  PROVE  /\ file \in Files /\ file.by = Nobody
         /\ \A b \in Builders : builder[b] = Fresh
         /\ builder = [b \in Builders |-> Fresh]
         /\ busy = FALSE /\ kills = 0 /\ edits = 0 /\ retries = 0
<1>1. file \in {NoMap} \cup {Whole(t) : t \in Texts}
  BY DEF PubInit
<1>2. file \in Files /\ file.by = Nobody
  <2>1. CASE file = NoMap
    BY <2>1 DEF NoMap, Files
  <2>2. ASSUME NEW t \in Texts, file = Whole(t)
        PROVE  file \in Files /\ file.by = Nobody
    BY <2>2 DEF Whole, Files
  <2> QED BY <1>1, <2>1, <2>2
<1>3. builder = [b \in Builders |-> Fresh]
  BY DEF PubInit
<1>4. \A b \in Builders : builder[b] = Fresh
  BY <1>3
<1> QED BY <1>2, <1>3, <1>4 DEF PubInit

LEMMA PubStarts == PubInit => PubInv
<1> SUFFICES ASSUME PubInit PROVE PubInv
  OBVIOUS
<1>1. Fresh \in [at : Steps, used : Texts \cup {NoText}, carried : Texts \cup {NoText}]
  BY DEF Fresh, Steps
<1>2. PubTypeOK
  BY <1>1, FreshStart, BoundsAssumption DEF PubTypeOK
<1>3. WriterOfPart
  BY FreshStart DEF WriterOfPart
<1>4. LeftAlone
  <2> SUFFICES ASSUME NEW b \in Builders
               PROVE  WriterFills(b) /\ StandsOnOwn(b) /\ UsesOwn(b) /\ CarriesOwn(b)
    BY DEF LeftAlone
  <2>1. file.by # b /\ builder[b].at = "start" /\ builder[b].used = NoText
    BY FreshStart, NobodyAssumption DEF Fresh
  <2> QED BY <2>1 DEF WriterFills, StandsOnOwn, UsesOwn, CarriesOwn, Past, Read
<1> QED BY <1>2, <1>3, <1>4 DEF PubInv

-----------------------------------------------------------------------------
\* A step of one builder, or nothing.
LEMMA PubTypeStep == PubTypeOK /\ [PubNext]_pubVars => PubTypeOK'
<1> SUFFICES ASSUME PubTypeOK, [PubNext]_pubVars PROVE PubTypeOK'
  OBVIOUS
<1> USE DEF PubTypeOK, Files
<1>a. /\ NoMap \in Files
      /\ \A t \in Texts : Whole(t) \in Files
      /\ Fresh \in [at : Steps, used : Texts \cup {NoText}, carried : Texts \cup {NoText}]
  BY DEF NoMap, Whole, Fresh, Steps
<1>b. \A b \in Builders : Choice[b] \in Texts
  BY ChoiceAssumption
<1>c. ASSUME NEW b \in Builders, NEW step \in Steps, Go(b, step)
      PROVE  builder' \in [Builders -> [at : Steps, used : Texts \cup {NoText},
                                        carried : Texts \cup {NoText}]]
  BY <1>c DEF Go
<1>1. CASE UNCHANGED pubVars
  BY <1>1 DEF pubVars
<1>2. ASSUME NEW b \in Builders, Preflight(b) \/ Exists(b) \/ Compare(b) \/ Recheck(b)
      PROVE  PubTypeOK'
  <2>1. \E step \in Steps : Go(b, step)
    BY <1>2 DEF Preflight, Exists, Compare, Recheck, Steps, Running
  <2>2. UNCHANGED <<file, busy, kills, edits, retries>>
    BY <1>2 DEF Preflight, Exists, Compare, Recheck, Quiet
  <2> QED BY <2>1, <2>2, <1>c
<1>3. ASSUME NEW b \in Builders, CreateMap(b)
      PROVE  PubTypeOK'
  <2>1. \E step \in Steps : Go(b, step)
    BY <1>3 DEF CreateMap, Steps, Running
  <2>2. file' = file \/ file' = [text |-> Choice[b], whole |-> FALSE, by |-> b]
    BY <1>3 DEF CreateMap
  <2>3. [text |-> Choice[b], whole |-> FALSE, by |-> b] \in Files
    BY <1>b
  <2> QED BY <2>1, <2>2, <2>3, <1>c, <1>3 DEF CreateMap, Quiet
<1>4. ASSUME NEW b \in Builders, Fill(b)
      PROVE  PubTypeOK'
  <2>1. Go(b, "recheck") /\ "recheck" \in Steps
    BY <1>4 DEF Fill, Steps, Running
  <2>2. file' \in Files
    BY <1>4, <1>a, <1>b DEF Fill
  <2> QED BY <2>1, <2>2, <1>c, <1>4 DEF Fill, Quiet
<1>5. ASSUME NEW b \in Builders, Shards(b)
      PROVE  PubTypeOK'
  <2>1. Go(b, "carry") /\ "carry" \in Steps
    BY <1>5 DEF Shards, Steps, Running
  <2> QED BY <2>1, <1>c, <1>5 DEF Shards, Quiet
<1>6. ASSUME NEW b \in Builders, ReadMap(b)
      PROVE  PubTypeOK'
  <2>1. builder' \in [Builders -> [at : Steps, used : Texts \cup {NoText},
                                   carried : Texts \cup {NoText}]]
    BY <1>6 DEF ReadMap, Steps, Running
  <2> QED BY <2>1, <1>6 DEF ReadMap, Quiet
<1>7. ASSUME NEW b \in Builders, Carry(b)
      PROVE  PubTypeOK'
  <2>1. builder' \in [Builders -> [at : Steps, used : Texts \cup {NoText},
                                   carried : Texts \cup {NoText}]]
    BY <1>7 DEF Carry, Steps, Running
  <2> QED BY <2>1, <1>7 DEF Carry, Quiet
<1>8. ASSUME NEW b \in Builders, Kill(b)
      PROVE  PubTypeOK'
  <2>1. Go(b, "killed") /\ "killed" \in Steps
    BY <1>8 DEF Kill, Steps
  <2>2. file' \in Files
    BY <1>8 DEF Kill
  <2>3. kills' \in 0 .. MaxKills
    BY <1>8, BoundsAssumption DEF Kill
  <2> QED BY <2>1, <2>2, <2>3, <1>c, <1>8 DEF Kill
<1>9. ASSUME NEW b \in Builders, Retry(b)
      PROVE  PubTypeOK'
  <2>1. builder' \in [Builders -> [at : Steps, used : Texts \cup {NoText},
                                   carried : Texts \cup {NoText}]]
    BY <1>9, <1>a DEF Retry
  <2>2. retries' \in 0 .. MaxRetries
    BY <1>9, BoundsAssumption DEF Retry
  <2> QED BY <2>1, <2>2, <1>9 DEF Retry
<1>10. CASE Edit
  <2>1. file' \in Files
    BY <1>10, <1>a DEF Edit
  <2>2. edits' \in 0 .. MaxEdits
    BY <1>10, BoundsAssumption DEF Edit
  <2> QED BY <2>1, <2>2, <1>10 DEF Edit
<1> QED BY <1>1, <1>2, <1>3, <1>4, <1>5, <1>6, <1>7, <1>8, <1>9, <1>10
        DEF PubNext, BuilderStep, PubRest

LEMMA WriterStep == PubTypeOK /\ WriterOfPart /\ [PubNext]_pubVars => WriterOfPart'
<1> SUFFICES ASSUME PubTypeOK, WriterOfPart, [PubNext]_pubVars PROVE WriterOfPart'
  OBVIOUS
<1> USE DEF WriterOfPart
<1>1. CASE UNCHANGED file
  BY <1>1
<1>2. ASSUME NEW b \in Builders, CreateMap(b)
      PROVE  WriterOfPart'
  <2>1. file' = file \/ file' = [text |-> Choice[b], whole |-> FALSE, by |-> b]
    BY <1>2 DEF CreateMap
  <2> QED BY <2>1
<1>3. ASSUME NEW b \in Builders, Fill(b)
      PROVE  WriterOfPart'
  <2>1. file' = file \/ file' = Whole(Choice[b])
    BY <1>3 DEF Fill
  <2> QED BY <2>1 DEF Whole
<1>4. ASSUME NEW b \in Builders, Kill(b)
      PROVE  WriterOfPart'
  <2>1. file' = file \/ file' = [file EXCEPT !.by = Nobody]
    BY <1>4 DEF Kill
  <2> QED BY <2>1 DEF PubTypeOK, Files
<1>5. CASE Edit
  <2>1. file' = NoMap \/ \E t \in Texts : file' = Whole(t)
    BY <1>5 DEF Edit
  <2> QED BY <2>1 DEF NoMap, Whole
<1>6. ASSUME NEW b \in Builders,
             \/ Preflight(b) \/ Exists(b) \/ Compare(b) \/ Recheck(b) \/ ReadMap(b)
             \/ Shards(b) \/ Carry(b) \/ Retry(b)
      PROVE  UNCHANGED file
  BY <1>6 DEF Preflight, Exists, Compare, Recheck, ReadMap, Shards, Carry, Retry
<1> QED BY <1>1, <1>2, <1>3, <1>4, <1>5, <1>6 DEF PubNext, BuilderStep, PubRest, pubVars

\* One builder moves while another, x, stands still.
LEMMA OtherStands ==
  ASSUME PubTypeOK, NEW b \in Builders, NEW x \in Builders, x # b,
         BuilderStep(b) \/ Kill(b) \/ Retry(b)
  PROVE  builder'[x] = builder[x]
BY DEF PubTypeOK, BuilderStep, Preflight, Exists, Compare, CreateMap, Fill, Recheck, ReadMap, Shards,
       Carry, Kill, Retry, Go

\* What holds of one builder as long as nobody edits the file.
Own(x) == WriterFills(x) /\ StandsOnOwn(x) /\ UsesOwn(x) /\ CarriesOwn(x)

\* A step that leaves the file leaves what holds of the others.
LEMMA OthersKept ==
  ASSUME PubTypeOK, NEW b \in Builders, NEW x \in Builders, x # b,
         BuilderStep(b) \/ Kill(b) \/ Retry(b), Own(x), UNCHANGED file
  PROVE  Own(x)'
<1>1. builder'[x] = builder[x]
  BY OtherStands
<1> QED BY <1>1 DEF Own, WriterFills, StandsOnOwn, UsesOwn, CarriesOwn, Whole

\* A step of a builder to a place where nothing is asked of it.
LEMMA Aside ==
  ASSUME PubTypeOK, NEW b \in Builders, Own(b), NEW step \in Steps,
         Go(b, step), step \notin Past \cup {"fill"}, file' = file, file.by # b
  PROVE  Own(b)'
<1>1. builder'[b] = [builder[b] EXCEPT !.at = step]
  BY DEF Go, PubTypeOK
<1>2. builder'[b].at = step /\ builder'[b].used = builder[b].used
  BY <1>1 DEF PubTypeOK
<1> QED BY <1>2 DEF Own, WriterFills, StandsOnOwn, UsesOwn, CarriesOwn, Past, Read
\* Whoever is past the comparison stays there with the file and the map he uses.
LEMMA Onward ==
  ASSUME PubTypeOK, NEW b \in Builders, builder[b].at \in Past, Own(b),
         Recheck(b) \/ ReadMap(b) \/ Shards(b) \/ Carry(b)
  PROVE  Own(b)'
<1>1. file = Whole(Choice[b]) /\ file.by = Nobody /\ file.by # b /\ file # NoMap
  BY NobodyAssumption DEF Own, StandsOnOwn, Whole, NoMap
<1>2. CASE Recheck(b)
  <2>1. CASE busy
    <3>1. Go(b, "refused") /\ "refused" \in Steps /\ file' = file
      BY <1>2, <2>1 DEF Recheck, Steps
    <3> QED BY <1>1, <3>1, Aside DEF Past
  <2>2. CASE ~busy
    <3>1. builder'[b] = [builder[b] EXCEPT !.at = "load"] /\ file' = file
      BY <1>2, <2>2 DEF Recheck, Go, PubTypeOK
    <3>2. builder'[b].at = "load" /\ builder'[b].used = builder[b].used
      BY <3>1 DEF PubTypeOK
    <3> QED BY <1>1, <3>1, <3>2 DEF Own, WriterFills, StandsOnOwn, UsesOwn, CarriesOwn, Past, Read, Whole
  <2> QED BY <2>1, <2>2
<1>3. CASE ReadMap(b)
  <2>1. builder'[b] = [builder[b] EXCEPT !.at = "shards", !.used = file.text] /\ file' = file
    BY <1>1, <1>3 DEF ReadMap, PubTypeOK, Whole
  <2>2. builder'[b].at = "shards" /\ builder'[b].used = Choice[b]
    BY <1>1, <2>1 DEF PubTypeOK, Whole
  <2> QED BY <1>1, <2>1, <2>2 DEF Own, WriterFills, StandsOnOwn, UsesOwn, CarriesOwn, Past, Read, Whole
<1>4. CASE Shards(b)
  <2>1. builder'[b] = [builder[b] EXCEPT !.at = "carry"] /\ file' = file
    BY <1>4 DEF Shards, Go, PubTypeOK
  <2>2. builder'[b].at = "carry" /\ builder'[b].used = builder[b].used /\ builder[b].at = "shards"
    BY <1>4, <2>1 DEF PubTypeOK, Shards
  <2> QED BY <1>1, <2>1, <2>2 DEF Own, WriterFills, StandsOnOwn, UsesOwn, CarriesOwn, Past, Read, Whole
<1>5. CASE Carry(b)
  <2>1. builder'[b] = [builder[b] EXCEPT !.at = "built", !.carried = file.text] /\ file' = file
    BY <1>1, <1>5 DEF Carry, PubTypeOK
  <2>2. /\ builder'[b].at = "built" /\ builder'[b].carried = Choice[b]
        /\ builder'[b].used = builder[b].used /\ builder[b].at = "carry"
    BY <1>1, <1>5, <2>1 DEF PubTypeOK, Whole, Carry
  <2> QED BY <1>1, <2>1, <2>2 DEF Own, WriterFills, StandsOnOwn, UsesOwn, CarriesOwn, Past, Read, Whole
<1> QED BY <1>2, <1>3, <1>4, <1>5

LEMMA LeftAloneStep ==
  PubTypeOK /\ WriterOfPart /\ LeftAlone /\ [PubNext]_pubVars => LeftAlone'
<1> SUFFICES ASSUME PubTypeOK, WriterOfPart, LeftAlone, [PubNext]_pubVars, edits' = 0
             PROVE  \A x \in Builders : Own(x)'
  BY DEF LeftAlone, Own
<1>1. edits = 0 /\ ~Edit
  <2>1. ASSUME NEW b \in Builders, BuilderStep(b) \/ Kill(b) \/ Retry(b)
        PROVE  edits' = edits
    BY <2>1 DEF BuilderStep, Preflight, Exists, Compare, CreateMap, Fill, Recheck, ReadMap, Shards,
                Carry, Kill, Retry, Quiet
  <2>2. ~Edit
    BY DEF Edit, PubTypeOK
  <2> QED BY <2>1, <2>2 DEF PubNext, PubRest, pubVars
<1>2. \A x \in Builders : Own(x)
  BY <1>1 DEF LeftAlone, Own
<1>3. CASE UNCHANGED pubVars
  <2>1. file' = file /\ builder' = builder
    BY <1>3 DEF pubVars
  <2>2. ASSUME NEW x \in Builders
        PROVE  Own(x)'
    BY <1>2, <2>1 DEF Own, WriterFills, StandsOnOwn, UsesOwn, CarriesOwn, Whole
  <2> QED BY <2>2
<1>4. ASSUME NEW b \in Builders, builder[b].at # "fill"
      PROVE  file.by # b
  BY <1>2, <1>4 DEF Own, WriterFills
<1>5. ASSUME NEW b \in Builders, Preflight(b) \/ Exists(b)
      PROVE  \A x \in Builders : Own(x)'
  <2>1. PICK step \in Steps : Go(b, step) /\ step \notin Past \cup {"fill"}
    BY <1>5 DEF Preflight, Exists, Steps, Running, Past
  <2>2. file' = file /\ file.by # b
    BY <1>5, <1>4 DEF Preflight, Exists
  <2> QED BY <1>2, <1>5, <2>1, <2>2, Aside, OthersKept DEF BuilderStep
<1>6. ASSUME NEW b \in Builders, Compare(b)
      PROVE  \A x \in Builders : Own(x)'
  <2>1. file' = file /\ file.by # b
    BY <1>6, <1>4 DEF Compare
  <2>2. CASE ~Same(b)
    <3>1. Go(b, "refused") /\ "refused" \in Steps
      BY <1>6, <2>2 DEF Compare, Steps
    <3> QED BY <1>2, <1>6, <2>1, <3>1, Aside, OthersKept DEF BuilderStep, Past
  <2>3. CASE Same(b)
    <3>1. file = Whole(Choice[b])
      BY <2>3 DEF Same, WriterOfPart, PubTypeOK, Files, Whole
    <3>2. builder'[b] = [builder[b] EXCEPT !.at = "recheck"]
      BY <1>6, <2>3 DEF Compare, Go, PubTypeOK
    <3>3. builder'[b].at = "recheck" /\ builder'[b].used = builder[b].used
      BY <3>2 DEF PubTypeOK
    <3>4. Own(b)'
      BY <1>2, <2>1, <3>1, <3>3 DEF Own, WriterFills, StandsOnOwn, UsesOwn, CarriesOwn, Past, Read, Whole
    <3> QED BY <1>2, <1>6, <2>1, <3>4, OthersKept DEF BuilderStep
  <2> QED BY <2>2, <2>3
<1>7. ASSUME NEW b \in Builders, CreateMap(b)
      PROVE  \A x \in Builders : Own(x)'
  <2>1. CASE ~OpensNew(b)
    <3>1. Go(b, "compare") /\ "compare" \in Steps /\ file' = file /\ file.by # b
      BY <1>7, <2>1, <1>4 DEF CreateMap, Steps, Running
    <3> QED BY <1>2, <1>7, <3>1, Aside, OthersKept DEF BuilderStep, Past
  <2>2. CASE OpensNew(b)
    <3>1. /\ file.by = Nobody /\ ~file.whole
          /\ file' = [text |-> Choice[b], whole |-> FALSE, by |-> b]
          /\ builder'[b] = [builder[b] EXCEPT !.at = "fill"]
      BY <1>7, <2>2 DEF CreateMap, OpensNew, NoMap, Go, PubTypeOK
    <3>2. file'.by = b /\ file'.text = Choice[b]
      BY <3>1
    <3>3. builder'[b].at = "fill" /\ builder'[b].used = builder[b].used
      BY <3>1 DEF PubTypeOK
    <3>4. Own(b)'
      BY <1>2, <3>2, <3>3 DEF Own, WriterFills, StandsOnOwn, UsesOwn, CarriesOwn, Past, Read
    <3>5. ASSUME NEW x \in Builders, x # b
          PROVE  Own(x)'
      <4>1. builder'[x] = builder[x]
        BY <1>7, <3>5, OtherStands DEF BuilderStep
      <4>2. builder[x].at \notin Past /\ builder[x].at # "fill"
        BY <1>2, <3>1, NobodyAssumption DEF Own, WriterFills, StandsOnOwn, Whole
      <4> QED BY <1>2, <3>2, <3>5, <4>1, <4>2
              DEF Own, WriterFills, StandsOnOwn, UsesOwn, CarriesOwn, Past, Read
    <3> QED BY <3>4, <3>5
  <2> QED BY <2>1, <2>2
<1>8. ASSUME NEW b \in Builders, Fill(b)
      PROVE  \A x \in Builders : Own(x)'
  <2>1. file.by = b /\ file' = Whole(Choice[b]) /\ file'.by = Nobody
    BY <1>2, <1>8 DEF Fill, Own, WriterFills, Whole
  <2>2. builder'[b] = [builder[b] EXCEPT !.at = "recheck"]
    BY <1>8 DEF Fill, Go, PubTypeOK
  <2>3. builder'[b].at = "recheck" /\ builder'[b].used = builder[b].used
    BY <2>2 DEF PubTypeOK
  <2>4. Own(b)'
    BY <1>2, <2>1, <2>3, NobodyAssumption
       DEF Own, WriterFills, StandsOnOwn, UsesOwn, CarriesOwn, Past, Read, Whole
  <2>5. ASSUME NEW x \in Builders, x # b
        PROVE  Own(x)'
    <3>1. builder'[x] = builder[x]
      BY <1>8, <2>5, OtherStands DEF BuilderStep
    <3>2. builder[x].at \notin Past /\ builder[x].at # "fill"
      BY <1>2, <2>1, <2>5, NobodyAssumption DEF Own, WriterFills, StandsOnOwn, Whole
    <3> QED BY <1>2, <2>1, <3>1, <3>2, NobodyAssumption
            DEF Own, WriterFills, StandsOnOwn, UsesOwn, CarriesOwn, Past, Read
  <2> QED BY <2>4, <2>5
<1>9. ASSUME NEW b \in Builders, Recheck(b) \/ ReadMap(b) \/ Shards(b) \/ Carry(b)
      PROVE  \A x \in Builders : Own(x)'
  <2>1. builder[b].at \in Past /\ file' = file
    BY <1>9 DEF Recheck, ReadMap, Shards, Carry, Past
  <2> QED BY <1>2, <1>9, <2>1, Onward, OthersKept DEF BuilderStep
<1>10. ASSUME NEW b \in Builders, Kill(b)
       PROVE  \A x \in Builders : Own(x)'
  <2>1. Go(b, "killed") /\ "killed" \in Steps /\ "killed" \notin Past \cup {"fill"}
    BY <1>10 DEF Kill, Steps, Past
  <2>2. CASE file.by # b
    <3>1. file' = file
      BY <1>10, <2>2 DEF Kill
    <3> QED BY <1>2, <1>10, <2>1, <2>2, <3>1, Aside, OthersKept
  <2>3. CASE file.by = b
    <3>1. file'.by = Nobody
      BY <1>10, <2>3 DEF Kill, PubTypeOK, Files
    <3>2. builder'[b] = [builder[b] EXCEPT !.at = "killed"]
      BY <2>1 DEF Go, PubTypeOK
    <3>3. builder'[b].at = "killed" /\ builder'[b].used = builder[b].used
      BY <3>2 DEF PubTypeOK
    <3>4. Own(b)'
      BY <1>2, <3>1, <3>3, NobodyAssumption
         DEF Own, WriterFills, StandsOnOwn, UsesOwn, CarriesOwn, Past, Read
    <3>5. ASSUME NEW x \in Builders, x # b
          PROVE  Own(x)'
      <4>1. builder'[x] = builder[x]
        BY <1>10, <3>5, OtherStands
      <4>2. builder[x].at \notin Past /\ builder[x].at # "fill"
        BY <1>2, <2>3, <3>5, NobodyAssumption DEF Own, WriterFills, StandsOnOwn, Whole
      <4> QED BY <1>2, <3>1, <4>1, <4>2, NobodyAssumption
              DEF Own, WriterFills, StandsOnOwn, UsesOwn, CarriesOwn, Past, Read
    <3> QED BY <3>4, <3>5
  <2> QED BY <2>2, <2>3
<1>11. ASSUME NEW b \in Builders, Retry(b)
       PROVE  \A x \in Builders : Own(x)'
  <2>1. file' = file /\ file.by # b /\ builder'[b] = Fresh
    BY <1>11, <1>4 DEF Retry, PubTypeOK
  <2>2. Own(b)'
    BY <2>1 DEF Own, WriterFills, StandsOnOwn, UsesOwn, CarriesOwn, Past, Read, Fresh
  <2> QED BY <1>2, <1>11, <2>1, <2>2, OthersKept
<1> QED BY <1>1, <1>3, <1>5, <1>6, <1>7, <1>8, <1>9, <1>10, <1>11 DEF PubNext, BuilderStep, PubRest

-----------------------------------------------------------------------------
\* The inductive invariant, for any number of builders: while the operator leaves the file alone, a
\* builder that writes owns the file, and one past the comparison stands on a whole file with his own
\* map (_publish_map and _ensure_prune_map, then build_candidate's two reads of the path).
THEOREM PublicationInvariant == PubSpec => []PubInv
<1>1. PubInv /\ [PubNext]_pubVars => PubInv'
  BY PubTypeStep, WriterStep, LeftAloneStep DEF PubInv
<1> QED BY PubStarts, <1>1, PTL DEF PubSpec

\* Type correctness of the publication of a map.
THEOREM PublicationTypes == PubSpec => []PubTypeOK
<1>1. PubInv => PubTypeOK
  BY DEF PubInv
<1> QED BY <1>1, PublicationInvariant, PTL

\* Any number of builders may race for one map file, die and be run again: each uses the map of its
\* own selection (__main__.py:101-132).
THEOREM EachUsesOwnMap == PubSpec => []OwnMapUsed
<1>1. PubInv => OwnMapUsed
  BY DEF PubInv, LeftAlone, UsesOwn, OwnMapUsed
<1> QED BY <1>1, PublicationInvariant, PTL

\* The map in an artifact is the one its shards were built from (candidate.py:2361).
THEOREM ArtifactCarriesItsMap == PubSpec => []CarriedMapUsed
<1>1. PubInv => CarriedMapUsed
  BY DEF PubInv, LeftAlone, UsesOwn, CarriesOwn, Read, CarriedMapUsed
<1> QED BY <1>1, PublicationInvariant, PTL

\* A file that is there is only finished by whoever creates it (_publish_map).
THEOREM PublicationNeverClobbers == PubSpec => NeverClobbers
<1> DEFINE Step == (edits' = edits /\ file # NoMap /\ file' # file)
                     => \E b \in Builders : ~file.whole /\ file.by = b
<1>1. PubInv /\ [PubNext]_pubVars => [Step]_pubVars
  <2> SUFFICES ASSUME PubInv, [PubNext]_pubVars, edits' = edits, file # NoMap, file' # file
               PROVE  \E b \in Builders : ~file.whole /\ file.by = b
    OBVIOUS
  <2>1. ASSUME file.by \in Builders
        PROVE  \E b \in Builders : ~file.whole /\ file.by = b
    BY <2>1, NobodyAssumption DEF PubInv, WriterOfPart
  <2>2. ASSUME NEW b \in Builders, BuilderStep(b) \/ Kill(b) \/ Retry(b)
        PROVE  file.by = b
    BY <2>2 DEF BuilderStep, Preflight, Exists, Compare, CreateMap, OpensNew, Fill, Recheck, ReadMap,
                Shards, Carry, Kill, Retry
  <2>3. ~Edit /\ ~PubRest /\ ~UNCHANGED pubVars
    BY DEF Edit, PubRest, pubVars, PubInv, PubTypeOK
  <2> QED BY <2>1, <2>2, <2>3 DEF PubNext
<1> QED BY <1>1, PublicationInvariant, PTL DEF PubSpec, NeverClobbers

\* For any builders, selections, kills and retries, a build has one map, its own.
THEOREM BuildsUseOneOwnMap == PubSpec => []OneOwnMap
<1>1. PubTypeOK /\ OwnMapUsed /\ CarriedMapUsed => OneOwnMap
  BY DEF OneOwnMap
<1> QED
  BY <1>1, PublicationTypes, EachUsesOwnMap, ArtifactCarriesItsMap, PTL
=============================================================================
