---------------------------- MODULE TortureCases ----------------------------
(***************************************************************************)
(* evaluation/torture.py: private episodes are turned into test cases, one *)
(* adversarial element each, and the cases are judged later.  Episodes     *)
(* arrive one at a time, equal ones among them, and the cases may be       *)
(* generated again from the longer list.  An episode stands for its        *)
(* digest, whose order is that of numbers; a case is identified by its     *)
(* seed, rank, digest and element.                                         *)
(***************************************************************************)
EXTENDS Integers, Sequences, FiniteSets, SequencesExt, Functions

CONSTANTS
  Digests,       \* sha256 of the episodes that may be added: numbers
  FirstInputs,   \* lists of episodes to begin with
  Orders,        \* seed |-> the six elements as that seed shuffles them
  Judgments,     \* [field, value]: what a judge may say
  MaxInputs,
  MaxJudgments

VARIABLES
  inputs,        \* the digests of the private inputs, in the order of the file
  cases          \* the cases of the last document, by rank, with their rubrics

tortureVars == <<inputs, cases>>

Elements == {"misleading_failure", "bad_prior_edit", "stale_output", "wrong_hypothesis",
             "partial_patch", "dependency_red_herring"}
\* The slot of the episode each element lands in.
SlotOf(element) ==
  CASE element = "misleading_failure" -> "tool_result"
    [] element = "bad_prior_edit" -> "prior_edit"
    [] element = "stale_output" -> "build_output"
    [] element = "wrong_hypothesis" -> "stated_hypothesis"
    [] element = "partial_patch" -> "proposed_patch"
    [] element = "dependency_red_herring" -> "dependency_manifest"
RubricFields == {"recognizes_inconsistency", "revises_reasoning", "recovers", "final_patch_sound"}
JudgmentValues == {"yes", "no", "unclear"}
Unjudged == "unjudged"

\* Mutant: equal episodes make a case each.
EveryRef(list) == SortSeq(list, <)
OrderedRefs(list) ==
  LET refs == ToSet(list)
  IN  [i \in 1 .. Cardinality(refs) |-> CHOOSE d \in refs : Cardinality({e \in refs : e < d}) = i - 1]

\* Mutant: the elements are drawn by the digest.
ElementByDigest(seed, rank, ref) == Orders[seed][1 + (ref % 6)]
ElementAt(seed, rank, ref) == Orders[seed][1 + (rank % 6)]

Case(seed, rank, ref) ==
  LET element == ElementAt(seed, rank, ref)
  IN  [id |-> <<seed, rank, ref, element>>, seed |-> seed, ref |-> ref, element |-> element,
       slot |-> SlotOf(element), rubric |-> [f \in RubricFields |-> Unjudged]]

ValidCase(c) ==
  /\ c.element \in Elements /\ c.slot = SlotOf(c.element)
  /\ DOMAIN c.rubric = RubricFields /\ Range(c.rubric) \subseteq JudgmentValues \cup {Unjudged}

GenerateCases(list, seed) ==
  LET refs == OrderedRefs(list) IN [rank \in 1 .. Len(refs) |-> Case(seed, rank - 1, refs[rank])]
ElementCounts(document) ==
  [e \in Elements |-> Cardinality({i \in DOMAIN document : document[i].element = e})]

\* Mutant: a judgment overwrites the rubric it belongs to.
RubricOf(c, field, value) == [c EXCEPT !.rubric = [f \in RubricFields |-> IF f = field THEN value ELSE Unjudged]]
SetJudgment(c, field, value) == [c EXCEPT !.rubric[field] = value]

-----------------------------------------------------------------------------
AddInput ==
  /\ Len(inputs) < MaxInputs
  /\ \E d \in Digests : inputs' = Append(inputs, d)
  /\ UNCHANGED cases

\* Generating needs an input, and starts from an empty rubric.
Generate ==
  /\ inputs # <<>>
  /\ \E seed \in DOMAIN Orders : cases' = GenerateCases(inputs, seed)
  /\ UNCHANGED inputs

JudgedSlots == {<<i, f>> \in (DOMAIN cases) \X RubricFields : cases[i].rubric[f] # Unjudged}

\* A slot may be judged again.
Judge ==
  /\ \E i \in DOMAIN cases, j \in Judgments :
       /\ Cardinality(JudgedSlots \cup {<<i, j.field>>}) <= MaxJudgments
       /\ ValidCase(cases[i]) /\ j.field \in RubricFields /\ j.value \in JudgmentValues
       /\ cases' = [cases EXCEPT ![i] = SetJudgment(cases[i], j.field, j.value)]
  /\ UNCHANGED inputs

TortureInit == inputs \in FirstInputs /\ cases = <<>>
TortureNext == AddInput \/ Generate \/ Judge
TortureSpec == TortureInit /\ [][TortureNext]_tortureVars
-----------------------------------------------------------------------------
(* Properties                                                              *)

\* Every six consecutive ranks meet every element, so no element is ahead of another by more than
\* one case, and each episode makes one case (the module's determinism rule).
ElementsBalanced ==
  /\ \A i \in DOMAIN cases : ValidCase(cases[i])
  /\ \A i, j \in DOMAIN cases : i # j => cases[i].ref # cases[j].ref
  /\ \A i \in DOMAIN cases : i + 5 \in DOMAIN cases =>
       {cases[j].element : j \in i .. i + 5} = Elements
  /\ \A e, f \in Elements : ElementCounts(cases)[e] <= ElementCounts(cases)[f] + 1

\* The cases depend on the set of episodes: listed in another order, or twice, they give the same
\* document for the same seed.
InputsUnordered ==
  inputs # <<>> =>
    \A seed \in DOMAIN Orders :
      /\ GenerateCases(Reverse(inputs), seed) = GenerateCases(inputs, seed)
      /\ GenerateCases(inputs \o inputs, seed) = GenerateCases(inputs, seed)

\* A case keeps its judgments: whatever happens to a document, a case in it either starts again from
\* an empty rubric or has at most one slot changed, and then to a judgment.
JudgmentsKept ==
  [][\A i \in DOMAIN cases \cap DOMAIN cases' :
       LET changed == {f \in RubricFields : cases'[i].rubric[f] # cases[i].rubric[f]}
       IN  cases'[i].id = cases[i].id =>
             \/ Range(cases'[i].rubric) = {Unjudged}
             \/ /\ Cardinality(changed) <= 1
                /\ \A f \in changed : cases'[i].rubric[f] \in JudgmentValues]_tortureVars

\* Cases are fair to elements and episodes, and keep what was judged (generate_cases, the rubric).
CasesSound == [](ElementsBalanced /\ InputsUnordered) /\ JudgmentsKept
=============================================================================
