------------------------------ MODULE PruneMap ------------------------------
(***************************************************************************)
(* Selections and prune maps (pruning/maps.py): what an inventory must     *)
(* hold to be prunable, which selection of experts is accepted, and the    *)
(* map derived from the two.  The module has no state; CandidatePlan is    *)
(* the builder that reads these maps.                                      *)
(*                                                                         *)
(* A tensor name is a record, so that what the code's regular expressions  *)
(* tell apart is a field.  JSON types and digests are abstracted: the      *)
(* documents here are well-formed.                                         *)
(***************************************************************************)
EXTENDS Optional, Integers, Sequences, FiniteSets, FiniteSetsExt, SequencesExt

CONSTANTS
  Layers,       \* the MoE layers of the architecture
  NExperts,     \* original experts per layer
  TopK,         \* experts routed to per token
  Projections   \* the projections of one expert (three in the code)

ASSUME LayersAssumption == Layers \subseteq Int /\ Layers # {} /\ IsFiniteSet(Layers)
ASSUME NExpertsAssumption == NExperts \in Nat \ {0}
ASSUME TopKAssumption == TopK \in Nat \ {0}

Experts == 0 .. NExperts - 1

Parts == {"weight", "scale"}
RouterParts == {"weight", "bias"}

TensorName(k, l, e, p, t) == [kind |-> k, layer |-> l, expert |-> e, proj |-> p, part |-> t]
ExpertTensor(l, e, p, t) == TensorName("expert", l, e, p, t)
RouterTensor(l, t) == TensorName("router", l, 0, "gate", t)

ItemSize(dtype) == CASE dtype = "BF16" -> 2 [] dtype = "F32" -> 4 [] OTHER -> 1

Elements(s) == {s[i] : i \in DOMAIN s}
Distinct(s) == Cardinality(Elements(s)) = Len(s)
Position(s, x) == (CHOOSE i \in DOMAIN s : s[i] = x) - 1

-----------------------------------------------------------------------------
(* The inventory: a function from names to entries                         *)
(* [component, dtype, quant, rows, width, params, bytes, sub].             *)

TextMain(entry) == entry.component \in {"text", "text/main"}

TextNames(inv) == {n \in DOMAIN inv : TextMain(inv[n])}
ExpertNames(inv) == {n \in TextNames(inv) : n.kind = "expert"}
RouterNames(inv) == {n \in TextNames(inv) : n.kind = "router"}
Untouched(inv) == DOMAIN inv \ (ExpertNames(inv) \cup RouterNames(inv))

\* Every expert of every layer has every tensor, and nothing else looks like one.
Complete(inv) ==
  /\ ExpertNames(inv) = {ExpertTensor(l, e, p, t) : l \in Layers, e \in Experts,
                                                    p \in Projections, t \in Parts}
  /\ RouterNames(inv) = {RouterTensor(l, t) : l \in Layers, t \in RouterParts}

\* What collect_moe_structure accepts.
Structured(inv) ==
  /\ Complete(inv)
  /\ \A n \in RouterNames(inv) : inv[n].rows = NExperts
  /\ \A n, m \in ExpertNames(inv) \cup RouterNames(inv) :
       (n.kind = m.kind /\ n.proj = m.proj /\ n.part = m.part) => inv[n].dtype = inv[m].dtype

-----------------------------------------------------------------------------
(* Selections: [topK, layers], the layers a sequence of entries            *)
(* [layer, original, retained, pruned].                                    *)

EntryAccepted(entry, count) ==
  /\ entry.layer \in Layers
  /\ entry.original \in {None, NExperts}
  /\ entry.retained # <<>>
  /\ Distinct(entry.retained)
  /\ Elements(entry.retained) \subseteq Experts
  /\ Len(entry.retained) = count
  /\ entry.pruned \in {None, Experts \ Elements(entry.retained)}

SelectionAccepted(sel) ==
  /\ sel.topK \in {None, TopK}
  /\ sel.layers # <<>>
  /\ \A i \in DOMAIN sel.layers : EntryAccepted(sel.layers[i], Len(sel.layers[1].retained))
  /\ \A i, j \in DOMAIN sel.layers : sel.layers[i].layer = sel.layers[j].layer => i = j
  /\ {sel.layers[i].layer : i \in DOMAIN sel.layers} = Layers

\* Retained experts by layer, in the order given: the position is the new id.
Selected(sel) ==
  [l \in Layers |-> LET i == CHOOSE i \in DOMAIN sel.layers : sel.layers[i].layer = l
                    IN sel.layers[i].retained]

-----------------------------------------------------------------------------
(* The map                                                                 *)

\* Rows of a dense router tensor have one width; any other packing is unknown.
Dense(entry) == entry.quant = None /\ entry.dtype \in {"BF16", "F32"}
RowUniform(entry) ==
  /\ entry.rows > 0
  /\ entry.bytes = entry.rows * entry.width * ItemSize(entry.dtype)
PostRemapBytes(entry, rows) ==
  IF Dense(entry) THEN rows * entry.width * ItemSize(entry.dtype) ELSE None

\* Does the remap of a router stop the derivation?
RouterRefused(entry, rows) ==
  \/ rows * entry.width > entry.params
  \/ Dense(entry) /\ ~RowUniform(entry)

\* Mutant: a survivor keeps its id.
Unnumbered(retained) == [e \in Experts |-> IF e \in Elements(retained) THEN e ELSE None]
Renumbered(retained) ==
  [e \in Experts |-> IF e \in Elements(retained) THEN Position(retained, e) ELSE None]

LayerEntry(inv, l, retained) ==
  [retained |-> retained,
   pruned   |-> Experts \ Elements(retained),
   new      |-> Renumbered(retained),
   router   |-> [t \in RouterParts |-> PostRemapBytes(inv[RouterTensor(l, t)], Len(retained))]]

Kept(inv, chosen) == {n \in ExpertNames(inv) : n.expert \in Elements(chosen[n.layer])}

BytesOf(inv, names) == SumFunctionOnSet([n \in DOMAIN inv |-> inv[n].bytes], names)

\* Mutant: the tensors the selection leaves alone are forgotten.
TextBytesOfExperts(inv, chosen) == BytesOf(inv, Kept(inv, chosen))
\* Native bytes of the text stack once pruned (the "text/main" component).
SlicedRouters(inv, chosen) ==
  [n \in RouterNames(inv) |-> PostRemapBytes(inv[n], Len(chosen[n.layer]))]
TextBytesAfter(inv, chosen) ==
  LET routers == SlicedRouters(inv, chosen)
  IN  IF \E n \in DOMAIN routers : routers[n] = None THEN None
      ELSE BytesOf(inv, Kept(inv, chosen))
             + BytesOf(inv, TextNames(inv) \cap Untouched(inv))
             + SumFunction(routers)

\* Kept, dropped, router and untouched tensors account for the inventory.
Closes(inv, chosen) ==
  LET dropped == ExpertNames(inv) \ Kept(inv, chosen)
  IN  BytesOf(inv, DOMAIN inv) = BytesOf(inv, Kept(inv, chosen)) + BytesOf(inv, dropped)
        + BytesOf(inv, RouterNames(inv)) + BytesOf(inv, Untouched(inv))

MapRefused(inv, chosen) ==
  \/ ~Structured(inv)
  \/ \E n \in RouterNames(inv) : RouterRefused(inv[n], Len(chosen[n.layer]))
  \/ ~Closes(inv, chosen)

PruneMapOf(inv, chosen) ==
  [mode   |-> "external_selection",
   count  |-> Len(chosen[Min(Layers)]),
   layers |-> [l \in Layers |-> LayerEntry(inv, l, chosen[l])],
   text   |-> TextBytesAfter(inv, chosen)]

\* The candidate block of a map: a selection document again.
Ascending(S) ==
  [i \in 1 .. Cardinality(S) |-> CHOOSE x \in S : Cardinality({y \in S : y < x}) = i - 1]
CandidateBlock(m) ==
  LET l == Ascending(DOMAIN m.layers)
  IN  [topK   |-> None,
       layers |-> [i \in DOMAIN l |-> [layer    |-> l[i],
                                      original |-> NExperts,
                                      retained |-> m.layers[l[i]].retained,
                                      pruned   |-> m.layers[l[i]].pruned]]]

\* What the builder accepts of a map on disk (candidate.py): a hand-made map
\* passes only if it renumbers the retained experts by position, exactly.
\* Mutant: only the survivors are looked at.
LayerAcceptedLoosely(entry, count) ==
  /\ Len(entry.retained) = count
  /\ \A i \in DOMAIN entry.retained : entry.new[entry.retained[i]] = i - 1
LayerAccepted(entry, count) ==
  /\ entry.retained # <<>>
  /\ Len(entry.retained) = count
  /\ Elements(entry.retained) \subseteq Experts
  /\ \A i \in DOMAIN entry.retained : entry.new[entry.retained[i]] = i - 1
  /\ \A e \in Experts \ Elements(entry.retained) : entry.new[e] = None
  /\ entry.pruned = Experts \ Elements(entry.retained)

MapAccepted(m) ==
  /\ m.mode # "shape_only"
  /\ DOMAIN m.layers = Layers
  /\ \A l \in Layers : LayerAccepted(m.layers[l], m.count)
=============================================================================
