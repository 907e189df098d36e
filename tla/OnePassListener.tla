-------------------------- MODULE OnePassListener --------------------------
(* The listener of pruning/reap_adapter.py around the pinned REAP observer: *)
(* in a forward pass the observer calls update_pruning_state for every MoE  *)
(* layer, and the installed wrapper resolves the routing, lets the original *)
(* update the REAP metrics of the layer's state object, and adds the same   *)
(* rows to the HOPE statistics it keeps by the address of that object.      *)
(* One thread: what interleaves is the order of the caller's calls, and the *)
(* errors that end a forward pass between two layers.                       *)
EXTENDS HopeStats

CONSTANTS
    Depth,      \* the MoE layers are 1 .. Depth, in the order they run
    Models,     \* models attach_model may be given, see Blocks
    Batches,    \* what one layer may see in a forward pass
    Labels,     \* names given to capability()
    Addresses,  \* where the interpreter may place a state object
    Limit,      \* bound on the events of each kind, see Kinds
    Nothing     \* no forward pass, no export

Layers == 1 .. Depth
Blocks == {"moe", "dense", "unsupported"}
Kinds  == {"forward", "observer", "install", "label", "bad"}

(* A batch: n experts, the rows the resolved routing gives with the norms   *)
(* of the expert outputs, padding dropped, and what is wrong with it: the   *)
(* routing cannot be resolved, or the batch that REAP returns has other ids.*)
(* The number of active experts is the model's and never changes.          *)
Flaws == {"none", "unresolved", "drifted"}
Floats == Int \cup {NonFinite}
Rows == Seq([id : Int, gate : Floats, norm : Floats])

ASSUME ListenerAssumption ==
    /\ Depth \in Nat
    /\ Models \subseteq [Layers -> Blocks]
    /\ \A b \in Batches :
         /\ b.n \in Nat /\ b.flaw \in Flaws /\ b.routed \in Seq(Rows)
         /\ b.routed # <<>> => Len(b.routed[1]) \in 1 .. b.n
    /\ \A b, c \in Batches : b.routed # <<>> /\ c.routed # <<>> =>
           Len(b.routed[1]) = Len(c.routed[1])
    /\ NoLabel \notin Labels
    /\ Limit \in [Kinds -> Nat]

VARIABLES
    specs,      \* layers with a routing contract, _spec_by_layer
    installed,  \* the wrapper is in place of update_pruning_state
    label,      \* the capability contexts entered, the innermost first
    observers,  \* state objects by layer, of each observer; the last is in use
    bound,      \* the number of the one in _observer, or 0
    heap,       \* the live state objects by address, with the REAP metrics
    layerOf,    \* _layer_by_state
    stats,      \* _stats_by_state
    turn,       \* the forward pass in progress: next layer, number of rows
    export,     \* what export() returned, if it was the last call
    spent,      \* events of each kind so far
    seen,       \* history: the rows added to the statistics, by layer
    reused      \* history: addresses the listener knew when they were reused

held  == <<specs, installed, label, observers, bound>>
kept  == <<heap, layerOf, stats>>
vars  == <<held, kept, turn, export, spent, seen, reused>>

Empty == [x \in {} |-> Nothing]
Spend(k) == spent[k] < Limit[k] /\ spent' = [spent EXCEPT ![k] = @ + 1]
Current == Len(observers)
Label   == IF label = <<>> THEN NoLabel ELSE label[1]

Sound(b, c) == b.flaw = "none" /\ (b.routed = <<>> \/ BatchOK(New(b.n, 0), b.routed, c))

---------------------------------------------------------------------------
(* The calls that wire the listener up.                                    *)
AttachModel(m) ==
    /\ turn = Nothing
    /\ export' = Nothing
    /\ specs' = IF \E l \in Layers : m[l] = "unsupported" THEN specs
                ELSE {l \in Layers : m[l] = "moe"}
    /\ UNCHANGED <<installed, label, observers, bound, kept, turn, spent, seen, reused>>

Install ==
    /\ turn = Nothing /\ ~installed /\ Spend("install")
    /\ export' = Nothing
    /\ installed' = TRUE
    /\ UNCHANGED <<specs, label, observers, bound, kept, turn, seen, reused>>

Uninstall ==
    /\ turn = Nothing /\ installed
    /\ export' = Nothing
    /\ installed' = FALSE
    /\ UNCHANGED <<specs, label, observers, bound, kept, turn, spent, seen, reused>>

Enter(c) ==
    /\ turn = Nothing /\ Spend("label")
    /\ export' = Nothing
    /\ label' = <<c>> \o label
    /\ UNCHANGED <<specs, installed, observers, bound, kept, turn, seen, reused>>

Leave ==
    /\ turn = Nothing /\ label # <<>>
    /\ export' = Nothing
    /\ label' = Tail(label)
    /\ UNCHANGED <<specs, installed, observers, bound, kept, turn, spent, seen, reused>>

(* State objects of an observer that nobody refers to any more are freed.  *)
Live(used) == {a \in DOMAIN heap : heap[a].owner \in used}

(* The caller closes the observer it has, and makes another.               *)
MakeObserver ==
    /\ turn = Nothing /\ Spend("observer")
    /\ observers' = Append(observers, Empty)
    /\ heap' = Restrict(heap, Live({bound}))
    /\ export' = Nothing
    /\ UNCHANGED <<specs, installed, label, bound, layerOf, stats, turn, seen, reused>>

BindObserver ==
    /\ turn = Nothing /\ Current > 0
    /\ bound' = Current
    /\ heap' = Restrict(heap, Live({Current}))
    /\ export' = Nothing
    /\ UNCHANGED <<specs, installed, label, observers, layerOf, stats, turn, spent, seen, reused>>

---------------------------------------------------------------------------
(* A forward pass.                                                         *)
Forward(n) ==
    /\ turn = Nothing /\ Current > 0 /\ Depth > 0 /\ Spend("forward")
    /\ turn' = [layer |-> 1, rows |-> n]
    /\ export' = Nothing
    /\ UNCHANGED <<held, kept, seen, reused>>

(* The hook of the next layer.  The observer makes the state object of a   *)
(* layer at its first batch.                                               *)
Layer == turn.layer
Place == IF Layer \in DOMAIN observers[Current] THEN {observers[Current][Layer]}
         ELSE Addresses \ DOMAIN heap

(* An object is whole while every batch was sound and observed, or refused.*)
Fresh(n) == [owner |-> Current, layer |-> Layer, n |-> n, rows |-> 0,
             act |-> [e \in Experts(n) |-> 0], whole |-> TRUE]
Object(a, b) == IF a \in DOMAIN heap THEN heap[a] ELSE Fresh(b.n)

(* update_pruning_state of the pinned REAP.                                *)
Measured(a, b) ==
    LET o == Object(a, b) IN
    [o EXCEPT !.rows = o.rows + Len(b.routed),
              !.act = [e \in Experts(o.n) |-> o.act[e] + Cardinality(Active(b.routed, e))],
              !.whole = o.whole /\ installed /\ Sound(b, Label)]

(* Mutant: the first state object that is equal, not the identical one.    *)
ResolvedEqual(a) ==
    IF a \in DOMAIN layerOf THEN layerOf[a] ELSE IF bound = Current THEN 1 ELSE 0

(* 0 when no live state object of the bound observer is the one observed.  *)
ResolvedLayer(a) ==
    IF a \in DOMAIN layerOf THEN layerOf[a] ELSE IF bound = Current THEN Layer ELSE 0
Cached(a) == IF ResolvedLayer(a) = 0 THEN layerOf ELSE With(layerOf, a, ResolvedLayer(a))

Resolved(a, b) == ResolvedLayer(a) \in specs /\ b.flaw # "unresolved"

Known(a, b) == IF a \in DOMAIN stats THEN stats[a] ELSE New(b.n, Len(b.routed[1]))

Agrees(a, b) ==
    /\ b.flaw # "drifted"
    /\ b.routed # <<>> => Known(a, b).n = b.n /\ BatchOK(Known(a, b), b.routed, Label)

Taken(a) == IF a \in DOMAIN heap \/ a \notin DOMAIN stats \cup DOMAIN layerOf
            THEN reused ELSE reused \cup {a}

Hooked(a, b) ==
    /\ turn # Nothing /\ a \in Place /\ b \in Batches
    /\ Len(b.routed) = turn.rows /\ b.n = Object(a, b).n
    /\ IF Sound(b, NoLabel) THEN UNCHANGED spent ELSE Spend("bad")
    /\ observers' = [observers EXCEPT ![Current] = With(@, Layer, a)]
    /\ reused' = Taken(a)
    /\ UNCHANGED <<specs, installed, label, bound, export>>

(* Mutant: one layer too many.                                             *)
ProceedPast == turn' = IF Layer > Depth THEN Nothing ELSE [turn EXCEPT !.layer = @ + 1]
Proceed == turn' = IF Layer = Depth THEN Nothing ELSE [turn EXCEPT !.layer = @ + 1]
Raise   == turn' = Nothing

Bypass(a, b) ==
    /\ Hooked(a, b) /\ ~installed
    /\ heap' = With(heap, a, Measured(a, b))
    /\ Proceed
    /\ UNCHANGED <<layerOf, stats, seen>>

(* Mutant: the routing is resolved after the original has run.             *)
RefuseLate(a, b) ==
    /\ Hooked(a, b) /\ installed /\ ~Resolved(a, b)
    /\ heap' = With(heap, a, Measured(a, b))
    /\ layerOf' = Cached(a)
    /\ Raise
    /\ UNCHANGED <<stats, seen>>

Refuse(a, b) ==
    /\ Hooked(a, b) /\ installed /\ ~Resolved(a, b)
    /\ heap' = With(heap, a, Object(a, b))
    /\ layerOf' = Cached(a)
    /\ Raise
    /\ UNCHANGED <<stats, seen>>

(* The REAP metrics have the batch when the listener finds that it does    *)
(* not agree.  A new entry of the statistics has been made by then, unless *)
(* it is the ids that differ.                                              *)
Clash(a, b) ==
    /\ Hooked(a, b) /\ installed /\ Resolved(a, b) /\ ~Agrees(a, b)
    /\ heap' = With(heap, a, Measured(a, b))
    /\ layerOf' = Cached(a)
    /\ stats' = IF b.flaw = "drifted" THEN stats ELSE With(stats, a, Known(a, b))
    /\ Raise
    /\ UNCHANGED seen

Observe(a, b) ==
    /\ Hooked(a, b) /\ installed /\ Resolved(a, b) /\ Agrees(a, b)
    /\ heap' = With(heap, a, Measured(a, b))
    /\ layerOf' = Cached(a)
    /\ stats' = IF b.routed = <<>> THEN stats
                ELSE With(stats, a, AddBatch(Known(a, b), b.routed, Label))
    /\ seen' = [seen EXCEPT ![Layer] = @ + Len(b.routed)]
    /\ Proceed

---------------------------------------------------------------------------
(* export() raises, and changes nothing, when rows belong to an object     *)
(* that is not in the bound observer, or when there is nothing to export.  *)
Attributed == {l \in DOMAIN observers[bound] : observers[bound][l] \in DOMAIN stats}

(* Mutant: rows of an object that is gone are left out.                    *)
ExportsPartial ==
    /\ bound > 0 /\ Attributed # {}
    /\ \A l \in Attributed : Valid(stats[observers[bound][l]])

Exports ==
    /\ bound > 0 /\ Attributed # {}
    /\ \A a \in DOMAIN stats :
         a \in Range(observers[bound]) \/ stats[a].rows = 0
    /\ \A l \in Attributed : Valid(stats[observers[bound][l]])

Export ==
    /\ turn = Nothing /\ Exports
    /\ export' = [l \in Attributed |-> stats[observers[bound][l]]]
    /\ UNCHANGED <<held, kept, turn, spent, seen, reused>>

Init ==
    /\ specs = {} /\ installed = FALSE /\ label = <<>> /\ observers = <<>> /\ bound = 0
    /\ heap = Empty /\ layerOf = Empty /\ stats = Empty
    /\ turn = Nothing /\ export = Nothing
    /\ spent = [k \in Kinds |-> 0]
    /\ seen = [l \in Layers |-> 0] /\ reused = {}

Hook == \E a \in Addresses, b \in Batches :
            Bypass(a, b) \/ Refuse(a, b) \/ Clash(a, b) \/ Observe(a, b)

Next ==
    \/ \E m \in Models : AttachModel(m)
    \/ Install \/ Uninstall
    \/ \E c \in Labels : Enter(c)
    \/ Leave \/ MakeObserver \/ BindObserver
    \/ \E n \in {Len(b.routed) : b \in Batches} : Forward(n)
    \/ Hook \/ Export

Spec == Init /\ [][Next]_vars

---------------------------------------------------------------------------
ObjectOK(o) == o.layer \in Layers /\ o.owner \in 1 .. Current /\ o.rows \in Nat

(* Types.  What a state object holds is typed where it is compared.        *)
TypeOK ==
    /\ specs \subseteq Layers /\ installed \in BOOLEAN /\ label \in Seq(Labels)
    /\ bound \in 0 .. Current
    /\ \A i \in 1 .. Current : /\ DOMAIN observers[i] \subseteq Layers
                               /\ Range(observers[i]) \subseteq Addresses
    /\ DOMAIN heap \subseteq Addresses /\ DOMAIN stats \subseteq Addresses
    /\ \A a \in DOMAIN heap : ObjectOK(heap[a])
    /\ \A a \in DOMAIN layerOf : a \in Addresses /\ layerOf[a] \in Layers
    /\ turn # Nothing => turn.layer \in Layers /\ turn.rows \in Nat
    /\ spent \in [Kinds -> Nat] /\ seen \in [Layers -> Nat] /\ reused \subseteq Addresses

(* REAP and HOPE take their numbers from one observation: an object whose  *)
(* batches were sound, and observed or refused, has as many rows, and each *)
(* expert active in as many of them, in the REAP metrics as in the HOPE    *)
(* statistics, and HOPE never has more (reap_adapter.py:1023, the wrapper).*)
OneObservation ==
    \A a \in DOMAIN heap \ reused :
        IF a \in DOMAIN stats
        THEN /\ stats[a].rows =< heap[a].rows
             /\ heap[a].whole => /\ stats[a].rows = heap[a].rows
                                /\ stats[a].act = heap[a].act
        ELSE heap[a].whole => heap[a].rows = 0

(* What the listener keeps is always accepted by validate(), so that no    *)
(* export, and no load of a saved export, fails for it (hope.py:414).      *)
StatsValid == \A a \in DOMAIN stats : Loads(stats[a])

(* Resuming is streaming: two exported statistics of as many experts merge *)
(* without an error, and a batch added to the second before the merge is a *)
(* batch added to the result (hope.py:311, merge; convergence.py:186).     *)
MergeStreams ==
    export # Nothing =>
        \A s, o \in Range(export) : s.n = o.n =>
            LET merged == Merge(s, o)
            IN  /\ MergeOK(s, o)
                /\ \A b \in {b \in Batches : b.n = o.n /\ b.routed # <<>> /\ Sound(b, NoLabel)},
                     c \in (Labels \ {Unnamed}) \cup {NoLabel} :
                     Merge(s, AddBatch(o, b.routed, c)) = AddBatch(merged, b.routed, c)

(* An export has all rows ever added to the statistics of a layer, under   *)
(* that layer, whatever observers came and went: rows of an object that is *)
(* gone are refused, not left out (reap_adapter.py:1193, export).          *)
ExportComplete ==
    export # Nothing /\ reused = {} =>
        \A l \in Layers : seen[l] = IF l \in DOMAIN export THEN export[l].rows ELSE 0

(* A batch is read under the routing contract of its own layer: the layer  *)
(* cached for an address is that of the object there (_resolve_layer).     *)
OwnContract ==
    \A a \in (DOMAIN layerOf \cap DOMAIN heap) \ reused : layerOf[a] = heap[a].layer

(* Every row is counted once, for its own layer, and none is lost: in the  *)
(* wrapper, in the table of layers, and in what is exported.               *)
RowsCounted == TypeOK /\ OneObservation /\ OwnContract /\ ExportComplete

(* What the listener keeps can be saved, loaded, merged and continued.     *)
StreamsMerge == StatsValid /\ MergeStreams
=============================================================================
