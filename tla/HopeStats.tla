----------------------------- MODULE HopeStats -----------------------------
(* The statistics of one layer, pruning/hope.py: how often every expert    *)
(* and every pair of experts was active, and sums of what the active ones  *)
(* contributed.  Floats are integers here: a gate is counted in units of   *)
(* 1/One and sums are exact.  No definition is recursive: a batch is added *)
(* in one piece, by counting its rows.                                     *)
EXTENDS Integers, Sequences, FiniteSets, Functions

CONSTANTS
    One,        \* the gate 1.0
    NonFinite,  \* a float that is a NaN or an infinity
    NoLabel,    \* capability=None
    Unnamed     \* capability=""

ASSUME HopeAssumption == One \in Nat /\ NonFinite \notin Int

Experts(n) == 0 .. n - 1
NoCaps == [c \in {} |-> NoLabel]

(* topK = 0 stands for None.                                               *)
New(n, k) ==
    [n |-> n, topK |-> k, rows |-> 0,
     act  |-> [e \in Experts(n) |-> 0],
     pair    |-> [i \in Experts(n) |-> [j \in Experts(n) |-> 0]],
     pairSum |-> [i \in Experts(n) |-> [j \in Experts(n) |-> 0]],
     first |-> [e \in Experts(n) |-> 0],
     gate  |-> [e \in Experts(n) |-> 0],
     norm  |-> [e \in Experts(n) |-> 0],
     caps |-> NoCaps]

---------------------------------------------------------------------------
(* Accumulation.  A routed row is a sequence of [id, gate, norm]; parallel *)
(* lists that do not align are refused like a row of the wrong width.      *)
Ids(row)    == {row[r].id : r \in DOMAIN row}
At(row, e)    == row[CHOOSE r \in DOMAIN row : row[r].id = e]
Gate(row, e)  == At(row, e).gate
Norm(row, e)  == At(row, e).norm
Score(row, e) == Gate(row, e) * Norm(row, e)

RowOK(row, n, k) ==
    /\ Len(row) = k
    /\ \A r \in DOMAIN row : /\ row[r].id \in Experts(n)
                             /\ row[r].gate \in 0 .. One
                             /\ row[r].norm \in Nat
    /\ \A r, s \in DOMAIN row : row[r].id = row[s].id => r = s

Width(s, batch) == IF s.topK # 0 THEN s.topK ELSE Len(batch[1])

BatchOK(s, batch, label) ==
    /\ label # Unnamed
    /\ batch # <<>> =>
         /\ Width(s, batch) \in 1 .. s.n
         /\ \A t \in DOMAIN batch : RowOK(batch[t], s.n, Width(s, batch))

(* Mutant: a pair is counted in the order in which the row lists it.       *)
BothAhead(batch, i, j) ==
    {t \in DOMAIN batch : \E r, s \in DOMAIN batch[t] :
        r =< s /\ batch[t][r].id = i /\ batch[t][s].id = j}

(* The rows of the batch in which both experts are active.                 *)
Both(batch, i, j) == {t \in DOMAIN batch : i \in Ids(batch[t]) /\ j \in Ids(batch[t])}

Active(batch, e)   == Both(batch, e, e)
ScoreSum(batch, e) == SumFunction([t \in Active(batch, e) |-> Score(batch[t], e)])
GateSum(batch, e)  == SumFunction([t \in Active(batch, e) |-> Gate(batch[t], e)])
NormSum(batch, e)  == SumFunction([t \in Active(batch, e) |-> Norm(batch[t], e)])
PairSum(batch, i, j) ==
    SumFunction([t \in Both(batch, i, j) |-> Score(batch[t], i) * Score(batch[t], j)])

Accumulate(s, batch) ==
    [n |-> s.n, topK |-> Width(s, batch), rows |-> s.rows + Len(batch),
     act  |-> [e \in Experts(s.n) |-> s.act[e] + Cardinality(Active(batch, e))],
     pair |-> [i \in Experts(s.n) |-> [j \in Experts(s.n) |->
                  s.pair[i][j] + Cardinality(Both(batch, i, j))]],
     pairSum |-> [i \in Experts(s.n) |-> [j \in Experts(s.n) |->
                  s.pairSum[i][j] + PairSum(batch, i, j)]],
     first |-> [e \in Experts(s.n) |-> s.first[e] + ScoreSum(batch, e)],
     gate  |-> [e \in Experts(s.n) |-> s.gate[e] + GateSum(batch, e)],
     norm  |-> [e \in Experts(s.n) |-> s.norm[e] + NormSum(batch, e)],
     caps |-> s.caps]

With(f, x, v) == [y \in DOMAIN f \cup {x} |-> IF y = x THEN v ELSE f[y]]

(* For a batch with BatchOK; any other leaves the statistics unchanged.    *)
AddBatch(s, batch, label) ==
    IF batch = <<>> THEN s ELSE
    LET cap == IF label \in DOMAIN s.caps THEN s.caps[label]
               ELSE New(s.n, Width(s, batch))
    IN  IF label = NoLabel THEN Accumulate(s, batch)
        ELSE [Accumulate(s, batch) EXCEPT !.caps = With(s.caps, label, Accumulate(cap, batch))]

---------------------------------------------------------------------------
(* Validation.                                                             *)
CountsOK(s) ==
    \A i, j \in Experts(s.n) :
        /\ s.act[i] \in 0 .. s.rows /\ s.pair[i][i] = s.act[i]
        /\ s.pair[i][j] = s.pair[j][i]
        /\ 0 =< s.pair[i][j] /\ s.act[i] + s.act[j] - s.rows =< s.pair[i][j]
        /\ s.pair[i][j] =< s.act[i] /\ s.pair[i][j] =< s.act[j]

SumsOK(s) ==
    /\ \A e \in Experts(s.n) : /\ s.first[e] >= 0 /\ s.norm[e] >= 0
                               /\ s.gate[e] \in 0 .. s.act[e] * One
    /\ \A i, j \in Experts(s.n) : i # j =>
         /\ s.pairSum[i][j] = s.pairSum[j][i]
         /\ s.pairSum[i][j] >= 0
         /\ s.pair[i][j] = 0 => s.pairSum[i][j] = 0

TotalOK(s) ==
    /\ s.n >= 1 /\ s.topK \in 0 .. s.n
    /\ s.rows > 0 => s.topK # 0
    /\ SumFunction(s.act) = s.rows * s.topK

CapsOK(s) ==
    /\ \A c \in DOMAIN s.caps :
         /\ c # Unnamed /\ s.caps[c].n = s.n /\ s.caps[c].rows =< s.rows
         /\ \A e \in Experts(s.n) : s.caps[c].act[e] =< s.act[e]
    /\ SumFunction([c \in DOMAIN s.caps |-> s.caps[c].rows]) =< s.rows

Flat(s)  == TotalOK(s) /\ CountsOK(s) /\ SumsOK(s)
Valid(s) == Flat(s) /\ CapsOK(s) /\ \A c \in DOMAIN s.caps : Flat(s.caps[c])

---------------------------------------------------------------------------
(* Merging.                                                                *)
Plus(f, g)  == [x \in DOMAIN f |-> f[x] + g[x]]
Plus2(f, g) == [x \in DOMAIN f |-> Plus(f[x], g[x])]

Joined(s, o, caps) ==
    [n |-> s.n, topK |-> IF s.topK = 0 THEN o.topK ELSE s.topK, rows |-> s.rows + o.rows,
     act |-> Plus(s.act, o.act),
     pair |-> Plus2(s.pair, o.pair), pairSum |-> Plus2(s.pairSum, o.pairSum),
     first |-> Plus(s.first, o.first),
     gate |-> Plus(s.gate, o.gate), norm |-> Plus(s.norm, o.norm),
     caps |-> caps]

Compatible(s, o) == s.n = o.n /\ (s.topK = o.topK \/ s.topK = 0 \/ o.topK = 0)

(* Mutant: a capability that only the other has is not copied.             *)
MergeOwn(s, o) ==
    Joined(s, o, [c \in DOMAIN s.caps |->
        IF c \notin DOMAIN o.caps THEN s.caps[c] ELSE Joined(s.caps[c], o.caps[c], NoCaps)])

Merge(s, o) ==
    Joined(s, o, [c \in DOMAIN s.caps \cup DOMAIN o.caps |->
        CASE c \notin DOMAIN o.caps -> s.caps[c]
          [] c \notin DOMAIN s.caps -> o.caps[c]
          [] OTHER -> Joined(s.caps[c], o.caps[c], NoCaps)])

(* merge() returns; otherwise it raises, and leaves s in a state that its  *)
(* callers drop.                                                           *)
MergeOK(s, o) ==
    /\ Valid(o) /\ Compatible(s, o)
    /\ \A c \in DOMAIN s.caps \cap DOMAIN o.caps : Compatible(s.caps[c], o.caps[c])
    /\ Valid(Merge(s, o))

(* from_dict() accepts what to_dict() wrote: a document is its statistics. *)
Loads(doc) == Valid(doc) /\ \A c \in DOMAIN doc.caps : doc.caps[c].caps = NoCaps
=============================================================================
