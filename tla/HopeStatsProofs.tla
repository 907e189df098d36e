-------------------------- MODULE HopeStatsProofs --------------------------
(* The statistics stay consistent for any number of experts, batch and     *)
(* merge, and the listener counts every row of every layer once.           *)
EXTENDS OnePassListener, FiniteSums, SequenceTheorems, TLAPS

Counting(s) ==
    /\ s.n \in Nat /\ s.rows \in Nat
    /\ s.act \in [Experts(s.n) -> Nat]
    /\ s.pair \in [Experts(s.n) -> [Experts(s.n) -> Nat]]

---------------------------------------------------------------------------
(* The rows of a batch in which two experts are active are those in which  *)
(* each of them is, so their numbers obey the Frechet bounds               *)
(* (_accumulate_row).                                                      *)
LEMMA RowCounts ==
    ASSUME NEW batch, Len(batch) \in Nat, DOMAIN batch = 1 .. Len(batch), NEW i, NEW j
    PROVE  /\ Cardinality(Active(batch, i)) \in 0 .. Len(batch)
           /\ Cardinality(Active(batch, j)) \in 0 .. Len(batch)
           /\ Cardinality(Both(batch, i, j)) \in Nat
           /\ Cardinality(Both(batch, i, j)) =< Cardinality(Active(batch, i))
           /\ Cardinality(Both(batch, i, j)) =< Cardinality(Active(batch, j))
           /\ Cardinality(Active(batch, i)) + Cardinality(Active(batch, j)) - Len(batch)
                =< Cardinality(Both(batch, i, j))
           /\ Both(batch, i, j) = Both(batch, j, i)
<1> DEFINE D == DOMAIN batch
           I == Active(batch, i)
           J == Active(batch, j)
           B == Both(batch, i, j)
<1>1. B = I \cap J /\ I \subseteq D /\ J \subseteq D /\ B = Both(batch, j, i)
  BY DEF Both, Active
<1>2. IsFiniteSet(D) /\ Cardinality(D) = Len(batch)
  <2>1. /\ IsFiniteSet(1 .. Len(batch))
        /\ Cardinality(1 .. Len(batch)) =
             IF 1 > Len(batch) THEN 0 ELSE Len(batch) - 1 + 1
    BY FS_Interval
  <2>2. QED
    BY <2>1
<1>3. IsFiniteSet(I) /\ IsFiniteSet(J) /\ IsFiniteSet(B) /\ IsFiniteSet(I \cup J)
  <2>1. B \subseteq D /\ I \cup J \subseteq D
    BY <1>1
  <2>2. QED
    BY <1>1, <1>2, <2>1, FS_Subset
<1>4. /\ Cardinality(I) \in Nat /\ Cardinality(J) \in Nat /\ Cardinality(B) \in Nat
      /\ Cardinality(I \cup J) \in Nat
  BY <1>3, FS_CardinalityType
<1>5. /\ Cardinality(I) =< Len(batch) /\ Cardinality(J) =< Len(batch)
      /\ Cardinality(I \cup J) =< Len(batch)
  <2>1. I \cup J \subseteq D
    BY <1>1
  <2>2. QED
    BY <1>1, <1>2, <2>1, FS_Subset
<1>6. Cardinality(B) =< Cardinality(I) /\ Cardinality(B) =< Cardinality(J)
  <2>1. B \subseteq I /\ B \subseteq J
    BY <1>1
  <2>2. QED
    BY <2>1, <1>3, FS_Subset
<1>7. Cardinality(I \cup J) = Cardinality(I) + Cardinality(J) - Cardinality(I \cap J)
  BY <1>3, FS_Union
<1> HIDE DEF D, I, J, B
<1>8. /\ Cardinality(I) \in 0 .. Len(batch) /\ Cardinality(J) \in 0 .. Len(batch)
      /\ Cardinality(I) + Cardinality(J) - Len(batch) =< Cardinality(B)
  BY <1>1, <1>4, <1>5, <1>7, SMT
<1>9. QED
  BY <1>1, <1>4, <1>6, <1>8 DEF I, J, B

(* t counts the rows of s and those of o.                                  *)
Adds(s, o, t) ==
    /\ s.n = o.n /\ t.n = s.n /\ t.rows = s.rows + o.rows
    /\ t.act = [e \in Experts(s.n) |-> s.act[e] + o.act[e]]
    /\ t.pair = [i \in Experts(s.n) |-> [j \in Experts(s.n) |->
                    s.pair[i][j] + o.pair[i][j]]]

---------------------------------------------------------------------------
(* Consistent counts of two disjoint sets of rows add up to consistent     *)
(* counts: what validate() demands of each holds of the sum.               *)
LEMMA CountsAdd ==
    ASSUME NEW s, NEW o, NEW t, Adds(s, o, t),
           Counting(s), CountsOK(s), Counting(o), CountsOK(o)
    PROVE  Counting(t) /\ CountsOK(t)
<1> DEFINE E == Experts(s.n)
<1>1. s.n = o.n /\ t.n = s.n /\ t.rows = s.rows + o.rows
  BY DEF Adds
<1>2. /\ s.n \in Nat /\ s.rows \in Nat /\ o.rows \in Nat
      /\ \A i \in E : s.act[i] \in Nat /\ o.act[i] \in Nat
      /\ \A i, j \in E : /\ s.pair[i][j] \in Nat /\ o.pair[i][j] \in Nat
  BY <1>1 DEF Counting
<1>3. \A i, j \in E :
        /\ s.act[i] =< s.rows /\ s.pair[i][i] = s.act[i]
        /\ s.pair[i][j] = s.pair[j][i]
        /\ s.act[i] + s.act[j] - s.rows =< s.pair[i][j]
        /\ s.pair[i][j] =< s.act[i] /\ s.pair[i][j] =< s.act[j]
  BY <1>1, <1>2 DEF CountsOK
<1>4. \A i, j \in E :
        /\ o.act[i] =< o.rows /\ o.pair[i][i] = o.act[i]
        /\ o.pair[i][j] = o.pair[j][i]
        /\ o.act[i] + o.act[j] - o.rows =< o.pair[i][j]
        /\ o.pair[i][j] =< o.act[i] /\ o.pair[i][j] =< o.act[j]
  BY <1>1, <1>2 DEF CountsOK
<1>5. \A i, j \in E : /\ t.act[i] = s.act[i] + o.act[i]
                      /\ t.pair[i][j] = s.pair[i][j] + o.pair[i][j]
  BY <1>2 DEF Adds
<1> HIDE DEF E
<1>6. Counting(t)
  <2>1. t.act \in [Experts(t.n) -> Nat]
    BY <1>1, <1>2 DEF E, Adds
  <2>2. t.pair \in [Experts(t.n) -> [Experts(t.n) -> Nat]]
    BY <1>1, <1>2 DEF E, Adds
  <2>3. QED
    BY <2>1, <2>2, <1>1, <1>2 DEF Counting
<1>7. \A i, j \in E :
        /\ t.act[i] \in 0 .. t.rows /\ t.pair[i][i] = t.act[i]
        /\ t.pair[i][j] = t.pair[j][i]
        /\ t.act[i] + t.act[j] - t.rows =< t.pair[i][j]
        /\ 0 =< t.pair[i][j]
        /\ t.pair[i][j] =< t.act[i] /\ t.pair[i][j] =< t.act[j]
  <2> TAKE i, j \in E
  <2> QED
    BY <1>1, <1>2, <1>3, <1>4, <1>5
<1>8. CountsOK(t)
  BY <1>1, <1>7 DEF CountsOK, E
<1>9. QED
  BY <1>6, <1>8

---------------------------------------------------------------------------
(* add_batch keeps the counts consistent: no expert is active in more rows *)
(* than there are, the counts of pairs are symmetric with those of experts *)
(* on the diagonal, and within the Frechet bounds that validate() checks.  *)
THEOREM AccumulateCounts ==
    ASSUME NEW s, NEW batch, Len(batch) \in Nat, DOMAIN batch = 1 .. Len(batch),
           Counting(s), CountsOK(s)
    PROVE  Counting(Accumulate(s, batch)) /\ CountsOK(Accumulate(s, batch))
<1> DEFINE E == Experts(s.n)
           More(e) == Cardinality(Active(batch, e))
           Pair(i, j) == Cardinality(Both(batch, i, j))
           o == [n |-> s.n, rows |-> Len(batch), act |-> [e \in E |-> More(e)],
                 pair |-> [i \in E |-> [j \in E |-> Pair(i, j)]]]
<1>1. \A i, j : /\ More(i) \in 0 .. Len(batch) /\ Pair(i, j) \in Nat
                /\ Pair(i, j) =< More(i) /\ Pair(i, j) =< More(j)
                /\ More(i) + More(j) - Len(batch) =< Pair(i, j)
                /\ Pair(i, j) = Pair(j, i)
  BY RowCounts
<1>2. \A e : More(e) = Pair(e, e)
  BY DEF Active
<1> HIDE DEF More, Pair
<1>3. Counting(o)
  <2>1. o.n \in Nat /\ o.rows \in Nat /\ o.n = s.n
    BY DEF Counting
  <2>2. \A i, j : More(i) \in Nat /\ Pair(i, j) \in Nat
    BY <1>1
  <2>3. o.act \in [E -> Nat] /\ o.pair \in [E -> [E -> Nat]]
    BY <2>2
  <2>4. QED
    BY <2>1, <2>3 DEF Counting
<1>4. CountsOK(o)
  BY <1>1, <1>2 DEF CountsOK
<1>5. Adds(s, o, Accumulate(s, batch))
  BY DEF Adds, Accumulate, More, Pair
<1> HIDE DEF o
<1>6. QED
  BY <1>3, <1>4, <1>5, CountsAdd

(* merge() keeps them consistent too, for two statistics of as many        *)
(* experts.                                                                *)
THEOREM MergeCounts ==
    ASSUME NEW s, NEW o, NEW caps, s.n = o.n,
           Counting(s), CountsOK(s), Counting(o), CountsOK(o)
    PROVE  Counting(Joined(s, o, caps)) /\ CountsOK(Joined(s, o, caps))
<1>1. Adds(s, o, Joined(s, o, caps))
  BY DEF Adds, Joined, Plus, Plus2, Counting
<1>2. QED
  BY <1>1, CountsAdd

---------------------------------------------------------------------------
(* Statistics of rows of k experts, without those of capabilities: their   *)
(* types, and what validate() demands of them.                             *)
Tallied(s, k) ==
    /\ s.n \in Nat /\ s.topK = k /\ k \in 1 .. s.n /\ s.rows \in Nat
    /\ s.act \in [Experts(s.n) -> Nat] /\ s.first \in [Experts(s.n) -> Nat]
    /\ s.gate \in [Experts(s.n) -> Nat] /\ s.norm \in [Experts(s.n) -> Nat]
    /\ s.pair \in [Experts(s.n) -> [Experts(s.n) -> Nat]]
    /\ s.pairSum \in [Experts(s.n) -> [Experts(s.n) -> Nat]]

Sheet(s, k) == Tallied(s, k) /\ Flat(s)

LEMMA ExpertsAreFinite ==
    ASSUME NEW n \in Nat
    PROVE  IsFiniteSet(Experts(n)) /\ Cardinality(Experts(n)) \in Nat
<1>1. IsFiniteSet(0 .. n - 1)
  BY FS_Interval
<1> QED
  BY <1>1, FS_CardinalityType DEF Experts

(* Statistics without rows.                                                *)
LEMMA NothingCounted ==
    ASSUME NEW n \in Nat, NEW k \in 1 .. n
    PROVE  Sheet(New(n, k), k)
<1> DEFINE s == New(n, k)
           E == Experts(n)
<1>1. /\ s.n = n /\ s.topK = k /\ s.rows = 0
      /\ s.act = [e \in E |-> 0] /\ s.first = [e \in E |-> 0]
      /\ s.gate = [e \in E |-> 0] /\ s.norm = [e \in E |-> 0]
      /\ s.pair = [i \in E |-> [j \in E |-> 0]]
      /\ s.pairSum = [i \in E |-> [j \in E |-> 0]]
  BY DEF New
<1> HIDE DEF s
<1>2. SumFunction(s.act) = 0
  <2> DEFINE f == [e \in E |-> 0]
  <2>1. \A e \in E : f[e] = 0
    OBVIOUS
  <2>2. IsFiniteSet(E) /\ Cardinality(E) \in Nat
    BY ExpertsAreFinite
  <2>3. DOMAIN f = E
    OBVIOUS
  <2> HIDE DEF f, E
  <2>4. SumFunctionOnSet(f, E) = Cardinality(E) * 0
    BY <2>1, <2>2, SumOfEqual
  <2>5. SumFunctionOnSet(f, E) = 0
    BY <2>2, <2>4
  <2> QED
    BY <1>1, <2>3, <2>5 DEF SumFunction, f
<1>3. Tallied(s, k)
  BY <1>1 DEF Tallied
<1>4. TotalOK(s)
  BY <1>1, <1>2 DEF TotalOK
<1>5. CountsOK(s)
  BY <1>1 DEF CountsOK
<1>6. SumsOK(s)
  BY <1>1, HopeAssumption DEF SumsOK
<1> QED
  BY <1>3, <1>4, <1>5, <1>6 DEF Sheet, Flat, s

---------------------------------------------------------------------------
(* Sums.                                                                   *)

(* t has all numbers of s and those of o.                                  *)
Totals(s, o, t) ==
    /\ Adds(s, o, t) /\ t.topK = s.topK
    /\ t.first = [e \in Experts(s.n) |-> s.first[e] + o.first[e]]
    /\ t.gate = [e \in Experts(s.n) |-> s.gate[e] + o.gate[e]]
    /\ t.norm = [e \in Experts(s.n) |-> s.norm[e] + o.norm[e]]
    /\ t.pairSum = [i \in Experts(s.n) |-> [j \in Experts(s.n) |->
                       s.pairSum[i][j] + o.pairSum[i][j]]]

(* The sum of valid statistics is valid.                                   *)
LEMMA SheetsAdd ==
    ASSUME NEW s, NEW o, NEW t, NEW k, Sheet(s, k), Sheet(o, k), Totals(s, o, t)
    PROVE  Sheet(t, k)
<1> DEFINE E == Experts(s.n)
<1>1. /\ s.n = o.n /\ t.n = s.n /\ t.rows = s.rows + o.rows /\ t.topK = k
      /\ s.n \in Nat /\ k \in 1 .. s.n /\ s.rows \in Nat /\ o.rows \in Nat
  BY DEF Totals, Adds, Sheet, Tallied
<1>2. /\ s.act \in [E -> Nat] /\ s.first \in [E -> Nat] /\ s.gate \in [E -> Nat] /\ s.norm \in [E -> Nat]
      /\ o.act \in [E -> Nat] /\ o.first \in [E -> Nat] /\ o.gate \in [E -> Nat] /\ o.norm \in [E -> Nat]
      /\ s.pair \in [E -> [E -> Nat]] /\ s.pairSum \in [E -> [E -> Nat]]
      /\ o.pair \in [E -> [E -> Nat]] /\ o.pairSum \in [E -> [E -> Nat]]
  BY <1>1 DEF Sheet, Tallied
<1>3. Counting(t) /\ CountsOK(t)
  BY CountsAdd DEF Totals, Sheet, Flat, Tallied, Counting
<1> HIDE DEF E
<1>4. /\ t.act = [e \in E |-> s.act[e] + o.act[e]]
      /\ t.first = [e \in E |-> s.first[e] + o.first[e]]
      /\ t.gate = [e \in E |-> s.gate[e] + o.gate[e]]
      /\ t.norm = [e \in E |-> s.norm[e] + o.norm[e]]
      /\ t.pair = [i \in E |-> [j \in E |-> s.pair[i][j] + o.pair[i][j]]]
      /\ t.pairSum = [i \in E |-> [j \in E |-> s.pairSum[i][j] + o.pairSum[i][j]]]
  BY DEF Totals, Adds, E
<1>5. /\ t.first \in [E -> Nat] /\ t.gate \in [E -> Nat] /\ t.norm \in [E -> Nat]
      /\ t.pairSum \in [E -> [E -> Nat]]
  BY <1>2, <1>4
<1>6. Tallied(t, k)
  BY <1>1, <1>3, <1>5 DEF Tallied, Counting, E
<1>7. ASSUME NEW e \in E PROVE t.gate[e] \in 0 .. t.act[e] * One
  <2>1. s.gate[e] \in 0 .. s.act[e] * One /\ o.gate[e] \in 0 .. o.act[e] * One
    BY <1>1 DEF Sheet, Flat, SumsOK, E
  <2>2. PICK a \in Nat, b \in Nat : a = s.act[e] /\ b = o.act[e]
    BY <1>2
  <2>3. PICK x \in Nat, y \in Nat : x = s.gate[e] /\ y = o.gate[e]
    BY <1>2
  <2>4. (a + b) * One = a * One + b * One /\ a * One \in Nat /\ b * One \in Nat
    BY HopeAssumption
  <2>5. t.gate[e] = x + y /\ t.act[e] = a + b
    BY <1>4, <2>2, <2>3
  <2>6. x <= a * One /\ y <= b * One
    BY <2>1, <2>2, <2>3
  <2> QED
    BY <2>4, <2>5, <2>6
<1>8. ASSUME NEW i \in E, NEW j \in E, i # j
      PROVE  /\ t.pairSum[i][j] = t.pairSum[j][i] /\ t.pairSum[i][j] >= 0
             /\ t.pair[i][j] = 0 => t.pairSum[i][j] = 0
  <2>1. /\ s.pairSum[i][j] = s.pairSum[j][i] /\ o.pairSum[i][j] = o.pairSum[j][i]
        /\ s.pair[i][j] = 0 => s.pairSum[i][j] = 0
        /\ o.pair[i][j] = 0 => o.pairSum[i][j] = 0
    BY <1>1, <1>8 DEF Sheet, Flat, SumsOK, E
  <2>2. PICK p \in Nat, q \in Nat, x \in Nat, y \in Nat :
          /\ p = s.pair[i][j] /\ q = o.pair[i][j]
          /\ x = s.pairSum[i][j] /\ y = o.pairSum[i][j]
    BY <1>2
  <2>3. t.pair[i][j] = p + q /\ t.pairSum[i][j] = x + y
    BY <1>4, <2>2
  <2>4. t.pairSum[j][i] = x + y
    BY <1>4, <2>1, <2>2
  <2>5. (p = 0 => x = 0) /\ (q = 0 => y = 0)
    BY <2>1, <2>2
  <2>6. x + y >= 0 /\ (p + q = 0 => x + y = 0)
    BY <2>5
  <2> QED
    BY <2>3, <2>4, <2>6
<1>9. SumsOK(t)
  <2>1. \A e \in E : t.first[e] >= 0 /\ t.norm[e] >= 0
    BY <1>5
  <2> QED
    BY <1>1, <1>7, <1>8, <2>1 DEF SumsOK, E
<1>10. TotalOK(t)
  <2>1. SumFunction(s.act) = s.rows * k /\ SumFunction(o.act) = o.rows * k
    BY DEF Sheet, Flat, TotalOK, Tallied
  <2>2. IsFiniteSet(E)
    BY <1>1, ExpertsAreFinite DEF E
  <2>3. \A e \in E : s.act[e] \in Int /\ o.act[e] \in Int /\ t.act[e] = s.act[e] + o.act[e]
    BY <1>2, <1>4
  <2>4. SumFunctionOnSet(t.act, E) = SumFunctionOnSet(s.act, E) + SumFunctionOnSet(o.act, E)
    BY <2>2, <2>3, SumPlus
  <2>5. DOMAIN s.act = E /\ DOMAIN o.act = E /\ DOMAIN t.act = E
    BY <1>2, <1>4
  <2>6. SumFunction(t.act) = s.rows * k + o.rows * k
    BY <2>1, <2>4, <2>5 DEF SumFunction
  <2>7. PICK a \in Nat, b \in Nat : a = s.rows /\ b = o.rows
    BY <1>1
  <2>8. k \in Int
    BY <1>1
  <2>9. (a + b) * k = a * k + b * k
    BY <2>8
  <2>10. SumFunction(t.act) = t.rows * t.topK
    BY <1>1, <2>6, <2>7, <2>9
  <2> QED
    BY <1>1, <2>10 DEF TotalOK
<1> QED
  BY <1>3, <1>6, <1>9, <1>10 DEF Sheet, Flat

---------------------------------------------------------------------------
(* Rows.                                                                   *)

(* The rows of a batch, all of k of n experts.                             *)
Routed(batch, n, k) ==
    /\ batch \in Seq(Rows) /\ n \in Nat /\ k \in 1 .. n
    /\ \A t \in DOMAIN batch : RowOK(batch[t], n, k)

LEMMA RowsAre ==
    ASSUME NEW batch, NEW n, NEW k, Routed(batch, n, k)
    PROVE  /\ Len(batch) \in Nat /\ DOMAIN batch = 1 .. Len(batch)
           /\ IsFiniteSet(DOMAIN batch) /\ Cardinality(DOMAIN batch) = Len(batch)
           /\ \A t \in DOMAIN batch : DOMAIN batch[t] = 1 .. k
<1>1. Len(batch) \in Nat /\ DOMAIN batch = 1 .. Len(batch)
  BY LenProperties DEF Routed
<1>2. IsFiniteSet(DOMAIN batch) /\ Cardinality(DOMAIN batch) = Len(batch)
  <2>1. /\ IsFiniteSet(1 .. Len(batch))
        /\ Cardinality(1 .. Len(batch)) = IF 1 > Len(batch) THEN 0 ELSE Len(batch) - 1 + 1
    BY <1>1, FS_Interval
  <2> QED
    BY <1>1, <2>1
<1>3. ASSUME NEW t \in DOMAIN batch PROVE DOMAIN batch[t] = 1 .. k
  <2>1. batch[t] \in Rows
    BY <1>1, ElementOfSeq DEF Routed
  <2>2. DOMAIN batch[t] = 1 .. Len(batch[t])
    BY <2>1, LenProperties DEF Rows
  <2> QED
    BY <2>2 DEF Routed, RowOK
<1> QED
  BY <1>1, <1>2, <1>3

(* A row has k experts, each with a gate and a norm.                       *)
LEMMA RowHas ==
    ASSUME NEW batch, NEW n, NEW k, Routed(batch, n, k), NEW t \in DOMAIN batch
    PROVE  /\ Ids(batch[t]) \subseteq Experts(n) /\ Cardinality(Ids(batch[t])) = k
           /\ \A e \in Ids(batch[t]) : /\ Gate(batch[t], e) \in 0 .. One
                                       /\ Norm(batch[t], e) \in Nat
                                       /\ Score(batch[t], e) \in Nat
<1> DEFINE row == batch[t]
           f == [r \in 1 .. k |-> row[r].id]
<1>1. /\ DOMAIN row = 1 .. k /\ k \in Nat
      /\ \A r \in 1 .. k : /\ row[r].id \in Experts(n) /\ row[r].gate \in 0 .. One
                            /\ row[r].norm \in Nat
      /\ \A r, s \in 1 .. k : row[r].id = row[s].id => r = s
  <2>1. DOMAIN row = 1 .. k /\ k \in 1 .. n /\ n \in Nat
    BY RowsAre DEF Routed
  <2>2. RowOK(row, n, k)
    BY DEF Routed
  <2> HIDE DEF row
  <2> QED
    BY <2>1, <2>2 DEF RowOK
<1> HIDE DEF row
<1>2. Ids(row) \subseteq Experts(n)
  BY <1>1 DEF Ids
<1>3. Cardinality(Ids(row)) = k
  <2>1. f \in [1 .. k -> Ids(row)]
    BY <1>1 DEF Ids
  <2>2. \A r, s \in 1 .. k : f[r] = f[s] => r = s
    BY <1>1
  <2>3. \A e \in Ids(row) : \E r \in 1 .. k : f[r] = e
    BY <1>1 DEF Ids
  <2> HIDE DEF f
  <2>4. f \in Bijection(1 .. k, Ids(row))
    BY <2>1, <2>2, <2>3 DEF Bijection, Injection, IsInjective, Surjection
  <2>5. ExistsBijection(1 .. k, Ids(row))
    BY <2>4 DEF ExistsBijection
  <2> QED
    BY <1>1, <2>5, FS_CountingElements
<1>4. ASSUME NEW e \in Ids(row)
      PROVE  Gate(row, e) \in 0 .. One /\ Norm(row, e) \in Nat /\ Score(row, e) \in Nat
  <2>1. \E r \in DOMAIN row : row[r].id = e
    BY DEF Ids
  <2>2. PICK r \in DOMAIN row : At(row, e) = row[r]
    BY <2>1 DEF At
  <2>3. PICK g \in 0 .. One, m \in Nat : Gate(row, e) = g /\ Norm(row, e) = m
    BY <1>1, <2>2 DEF Gate, Norm
  <2>4. g \in Nat /\ g * m \in Nat
    BY HopeAssumption
  <2> QED
    BY <2>3, <2>4 DEF Score
<1> QED
  BY <1>2, <1>3, <1>4 DEF row

(* The numbers of the rows of a batch alone.                               *)
SheetOf(batch, n, k) ==
    [n |-> n, topK |-> k, rows |-> Len(batch),
     act  |-> [e \in Experts(n) |-> Cardinality(Active(batch, e))],
     pair |-> [i \in Experts(n) |-> [j \in Experts(n) |-> Cardinality(Both(batch, i, j))]],
     pairSum |-> [i \in Experts(n) |-> [j \in Experts(n) |-> PairSum(batch, i, j)]],
     first |-> [e \in Experts(n) |-> ScoreSum(batch, e)],
     gate  |-> [e \in Experts(n) |-> GateSum(batch, e)],
     norm  |-> [e \in Experts(n) |-> NormSum(batch, e)]]

(* Sums over the rows of experts are natural numbers, a sum of gates is at *)
(* most as large as they are many, and pairs are counted once for both.    *)
LEMMA RowSums ==
    ASSUME NEW batch, NEW n, NEW k, Routed(batch, n, k), NEW i, NEW j
    PROVE  /\ Cardinality(Active(batch, i)) \in Nat /\ Cardinality(Both(batch, i, j)) \in Nat
           /\ ScoreSum(batch, i) \in Nat /\ NormSum(batch, i) \in Nat
           /\ GateSum(batch, i) \in 0 .. Cardinality(Active(batch, i)) * One
           /\ GateSum(batch, i) \in Nat
           /\ PairSum(batch, i, j) \in Nat /\ PairSum(batch, i, j) = PairSum(batch, j, i)
           /\ Cardinality(Both(batch, i, j)) = 0 => PairSum(batch, i, j) = 0
<1> DEFINE A == Active(batch, i)
           B == Both(batch, i, j)
           scores == [t \in A |-> Score(batch[t], i)]
           gates == [t \in A |-> Gate(batch[t], i)]
           norms == [t \in A |-> Norm(batch[t], i)]
           pairs == [t \in B |-> Score(batch[t], i) * Score(batch[t], j)]
           others == [t \in B |-> Score(batch[t], j) * Score(batch[t], i)]
<1>1. /\ A \subseteq DOMAIN batch /\ B \subseteq DOMAIN batch /\ Both(batch, j, i) = B
      /\ \A t \in A : i \in Ids(batch[t])
      /\ \A t \in B : i \in Ids(batch[t]) /\ j \in Ids(batch[t])
  BY DEF Active, Both
<1>2. IsFiniteSet(A) /\ IsFiniteSet(B) /\ Cardinality(A) \in Nat /\ Cardinality(B) \in Nat
  <2>1. IsFiniteSet(A) /\ IsFiniteSet(B)
    BY <1>1, RowsAre, FS_Subset
  <2> QED
    BY <2>1, FS_CardinalityType
<1>3. \A t \in A : scores[t] \in Nat /\ norms[t] \in Nat /\ gates[t] \in 0 .. One
  BY <1>1, RowHas
<1>4. \A t \in B : pairs[t] \in Nat /\ pairs[t] = others[t]
  <2> TAKE t \in B
  <2>1. PICK x \in Nat, y \in Nat : x = Score(batch[t], i) /\ y = Score(batch[t], j)
    BY <1>1, RowHas
  <2>2. x * y \in Nat /\ x * y = y * x
    OBVIOUS
  <2>3. pairs[t] = x * y /\ others[t] = y * x
    BY <2>1
  <2> QED
    BY <2>2, <2>3
<1>5. /\ ScoreSum(batch, i) = SumFunctionOnSet(scores, A)
      /\ GateSum(batch, i) = SumFunctionOnSet(gates, A)
      /\ NormSum(batch, i) = SumFunctionOnSet(norms, A)
      /\ PairSum(batch, i, j) = SumFunctionOnSet(pairs, B)
      /\ PairSum(batch, j, i) = SumFunctionOnSet(others, B)
  BY <1>1 DEF ScoreSum, GateSum, NormSum, PairSum, SumFunction
<1> HIDE DEF scores, gates, norms, pairs, others, A, B
<1>6. SumFunctionOnSet(scores, A) \in Nat /\ SumFunctionOnSet(norms, A) \in Nat
  BY <1>2, <1>3, SumIsNatural
<1>7. SumFunctionOnSet(gates, A) \in 0 .. Cardinality(A) * One
  BY <1>2, <1>3, SumAtMost, HopeAssumption
<1>8. SumFunctionOnSet(gates, A) \in Nat
  BY <1>7
<1>9. SumFunctionOnSet(pairs, B) \in Nat /\ SumFunctionOnSet(pairs, B) = SumFunctionOnSet(others, B)
  BY <1>2, <1>4, SumIsNatural, SumSame
<1>10. ASSUME Cardinality(B) = 0 PROVE SumFunctionOnSet(pairs, B) = 0
  <2>1. B = {}
    BY <1>2, <1>10, FS_EmptySet
  <2> QED
    BY <2>1, SumOfNothing
<1> QED
  BY <1>2, <1>5, <1>6, <1>7, <1>8, <1>9, <1>10 DEF A, B

(* Every row counts k experts.                                             *)
LEMMA RowsCountExperts ==
    ASSUME NEW batch, NEW n, NEW k, Routed(batch, n, k), NEW act,
           act = [e \in Experts(n) |-> Cardinality(Active(batch, e))]
    PROVE  SumFunction(act) = Len(batch) * k
<1> DEFINE D == DOMAIN batch
           E == Experts(n)
           rel == {p \in D \X E : p[2] \in Ids(batch[p[1]])}
<1>1. \A t \in D, e \in E : <<t, e>> \in rel <=> e \in Ids(batch[t])
  OBVIOUS
<1>2. \A t \in D : Cardinality(Seconds(rel, E, t)) = k
  <2> TAKE t \in D
  <2>1. Seconds(rel, E, t) = Ids(batch[t])
    <3>1. Ids(batch[t]) \subseteq E
      BY RowHas
    <3> HIDE DEF rel
    <3> QED
      BY <1>1, <3>1 DEF Seconds
  <2> QED
    BY <2>1, RowHas
<1>3. \A e \in E : act[e] = Cardinality(Firsts(rel, D, e))
  <2> TAKE e \in E
  <2>1. Firsts(rel, D, e) = Active(batch, e)
    <3> HIDE DEF rel
    <3> QED
      BY <1>1 DEF Active, Both, Firsts
  <2> QED
    BY <2>1
<1>4. IsFiniteSet(D) /\ Cardinality(D) = Len(batch)
  BY RowsAre
<1>5. IsFiniteSet(E) /\ k \in Nat /\ DOMAIN act = E
  <2>1. n \in Nat /\ k \in 1 .. n
    BY DEF Routed
  <2> QED
    BY <2>1, ExpertsAreFinite
<1> HIDE DEF rel, D, E
<1>6. SumFunctionOnSet(act, E) = Cardinality(D) * k
  <2>1. IsFiniteSet(D) /\ IsFiniteSet(E) /\ k \in Nat
    BY <1>4, <1>5
  <2>2. Regular(rel, D, E, k) /\ Counts(act, rel, D, E)
    BY <1>2, <1>3 DEF Regular, Counts
  <2> QED
    BY <2>1, <2>2, CountedTwice
<1> QED
  BY <1>4, <1>5, <1>6 DEF SumFunction

(* The numbers of a batch are valid statistics.                            *)
LEMMA BatchIsSheet ==
    ASSUME NEW batch, NEW n, NEW k, Routed(batch, n, k)
    PROVE  Sheet(SheetOf(batch, n, k), k)
<1> DEFINE o == SheetOf(batch, n, k)
           E == Experts(n)
<1>1. /\ o.n = n /\ o.topK = k /\ o.rows = Len(batch)
      /\ o.act = [e \in E |-> Cardinality(Active(batch, e))]
      /\ o.pair = [i \in E |-> [j \in E |-> Cardinality(Both(batch, i, j))]]
      /\ o.pairSum = [i \in E |-> [j \in E |-> PairSum(batch, i, j)]]
      /\ o.first = [e \in E |-> ScoreSum(batch, e)]
      /\ o.gate = [e \in E |-> GateSum(batch, e)]
      /\ o.norm = [e \in E |-> NormSum(batch, e)]
  BY DEF SheetOf
<1> HIDE DEF o
<1>2. Len(batch) \in Nat /\ DOMAIN batch = 1 .. Len(batch) /\ n \in Nat /\ k \in 1 .. n
  BY RowsAre DEF Routed
<1>3. \A i, j : /\ Cardinality(Active(batch, i)) \in Nat /\ Cardinality(Both(batch, i, j)) \in Nat
                /\ ScoreSum(batch, i) \in Nat /\ NormSum(batch, i) \in Nat
                /\ GateSum(batch, i) \in 0 .. Cardinality(Active(batch, i)) * One
                /\ GateSum(batch, i) \in Nat
                /\ PairSum(batch, i, j) \in Nat /\ PairSum(batch, i, j) = PairSum(batch, j, i)
                /\ Cardinality(Both(batch, i, j)) = 0 => PairSum(batch, i, j) = 0
  BY RowSums
<1>4. Tallied(o, k)
  <2>1. /\ o.act \in [E -> Nat] /\ o.first \in [E -> Nat]
        /\ o.gate \in [E -> Nat] /\ o.norm \in [E -> Nat]
    BY <1>1, <1>3
  <2>2. o.pair \in [E -> [E -> Nat]]
    BY <1>1, <1>3
  <2>3. o.pairSum \in [E -> [E -> Nat]]
    BY <1>1, <1>3
  <2> QED
    BY <1>1, <1>2, <2>1, <2>2, <2>3 DEF Tallied
<1>5. CountsOK(o)
  <2>1. \A i, j : /\ Cardinality(Active(batch, i)) \in 0 .. Len(batch)
                  /\ Cardinality(Both(batch, i, j)) =< Cardinality(Active(batch, i))
                  /\ Cardinality(Both(batch, i, j)) =< Cardinality(Active(batch, j))
                  /\ Cardinality(Active(batch, i)) + Cardinality(Active(batch, j)) - Len(batch)
                       =< Cardinality(Both(batch, i, j))
                  /\ Both(batch, i, j) = Both(batch, j, i)
    BY <1>2, RowCounts
  <2>2. \A i : Active(batch, i) = Both(batch, i, i)
    BY DEF Active
  <2> QED
    BY <1>1, <1>3, <2>1, <2>2 DEF CountsOK
<1>6. SumsOK(o)
  <2>1. \A e \in E : /\ o.first[e] >= 0 /\ o.norm[e] >= 0
                     /\ o.gate[e] \in 0 .. o.act[e] * One
    BY <1>1, <1>3
  <2>2. \A i, j \in E : /\ o.pairSum[i][j] = o.pairSum[j][i] /\ o.pairSum[i][j] >= 0
                        /\ o.pair[i][j] = 0 => o.pairSum[i][j] = 0
    BY <1>1, <1>3
  <2> QED
    BY <1>1, <2>1, <2>2 DEF SumsOK
<1>7. TotalOK(o)
  <2>1. SumFunction(o.act) = Len(batch) * k
    BY <1>1, RowsCountExperts
  <2> QED
    BY <1>1, <1>2, <2>1 DEF TotalOK
<1> QED
  BY <1>4, <1>5, <1>6, <1>7 DEF Sheet, Flat, o

---------------------------------------------------------------------------
(* Statistics with those of their capabilities.                            *)
Healthy(s, k) ==
    /\ Sheet(s, k) /\ CapsOK(s)
    /\ IsFiniteSet(DOMAIN s.caps) /\ s.caps = [c \in DOMAIN s.caps |-> s.caps[c]]
    /\ \A c \in DOMAIN s.caps : Sheet(s.caps[c], k) /\ s.caps[c].caps = NoCaps

LEMMA HealthyLoads ==
    ASSUME NEW s, NEW k, Healthy(s, k)
    PROVE  Loads(s)
BY DEF Healthy, Loads, Valid, Sheet

LEMMA NewIsHealthy ==
    ASSUME NEW n \in Nat, NEW k \in 1 .. n
    PROVE  Healthy(New(n, k), k)
<1> DEFINE s == New(n, k)
<1>1. s.caps = NoCaps /\ s.rows = 0 /\ s.n = n
  BY DEF New
<1>2. Sheet(s, k)
  BY NothingCounted
<1> HIDE DEF s
<1>3. DOMAIN s.caps = {} /\ s.caps = [c \in DOMAIN s.caps |-> s.caps[c]]
  BY <1>1 DEF NoCaps
<1>4. CapsOK(s)
  <2> DEFINE rows == [c \in DOMAIN s.caps |-> s.caps[c].rows]
  <2>1. DOMAIN rows = {}
    BY <1>3
  <2> HIDE DEF rows
  <2>2. SumFunction(rows) = 0
    BY <2>1, SumOfNothing DEF SumFunction
  <2>3. SumFunction(rows) =< s.rows
    BY <1>1, <2>2
  <2> QED
    BY <1>3, <2>3 DEF CapsOK, rows
<1> QED
  BY <1>2, <1>3, <1>4, FS_EmptySet DEF Healthy, s

(* A batch of rows of k experts is added as what it counts alone.          *)
LEMMA AccumulateTotals ==
    ASSUME NEW s, NEW k, Sheet(s, k), NEW batch, Routed(batch, s.n, k)
    PROVE  /\ Width(s, batch) = k
           /\ Totals(s, SheetOf(batch, s.n, k), Accumulate(s, batch))
           /\ Sheet(Accumulate(s, batch), k)
<1> DEFINE o == SheetOf(batch, s.n, k)
           t == Accumulate(s, batch)
<1>1. s.topK = k /\ k # 0 /\ Width(s, batch) = k
  BY DEF Sheet, Tallied, Width
<1>2. Adds(s, o, t)
  BY DEF Adds, SheetOf, Accumulate
<1>3. /\ t.first = [e \in Experts(s.n) |-> s.first[e] + o.first[e]]
      /\ t.gate = [e \in Experts(s.n) |-> s.gate[e] + o.gate[e]]
      /\ t.norm = [e \in Experts(s.n) |-> s.norm[e] + o.norm[e]]
      /\ t.pairSum = [i \in Experts(s.n) |-> [j \in Experts(s.n) |->
                       s.pairSum[i][j] + o.pairSum[i][j]]]
  BY DEF SheetOf, Accumulate
<1>4. t.topK = s.topK
  BY <1>1 DEF Accumulate
<1>5. Sheet(o, k)
  BY BatchIsSheet
<1> HIDE DEF o, t
<1>6. Totals(s, o, t)
  BY <1>2, <1>3, <1>4 DEF Totals
<1>7. Sheet(t, k)
  BY <1>5, <1>6, SheetsAdd
<1> QED
  BY <1>1, <1>6, <1>7 DEF o, t

(* A batch is added to the statistics and, under a name, to those of the   *)
(* capability.                                                             *)
Cap(s, batch, name) ==
    IF name \in DOMAIN s.caps THEN s.caps[name] ELSE New(s.n, Width(s, batch))

Caps(s, batch, name) ==
    IF name = NoLabel THEN s.caps
    ELSE With(s.caps, name, Accumulate(Cap(s, batch, name), batch))

SameNumbers(s, t) ==
    /\ t.n = s.n /\ t.topK = s.topK /\ t.rows = s.rows /\ t.act = s.act
    /\ t.first = s.first /\ t.gate = s.gate /\ t.norm = s.norm
    /\ t.pair = s.pair /\ t.pairSum = s.pairSum

LEMMA SameSheet ==
    ASSUME NEW s, NEW t, NEW k, Sheet(s, k), SameNumbers(s, t)
    PROVE  Sheet(t, k)
<1>1. Tallied(t, k)
  BY DEF Sheet, Tallied, SameNumbers
<1>2. TotalOK(t)
  BY DEF Sheet, Flat, TotalOK, SameNumbers
<1>3. CountsOK(t)
  BY DEF Sheet, Flat, CountsOK, SameNumbers
<1>4. SumsOK(t)
  BY DEF Sheet, Flat, SumsOK, SameNumbers
<1> QED
  BY <1>1, <1>2, <1>3, <1>4 DEF Sheet, Flat

LEMMA AddBatchIs ==
    ASSUME NEW s, NEW batch, batch # <<>>, NEW name
    PROVE  /\ SameNumbers(Accumulate(s, batch), AddBatch(s, batch, name))
           /\ AddBatch(s, batch, name) =
                [Accumulate(s, batch) EXCEPT !.caps = Caps(s, batch, name)]
           /\ AddBatch(s, batch, name).caps = Caps(s, batch, name)
<1> DEFINE t == Accumulate(s, batch)
           u == [t EXCEPT !.caps = Caps(s, batch, name)]
<1>1. SameNumbers(t, u) /\ u.caps = Caps(s, batch, name)
  BY DEF Accumulate, SameNumbers
<1>2. AddBatch(s, batch, name) = u
  <2>1. CASE name = NoLabel
    <3>1. t = [t EXCEPT !.caps = s.caps]
      BY DEF Accumulate
    <3> HIDE DEF t
    <3> QED
      BY <2>1, <3>1 DEF AddBatch, Caps, t
  <2>2. CASE name # NoLabel
    <3> HIDE DEF t
    <3> QED
      BY <2>2 DEF AddBatch, Caps, Cap, t
  <2> QED
    BY <2>1, <2>2
<1> QED
  BY <1>1, <1>2

(* add_batch keeps statistics valid, with those of every capability.       *)
LEMMA AddBatchIsHealthy ==
    ASSUME NEW s, NEW k, Healthy(s, k), NEW batch, batch # <<>>, Routed(batch, s.n, k),
           NEW name, name # Unnamed
    PROVE  /\ Healthy(AddBatch(s, batch, name), k)
           /\ AddBatch(s, batch, name).n = s.n
           /\ AddBatch(s, batch, name).rows = s.rows + Len(batch)
           /\ AddBatch(s, batch, name).act =
                [e \in Experts(s.n) |-> s.act[e] + Cardinality(Active(batch, e))]
<1> DEFINE t == AddBatch(s, batch, name)
           more(e) == Cardinality(Active(batch, e))
           C == DOMAIN s.caps
           cap == Cap(s, batch, name)
           new == Accumulate(cap, batch)
<1>1. /\ Sheet(s, k) /\ s.n \in Nat /\ k \in 1 .. s.n /\ s.rows \in Nat
      /\ s.act \in [Experts(s.n) -> Nat]
  BY DEF Healthy, Sheet, Tallied
<1>2. Len(batch) \in Nat /\ \A e : more(e) \in Nat
  BY RowsAre, RowSums
<1>3. SameNumbers(Accumulate(s, batch), t) /\ t.caps = Caps(s, batch, name)
  BY AddBatchIs
<1>4. Sheet(t, k) /\ Width(s, batch) = k
  BY <1>1, <1>3, AccumulateTotals, SameSheet
<1>5. /\ t.n = s.n /\ t.rows = s.rows + Len(batch)
      /\ t.act = [e \in Experts(s.n) |-> s.act[e] + more(e)]
  BY <1>3 DEF SameNumbers, Accumulate
<1> HIDE DEF t, more
<1>6. /\ IsFiniteSet(C) /\ s.caps = [c \in C |-> s.caps[c]]
      /\ \A c \in C : /\ Sheet(s.caps[c], k) /\ s.caps[c].caps = NoCaps
                      /\ c # Unnamed /\ s.caps[c].n = s.n /\ s.caps[c].rows =< s.rows
                      /\ s.caps[c].rows \in Nat
                      /\ s.caps[c].act \in [Experts(s.n) -> Nat]
                      /\ \A e \in Experts(s.n) : s.caps[c].act[e] =< s.act[e]
      /\ SumFunction([c \in C |-> s.caps[c].rows]) =< s.rows
  BY DEF Healthy, CapsOK, Sheet, Tallied
<1>7. /\ Sheet(cap, k) /\ cap.caps = NoCaps /\ cap.n = s.n /\ cap.rows \in Nat /\ cap.rows =< s.rows
      /\ cap.act \in [Experts(s.n) -> Nat] /\ \A e \in Experts(s.n) : cap.act[e] =< s.act[e]
      /\ name \notin C => cap.rows = 0
  <2>1. CASE name \in C
    BY <1>6, <2>1 DEF Cap
  <2>2. CASE name \notin C
    <3>1. cap = New(s.n, k)
      BY <1>4, <2>2 DEF Cap
    <3> HIDE DEF cap
    <3>2. Sheet(cap, k)
      BY <1>1, <3>1, NothingCounted
    <3>3. /\ cap.caps = NoCaps /\ cap.n = s.n /\ cap.rows = 0
          /\ cap.act = [e \in Experts(s.n) |-> 0]
      BY <3>1 DEF New
    <3> QED
      BY <1>1, <3>2, <3>3
  <2> QED
    BY <2>1, <2>2
<1> HIDE DEF cap
<1>8. Sheet(new, k)
  BY <1>7, AccumulateTotals
<1>9. /\ new.caps = NoCaps /\ new.n = s.n /\ new.rows = cap.rows + Len(batch)
      /\ new.act = [e \in Experts(s.n) |-> cap.act[e] + more(e)]
  BY <1>7 DEF Accumulate, more
<1> HIDE DEF new
<1>10. CASE name = NoLabel
  <2>1. t.caps = s.caps
    BY <1>3, <1>10 DEF Caps
  <2>2. \A e \in Experts(s.n) : t.act[e] >= s.act[e]
    BY <1>1, <1>2, <1>5
  <2>3. CapsOK(t)
    <3>1. \A c \in C : \A e \in Experts(s.n) : s.caps[c].act[e] =< t.act[e]
      <4> TAKE c \in C
      <4> TAKE e \in Experts(s.n)
      <4>1. PICK x \in Nat, y \in Nat, z \in Nat :
              x = s.caps[c].act[e] /\ y = s.act[e] /\ z = more(e)
        BY <1>1, <1>2, <1>6
      <4>2. x =< y /\ t.act[e] = y + z
        BY <1>5, <1>6, <4>1
      <4> QED
        BY <4>1, <4>2
    <3>2. \A c \in C : s.caps[c].rows =< t.rows
      <4> TAKE c \in C
      <4>1. PICK x \in Nat : x = s.caps[c].rows /\ x =< s.rows
        BY <1>6
      <4> QED
        BY <1>1, <1>2, <1>5, <4>1
    <3> DEFINE w == [c \in C |-> s.caps[c].rows]
    <3>3. IsFiniteSet(C) /\ \A c \in C : w[c] \in Nat
      BY <1>6
    <3>4. SumFunction(w) \in Nat
      <4>1. DOMAIN w = C
        OBVIOUS
      <4> HIDE DEF w
      <4> QED
        BY <3>3, <4>1, SumIsNatural DEF SumFunction
    <3>5. SumFunction(w) =< t.rows
      <4>1. SumFunction(w) =< s.rows
        BY <1>6
      <4> HIDE DEF w
      <4> QED
        BY <1>1, <1>2, <1>5, <3>4, <4>1
    <3> QED
      BY <1>5, <1>6, <2>1, <3>1, <3>2, <3>5 DEF CapsOK
  <2> QED
    BY <1>4, <1>5, <1>6, <2>1, <2>3 DEF Healthy, t, more
<1>11. CASE name # NoLabel
  <2> DEFINE D == C \cup {name}
  <2>1. t.caps = [c \in D |-> IF c = name THEN new ELSE s.caps[c]]
    BY <1>3, <1>11 DEF Caps, With, new, cap
  <2>2. DOMAIN t.caps = D /\ t.caps[name] = new /\ \A c \in C \ {name} : t.caps[c] = s.caps[c]
    BY <2>1
  <2> HIDE DEF C
  <2>3. \A c \in D : c # name => c \in C \ {name}
    OBVIOUS
  <2>4. t.caps = [c \in DOMAIN t.caps |-> t.caps[c]]
    BY <2>1
  <2>5. ASSUME NEW c \in D
        PROVE  /\ Sheet(t.caps[c], k) /\ t.caps[c].caps = NoCaps
               /\ c # Unnamed /\ t.caps[c].n = s.n /\ t.caps[c].rows =< t.rows
               /\ \A e \in Experts(s.n) : t.caps[c].act[e] =< t.act[e]
    <3>1. PICK old : /\ old \in [rows : Nat, act : [Experts(s.n) -> Nat]]
                     /\ old.rows =< s.rows /\ \A e \in Experts(s.n) : old.act[e] =< s.act[e]
                     /\ IF c = name THEN old.rows = cap.rows /\ old.act = cap.act
                        ELSE old.rows = s.caps[c].rows /\ old.act = s.caps[c].act
      <4>1. CASE c = name
        <5>1. WITNESS [rows |-> cap.rows, act |-> cap.act]
        <5> QED
          BY <1>7, <4>1
      <4>2. CASE c # name
        <5>1. WITNESS [rows |-> s.caps[c].rows, act |-> s.caps[c].act]
        <5>2. c \in C
          BY <2>3, <4>2
        <5> QED
          BY <1>6, <4>2, <5>2
      <4> QED
        BY <4>1, <4>2
    <3>2. ASSUME NEW e \in Experts(s.n) PROVE t.caps[c].act[e] =< t.act[e]
      <4>1. PICK x \in Nat, y \in Nat, z \in Nat :
              x = old.act[e] /\ y = s.act[e] /\ z = more(e)
        BY <1>1, <1>2, <3>1
      <4>2. x =< y /\ t.act[e] = y + z
        BY <1>5, <3>1, <4>1
      <4>3. t.caps[c].act[e] = IF c = name THEN x + z ELSE x
        BY <1>9, <2>2, <2>3, <3>1, <4>1
      <4> QED
        BY <4>2, <4>3
    <3>3. t.caps[c].rows =< t.rows
      <4>1. PICK x \in Nat : x = old.rows /\ x =< s.rows
        BY <3>1
      <4>2. t.caps[c].rows = IF c = name THEN x + Len(batch) ELSE x
        BY <1>9, <2>2, <2>3, <3>1, <4>1
      <4> QED
        BY <1>1, <1>2, <1>5, <4>1, <4>2
    <3>4. /\ Sheet(t.caps[c], k) /\ t.caps[c].caps = NoCaps
          /\ c # Unnamed /\ t.caps[c].n = s.n
      BY <1>6, <1>8, <1>9, <2>2, <2>3
    <3> QED
      BY <3>2, <3>3, <3>4
  <2> DEFINE w == [c \in C |-> s.caps[c].rows]
             v == [c \in D |-> t.caps[c].rows]
  <2>6. SumFunction(v) =< t.rows
    <3>1. /\ IsFiniteSet(C) /\ \A c \in C : w[c] \in Int
          /\ v[name] = cap.rows + Len(batch) /\ v[name] \in Int
          /\ \A c \in C \ {name} : v[c] = w[c]
          /\ name \in C => w[name] = cap.rows
      BY <1>2, <1>6, <1>7, <1>9, <2>2 DEF cap, Cap
    <3>2. DOMAIN w = C /\ DOMAIN v = D /\ SumFunction(w) =< s.rows
      BY <1>6
    <3> HIDE DEF w, v, D
    <3>3. /\ name \in C => SumFunctionOnSet(v, D) =
                             SumFunctionOnSet(w, C) + (v[name] - w[name])
          /\ name \notin C => SumFunctionOnSet(v, D) =
                                SumFunctionOnSet(w, C) + v[name]
          /\ SumFunctionOnSet(w, C) \in Int
      <4>1. Puts(v, D, w, C, name) /\ IsFiniteSet(C)
        BY <3>1 DEF Puts, D
      <4> QED
        BY <4>1, SumPut
    <3>4. SumFunctionOnSet(v, D) = SumFunctionOnSet(w, C) + Len(batch)
      BY <1>2, <1>7, <3>1, <3>3
    <3> QED
      BY <1>1, <1>2, <1>5, <3>2, <3>3, <3>4 DEF SumFunction
  <2>7. CapsOK(t)
    BY <1>5, <2>2, <2>5, <2>6 DEF CapsOK
  <2>8. IsFiniteSet(DOMAIN t.caps)
    BY <1>6, <2>2, FS_AddElement
  <2>9. Healthy(t, k)
    BY <1>4, <2>2, <2>4, <2>5, <2>7, <2>8 DEF Healthy
  <2> QED
    BY <1>5, <2>9 DEF t, more
<1> QED
  BY <1>10, <1>11

---------------------------------------------------------------------------
(* Merging valid statistics of rows of as many experts gives valid ones.   *)
LEMMA JoinedTotals ==
    ASSUME NEW s, NEW o, NEW k, Sheet(s, k), Sheet(o, k), s.n = o.n, NEW caps
    PROVE  /\ Totals(s, o, Joined(s, o, caps)) /\ Sheet(Joined(s, o, caps), k)
           /\ Joined(s, o, caps).caps = caps
<1> DEFINE t == Joined(s, o, caps)
           E == Experts(s.n)
<1>1. /\ s.act \in [E -> Nat] /\ s.first \in [E -> Nat] /\ s.gate \in [E -> Nat] /\ s.norm \in [E -> Nat]
      /\ s.pair \in [E -> [E -> Nat]] /\ s.pairSum \in [E -> [E -> Nat]]
      /\ s.topK = k
  BY DEF Sheet, Tallied
<1>2. k # 0
  BY DEF Sheet, Tallied
<1>3. /\ t.n = s.n /\ t.rows = s.rows + o.rows /\ t.topK = k /\ t.caps = caps
      /\ t.act = Plus(s.act, o.act) /\ t.first = Plus(s.first, o.first)
      /\ t.gate = Plus(s.gate, o.gate) /\ t.norm = Plus(s.norm, o.norm)
      /\ t.pair = Plus2(s.pair, o.pair) /\ t.pairSum = Plus2(s.pairSum, o.pairSum)
  BY <1>1, <1>2 DEF Joined
<1> HIDE DEF t
<1>4. /\ t.act = [e \in E |-> s.act[e] + o.act[e]]
      /\ t.first = [e \in E |-> s.first[e] + o.first[e]]
      /\ t.gate = [e \in E |-> s.gate[e] + o.gate[e]]
      /\ t.norm = [e \in E |-> s.norm[e] + o.norm[e]]
  BY <1>1, <1>3 DEF Plus
<1>5. t.pair = [i \in E |-> [j \in E |-> s.pair[i][j] + o.pair[i][j]]]
  BY <1>1, <1>3 DEF Plus, Plus2
<1>6. t.pairSum = [i \in E |-> [j \in E |-> s.pairSum[i][j] + o.pairSum[i][j]]]
  BY <1>1, <1>3 DEF Plus, Plus2
<1>7. Totals(s, o, t)
  BY <1>1, <1>3, <1>4, <1>5, <1>6 DEF Totals, Adds
<1> QED
  BY <1>3, <1>7, SheetsAdd DEF t

(* What merge() makes of the statistics of one capability.                 *)
Merged(s, o, c) ==
    IF c \notin DOMAIN o.caps THEN s.caps[c]
    ELSE IF c \notin DOMAIN s.caps THEN o.caps[c]
    ELSE Joined(s.caps[c], o.caps[c], NoCaps)

LEMMA MergeIs ==
    ASSUME NEW s, NEW o
    PROVE  Merge(s, o) = Joined(s, o, [c \in DOMAIN s.caps \cup DOMAIN o.caps |-> Merged(s, o, c)])
<1>1. [c \in DOMAIN s.caps \cup DOMAIN o.caps |->
        CASE c \notin DOMAIN o.caps -> s.caps[c]
          [] c \notin DOMAIN s.caps -> o.caps[c]
          [] OTHER -> Joined(s.caps[c], o.caps[c], NoCaps)] =
      [c \in DOMAIN s.caps \cup DOMAIN o.caps |-> Merged(s, o, c)]
  BY DEF Merged
<1> QED
  BY <1>1 DEF Merge

LEMMA MergedIsSheet ==
    ASSUME NEW s, NEW o, NEW k, Healthy(s, k), Healthy(o, k), s.n = o.n,
           NEW c \in DOMAIN s.caps \cup DOMAIN o.caps
    PROVE  /\ Sheet(Merged(s, o, c), k) /\ Merged(s, o, c).caps = NoCaps
           /\ Merged(s, o, c).n = s.n /\ c # Unnamed
           /\ Merged(s, o, c).rows = (IF c \in DOMAIN s.caps THEN s.caps[c].rows ELSE 0)
                                   + (IF c \in DOMAIN o.caps THEN o.caps[c].rows ELSE 0)
           /\ \A e \in Experts(s.n) : Merged(s, o, c).act[e] =< s.act[e] + o.act[e]
<1> DEFINE t == Merged(s, o, c)
<1>1. ASSUME NEW x \in {s, o}, NEW d \in DOMAIN x.caps
      PROVE  /\ Sheet(x.caps[d], k) /\ x.caps[d].caps = NoCaps /\ x.caps[d].n = s.n
             /\ d # Unnamed /\ x.caps[d].rows \in Nat
             /\ \A e \in Experts(s.n) : /\ x.caps[d].act[e] \in Nat /\ x.act[e] \in Nat
                                        /\ x.caps[d].act[e] =< x.act[e]
  BY DEF Healthy, CapsOK, Sheet, Tallied
<1>2. \A e \in Experts(s.n) : s.act[e] \in Nat /\ o.act[e] \in Nat
  BY DEF Healthy, Sheet, Tallied
<1>3. CASE c \notin DOMAIN o.caps
  <2>1. t = s.caps[c] /\ c \in DOMAIN s.caps
    BY <1>3 DEF Merged
  <2>2. /\ Sheet(t, k) /\ t.caps = NoCaps /\ t.n = s.n /\ c # Unnamed /\ t.rows \in Nat
        /\ \A e \in Experts(s.n) : t.act[e] \in Nat /\ t.act[e] =< s.act[e]
    BY <1>1, <2>1
  <2> HIDE DEF t
  <2>3. \A e \in Experts(s.n) : t.act[e] =< s.act[e] + o.act[e]
    BY <1>2, <2>2
  <2>4. t.rows = s.caps[c].rows + 0
    BY <2>1, <2>2
  <2> QED
    BY <1>3, <2>1, <2>2, <2>3, <2>4 DEF t
<1>4. CASE c \in DOMAIN o.caps /\ c \notin DOMAIN s.caps
  <2>1. t = o.caps[c]
    BY <1>4 DEF Merged
  <2>2. /\ Sheet(t, k) /\ t.caps = NoCaps /\ t.n = s.n /\ c # Unnamed /\ t.rows \in Nat
        /\ \A e \in Experts(s.n) : t.act[e] \in Nat /\ t.act[e] =< o.act[e]
    BY <1>1, <1>4, <2>1
  <2> HIDE DEF t
  <2>3. \A e \in Experts(s.n) : t.act[e] =< s.act[e] + o.act[e]
    BY <1>2, <2>2
  <2>4. t.rows = 0 + o.caps[c].rows
    BY <2>1, <2>2
  <2> QED
    BY <1>4, <2>1, <2>2, <2>3, <2>4 DEF t
<1>5. CASE c \in DOMAIN o.caps /\ c \in DOMAIN s.caps
  <2>1. t = Joined(s.caps[c], o.caps[c], NoCaps)
    BY <1>5 DEF Merged
  <2>2. /\ Sheet(s.caps[c], k) /\ Sheet(o.caps[c], k) /\ s.caps[c].n = s.n /\ o.caps[c].n = s.n
        /\ c # Unnamed
        /\ \A e \in Experts(s.n) : /\ s.caps[c].act[e] \in Nat /\ s.caps[c].act[e] =< s.act[e]
                                   /\ o.caps[c].act[e] \in Nat /\ o.caps[c].act[e] =< o.act[e]
    BY <1>1, <1>5
  <2> HIDE DEF t
  <2>3. Totals(s.caps[c], o.caps[c], t) /\ Sheet(t, k) /\ t.caps = NoCaps
    BY <2>1, <2>2, JoinedTotals
  <2>4. /\ t.n = s.n /\ t.rows = s.caps[c].rows + o.caps[c].rows
        /\ \A e \in Experts(s.n) : t.act[e] = s.caps[c].act[e] + o.caps[c].act[e]
    BY <2>2, <2>3 DEF Totals, Adds
  <2>5. \A e \in Experts(s.n) : t.act[e] =< s.act[e] + o.act[e]
    BY <1>2, <2>2, <2>4
  <2> QED
    BY <1>5, <2>2, <2>3, <2>4, <2>5 DEF t
<1> QED
  BY <1>3, <1>4, <1>5

(* merge() of two statistics of as many experts, of rows of as many, does  *)
(* not raise, and gives statistics that may be merged and added to again.  *)
THEOREM MergeIsHealthy ==
    ASSUME NEW s, NEW o, NEW k, Healthy(s, k), Healthy(o, k), s.n = o.n
    PROVE  MergeOK(s, o) /\ Healthy(Merge(s, o), k)
<1> DEFINE S == DOMAIN s.caps
           O == DOMAIN o.caps
           caps == [c \in S \cup O |-> Merged(s, o, c)]
           t == Merge(s, o)
           ofs == [c \in S \cup O |-> IF c \in S THEN s.caps[c].rows ELSE 0]
           ofo == [c \in S \cup O |-> IF c \in O THEN o.caps[c].rows ELSE 0]
           rows == [c \in S \cup O |-> caps[c].rows]
           srows == [c \in S |-> s.caps[c].rows]
           orows == [c \in O |-> o.caps[c].rows]
<1>1. /\ Sheet(s, k) /\ Sheet(o, k) /\ s.rows \in Nat /\ o.rows \in Nat
      /\ IsFiniteSet(S) /\ IsFiniteSet(O)
      /\ SumFunction(srows) =< s.rows /\ SumFunction(orows) =< o.rows
      /\ \A c \in S : s.caps[c].rows \in Nat
      /\ \A c \in O : o.caps[c].rows \in Nat
  BY DEF Healthy, CapsOK, Sheet, Tallied
<1>2. t = Joined(s, o, caps)
  BY MergeIs
<1> HIDE DEF t
<1>3. Sheet(t, k) /\ t.caps = caps /\ Totals(s, o, t)
  BY <1>1, <1>2, JoinedTotals
<1>4. /\ t.n = s.n /\ t.rows = s.rows + o.rows
      /\ \A e \in Experts(s.n) : t.act[e] = s.act[e] + o.act[e]
  BY <1>3 DEF Totals, Adds
<1>5. \A c \in S \cup O :
        /\ Sheet(caps[c], k) /\ caps[c].caps = NoCaps /\ caps[c].n = s.n /\ c # Unnamed
        /\ caps[c].rows = ofs[c] + ofo[c]
        /\ \A e \in Experts(s.n) : caps[c].act[e] =< s.act[e] + o.act[e]
  BY MergedIsSheet
<1>6. DOMAIN caps = S \cup O /\ caps = [c \in DOMAIN caps |-> caps[c]]
  OBVIOUS
<1>7. IsFiniteSet(S \cup O)
  BY <1>1, FS_Union
<1>8. /\ \A c \in S \cup O : ofs[c] \in Nat /\ ofo[c] \in Nat /\ rows[c] = caps[c].rows
      /\ \A c \in S : ofs[c] = srows[c]
      /\ \A c \in (S \cup O) \ S : ofs[c] = 0
      /\ \A c \in O : ofo[c] = orows[c]
      /\ \A c \in (S \cup O) \ O : ofo[c] = 0
      /\ DOMAIN srows = S /\ DOMAIN orows = O /\ DOMAIN rows = S \cup O
  BY <1>1
<1>9. \A c \in S \cup O : rows[c] = ofs[c] + ofo[c]
  BY <1>5, <1>8
<1> HIDE DEF S, O, caps, ofs, ofo, srows, orows, rows
<1> DEFINE U == S \cup O
<1>10. SumFunctionOnSet(rows, U) = SumFunctionOnSet(ofs, U) + SumFunctionOnSet(ofo, U)
  <2>1. \A c \in U : ofs[c] \in Int /\ ofo[c] \in Int /\ rows[c] = ofs[c] + ofo[c]
    BY <1>8, <1>9
  <2>2. IsFiniteSet(U)
    BY <1>7
  <2> HIDE DEF U
  <2> QED
    BY <2>1, <2>2, SumPlus
<1>11. /\ SumFunctionOnSet(ofs, U) = SumFunctionOnSet(srows, S)
       /\ SumFunctionOnSet(ofo, U) = SumFunctionOnSet(orows, O)
  <2>1. /\ IsFiniteSet(U) /\ S \in SUBSET U /\ O \in SUBSET U
        /\ \A c \in U : ofs[c] \in Int /\ ofo[c] \in Int
        /\ \A c \in U \ S : ofs[c] = 0
        /\ \A c \in U \ O : ofo[c] = 0
    BY <1>7, <1>8
  <2> HIDE DEF U
  <2>2. SumFunctionOnSet(ofs, U) = SumFunctionOnSet(srows, S)
    BY <1>8, <2>1, SumOfSupport
  <2>3. SumFunctionOnSet(ofo, U) = SumFunctionOnSet(orows, O)
    BY <1>8, <2>1, SumOfSupport
  <2> QED
    BY <2>2, <2>3
<1>12. \A c \in U : ofs[c] =< s.rows /\ ofo[c] =< o.rows
  BY <1>1, <1>8 DEF Healthy, CapsOK, S, O, ofs, ofo
<1>13. CapsOK(t)
  <2>1. SumFunction(rows) =< t.rows
    <3>1. SumFunctionOnSet(srows, S) \in Nat /\ SumFunctionOnSet(orows, O) \in Nat
      <4>1. \A c \in S : srows[c] \in Nat
        BY <1>8
      <4>2. \A c \in O : orows[c] \in Nat
        BY <1>8
      <4> QED
        BY <1>1, <4>1, <4>2, SumIsNatural
    <3>2. /\ SumFunction(rows) = SumFunctionOnSet(rows, U)
          /\ SumFunctionOnSet(srows, S) =< s.rows /\ SumFunctionOnSet(orows, O) =< o.rows
      BY <1>1, <1>8 DEF SumFunction
    <3> HIDE DEF U
    <3> QED
      BY <1>1, <1>4, <1>10, <1>11, <3>1, <3>2
  <2>2. \A c \in U : caps[c].rows =< t.rows
    <3> TAKE c \in U
    <3>1. PICK x \in Nat, y \in Nat : x = ofs[c] /\ y = ofo[c]
      BY <1>8
    <3>2. x =< s.rows /\ y =< o.rows /\ caps[c].rows = x + y
      BY <1>5, <1>12, <3>1
    <3> QED
      BY <1>1, <1>4, <3>2
  <2>3. \A c \in U : c # Unnamed /\ caps[c].n = t.n /\ \A e \in Experts(t.n) : caps[c].act[e] =< t.act[e]
    BY <1>4, <1>5
  <2> QED
    BY <1>3, <1>6, <2>1, <2>2, <2>3 DEF CapsOK, rows
<1>14. Healthy(t, k)
  BY <1>3, <1>5, <1>6, <1>7, <1>13 DEF Healthy
<1>15. MergeOK(s, o)
  <2>1. Valid(o) /\ Valid(t)
    BY <1>14, HealthyLoads DEF Loads
  <2>2. \A c \in S \cap O : Compatible(s.caps[c], o.caps[c])
    BY DEF Healthy, CapsOK, Sheet, Tallied, Compatible, S, O
  <2>3. Compatible(s, o)
    BY <1>1 DEF Sheet, Tallied, Compatible
  <2> QED
    BY <2>1, <2>2, <2>3 DEF MergeOK, S, O, t
<1> QED
  BY <1>14, <1>15 DEF t

---------------------------------------------------------------------------
(* Adding up does not depend on where one begins.                          *)
LEMMA TotalsAssociate ==
    ASSUME NEW s, NEW o, NEW f, NEW k, Tallied(s, k), Tallied(o, k), Tallied(f, k),
           NEW m, Totals(s, o, m), NEW u, Totals(o, f, u),
           NEW p, Totals(s, u, p), NEW q, Totals(m, f, q)
    PROVE  SameNumbers(p, q)
<1> DEFINE E == Experts(s.n)
<1>1. /\ s.n = o.n /\ o.n = f.n /\ m.n = s.n /\ u.n = s.n /\ p.n = s.n /\ q.n = s.n
      /\ p.topK = k /\ q.topK = k /\ m.topK = k
  BY DEF Totals, Adds, Tallied
<1>2. p.rows = q.rows
  <2>1. /\ s.rows \in Nat /\ o.rows \in Nat /\ f.rows \in Nat
        /\ m.rows = s.rows + o.rows /\ u.rows = o.rows + f.rows
        /\ p.rows = s.rows + u.rows /\ q.rows = m.rows + f.rows
    BY DEF Totals, Adds, Tallied
  <2> QED
    BY <2>1
<1>3. /\ s.act \in [E -> Nat] /\ o.act \in [E -> Nat] /\ f.act \in [E -> Nat]
      /\ s.first \in [E -> Nat] /\ o.first \in [E -> Nat] /\ f.first \in [E -> Nat]
      /\ s.gate \in [E -> Nat] /\ o.gate \in [E -> Nat] /\ f.gate \in [E -> Nat]
      /\ s.norm \in [E -> Nat] /\ o.norm \in [E -> Nat] /\ f.norm \in [E -> Nat]
  BY <1>1 DEF Tallied
<1>4. /\ s.pair \in [E -> [E -> Nat]] /\ o.pair \in [E -> [E -> Nat]] /\ f.pair \in [E -> [E -> Nat]]
      /\ s.pairSum \in [E -> [E -> Nat]] /\ o.pairSum \in [E -> [E -> Nat]]
      /\ f.pairSum \in [E -> [E -> Nat]]
  BY <1>1 DEF Tallied
<1>5. p.act = q.act
  <2>1. /\ m.act = [e \in E |-> s.act[e] + o.act[e]] /\ u.act = [e \in E |-> o.act[e] + f.act[e]]
        /\ p.act = [e \in E |-> s.act[e] + u.act[e]] /\ q.act = [e \in E |-> m.act[e] + f.act[e]]
    BY <1>1 DEF Totals, Adds
  <2>2. \A e \in E : s.act[e] + u.act[e] = m.act[e] + f.act[e]
    BY <1>3, <2>1
  <2> QED
    BY <2>1, <2>2
<1>6. p.first = q.first
  <2>1. /\ m.first = [e \in E |-> s.first[e] + o.first[e]]
        /\ u.first = [e \in E |-> o.first[e] + f.first[e]]
        /\ p.first = [e \in E |-> s.first[e] + u.first[e]]
        /\ q.first = [e \in E |-> m.first[e] + f.first[e]]
    BY <1>1 DEF Totals
  <2>2. \A e \in E : s.first[e] + u.first[e] = m.first[e] + f.first[e]
    BY <1>3, <2>1
  <2> QED
    BY <2>1, <2>2
<1>7. p.gate = q.gate
  <2>1. /\ m.gate = [e \in E |-> s.gate[e] + o.gate[e]]
        /\ u.gate = [e \in E |-> o.gate[e] + f.gate[e]]
        /\ p.gate = [e \in E |-> s.gate[e] + u.gate[e]]
        /\ q.gate = [e \in E |-> m.gate[e] + f.gate[e]]
    BY <1>1 DEF Totals
  <2>2. \A e \in E : s.gate[e] + u.gate[e] = m.gate[e] + f.gate[e]
    BY <1>3, <2>1
  <2> QED
    BY <2>1, <2>2
<1>8. p.norm = q.norm
  <2>1. /\ m.norm = [e \in E |-> s.norm[e] + o.norm[e]]
        /\ u.norm = [e \in E |-> o.norm[e] + f.norm[e]]
        /\ p.norm = [e \in E |-> s.norm[e] + u.norm[e]]
        /\ q.norm = [e \in E |-> m.norm[e] + f.norm[e]]
    BY <1>1 DEF Totals
  <2>2. \A e \in E : s.norm[e] + u.norm[e] = m.norm[e] + f.norm[e]
    BY <1>3, <2>1
  <2> QED
    BY <2>1, <2>2
<1>9. p.pair = q.pair
  <2>1. /\ m.pair = [i \in E |-> [j \in E |-> s.pair[i][j] + o.pair[i][j]]]
        /\ u.pair = [i \in E |-> [j \in E |-> o.pair[i][j] + f.pair[i][j]]]
        /\ p.pair = [i \in E |-> [j \in E |-> s.pair[i][j] + u.pair[i][j]]]
        /\ q.pair = [i \in E |-> [j \in E |-> m.pair[i][j] + f.pair[i][j]]]
    BY <1>1 DEF Totals, Adds
  <2>2. \A i, j \in E : s.pair[i][j] + u.pair[i][j] = m.pair[i][j] + f.pair[i][j]
    BY <1>4, <2>1
  <2> QED
    BY <2>1, <2>2
<1>10. p.pairSum = q.pairSum
  <2>1. /\ m.pairSum = [i \in E |-> [j \in E |-> s.pairSum[i][j] + o.pairSum[i][j]]]
        /\ u.pairSum = [i \in E |-> [j \in E |-> o.pairSum[i][j] + f.pairSum[i][j]]]
        /\ p.pairSum = [i \in E |-> [j \in E |-> s.pairSum[i][j] + u.pairSum[i][j]]]
        /\ q.pairSum = [i \in E |-> [j \in E |-> m.pairSum[i][j] + f.pairSum[i][j]]]
    BY <1>1 DEF Totals
  <2>2. \A i, j \in E : s.pairSum[i][j] + u.pairSum[i][j] = m.pairSum[i][j] + f.pairSum[i][j]
    BY <1>4, <2>1
  <2> QED
    BY <2>1, <2>2
<1> QED
  BY <1>1, <1>2, <1>5, <1>6, <1>7, <1>8, <1>9, <1>10 DEF SameNumbers

(* Statistics have nothing but their numbers and their capabilities.       *)
Numbers(t, caps) ==
    [n |-> t.n, topK |-> t.topK, rows |-> t.rows, act |-> t.act, pair |-> t.pair,
     pairSum |-> t.pairSum, first |-> t.first, gate |-> t.gate, norm |-> t.norm, caps |-> caps]

LEMMA OtherCaps ==
    ASSUME NEW t, NEW old, NEW caps
    PROVE  [Numbers(t, old) EXCEPT !.caps = caps] = Numbers(t, caps)
BY DEF Numbers

LEMMA JoinedNumbers ==
    ASSUME NEW s, NEW o, NEW caps
    PROVE  Joined(s, o, caps) = Numbers(Joined(s, o, caps), caps)
BY DEF Joined, Numbers

LEMMA AccumulateNumbers ==
    ASSUME NEW s, NEW batch, NEW caps
    PROVE  [Accumulate(s, batch) EXCEPT !.caps = caps] = Numbers(Accumulate(s, batch), caps)
<1>1. Accumulate(s, batch) = Numbers(Accumulate(s, batch), s.caps)
  BY DEF Accumulate, Numbers
<1>2. [Accumulate(s, batch) EXCEPT !.caps = caps] =
      [Numbers(Accumulate(s, batch), s.caps) EXCEPT !.caps = caps]
  BY <1>1
<1> QED
  BY <1>2, OtherCaps

(* A batch may be added before or after the merge.                         *)
LEMMA JoinThenAdd ==
    ASSUME NEW s, NEW o, NEW k, Sheet(s, k), Sheet(o, k), s.n = o.n,
           NEW batch, Routed(batch, s.n, k),
           NEW m, SameNumbers(Joined(s, o, NoCaps), m),
           NEW u, SameNumbers(Accumulate(o, batch), u), NEW caps
    PROVE  Joined(s, u, caps) = [Accumulate(m, batch) EXCEPT !.caps = caps]
<1> DEFINE j == Joined(s, o, NoCaps)
           a == Accumulate(o, batch)
           f == SheetOf(batch, s.n, k)
           p == Joined(s, u, caps)
           q == Accumulate(m, batch)
<1>1. Totals(s, o, j) /\ Sheet(j, k)
  BY JoinedTotals
<1>2. Totals(o, f, a) /\ Sheet(a, k) /\ Sheet(f, k)
  BY AccumulateTotals, BatchIsSheet
<1> HIDE DEF j, a, f
<1>3. Totals(s, o, m) /\ Sheet(m, k) /\ m.n = s.n
  <2>1. Totals(s, o, m)
    BY <1>1 DEF Totals, Adds, SameNumbers, j
  <2> QED
    BY <1>1, <2>1, SameSheet DEF Totals, Adds, j
<1>4. Totals(o, f, u) /\ Sheet(u, k) /\ u.n = s.n
  <2>1. Totals(o, f, u)
    BY <1>2 DEF Totals, Adds, SameNumbers, a
  <2> QED
    BY <1>2, <2>1, SameSheet DEF Totals, Adds, a
<1>5. Totals(s, u, p)
  BY <1>4, JoinedTotals
<1>6. Totals(m, f, q)
  BY <1>3, AccumulateTotals DEF f
<1> HIDE DEF p, q
<1>7. SameNumbers(p, q)
  BY <1>2, <1>3, <1>4, <1>5, <1>6, TotalsAssociate DEF Sheet
<1>8. Numbers(p, caps) = Numbers(q, caps)
  BY <1>7 DEF SameNumbers, Numbers
<1>9. p = Numbers(p, caps) /\ [q EXCEPT !.caps = caps] = Numbers(q, caps)
  <2>1. p = Numbers(p, caps)
    BY JoinedNumbers DEF p
  <2>2. [q EXCEPT !.caps = caps] = Numbers(q, caps)
    BY AccumulateNumbers DEF q
  <2> QED
    BY <2>1, <2>2
<1>10. p = [q EXCEPT !.caps = caps]
  BY <1>8, <1>9
<1> QED
  BY <1>10 DEF p, q

LEMMA KeepsCaps ==
    ASSUME NEW s, NEW batch
    PROVE  [Accumulate(s, batch) EXCEPT !.caps = s.caps] = Accumulate(s, batch)
<1>1. Accumulate(s, batch) = Numbers(Accumulate(s, batch), s.caps)
  BY DEF Accumulate, Numbers
<1> QED
  BY <1>1, AccumulateNumbers

(* New statistics add nothing.                                             *)
LEMMA NothingAdds ==
    ASSUME NEW s, NEW k, Sheet(s, k), NEW t, Totals(s, New(s.n, k), t)
    PROVE  SameNumbers(t, s)
<1> DEFINE E == Experts(s.n)
           o == New(s.n, k)
<1>1. /\ s.act \in [E -> Nat] /\ s.first \in [E -> Nat] /\ s.gate \in [E -> Nat]
      /\ s.norm \in [E -> Nat] /\ s.rows \in Nat
      /\ s.pair \in [E -> [E -> Nat]] /\ s.pairSum \in [E -> [E -> Nat]]
  BY DEF Sheet, Tallied
<1>2. /\ o.rows = 0
      /\ \A e \in E : o.act[e] = 0 /\ o.first[e] = 0 /\ o.gate[e] = 0 /\ o.norm[e] = 0
      /\ \A i, j \in E : o.pair[i][j] = 0 /\ o.pairSum[i][j] = 0
  BY DEF New
<1> HIDE DEF o
<1>3. /\ t.n = s.n /\ t.topK = s.topK /\ t.rows = s.rows
      /\ t.act = [e \in E |-> s.act[e]] /\ t.first = [e \in E |-> s.first[e]]
      /\ t.gate = [e \in E |-> s.gate[e]] /\ t.norm = [e \in E |-> s.norm[e]]
  BY <1>1, <1>2 DEF Totals, Adds, o
<1>4. t.pair = [i \in E |-> [j \in E |-> s.pair[i][j]]]
  BY <1>1, <1>2 DEF Totals, Adds, o
<1>5. t.pairSum = [i \in E |-> [j \in E |-> s.pairSum[i][j]]]
  BY <1>1, <1>2 DEF Totals, o
<1> QED
  BY <1>1, <1>3, <1>4, <1>5 DEF SameNumbers

(* Resuming is streaming: a batch added to statistics that are then merged *)
(* into others is a batch added to the merged statistics, with those of    *)
(* every capability.                                                       *)
THEOREM MergeThenAdd ==
    ASSUME NEW s, NEW o, NEW k, Healthy(s, k), Healthy(o, k), s.n = o.n,
           NEW batch, batch # <<>>, Routed(batch, s.n, k), NEW name
    PROVE  Merge(s, AddBatch(o, batch, name)) = AddBatch(Merge(s, o), batch, name)
<1> DEFINE S == DOMAIN s.caps
           O == DOMAIN o.caps
           u == AddBatch(o, batch, name)
           m == Merge(s, o)
           mcaps == [c \in S \cup O |-> Merged(s, o, c)]
           ucaps == [c \in S \cup DOMAIN u.caps |-> Merged(s, u, c)]
<1>1. /\ Sheet(s, k) /\ Sheet(o, k) /\ k \in 1 .. s.n /\ s.n \in Nat
      /\ \A c \in S : Sheet(s.caps[c], k) /\ s.caps[c].n = s.n /\ s.caps[c].caps = NoCaps
      /\ \A c \in O : Sheet(o.caps[c], k) /\ o.caps[c].n = s.n
  BY DEF Healthy, CapsOK, Sheet, Tallied
<1>2. /\ SameNumbers(Accumulate(o, batch), u) /\ u.caps = Caps(o, batch, name)
      /\ AddBatch(m, batch, name) = [Accumulate(m, batch) EXCEPT !.caps = Caps(m, batch, name)]
  BY AddBatchIs
<1>3. m = Joined(s, o, mcaps) /\ m.caps = mcaps /\ SameNumbers(Joined(s, o, NoCaps), m)
  <2>1. m = Joined(s, o, mcaps)
    BY MergeIs
  <2> HIDE DEF m, mcaps
  <2> QED
    BY <2>1 DEF Joined, SameNumbers
<1>4. Sheet(m, k) /\ m.n = s.n
  <2> HIDE DEF m
  <2>1. Sheet(Joined(s, o, NoCaps), k)
    BY <1>1, JoinedTotals
  <2>2. Joined(s, o, NoCaps).n = s.n
    BY DEF Joined
  <2> QED
    BY <1>3, <2>1, <2>2, SameSheet DEF SameNumbers
<1>5. Merge(s, u) = Joined(s, u, ucaps)
  BY MergeIs
<1> HIDE DEF m, u
<1>6. Joined(s, u, ucaps) = [Accumulate(m, batch) EXCEPT !.caps = ucaps]
  <2> HIDE DEF ucaps
  <2> QED
    BY <1>1, <1>2, <1>3, JoinThenAdd
<1>7. Width(m, batch) = k /\ Width(o, batch) = k
  BY <1>1, <1>4, AccumulateTotals
<1>8. ucaps = Caps(m, batch, name)
  <2>1. CASE name = NoLabel
    <3>1. u.caps = o.caps /\ Caps(m, batch, name) = mcaps
      BY <1>2, <1>3, <2>1 DEF Caps
    <3>2. \A c \in S \cup O : Merged(s, u, c) = Merged(s, o, c)
      BY <3>1 DEF Merged
    <3> QED
      BY <3>1, <3>2
  <2>2. CASE name # NoLabel
    <3> DEFINE old == Cap(o, batch, name)
               new == Accumulate(old, batch)
               cap == Cap(m, batch, name)
               W == (S \cup O) \cup {name}
    <3>1. /\ DOMAIN u.caps = O \cup {name} /\ u.caps[name] = new
          /\ \A c \in O \ {name} : u.caps[c] = o.caps[c]
      BY <1>2, <2>2 DEF Caps, With
    <3>2. Caps(m, batch, name) = [c \in W |-> IF c = name THEN Accumulate(cap, batch) ELSE mcaps[c]]
      BY <1>3, <2>2 DEF Caps, With
    <3>3. ucaps = [c \in W |-> Merged(s, u, c)]
      BY <3>1
    <3>4. ASSUME NEW c \in W, c # name PROVE Merged(s, u, c) = mcaps[c]
      <4>1. Merged(s, u, c) = Merged(s, o, c)
        BY <3>1, <3>4 DEF Merged
      <4> QED
        BY <3>4, <4>1
    <3>5. Merged(s, u, name) = Accumulate(cap, batch)
      <4>1. /\ name \in O => old = o.caps[name]
            /\ name \notin O => old = New(s.n, k)
            /\ name \in S \cup O => cap = Merged(s, o, name)
            /\ name \notin S \cup O => cap = New(s.n, k)
        <5>1. DOMAIN m.caps = S \cup O /\ \A c \in S \cup O : m.caps[c] = Merged(s, o, c)
          BY <1>3
        <5> QED
          BY <1>4, <1>7, <5>1 DEF Cap
      <4> HIDE DEF old, cap
      <4>2. CASE name \notin S
        <5>1. Merged(s, u, name) = new
          BY <3>1, <4>2 DEF Merged
        <5>2. cap = old
          BY <4>1, <4>2 DEF Merged
        <5> QED
          BY <5>1, <5>2
      <4>3. CASE name \in S
        <5> DEFINE x == s.caps[name]
        <5>1. Merged(s, u, name) = Joined(x, new, NoCaps)
          BY <3>1, <4>3 DEF Merged
        <5>2. Sheet(x, k) /\ x.n = s.n /\ x.caps = NoCaps
          BY <1>1, <4>3
        <5>3. Sheet(old, k) /\ old.n = s.n
          <6>1. CASE name \in O
            BY <1>1, <4>1, <6>1
          <6>2. CASE name \notin O
            <7>1. old = New(s.n, k) /\ New(s.n, k).n = s.n
              BY <4>1, <6>2 DEF New
            <7> QED
              BY <1>1, <7>1, NothingCounted
          <6> QED
            BY <6>1, <6>2
        <5>4. SameNumbers(Joined(x, old, NoCaps), cap) /\ cap.caps = NoCaps
          <6>1. CASE name \in O
            <7>1. cap = Joined(x, old, NoCaps)
              BY <4>1, <4>3, <6>1 DEF Merged
            <7>2. cap.caps = NoCaps
              BY <7>1 DEF Joined
            <7> QED
              BY <7>1, <7>2 DEF SameNumbers
          <6>2. CASE name \notin O
            <7>1. cap = x /\ old = New(s.n, k)
              BY <4>1, <4>3, <6>2 DEF Merged
            <7>2. Totals(x, old, Joined(x, old, NoCaps))
              BY <5>2, <5>3, JoinedTotals
            <7> HIDE DEF x
            <7>3. SameNumbers(Joined(x, old, NoCaps), x)
              BY <5>2, <7>1, <7>2, NothingAdds
            <7> QED
              BY <5>2, <7>1, <7>3
          <6> QED
            BY <6>1, <6>2
        <5> HIDE DEF x
        <5>5. SameNumbers(Accumulate(old, batch), new)
          BY DEF SameNumbers
        <5> HIDE DEF new
        <5>6. Joined(x, new, NoCaps) = [Accumulate(cap, batch) EXCEPT !.caps = NoCaps]
          BY <5>2, <5>3, <5>4, <5>5, JoinThenAdd
        <5>7. [Accumulate(cap, batch) EXCEPT !.caps = NoCaps] = Accumulate(cap, batch)
          BY <5>4, KeepsCaps
        <5> QED
          BY <5>1, <5>6, <5>7
      <4> QED
        BY <4>2, <4>3
    <3> HIDE DEF W, old, new, cap, mcaps, ucaps
    <3> QED
      BY <3>2, <3>3, <3>4, <3>5
  <2> QED
    BY <2>1, <2>2
<1> HIDE DEF ucaps
<1> QED
  BY <1>2, <1>5, <1>6, <1>8 DEF u, m

---------------------------------------------------------------------------
(* The listener.                                                           *)

(* As many experts are active in a row as the model has it.                *)
PerRow == CHOOSE k : \A b \in Batches : b.routed # <<>> => Len(b.routed[1]) = k

LEMMA PerRowIs ==
    ASSUME NEW b \in Batches, b.routed # <<>>
    PROVE  Len(b.routed[1]) = PerRow /\ PerRow \in 1 .. b.n /\ b.n \in Nat
<1>1. \A c \in Batches : c.routed # <<>> => Len(c.routed[1]) = Len(b.routed[1])
  BY ListenerAssumption
<1>2. \E k : \A c \in Batches : c.routed # <<>> => Len(c.routed[1]) = k
  BY <1>1
<1>3. \A c \in Batches : c.routed # <<>> => Len(c.routed[1]) = PerRow
  BY <1>2 DEF PerRow
<1>4. Len(b.routed[1]) \in 1 .. b.n /\ b.n \in Nat
  BY ListenerAssumption
<1> QED
  BY <1>3, <1>4

Placings == UNION {[D -> Addresses] : D \in SUBSET Layers}

(* A state object, of one of c observers.                                  *)
IsObject(o, c) ==
    /\ o = [owner |-> o.owner, layer |-> o.layer, n |-> o.n, rows |-> o.rows,
            act |-> o.act, whole |-> o.whole]
    /\ o.owner \in 1 .. c /\ o.layer \in Layers /\ o.n \in Nat /\ o.rows \in Nat
    /\ o.act \in [Experts(o.n) -> Nat] /\ o.whole \in BOOLEAN

Typed ==
    /\ specs \subseteq Layers /\ installed \in BOOLEAN /\ label \in Seq(Labels)
    /\ observers \in Seq(Placings) /\ bound \in 0 .. Current
    /\ DOMAIN heap \subseteq Addresses
    /\ \A a \in DOMAIN heap : IsObject(heap[a], Current)
    /\ DOMAIN layerOf \subseteq Addresses /\ \A a \in DOMAIN layerOf : layerOf[a] \in Layers
    /\ turn # Nothing => /\ turn = [layer |-> turn.layer, rows |-> turn.rows]
                         /\ turn.layer \in Layers /\ turn.rows \in Nat /\ Current > 0
                         /\ export = Nothing
    /\ spent \in [Kinds -> Nat] /\ seen \in [Layers -> Nat] /\ reused \subseteq Addresses

(* The state objects of the observer in use, and of the one bound, are     *)
(* alive, and each is that of its layer.                                   *)
Wired ==
    \A i \in {bound, Current} : i > 0 =>
        \A l \in DOMAIN observers[i] :
            /\ observers[i][l] \in DOMAIN heap
            /\ heap[observers[i][l]].owner = i /\ heap[observers[i][l]].layer = l

(* What an object has of an observation, and the statistics of its address. *)
Fits(o, s) ==
    /\ s.n = o.n /\ s.rows =< o.rows
    /\ o.whole => s.rows = o.rows /\ s.act = o.act
Unseen(o) == o.whole => o.rows = 0 /\ o.act = [e \in Experts(o.n) |-> 0]

Matched ==
    \A a \in DOMAIN heap \ reused :
        IF a \in DOMAIN stats THEN Fits(heap[a], stats[a]) ELSE Unseen(heap[a])

Kept ==
    /\ stats = [a \in DOMAIN stats |-> stats[a]]
    /\ DOMAIN stats \subseteq DOMAIN layerOf /\ IsFiniteSet(DOMAIN stats)
    /\ \A a \in DOMAIN stats : Healthy(stats[a], PerRow)

(* The rows of a layer are those of the addresses that were its own.       *)
RowsOf == [a \in DOMAIN stats |-> stats[a].rows]
Own(l) == {a \in DOMAIN stats : layerOf[a] = l}
Tally  == reused = {} => \A l \in Layers : seen[l] = SumFunctionOnSet(RowsOf, Own(l))

ListenerInv ==
    /\ Typed /\ Wired /\ Matched /\ Kept /\ OwnContract /\ Tally
    /\ ExportComplete /\ MergeStreams

LEMMA InvImplies == ListenerInv => RowsCounted /\ StreamsMerge
<1> SUFFICES ASSUME ListenerInv PROVE RowsCounted /\ StreamsMerge
  OBVIOUS
<1>1. DOMAIN stats \subseteq Addresses
  BY DEF ListenerInv, Typed, Kept
<1>2. \A i \in 1 .. Current : /\ DOMAIN observers[i] \subseteq Layers
                              /\ Range(observers[i]) \subseteq Addresses
  <2> TAKE i \in 1 .. Current
  <2>1. observers[i] \in Placings
    BY ElementOfSeq DEF ListenerInv, Typed, Current
  <2>2. PICK D \in SUBSET Layers : observers[i] \in [D -> Addresses]
    BY <2>1 DEF Placings
  <2> QED
    BY <2>2 DEF Range
<1>3. \A a \in DOMAIN heap : ObjectOK(heap[a])
  BY DEF ListenerInv, Typed, IsObject, ObjectOK
<1>4. TypeOK
  BY <1>1, <1>2, <1>3 DEF ListenerInv, Typed, TypeOK
<1>5. OneObservation
  BY DEF ListenerInv, Matched, Fits, Unseen, OneObservation
<1>6. StatsValid
  BY HealthyLoads DEF ListenerInv, Kept, StatsValid
<1> QED
  BY <1>4, <1>5, <1>6 DEF ListenerInv, RowsCounted, StreamsMerge

LEMMA InvInit == Init => ListenerInv
<1> SUFFICES ASSUME Init PROVE ListenerInv
  OBVIOUS
<1> USE DEF Init
<1>1. DOMAIN heap = {} /\ DOMAIN layerOf = {} /\ DOMAIN stats = {}
  BY DEF Empty
<1>2. Current = 0
  BY EmptySeq DEF Current
<1>3. Typed
  <2>1. observers \in Seq(Placings) /\ label \in Seq(Labels)
    BY EmptySeq
  <2>2. spent \in [Kinds -> Nat] /\ seen \in [Layers -> Nat]
    OBVIOUS
  <2>3. /\ specs \subseteq Layers /\ installed \in BOOLEAN
        /\ turn = Nothing /\ reused \subseteq Addresses
    OBVIOUS
  <2>4. bound \in 0 .. Current
    <3>1. bound = 0
      OBVIOUS
    <3> QED
      BY ONLY <1>2, <3>1
  <2>5. /\ DOMAIN heap \subseteq Addresses /\ DOMAIN layerOf \subseteq Addresses
        /\ \A a \in DOMAIN heap : IsObject(heap[a], Current)
        /\ \A a \in DOMAIN layerOf : layerOf[a] \in Layers
    BY <1>1
  <2> QED
    BY <2>1, <2>2, <2>3, <2>4, <2>5 DEF Typed
<1>4. Wired
  BY <1>2 DEF Wired
<1>5. Matched /\ OwnContract
  BY <1>1 DEF Matched, OwnContract
<1>6. Kept
  <2>1. stats = [a \in DOMAIN stats |-> stats[a]]
    BY <1>1 DEF Empty
  <2> QED
    BY <1>1, <2>1, FS_EmptySet DEF Kept
<1>7. Tally
  <2>1. \A l \in Layers : Own(l) = {} /\ seen[l] = 0
    BY <1>1 DEF Own
  <2> QED
    BY <2>1, SumOfNothing DEF Tally
<1>8. ExportComplete /\ MergeStreams
  BY DEF ExportComplete, MergeStreams
<1> QED
  BY <1>3, <1>4, <1>5, <1>6, <1>7, <1>8 DEF ListenerInv

(* A call that leaves what is kept alone.                                  *)
LEMMA StillInv ==
    ASSUME ListenerInv, Typed', export' = Nothing,
           UNCHANGED <<observers, bound, heap, layerOf, stats, seen, reused>>
    PROVE  ListenerInv'
<1>1. Wired'
  BY DEF ListenerInv, Wired, Current
<1>2. Matched' /\ OwnContract'
  BY DEF ListenerInv, Matched, OwnContract
<1>3. Kept'
  BY DEF ListenerInv, Kept
<1>4. Tally'
  BY DEF ListenerInv, Tally, RowsOf, Own
<1>5. ExportComplete' /\ MergeStreams'
  BY DEF ExportComplete, MergeStreams
<1> QED
  BY <1>1, <1>2, <1>3, <1>4, <1>5 DEF ListenerInv

LEMMA SpendTypes ==
    ASSUME spent \in [Kinds -> Nat], NEW k \in Kinds, Spend(k)
    PROVE  spent' \in [Kinds -> Nat]
BY DEF Spend

LEMMA AttachModelInv ==
    ASSUME ListenerInv, NEW m \in Models, AttachModel(m)
    PROVE  ListenerInv'
<1>1. UNCHANGED <<installed, label, observers, bound, kept, turn, spent, seen, reused>>
      /\ export' = Nothing /\ turn = Nothing
  BY DEF AttachModel
<1>2. specs' \subseteq Layers
  BY DEF AttachModel, ListenerInv, Typed
<1>3. Typed'
  BY <1>1, <1>2 DEF ListenerInv, Typed, Current, kept
<1> QED
  BY <1>1, <1>3, StillInv DEF kept

LEMMA InstallInv ==
    ASSUME ListenerInv, Install \/ Uninstall
    PROVE  ListenerInv'
<1>1. /\ UNCHANGED <<specs, label, observers, bound, kept, turn, seen, reused>>
      /\ export' = Nothing /\ turn = Nothing /\ installed' \in BOOLEAN
  BY DEF Install, Uninstall
<1>2. spent' \in [Kinds -> Nat]
  <2>1. spent \in [Kinds -> Nat]
    BY DEF ListenerInv, Typed
  <2>2. "install" \in Kinds
    BY DEF Kinds
  <2> QED
    BY <2>1, <2>2, SpendTypes DEF Install, Uninstall
<1>3. Typed'
  BY <1>1, <1>2 DEF ListenerInv, Typed, Current, kept
<1> QED
  BY <1>1, <1>3, StillInv DEF kept

LEMMA LabelInv ==
    ASSUME ListenerInv, (\E c \in Labels : Enter(c)) \/ Leave
    PROVE  ListenerInv'
<1>1. /\ UNCHANGED <<specs, installed, observers, bound, kept, turn, seen, reused>>
      /\ export' = Nothing /\ turn = Nothing
  BY DEF Enter, Leave
<1>2. spent' \in [Kinds -> Nat]
  <2>1. spent \in [Kinds -> Nat]
    BY DEF ListenerInv, Typed
  <2>2. "label" \in Kinds
    BY DEF Kinds
  <2> QED
    BY <2>1, <2>2, SpendTypes DEF Enter, Leave
<1>3. label' \in Seq(Labels)
  <2>1. label \in Seq(Labels)
    BY DEF ListenerInv, Typed
  <2>2. CASE \E c \in Labels : Enter(c)
    <3>1. PICK c \in Labels : label' = <<c>> \o label
      BY <2>2 DEF Enter
    <3> QED
      BY <2>1, <3>1
  <2>3. CASE Leave
    BY <2>1, <2>3, HeadTailProperties DEF Leave
  <2> QED
    BY <2>2, <2>3
<1>4. Typed'
  BY <1>1, <1>2, <1>3 DEF ListenerInv, Typed, Current, kept
<1> QED
  BY <1>1, <1>4, StillInv DEF kept

LEMMA ForwardInv ==
    ASSUME ListenerInv, NEW n \in {Len(b.routed) : b \in Batches}, Forward(n)
    PROVE  ListenerInv'
<1>1. /\ UNCHANGED <<held, kept, seen, reused>> /\ export' = Nothing
      /\ turn' = [layer |-> 1, rows |-> n] /\ Current > 0 /\ Depth > 0
  BY DEF Forward
<1>2. n \in Nat
  <2>1. PICK b \in Batches : n = Len(b.routed)
    OBVIOUS
  <2>2. b.routed \in Seq(Rows)
    BY ListenerAssumption
  <2> QED
    BY <2>1, <2>2, LenProperties
<1>3. spent' \in [Kinds -> Nat]
  <2>1. spent \in [Kinds -> Nat]
    BY DEF ListenerInv, Typed
  <2>2. "forward" \in Kinds
    BY DEF Kinds
  <2> QED
    BY <2>1, <2>2, SpendTypes DEF Forward
<1>4. /\ turn' = [layer |-> turn'.layer, rows |-> turn'.rows]
      /\ turn'.layer \in Layers /\ turn'.rows \in Nat
  BY <1>1, <1>2, ListenerAssumption DEF Layers
<1>5. Typed'
  BY <1>1, <1>3, <1>4 DEF ListenerInv, Typed, Current, kept, held
<1> QED
  BY <1>1, <1>5, StillInv DEF kept, held

(* Freeing the objects of other observers leaves those that are wired.     *)
LEMMA FreeInv ==
    ASSUME ListenerInv, Typed', Wired', export' = Nothing,
           NEW live \in SUBSET DOMAIN heap, heap' = Restrict(heap, live),
           UNCHANGED <<layerOf, stats, seen, reused>>
    PROVE  ListenerInv'
<1>1. /\ DOMAIN heap' \subseteq DOMAIN heap
      /\ \A a \in DOMAIN heap' : heap'[a] = heap[a]
  BY DEF Restrict
<1>2. Matched' /\ OwnContract'
  BY <1>1 DEF ListenerInv, Matched, OwnContract
<1>3. Kept'
  BY DEF ListenerInv, Kept
<1>4. Tally'
  BY DEF ListenerInv, Tally, RowsOf, Own
<1>5. ExportComplete' /\ MergeStreams'
  BY DEF ExportComplete, MergeStreams
<1> QED
  BY <1>2, <1>3, <1>4, <1>5 DEF ListenerInv

LEMMA MakeObserverInv ==
    ASSUME ListenerInv, MakeObserver
    PROVE  ListenerInv'
<1>1. /\ turn = Nothing /\ observers' = Append(observers, Empty)
      /\ heap' = Restrict(heap, Live({bound})) /\ export' = Nothing
      /\ UNCHANGED <<specs, installed, label, bound, layerOf, stats, turn, seen, reused>>
  BY DEF MakeObserver
<1>2. spent' \in [Kinds -> Nat]
  <2>1. spent \in [Kinds -> Nat]
    BY DEF ListenerInv, Typed
  <2>2. "observer" \in Kinds
    BY DEF Kinds
  <2> QED
    BY <2>1, <2>2, SpendTypes DEF MakeObserver
<1>3. /\ observers \in Seq(Placings) /\ bound \in 0 .. Len(observers) /\ Len(observers) \in Nat
  BY LenProperties DEF ListenerInv, Typed, Current
<1>4. /\ observers' \in Seq(Placings) /\ Len(observers') = Len(observers) + 1
      /\ observers'[Len(observers) + 1] = Empty
      /\ \A i \in 1 .. Len(observers) : observers'[i] = observers[i]
  <2>1. Empty \in Placings
    <3>1. Empty \in [{} -> Addresses] /\ {} \in SUBSET Layers
      BY DEF Empty
    <3> QED
      BY <3>1 DEF Placings
  <2> QED
    BY <1>1, <1>3, <2>1, AppendProperties
<1>5. /\ Live({bound}) \in SUBSET DOMAIN heap
      /\ DOMAIN heap' = Live({bound}) /\ \A a \in Live({bound}) : heap'[a] = heap[a]
      /\ \A a \in Live({bound}) : heap[a].owner = bound
      /\ \A a \in DOMAIN heap : heap[a].owner = bound => a \in Live({bound})
  BY <1>1 DEF Live, Restrict
<1>6. \A a \in DOMAIN heap' : IsObject(heap'[a], Len(observers'))
  <2> TAKE a \in DOMAIN heap'
  <2>1. IsObject(heap[a], Len(observers)) /\ heap'[a] = heap[a]
    BY <1>5 DEF ListenerInv, Typed, Current
  <2>2. heap[a].owner \in 1 .. Len(observers')
    BY <1>3, <1>4, <2>1 DEF IsObject
  <2> QED
    BY <2>1, <2>2 DEF IsObject
<1>7. Typed'
  <2>1. bound' \in 0 .. Len(observers')
    BY <1>1, <1>3, <1>4
  <2>2. DOMAIN heap' \subseteq Addresses
    BY <1>5 DEF ListenerInv, Typed
  <2> QED
    BY <1>1, <1>2, <1>4, <1>6, <2>1, <2>2 DEF ListenerInv, Typed, Current
<1>8. Wired'
  <2> SUFFICES ASSUME NEW i \in {bound', Current'}, i > 0, NEW l \in DOMAIN observers'[i]
               PROVE  /\ observers'[i][l] \in DOMAIN heap'
                      /\ heap'[observers'[i][l]].owner = i /\ heap'[observers'[i][l]].layer = l
    BY DEF Wired
  <2>1. CASE i = Len(observers) + 1
    <3>1. DOMAIN observers'[i] = {}
      BY <1>4, <2>1 DEF Empty
    <3> QED
      BY <3>1
  <2>2. CASE i # Len(observers) + 1
    <3>1. i = bound /\ observers'[i] = observers[i]
      BY <1>1, <1>3, <1>4, <2>2 DEF Current
    <3>2. /\ observers[i][l] \in DOMAIN heap /\ heap[observers[i][l]].owner = i
          /\ heap[observers[i][l]].layer = l
      BY <3>1 DEF ListenerInv, Wired
    <3> QED
      BY <1>5, <3>1, <3>2
  <2> QED
    BY <2>1, <2>2
<1> QED
  BY <1>1, <1>5, <1>7, <1>8, FreeInv

LEMMA BindObserverInv ==
    ASSUME ListenerInv, BindObserver
    PROVE  ListenerInv'
<1>1. /\ turn = Nothing /\ bound' = Current /\ Current > 0
      /\ heap' = Restrict(heap, Live({Current})) /\ export' = Nothing
      /\ UNCHANGED <<specs, installed, label, observers, layerOf, stats, turn, spent, seen, reused>>
  BY DEF BindObserver
<1>2. Current \in Nat /\ Current' = Current
  BY <1>1, LenProperties DEF ListenerInv, Typed, Current
<1>3. /\ Live({Current}) \in SUBSET DOMAIN heap
      /\ DOMAIN heap' = Live({Current}) /\ \A a \in Live({Current}) : heap'[a] = heap[a]
      /\ \A a \in DOMAIN heap : heap[a].owner = Current => a \in Live({Current})
  BY <1>1 DEF Live, Restrict
<1>4. Typed'
  <2>1. DOMAIN heap' \subseteq Addresses /\ \A a \in DOMAIN heap' : IsObject(heap'[a], Current')
    BY <1>2, <1>3 DEF ListenerInv, Typed
  <2>2. bound' \in 0 .. Current'
    BY <1>1, <1>2
  <2>3. turn' = Nothing /\ observers' \in Seq(Placings) /\ label' \in Seq(Labels)
    BY <1>1 DEF ListenerInv, Typed
  <2>4. /\ specs' \subseteq Layers /\ installed' \in BOOLEAN /\ DOMAIN layerOf' \subseteq Addresses
        /\ \A a \in DOMAIN layerOf' : layerOf'[a] \in Layers
        /\ spent' \in [Kinds -> Nat] /\ seen' \in [Layers -> Nat] /\ reused' \subseteq Addresses
    BY <1>1 DEF ListenerInv, Typed
  <2> QED
    BY <2>1, <2>2, <2>3, <2>4 DEF Typed
<1>5. Wired'
  <2> SUFFICES ASSUME NEW l \in DOMAIN observers[Current]
               PROVE  /\ observers[Current][l] \in DOMAIN heap'
                      /\ heap'[observers[Current][l]].owner = Current
                      /\ heap'[observers[Current][l]].layer = l
    BY <1>1, <1>2 DEF Wired
  <2> QED
    BY <1>1, <1>3 DEF ListenerInv, Wired
<1> QED
  BY <1>1, <1>3, <1>4, <1>5, FreeInv

---------------------------------------------------------------------------
(* A hook is called at the address where its layer has its object, or at   *)
(* one that is free, which the listener may have known before.             *)
LEMMA HookFacts ==
    ASSUME ListenerInv, NEW a \in Addresses, NEW b \in Batches, Hooked(a, b)
    PROVE  /\ Layer \in Layers /\ Current \in Nat /\ Current > 0
           /\ IsObject(Object(a, b), Current) /\ Object(a, b).n = b.n
           /\ Object(a, b).owner = Current /\ Object(a, b).layer = Layer
           /\ a \in DOMAIN heap => Object(a, b) = heap[a]
           /\ a \notin DOMAIN heap => Unseen(Object(a, b))
           /\ a \notin reused' => a \in DOMAIN heap \/ a \notin DOMAIN stats \cup DOMAIN layerOf
           /\ reused \subseteq reused' /\ reused' \subseteq Addresses
           /\ export = Nothing /\ export' = Nothing
           /\ b.n \in Nat /\ b.routed \in Seq(Rows)
           /\ Len(b.routed) \in Nat /\ DOMAIN b.routed = 1 .. Len(b.routed)
<1>1. /\ Layer \in Layers /\ Current \in Nat /\ Current > 0 /\ export = Nothing /\ export' = Nothing
  BY LenProperties DEF ListenerInv, Typed, Hooked, Layer, Current
<1>2. /\ b.n \in Nat /\ b.routed \in Seq(Rows)
      /\ Len(b.routed) \in Nat /\ DOMAIN b.routed = 1 .. Len(b.routed)
  BY ListenerAssumption, LenProperties
<1>3. /\ b.n = Object(a, b).n /\ a \in Place /\ reused' = Taken(a)
  BY DEF Hooked
<1>4. /\ a \notin reused' => a \in DOMAIN heap \/ a \notin DOMAIN stats \cup DOMAIN layerOf
      /\ reused \subseteq reused' /\ reused' \subseteq Addresses
  BY <1>3 DEF Taken, ListenerInv, Typed
<1>5. CASE a \in DOMAIN heap
  <2>1. Object(a, b) = heap[a]
    BY <1>5 DEF Object
  <2>2. Layer \in DOMAIN observers[Current] /\ a = observers[Current][Layer]
    BY <1>3, <1>5 DEF Place
  <2>3. heap[a].owner = Current /\ heap[a].layer = Layer
    BY <1>1, <2>2 DEF ListenerInv, Wired
  <2>4. IsObject(heap[a], Current)
    BY <1>5 DEF ListenerInv, Typed
  <2> QED
    BY <1>1, <1>2, <1>3, <1>4, <1>5, <2>1, <2>3, <2>4
<1>6. CASE a \notin DOMAIN heap
  <2>1. Object(a, b) = Fresh(b.n)
    BY <1>6 DEF Object
  <2>2. IsObject(Fresh(b.n), Current) /\ Unseen(Fresh(b.n))
    BY <1>1, <1>2 DEF Fresh, IsObject, Unseen
  <2>3. Fresh(b.n).owner = Current /\ Fresh(b.n).layer = Layer
    BY DEF Fresh
  <2> QED
    BY <1>1, <1>2, <1>3, <1>4, <1>6, <2>1, <2>2, <2>3
<1> QED
  BY <1>5, <1>6

(* The table of layers is only added to, for the object of the hook.       *)
LEMMA CachedIs ==
    ASSUME ListenerInv, NEW a \in Addresses, NEW b \in Batches, Hooked(a, b)
    PROVE  /\ DOMAIN layerOf \subseteq DOMAIN Cached(a)
           /\ DOMAIN Cached(a) \subseteq DOMAIN layerOf \cup {a}
           /\ \A x \in DOMAIN layerOf : Cached(a)[x] = layerOf[x]
           /\ a \in DOMAIN Cached(a) /\ a \notin DOMAIN layerOf => Cached(a)[a] = Layer
           /\ Resolved(a, b) => a \in DOMAIN Cached(a)
<1>1. Layer \in Layers /\ Layer # 0 /\ specs \subseteq Layers
      /\ \A x \in DOMAIN layerOf : layerOf[x] \in Layers /\ layerOf[x] # 0
  BY HookFacts DEF ListenerInv, Typed, Layers
<1>2. CASE a \in DOMAIN layerOf
  <2>1. ResolvedLayer(a) = layerOf[a]
    BY <1>2 DEF ResolvedLayer
  <2>2. Cached(a) = With(layerOf, a, layerOf[a])
    BY <1>1, <1>2, <2>1 DEF Cached
  <2> QED
    BY <1>2, <2>2 DEF With
<1>3. CASE a \notin DOMAIN layerOf /\ bound = Current
  <2>1. Cached(a) = With(layerOf, a, Layer)
    BY <1>1, <1>3 DEF Cached, ResolvedLayer
  <2> QED
    BY <1>3, <2>1 DEF With
<1>4. CASE a \notin DOMAIN layerOf /\ bound # Current
  <2>1. ResolvedLayer(a) = 0
    BY <1>4 DEF ResolvedLayer
  <2>2. Cached(a) = layerOf /\ ~ Resolved(a, b)
    BY <1>1, <2>1 DEF Cached, Resolved, Layers
  <2> QED
    BY <1>4, <2>2
<1> QED
  BY <1>2, <1>3, <1>4

(* What every outcome of a hook keeps: types, the wiring, and that a batch *)
(* is read under the contract of its own layer.                            *)
LEMMA HookWires ==
    ASSUME ListenerInv, NEW a \in Addresses, NEW b \in Batches, Hooked(a, b),
           NEW o, IsObject(o, Current), o.owner = Current, o.layer = Layer,
           heap' = With(heap, a, o), layerOf' \in {layerOf, Cached(a)},
           Proceed \/ Raise, seen' \in [Layers -> Nat]
    PROVE  Typed' /\ Wired' /\ OwnContract' /\ ExportComplete' /\ MergeStreams'
<1>1. /\ UNCHANGED <<specs, installed, label, bound, export>> /\ turn # Nothing
      /\ observers' = [observers EXCEPT ![Current] = With(@, Layer, a)]
  BY DEF Hooked
<1>2. /\ Layer \in Layers /\ Current \in Nat /\ Current > 0 /\ export' = Nothing
      /\ a \notin reused' => a \in DOMAIN heap \/ a \notin DOMAIN stats \cup DOMAIN layerOf
      /\ reused \subseteq reused' /\ reused' \subseteq Addresses
      /\ a \in DOMAIN heap => heap[a].layer = Layer /\ heap[a].owner = Current
  BY HookFacts
<1>3. /\ DOMAIN layerOf \subseteq DOMAIN layerOf' /\ DOMAIN layerOf' \subseteq DOMAIN layerOf \cup {a}
      /\ \A x \in DOMAIN layerOf : layerOf'[x] = layerOf[x]
      /\ a \in DOMAIN layerOf' /\ a \notin DOMAIN layerOf => layerOf'[a] = Layer
  BY CachedIs
<1>4. /\ DOMAIN heap' = DOMAIN heap \cup {a} /\ heap'[a] = o
      /\ \A x \in DOMAIN heap : x # a => heap'[x] = heap[x]
  BY DEF With
<1>5. /\ observers' \in Seq(Placings) /\ Current' = Current
      /\ observers'[Current] = With(observers[Current], Layer, a)
      /\ \A i \in 1 .. Current : i # Current => observers'[i] = observers[i]
  <2>1. observers \in Seq(Placings) /\ Current \in 1 .. Len(observers)
    BY <1>2 DEF ListenerInv, Typed, Current
  <2>2. With(observers[Current], Layer, a) \in Placings
    <3>1. observers[Current] \in Placings
      BY <2>1, ElementOfSeq
    <3>2. PICK D \in SUBSET Layers : observers[Current] \in [D -> Addresses]
      BY <3>1 DEF Placings
    <3>3. /\ With(observers[Current], Layer, a) \in [D \cup {Layer} -> Addresses]
          /\ D \cup {Layer} \in SUBSET Layers
      BY <1>2, <3>2 DEF With
    <3> QED
      BY <3>3 DEF Placings
  <2>3. /\ observers' = [observers EXCEPT ![Current] = With(observers[Current], Layer, a)]
    BY <1>1
  <2> QED
    BY <2>1, <2>2, <2>3, ExceptSeq DEF Current
<1>6. spent' \in [Kinds -> Nat]
  <2>1. spent \in [Kinds -> Nat]
    BY DEF ListenerInv, Typed
  <2>2. "bad" \in Kinds
    BY DEF Kinds
  <2> QED
    BY <2>1, <2>2, SpendTypes DEF Hooked
<1>7. turn' # Nothing => /\ turn' = [layer |-> turn'.layer, rows |-> turn'.rows]
                         /\ turn'.layer \in Layers /\ turn'.rows \in Nat
  <2>1. turn = [layer |-> turn.layer, rows |-> turn.rows] /\ turn.layer \in Layers /\ turn.rows \in Nat
    BY <1>1 DEF ListenerInv, Typed
  <2>2. CASE turn' = [turn EXCEPT !.layer = @ + 1] /\ turn.layer # Depth
    <3>1. turn' = [layer |-> turn.layer + 1, rows |-> turn.rows]
      BY <2>1, <2>2
    <3>2. turn.layer + 1 \in Layers
      BY <2>1, <2>2, ListenerAssumption DEF Layers
    <3> QED
      BY <2>1, <3>1, <3>2
  <2> QED
    BY <2>2 DEF Proceed, Raise, Layer
<1>8. Typed'
  <2>1. DOMAIN heap' \subseteq Addresses /\ \A x \in DOMAIN heap' : IsObject(heap'[x], Current')
    BY <1>4, <1>5 DEF ListenerInv, Typed
  <2>2. DOMAIN layerOf' \subseteq Addresses /\ \A x \in DOMAIN layerOf' : layerOf'[x] \in Layers
    BY <1>2, <1>3 DEF ListenerInv, Typed
  <2>3. bound' \in 0 .. Current' /\ Current' > 0
    BY <1>1, <1>2, <1>5 DEF ListenerInv, Typed
  <2>4. specs' \subseteq Layers /\ installed' \in BOOLEAN /\ label' \in Seq(Labels)
    BY <1>1 DEF ListenerInv, Typed
  <2> QED
    BY <1>2, <1>5, <1>6, <1>7, <2>1, <2>2, <2>3, <2>4 DEF Typed
<1>9. Wired'
  <2> SUFFICES ASSUME NEW i \in {bound', Current'}, i > 0, NEW l \in DOMAIN observers'[i]
               PROVE  /\ observers'[i][l] \in DOMAIN heap'
                      /\ heap'[observers'[i][l]].owner = i /\ heap'[observers'[i][l]].layer = l
    BY DEF Wired
  <2>1. ASSUME NEW j \in {bound, Current}, j > 0, NEW m \in DOMAIN observers[j]
        PROVE  /\ observers[j][m] \in DOMAIN heap'
               /\ heap'[observers[j][m]].owner = j /\ heap'[observers[j][m]].layer = m
    <3>1. /\ observers[j][m] \in DOMAIN heap
          /\ heap[observers[j][m]].owner = j /\ heap[observers[j][m]].layer = m
      BY <2>1 DEF ListenerInv, Wired
    <3> QED
      BY <1>2, <1>4, <3>1
  <2>2. CASE i = Current /\ l = Layer
    BY <1>4, <1>5, <2>2 DEF With
  <2>3. CASE i = Current /\ l # Layer
    <3>1. l \in DOMAIN observers[Current] /\ observers'[i][l] = observers[Current][l]
      BY <1>5, <2>3 DEF With
    <3> QED
      BY <1>2, <2>1, <2>3, <3>1
  <2>4. CASE i # Current
    <3>1. i = bound /\ i \in 1 .. Current
      BY <1>1, <1>2, <1>5, <2>4 DEF ListenerInv, Typed
    <3>2. observers'[i] = observers[i]
      BY <1>5, <2>4, <3>1
    <3> QED
      BY <2>1, <3>1, <3>2
  <2> QED
    BY <2>2, <2>3, <2>4
<1>10. OwnContract'
  <2> SUFFICES ASSUME NEW x \in DOMAIN layerOf', x \in DOMAIN heap', x \notin reused'
               PROVE  layerOf'[x] = heap'[x].layer
    BY DEF OwnContract
  <2>1. CASE x = a
    <3>1. a \in DOMAIN layerOf => a \in DOMAIN heap /\ layerOf[a] = heap[a].layer
      BY <1>2, <2>1 DEF ListenerInv, OwnContract
    <3> QED
      BY <1>2, <1>3, <1>4, <2>1, <3>1
  <2>2. CASE x # a
    BY <1>2, <1>3, <1>4, <2>2 DEF ListenerInv, OwnContract
  <2> QED
    BY <2>1, <2>2
<1>11. ExportComplete' /\ MergeStreams'
  BY <1>2 DEF ExportComplete, MergeStreams
<1> QED
  BY <1>8, <1>9, <1>10, <1>11

(* What REAP measures is added to the object.                              *)
LEMMA MeasuredIs ==
    ASSUME ListenerInv, NEW a \in Addresses, NEW b \in Batches, Hooked(a, b)
    PROVE  /\ IsObject(Measured(a, b), Current)
           /\ Measured(a, b).owner = Current /\ Measured(a, b).layer = Layer
           /\ Measured(a, b).n = b.n
           /\ Measured(a, b).rows = Object(a, b).rows + Len(b.routed)
           /\ Measured(a, b).act = [e \in Experts(b.n) |->
                  Object(a, b).act[e] + Cardinality(Active(b.routed, e))]
           /\ Measured(a, b).whole = (Object(a, b).whole /\ installed /\ Sound(b, Label))
           /\ Object(a, b).rows \in Nat /\ Object(a, b).act \in [Experts(b.n) -> Nat]
           /\ \A e : Cardinality(Active(b.routed, e)) \in Nat
<1> DEFINE o == Object(a, b)
           act == [e \in Experts(o.n) |-> o.act[e] + Cardinality(Active(b.routed, e))]
           whole == o.whole /\ installed /\ Sound(b, Label)
<1>1. /\ IsObject(o, Current) /\ o.n = b.n /\ o.owner = Current /\ o.layer = Layer
      /\ Len(b.routed) \in Nat /\ DOMAIN b.routed = 1 .. Len(b.routed)
  BY HookFacts
<1>2. \A e : Cardinality(Active(b.routed, e)) \in 0 .. Len(b.routed)
  BY <1>1, RowCounts
<1>3. \A e : Cardinality(Active(b.routed, e)) \in Nat
  BY <1>1, <1>2
<1>4. Measured(a, b) = [o EXCEPT !.rows = o.rows + Len(b.routed), !.act = act, !.whole = whole]
  BY DEF Measured
<1>5. /\ o = [owner |-> o.owner, layer |-> o.layer, n |-> o.n, rows |-> o.rows,
              act |-> o.act, whole |-> o.whole]
      /\ o.owner \in 1 .. Current /\ o.layer \in Layers /\ o.n \in Nat /\ o.rows \in Nat
      /\ o.act \in [Experts(o.n) -> Nat] /\ o.whole \in BOOLEAN
  BY <1>1 DEF IsObject
<1>6. act \in [Experts(o.n) -> Nat]
  BY <1>3, <1>5
<1>7. whole \in BOOLEAN /\ act = [e \in Experts(b.n) |-> o.act[e] + Cardinality(Active(b.routed, e))]
  BY <1>1 DEF Sound
<1> HIDE DEF o, act, whole
<1> DEFINE m == Measured(a, b)
<1>8. /\ m = [owner |-> m.owner, layer |-> m.layer, n |-> m.n, rows |-> m.rows,
              act |-> m.act, whole |-> m.whole]
      /\ m.owner = o.owner /\ m.layer = o.layer /\ m.n = o.n
      /\ m.rows = o.rows + Len(b.routed) /\ m.act = act /\ m.whole = whole
  <2>1. m = [owner |-> o.owner, layer |-> o.layer, n |-> o.n, rows |-> o.rows + Len(b.routed),
             act |-> act, whole |-> whole]
    BY <1>4, <1>5
  <2> HIDE DEF m
  <2> QED
    BY <2>1
<1> HIDE DEF m
<1>9. IsObject(m, Current)
  BY <1>1, <1>5, <1>6, <1>7, <1>8 DEF IsObject
<1> QED
  BY <1>1, <1>3, <1>5, <1>7, <1>8, <1>9 DEF m, o, whole

(* The statistics a batch is added to are those of its object.             *)
LEMMA KnownFacts ==
    ASSUME ListenerInv, NEW a \in Addresses, NEW b \in Batches, Hooked(a, b), b.routed # <<>>
    PROVE  /\ Healthy(Known(a, b), PerRow) /\ Width(Known(a, b), b.routed) = Len(b.routed[1])
           /\ Known(a, b).n \in Nat
           /\ Known(a, b).rows = IF a \in DOMAIN stats THEN stats[a].rows ELSE 0
           /\ a \notin reused' => Fits(Object(a, b), Known(a, b))
<1>1. Len(b.routed[1]) = PerRow /\ PerRow \in 1 .. b.n /\ b.n \in Nat
  BY PerRowIs
<1>2. /\ IsObject(Object(a, b), Current) /\ Object(a, b).n = b.n
      /\ a \in DOMAIN heap => Object(a, b) = heap[a]
      /\ a \notin DOMAIN heap => Unseen(Object(a, b))
      /\ a \notin reused' => a \in DOMAIN heap \/ a \notin DOMAIN stats \cup DOMAIN layerOf
      /\ reused \subseteq reused'
  BY HookFacts
<1>3. CASE a \in DOMAIN stats
  <2>1. Known(a, b) = stats[a] /\ Healthy(stats[a], PerRow)
    BY <1>3 DEF Known, ListenerInv, Kept
  <2>2. a \notin reused' => Fits(Object(a, b), stats[a])
    BY <1>2, <1>3 DEF ListenerInv, Matched
  <2>3. stats[a].topK = PerRow /\ stats[a].n \in Nat
    BY <2>1 DEF Healthy, Sheet, Tallied
  <2> QED
    BY <1>1, <1>3, <2>1, <2>2, <2>3 DEF Width
<1>4. CASE a \notin DOMAIN stats
  <2>1. Known(a, b) = New(b.n, PerRow)
    BY <1>1, <1>4 DEF Known
  <2>2. Healthy(New(b.n, PerRow), PerRow)
    BY <1>1, NewIsHealthy
  <2>3. /\ New(b.n, PerRow).n = b.n /\ New(b.n, PerRow).rows = 0 /\ New(b.n, PerRow).topK = PerRow
        /\ New(b.n, PerRow).act = [e \in Experts(b.n) |-> 0]
    BY DEF New
  <2>4. a \notin reused' => Unseen(Object(a, b))
    BY <1>2, <1>4 DEF ListenerInv, Matched
  <2>5. Object(a, b).rows \in Nat
    BY <1>2 DEF IsObject
  <2>6. a \notin reused' => Fits(Object(a, b), New(b.n, PerRow))
    BY <1>2, <2>3, <2>4, <2>5 DEF Fits, Unseen
  <2> QED
    BY <1>1, <1>4, <2>1, <2>2, <2>3, <2>6 DEF Width
<1> QED
  BY <1>3, <1>4

(* An outcome that leaves the statistics alone.                            *)
LEMMA HookKeeps ==
    ASSUME ListenerInv, NEW a \in Addresses, NEW b \in Batches, Hooked(a, b),
           layerOf' \in {layerOf, Cached(a)}, stats' = stats, seen' = seen
    PROVE  Kept' /\ Tally'
<1>1. /\ DOMAIN layerOf \subseteq DOMAIN layerOf' /\ \A x \in DOMAIN layerOf : layerOf'[x] = layerOf[x]
  BY CachedIs
<1>2. reused \subseteq reused'
  BY HookFacts
<1>3. Kept'
  BY <1>1 DEF ListenerInv, Kept
<1>4. \A l : Own(l)' = Own(l)
  BY <1>1 DEF ListenerInv, Kept, Own
<1>5. RowsOf' = RowsOf
  BY DEF RowsOf
<1>6. Tally'
  <2> SUFFICES ASSUME reused' = {}, NEW l \in Layers
               PROVE  seen'[l] = SumFunctionOnSet(RowsOf', Own(l)')
    BY DEF Tally
  <2>1. seen[l] = SumFunctionOnSet(RowsOf, Own(l))
    BY <1>2 DEF ListenerInv, Tally
  <2> QED
    BY <1>4, <1>5, <2>1
<1> QED
  BY <1>3, <1>6

(* One that gives the object of the hook statistics with m more rows.      *)
LEMMA HookAdds ==
    ASSUME ListenerInv, NEW a \in Addresses, NEW b \in Batches, Hooked(a, b), Resolved(a, b),
           layerOf' = Cached(a), NEW s, Healthy(s, PerRow), stats' = With(stats, a, s),
           NEW m \in Nat, s.rows = (IF a \in DOMAIN stats THEN stats[a].rows ELSE 0) + m,
           seen' = [seen EXCEPT ![Layer] = @ + m]
    PROVE  Kept' /\ Tally'
<1>1. /\ DOMAIN layerOf \subseteq DOMAIN layerOf'
      /\ \A x \in DOMAIN layerOf : layerOf'[x] = layerOf[x]
      /\ a \in DOMAIN layerOf'
      /\ a \notin DOMAIN layerOf => layerOf'[a] = Layer
  BY CachedIs
<1>2. /\ reused \subseteq reused' /\ Layer \in Layers
      /\ a \notin reused' => a \in DOMAIN heap \/ a \notin DOMAIN stats \cup DOMAIN layerOf
      /\ a \in DOMAIN heap => heap[a].layer = Layer
  BY HookFacts
<1>3. /\ DOMAIN stats' = DOMAIN stats \cup {a} /\ stats'[a] = s
      /\ \A x \in DOMAIN stats : x # a => stats'[x] = stats[x]
  BY DEF With
<1>4. /\ DOMAIN stats \subseteq DOMAIN layerOf /\ IsFiniteSet(DOMAIN stats)
      /\ \A x \in DOMAIN stats : Healthy(stats[x], PerRow) /\ stats[x].rows \in Nat
      /\ seen \in [Layers -> Nat]
  BY DEF ListenerInv, Kept, Healthy, Sheet, Tallied, Typed
<1>5. Kept'
  <2>1. IsFiniteSet(DOMAIN stats \cup {a})
    BY <1>4, FS_AddElement
  <2>2. DOMAIN stats' \subseteq DOMAIN layerOf'
    BY <1>1, <1>3, <1>4
  <2>3. \A x \in DOMAIN stats' : Healthy(stats'[x], PerRow)
    BY <1>3, <1>4
  <2>4. stats' = [x \in DOMAIN stats' |-> stats'[x]]
    BY DEF With
  <2> QED
    BY <1>3, <2>1, <2>2, <2>3, <2>4 DEF Kept, PerRow
<1>6. ASSUME reused' = {}, NEW l \in Layers
      PROVE  seen'[l] = SumFunctionOnSet(RowsOf', Own(l)')
  <2>1. layerOf'[a] = Layer /\ (a \in DOMAIN layerOf => layerOf[a] = Layer)
    BY <1>1, <1>2, <1>6 DEF ListenerInv, OwnContract
  <2>2. seen[l] = SumFunctionOnSet(RowsOf, Own(l))
    BY <1>2, <1>6 DEF ListenerInv, Tally
  <2>3. /\ \A x \in Own(l) : x \in DOMAIN stats /\ RowsOf[x] = stats[x].rows /\ RowsOf[x] \in Int
        /\ \A x \in Own(l) : x # a => RowsOf'[x] = RowsOf[x]
        /\ RowsOf'[a] = s.rows
    BY <1>3, <1>4 DEF Own, RowsOf
  <2>4. IsFiniteSet(Own(l))
    <3>1. Own(l) \subseteq DOMAIN stats
      BY DEF Own
    <3> QED
      BY <1>4, <3>1, FS_Subset
  <2>5. /\ \A x : x # a => (x \in Own(l)' <=> x \in Own(l))
        /\ a \in Own(l)' <=> l = Layer
        /\ a \in Own(l) <=> a \in DOMAIN stats /\ l = Layer
    <3>1. \A x : /\ x \in Own(l)' <=> x \in DOMAIN stats' /\ layerOf'[x] = l
                 /\ x \in Own(l) <=> x \in DOMAIN stats /\ layerOf[x] = l
      BY DEF Own
    <3>2. \A x : x # a => (x \in Own(l)' <=> x \in Own(l))
      BY <1>1, <1>3, <1>4, <3>1
    <3>3. a \in DOMAIN stats' /\ (a \in DOMAIN stats => layerOf[a] = Layer)
      BY <1>3, <1>4, <2>1
    <3> QED
      BY <2>1, <3>1, <3>2, <3>3
  <2>6. CASE l # Layer
    <3>1. Own(l)' = Own(l) /\ a \notin Own(l)
      BY <2>6, <2>5
    <3>2. \A x \in Own(l) : RowsOf'[x] = RowsOf[x]
      BY <2>3, <3>1
    <3>3. SumFunctionOnSet(RowsOf', Own(l)) = SumFunctionOnSet(RowsOf, Own(l))
      BY <2>4, <3>2, SumSame
    <3>4. seen'[l] = seen[l]
      BY <1>2, <1>4, <2>6
    <3> QED
      BY <2>2, <3>1, <3>3, <3>4
  <2>7. CASE l = Layer
    <3>1. Own(l)' = Own(l) \cup {a} /\ (a \in Own(l) <=> a \in DOMAIN stats)
      BY <2>7, <2>5
    <3>2. s.rows \in Int
      BY DEF Healthy, Sheet, Tallied
    <3>3. Puts(RowsOf', Own(l)', RowsOf, Own(l), a)
      BY <2>3, <3>1, <3>2 DEF Puts
    <3>4. /\ a \in Own(l) => SumFunctionOnSet(RowsOf', Own(l)') =
                               SumFunctionOnSet(RowsOf, Own(l)) + (RowsOf'[a] - RowsOf[a])
          /\ a \notin Own(l) => SumFunctionOnSet(RowsOf', Own(l)') =
                                  SumFunctionOnSet(RowsOf, Own(l)) + RowsOf'[a]
      BY <2>4, <3>3, SumPut
    <3>5. seen'[l] = seen[l] + m /\ seen[l] \in Nat
      BY <1>2, <1>4, <2>7
    <3>6. CASE a \in Own(l)
      <4>1. RowsOf'[a] = RowsOf[a] + m /\ RowsOf[a] \in Int
        BY <2>3, <3>1, <3>6
      <4> QED
        BY <2>2, <3>4, <3>5, <3>6, <4>1
    <3>7. CASE a \notin Own(l)
      <4>1. RowsOf'[a] = 0 + m
        BY <2>3, <3>1, <3>7
      <4> QED
        BY <2>2, <3>4, <3>5, <3>7, <4>1
    <3> QED
      BY <3>6, <3>7
  <2> QED
    BY <2>6, <2>7
<1> QED
  BY <1>5, <1>6 DEF Tally

(* The object of the hook is matched to its statistics, or not reached.    *)
LEMMA HookMatches ==
    ASSUME ListenerInv, NEW a \in Addresses, NEW b \in Batches, Hooked(a, b),
           NEW o, heap' = With(heap, a, o), NEW s,
           IF a \in DOMAIN stats' THEN stats' = With(stats, a, s) ELSE stats' = stats,
           a \notin reused' => IF a \in DOMAIN stats' THEN Fits(o, s) ELSE Unseen(o)
    PROVE  Matched'
<1>1. reused \subseteq reused'
  BY HookFacts
<1>2. /\ DOMAIN heap' = DOMAIN heap \cup {a} /\ heap'[a] = o
      /\ \A x \in DOMAIN heap : x # a => heap'[x] = heap[x]
  BY DEF With
<1>3. /\ a \in DOMAIN stats' => stats'[a] = s
      /\ \A x : x # a => (x \in DOMAIN stats' <=> x \in DOMAIN stats)
      /\ \A x \in DOMAIN stats : x # a => stats'[x] = stats[x]
  BY DEF With
<1> SUFFICES ASSUME NEW x \in DOMAIN heap', x \notin reused'
             PROVE  IF x \in DOMAIN stats' THEN Fits(heap'[x], stats'[x]) ELSE Unseen(heap'[x])
  BY DEF Matched
<1>4. CASE x = a
  BY <1>2, <1>3, <1>4
<1>5. CASE x # a
  BY <1>1, <1>2, <1>3, <1>5 DEF ListenerInv, Matched
<1> QED
  BY <1>4, <1>5

---------------------------------------------------------------------------
(* The outcomes of a hook.                                                 *)

(* Without the wrapper, and when a batch is refused after it was measured, *)
(* the object is not whole any more.                                       *)
LEMMA HookUnobserved ==
    ASSUME ListenerInv, NEW a \in Addresses, NEW b \in Batches, Hooked(a, b),
           heap' = With(heap, a, Measured(a, b)), layerOf' \in {layerOf, Cached(a)},
           Proceed \/ Raise, stats' = stats, seen' = seen, ~ (installed /\ Sound(b, Label))
    PROVE  ListenerInv'
<1> DEFINE o == Measured(a, b)
<1>1. /\ IsObject(o, Current) /\ o.owner = Current /\ o.layer = Layer /\ o.n = b.n
      /\ o.rows = Object(a, b).rows + Len(b.routed) /\ Object(a, b).rows \in Nat
      /\ ~ o.whole
  BY MeasuredIs
<1>2. /\ a \in DOMAIN heap => Object(a, b) = heap[a]
      /\ a \notin reused' => a \in DOMAIN heap \/ a \notin DOMAIN stats \cup DOMAIN layerOf
      /\ reused \subseteq reused' /\ Len(b.routed) \in Nat /\ Object(a, b).n = b.n
  BY HookFacts
<1>3. seen' \in [Layers -> Nat]
  BY DEF ListenerInv, Typed
<1> HIDE DEF o
<1>4. Typed' /\ Wired' /\ OwnContract' /\ ExportComplete' /\ MergeStreams'
  BY <1>1, <1>3, HookWires DEF o
<1>5. Kept' /\ Tally'
  BY HookKeeps
<1>6. ASSUME a \notin reused' PROVE IF a \in DOMAIN stats THEN Fits(o, stats[a]) ELSE Unseen(o)
  <2>1. CASE a \in DOMAIN stats
    <3>1. Fits(Object(a, b), stats[a])
      BY <1>2, <1>6, <2>1 DEF ListenerInv, Matched
    <3>2. stats[a].rows \in Nat
      BY <2>1 DEF ListenerInv, Kept, Healthy, Sheet, Tallied
    <3> QED
      BY <1>1, <1>2, <2>1, <3>1, <3>2 DEF Fits
  <2>2. CASE a \notin DOMAIN stats
    BY <1>1, <2>2 DEF Unseen
  <2> QED
    BY <2>1, <2>2
<1>7. Matched'
  <2>1. heap' = With(heap, a, o)
    BY DEF o
  <2>2. a \in DOMAIN stats => stats = With(stats, a, stats[a])
    <3>1. stats = [x \in DOMAIN stats |-> stats[x]]
      BY DEF ListenerInv, Kept
    <3> QED
      BY <3>1 DEF With
  <2> QED
    BY <1>6, <2>1, <2>2, HookMatches
<1> QED
  BY <1>4, <1>5, <1>7 DEF ListenerInv

LEMMA BypassInv ==
    ASSUME ListenerInv, NEW a \in Addresses, NEW b \in Batches, Bypass(a, b)
    PROVE  ListenerInv'
<1>1. /\ Hooked(a, b) /\ ~ installed /\ heap' = With(heap, a, Measured(a, b)) /\ Proceed
      /\ UNCHANGED <<layerOf, stats, seen>>
  BY DEF Bypass
<1> QED
  BY <1>1, HookUnobserved

LEMMA RefuseInv ==
    ASSUME ListenerInv, NEW a \in Addresses, NEW b \in Batches, Refuse(a, b)
    PROVE  ListenerInv'
<1> DEFINE o == Object(a, b)
<1>1. /\ Hooked(a, b) /\ heap' = With(heap, a, o) /\ layerOf' = Cached(a) /\ Raise
      /\ UNCHANGED <<stats, seen>>
  BY DEF Refuse
<1>2. /\ IsObject(o, Current) /\ o.owner = Current /\ o.layer = Layer
      /\ a \in DOMAIN heap => o = heap[a]
      /\ a \notin DOMAIN heap => Unseen(o)
      /\ a \notin reused' => a \in DOMAIN heap \/ a \notin DOMAIN stats \cup DOMAIN layerOf
      /\ reused \subseteq reused'
  BY <1>1, HookFacts
<1>3. seen' \in [Layers -> Nat]
  BY <1>1 DEF ListenerInv, Typed
<1> HIDE DEF o
<1>4. Typed' /\ Wired' /\ OwnContract' /\ ExportComplete' /\ MergeStreams'
  BY <1>1, <1>2, <1>3, HookWires
<1>5. Kept' /\ Tally'
  BY <1>1, HookKeeps
<1>6. a \notin reused' => IF a \in DOMAIN stats THEN Fits(o, stats[a]) ELSE Unseen(o)
  BY <1>2 DEF ListenerInv, Matched
<1>7. Matched'
  <2>1. a \in DOMAIN stats => stats = With(stats, a, stats[a])
    <3>1. stats = [x \in DOMAIN stats |-> stats[x]]
      BY DEF ListenerInv, Kept
    <3> QED
      BY <3>1 DEF With
  <2> QED
    BY <1>1, <1>6, <2>1, HookMatches
<1> QED
  BY <1>4, <1>5, <1>7 DEF ListenerInv

(* What agrees with the statistics is what is sound.                       *)
LEMMA SameBatchOK ==
    ASSUME NEW s, NEW o, NEW batch, NEW name, s.n = o.n, Width(s, batch) = Width(o, batch)
    PROVE  BatchOK(s, batch, name) <=> BatchOK(o, batch, name)
BY DEF BatchOK

LEMMA ClashInv ==
    ASSUME ListenerInv, NEW a \in Addresses, NEW b \in Batches, Clash(a, b)
    PROVE  ListenerInv'
<1> DEFINE o == Measured(a, b)
           s == Known(a, b)
<1>1. /\ Hooked(a, b) /\ Resolved(a, b) /\ ~ Agrees(a, b)
      /\ heap' = With(heap, a, o) /\ layerOf' = Cached(a) /\ Raise /\ seen' = seen
      /\ stats' = IF b.flaw = "drifted" THEN stats ELSE With(stats, a, s)
  BY DEF Clash
<1>2. CASE b.flaw = "drifted"
  <2>1. ~ Sound(b, Label)
    BY <1>2 DEF Sound
  <2> QED
    BY <1>1, <1>2, <2>1, HookUnobserved
<1>3. CASE b.flaw # "drifted"
  <2>1. b.routed # <<>> /\ ~ (s.n = b.n /\ BatchOK(s, b.routed, Label))
    BY <1>1, <1>3 DEF Agrees
  <2>2. /\ IsObject(o, Current) /\ o.owner = Current /\ o.layer = Layer /\ o.n = b.n
        /\ o.rows = Object(a, b).rows + Len(b.routed) /\ Object(a, b).rows \in Nat
        /\ o.whole = (Object(a, b).whole /\ installed /\ Sound(b, Label))
    BY <1>1, MeasuredIs
  <2>3. /\ Healthy(s, PerRow) /\ Width(s, b.routed) = Len(b.routed[1])
        /\ s.rows = (IF a \in DOMAIN stats THEN stats[a].rows ELSE 0)
        /\ a \notin reused' => Fits(Object(a, b), s)
    BY <1>1, <2>1, KnownFacts
  <2>4. Object(a, b).n = b.n /\ Len(b.routed) \in Nat /\ Layer \in Layers
    BY <1>1, HookFacts
  <2>5. seen' = [seen EXCEPT ![Layer] = @ + 0] /\ seen' \in [Layers -> Nat]
    BY <1>1, <2>4 DEF ListenerInv, Typed
  <2> HIDE DEF o, s
  <2>6. Typed' /\ Wired' /\ OwnContract' /\ ExportComplete' /\ MergeStreams'
    BY <1>1, <2>2, <2>5, HookWires
  <2>7. s.rows = (IF a \in DOMAIN stats THEN stats[a].rows ELSE 0) + 0 /\ s.rows \in Nat
    BY <2>3 DEF Healthy, Sheet, Tallied
  <2>8. Kept' /\ Tally'
    BY <1>1, <1>3, <2>3, <2>5, <2>7, HookAdds
  <2>9. ASSUME a \notin reused' PROVE Fits(o, s)
    <3>1. Fits(Object(a, b), s)
      BY <2>3, <2>9
    <3>2. s.n = b.n /\ ~ BatchOK(s, b.routed, Label)
      BY <2>1, <2>4, <3>1 DEF Fits
    <3>3. New(b.n, 0).n = b.n /\ Width(New(b.n, 0), b.routed) = Len(b.routed[1])
      BY DEF New, Width
    <3>4. ~ Sound(b, Label)
      BY <2>1, <2>3, <3>2, <3>3, SameBatchOK DEF Sound
    <3>5. ~ o.whole
      BY <2>2, <3>4
    <3>6. PICK x \in Nat, y \in Nat, z \in Nat :
            x = s.rows /\ y = Object(a, b).rows /\ z = Len(b.routed)
      BY <2>2, <2>4, <2>7
    <3>7. s.rows =< o.rows
      BY <2>2, <3>1, <3>6 DEF Fits
    <3> QED
      BY <2>2, <3>2, <3>5, <3>7 DEF Fits
  <2>10. Matched'
    <3>1. stats' = With(stats, a, s) /\ a \in DOMAIN stats'
      BY <1>1, <1>3 DEF With
    <3> QED
      BY <1>1, <2>9, <3>1, HookMatches
  <2> QED
    BY <2>6, <2>8, <2>10 DEF ListenerInv
<1> QED
  BY <1>2, <1>3

LEMMA ObserveInv ==
    ASSUME ListenerInv, NEW a \in Addresses, NEW b \in Batches, Observe(a, b)
    PROVE  ListenerInv'
<1> DEFINE o == Measured(a, b)
           s == Known(a, b)
           t == AddBatch(s, b.routed, Label)
           more(e) == Cardinality(Active(b.routed, e))
<1>1. /\ Hooked(a, b) /\ Resolved(a, b) /\ Agrees(a, b)
      /\ heap' = With(heap, a, o) /\ layerOf' = Cached(a) /\ Proceed
      /\ stats' = (IF b.routed = <<>> THEN stats ELSE With(stats, a, t))
      /\ seen' = [seen EXCEPT ![Layer] = @ + Len(b.routed)]
  BY DEF Observe
<1>2. /\ IsObject(o, Current) /\ o.owner = Current /\ o.layer = Layer /\ o.n = b.n
      /\ o.rows = Object(a, b).rows + Len(b.routed) /\ Object(a, b).rows \in Nat
      /\ o.act = [e \in Experts(b.n) |-> Object(a, b).act[e] + more(e)]
      /\ Object(a, b).act \in [Experts(b.n) -> Nat]
      /\ o.whole = (Object(a, b).whole /\ installed /\ Sound(b, Label))
  BY <1>1, MeasuredIs
<1>3. /\ Object(a, b).n = b.n /\ Len(b.routed) \in Nat /\ Layer \in Layers
      /\ b.routed \in Seq(Rows) /\ b.n \in Nat
      /\ a \in DOMAIN heap => Object(a, b) = heap[a]
      /\ a \notin DOMAIN heap => Unseen(Object(a, b))
      /\ a \notin reused' => a \in DOMAIN heap \/ a \notin DOMAIN stats \cup DOMAIN layerOf
      /\ reused \subseteq reused'
  BY <1>1, HookFacts
<1>4. seen' \in [Layers -> Nat] /\ seen \in [Layers -> Nat]
  BY <1>1, <1>3 DEF ListenerInv, Typed
<1> HIDE DEF o, s, t
<1>5. Typed' /\ Wired' /\ OwnContract' /\ ExportComplete' /\ MergeStreams'
  BY <1>1, <1>2, <1>4, HookWires
<1>6. CASE b.routed = <<>>
  <2>1. Len(b.routed) = 0 /\ \A e : more(e) = 0
    <3>1. \A e : Active(b.routed, e) = {}
      BY <1>6 DEF Active, Both
    <3> QED
      BY <1>6, <3>1, FS_EmptySet
  <2>2. stats' = stats /\ seen' = seen
    BY <1>1, <1>3, <1>4, <1>6, <2>1
  <2>3. o.rows = Object(a, b).rows /\ o.act = Object(a, b).act /\ (o.whole => Object(a, b).whole)
    <3> HIDE DEF more
    <3>1. PICK was \in Nat : was = Object(a, b).rows
      BY <1>2
    <3>2. o.rows = Object(a, b).rows
      BY <1>2, <2>1, <3>1
    <3>3. PICK old \in [Experts(b.n) -> Nat] : old = Object(a, b).act
      BY <1>2
    <3>4. \A e \in Experts(b.n) : old[e] + more(e) = old[e]
      BY <2>1
    <3>5. o.act = [e \in Experts(b.n) |-> old[e] + more(e)]
      BY <1>2, <3>3
    <3>6. o.act = [e \in Experts(b.n) |-> old[e]]
      BY <3>4, <3>5
    <3>7. o.act = Object(a, b).act
      BY <3>3, <3>6
    <3> QED
      BY <1>2, <3>2, <3>7
  <2>4. Kept' /\ Tally'
    BY <1>1, <2>2, HookKeeps
  <2>5. ASSUME a \notin reused' PROVE IF a \in DOMAIN stats THEN Fits(o, stats[a]) ELSE Unseen(o)
    <3>1. IF a \in DOMAIN stats THEN Fits(Object(a, b), stats[a]) ELSE Unseen(Object(a, b))
      BY <1>3, <2>5 DEF ListenerInv, Matched
    <3> QED
      BY <1>2, <1>3, <2>3, <3>1 DEF Fits, Unseen
  <2>6. Matched'
    <3>1. a \in DOMAIN stats => stats = With(stats, a, stats[a])
      <4>1. stats = [x \in DOMAIN stats |-> stats[x]]
        BY DEF ListenerInv, Kept
      <4> QED
        BY <4>1 DEF With
    <3> QED
      BY <1>1, <2>2, <2>5, <3>1, HookMatches
  <2> QED
    BY <1>5, <2>4, <2>6 DEF ListenerInv
<1>7. CASE b.routed # <<>>
  <2>1. s.n = b.n /\ BatchOK(s, b.routed, Label)
    BY <1>1, <1>7 DEF Agrees, s
  <2>2. /\ Healthy(s, PerRow) /\ Width(s, b.routed) = Len(b.routed[1])
        /\ s.rows = (IF a \in DOMAIN stats THEN stats[a].rows ELSE 0)
        /\ a \notin reused' => Fits(Object(a, b), s)
    BY <1>1, <1>7, KnownFacts DEF s
  <2>3. PerRow \in 1 .. b.n /\ Len(b.routed[1]) = PerRow
    BY <1>7, PerRowIs
  <2>4. Routed(b.routed, s.n, PerRow) /\ Label # Unnamed
    BY <1>3, <1>7, <2>1, <2>2, <2>3 DEF BatchOK, Routed
  <2>5. /\ Healthy(t, PerRow) /\ t.n = s.n /\ t.rows = s.rows + Len(b.routed)
        /\ t.act = [e \in Experts(s.n) |-> s.act[e] + more(e)]
    BY <1>7, <2>2, <2>4, AddBatchIsHealthy DEF t
  <2>6. s.rows \in Nat
    BY <2>2 DEF Healthy, Sheet, Tallied
  <2>7. Kept' /\ Tally'
    <3>1. t.rows = (IF a \in DOMAIN stats THEN stats[a].rows ELSE 0) + Len(b.routed)
      BY <2>2, <2>5
    <3>2. stats' = With(stats, a, t)
      BY <1>1, <1>7
    <3> QED
      BY <1>1, <1>3, <2>5, <3>1, <3>2, HookAdds
  <2>8. ASSUME a \notin reused' PROVE Fits(o, t)
    <3>1. Fits(Object(a, b), s)
      BY <2>2, <2>8
    <3>2. PICK x \in Nat, y \in Nat, z \in Nat :
            x = s.rows /\ y = Object(a, b).rows /\ z = Len(b.routed)
      BY <1>2, <1>3, <2>6
    <3>3. t.rows = x + z /\ o.rows = y + z /\ x =< y
      BY <1>2, <2>5, <3>1, <3>2 DEF Fits
    <3>4. ASSUME o.whole PROVE t.rows = o.rows /\ t.act = o.act
      <4>1. s.rows = Object(a, b).rows /\ s.act = Object(a, b).act
        BY <1>2, <3>1, <3>4 DEF Fits
      <4> QED
        BY <1>2, <2>1, <2>5, <4>1
    <3>5. t.n = o.n /\ t.rows =< o.rows
      BY <1>2, <2>1, <2>5, <3>2, <3>3
    <3> QED
      BY <3>4, <3>5 DEF Fits
  <2>9. Matched'
    <3>1. stats' = With(stats, a, t) /\ a \in DOMAIN stats'
      BY <1>1, <1>7 DEF With
    <3> QED
      BY <1>1, <2>8, <3>1, HookMatches
  <2> QED
    BY <1>5, <2>7, <2>9 DEF ListenerInv
<1> QED
  BY <1>6, <1>7

---------------------------------------------------------------------------
(* export() has every row: what is not in the bound observer has none.     *)
LEMMA ExportIsComplete ==
    ASSUME ListenerInv, Exports, reused = {}, NEW l \in Layers
    PROVE  seen[l] = IF l \in Attributed THEN stats[observers[bound][l]].rows ELSE 0
<1> DEFINE x == observers[bound][l]
           only == IF l \in Attributed THEN {x} ELSE {}
<1>1. seen[l] = SumFunctionOnSet(RowsOf, Own(l))
  BY DEF ListenerInv, Tally
<1>2. /\ bound > 0 /\ bound \in Nat
      /\ \A a \in DOMAIN stats : a \in Range(observers[bound]) \/ stats[a].rows = 0
  BY DEF Exports, ListenerInv, Typed
<1>3. \A a \in DOMAIN stats : /\ a \in DOMAIN layerOf /\ stats[a].rows \in Nat
                              /\ RowsOf[a] = stats[a].rows
  BY DEF ListenerInv, Kept, Healthy, Sheet, Tallied, RowsOf
<1>4. \A m \in DOMAIN observers[bound] :
        /\ observers[bound][m] \in DOMAIN heap /\ heap[observers[bound][m]].layer = m
  BY <1>2 DEF ListenerInv, Wired
<1>5. \A m \in DOMAIN observers[bound] :
        observers[bound][m] \in DOMAIN stats => layerOf[observers[bound][m]] = m
  BY <1>3, <1>4 DEF ListenerInv, OwnContract
<1>6. l \in Attributed <=> l \in DOMAIN observers[bound] /\ x \in DOMAIN stats
  BY DEF Attributed
<1>7. only \in SUBSET Own(l)
  BY <1>5, <1>6 DEF Own
<1>8. ASSUME NEW a \in Own(l) \ only PROVE RowsOf[a] = 0
  <2>1. a \in DOMAIN stats /\ layerOf[a] = l
    BY DEF Own
  <2>2. CASE stats[a].rows = 0
    BY <1>3, <2>1, <2>2
  <2>3. CASE a \in Range(observers[bound])
    <3>1. PICK m \in DOMAIN observers[bound] : a = observers[bound][m]
      BY <2>3 DEF Range
    <3>2. m = l
      BY <1>5, <2>1, <3>1
    <3> QED
      BY <1>6, <2>1, <3>1, <3>2
  <2> QED
    BY <1>2, <2>1, <2>2, <2>3
<1>9. IsFiniteSet(Own(l))
  <2>1. Own(l) \subseteq DOMAIN stats /\ IsFiniteSet(DOMAIN stats)
    BY DEF Own, ListenerInv, Kept
  <2> QED
    BY <2>1, FS_Subset
<1>10. \A a \in Own(l) : RowsOf[a] \in Int
  BY <1>3 DEF Own
<1> HIDE DEF only
<1>11. SumFunctionOnSet(RowsOf, Own(l)) = SumFunctionOnSet(RowsOf, only)
  BY <1>7, <1>8, <1>9, <1>10, SumOfSupport
<1>12. CASE l \notin Attributed
  <2>1. only = {}
    BY <1>12 DEF only
  <2> QED
    BY <1>1, <1>11, <1>12, <2>1, SumOfNothing
<1>13. CASE l \in Attributed
  <2>1. only = {x} /\ x \in DOMAIN stats
    BY <1>6, <1>13 DEF only
  <2>2. RowsOf[x] = stats[x].rows /\ stats[x].rows \in Nat
    BY <1>3, <2>1
  <2>3. SumFunctionOnSet(RowsOf, {x}) = RowsOf[x]
    <3>1. IsFiniteSet({x}) /\ Cardinality({x}) = 1
      BY FS_Singleton
    <3>2. \A y \in {x} : RowsOf[y] = stats[x].rows
      BY <2>2
    <3>3. SumFunctionOnSet(RowsOf, {x}) = Cardinality({x}) * stats[x].rows
      BY <2>2, <3>1, <3>2, SumOfEqual
    <3>4. PICK r \in Nat : r = stats[x].rows
      BY <2>2
    <3> QED
      BY <2>2, <3>1, <3>3, <3>4
  <2> QED
    BY <1>1, <1>11, <1>13, <2>1, <2>2, <2>3
<1> QED
  BY <1>12, <1>13

LEMMA ExportInv ==
    ASSUME ListenerInv, Export
    PROVE  ListenerInv'
<1>1. /\ UNCHANGED <<held, kept, turn, spent, seen, reused>> /\ turn = Nothing /\ Exports
      /\ export' = [l \in Attributed |-> stats[observers[bound][l]]]
  BY DEF Export
<1>2. Typed' /\ Wired' /\ Matched' /\ OwnContract'
  BY <1>1 DEF ListenerInv, Typed, Wired, Matched, OwnContract, Current, held, kept
<1>3. Kept' /\ Tally'
  BY <1>1 DEF ListenerInv, Kept, Tally, RowsOf, Own, held, kept
<1>4. ExportComplete'
  <2>1. DOMAIN export' = Attributed /\ \A l \in Attributed : export'[l] = stats[observers[bound][l]]
    BY <1>1
  <2> SUFFICES ASSUME reused' = {}, NEW l \in Layers
               PROVE  seen'[l] = IF l \in DOMAIN export' THEN export'[l].rows ELSE 0
    BY DEF ExportComplete
  <2>2. reused = {} /\ seen' = seen
    BY <1>1
  <2>3. seen[l] = IF l \in Attributed THEN stats[observers[bound][l]].rows ELSE 0
    BY <1>1, <2>2, ExportIsComplete
  <2> QED
    BY <2>1, <2>2, <2>3
<1>5. MergeStreams'
  <2>1. \A s \in Range(export') : Healthy(s, PerRow)
    <3>1. \A l \in Attributed : observers[bound][l] \in DOMAIN stats
      BY DEF Attributed
    <3> QED
      BY <1>1, <3>1 DEF Range, ListenerInv, Kept
  <2> SUFFICES ASSUME NEW s \in Range(export'), NEW o \in Range(export'), s.n = o.n
               PROVE  /\ MergeOK(s, o)
                      /\ \A b \in {b \in Batches : b.n = o.n /\ b.routed # <<>> /\ Sound(b, NoLabel)},
                           c \in (Labels \ {Unnamed}) \cup {NoLabel} :
                           Merge(s, AddBatch(o, b.routed, c)) = AddBatch(Merge(s, o), b.routed, c)
    BY DEF MergeStreams
  <2>2. Healthy(s, PerRow) /\ Healthy(o, PerRow)
    BY <2>1
  <2>3. MergeOK(s, o)
    BY <2>2, MergeIsHealthy
  <2>4. ASSUME NEW b \in Batches, b.n = o.n, b.routed # <<>>, Sound(b, NoLabel), NEW c
        PROVE  Merge(s, AddBatch(o, b.routed, c)) = AddBatch(Merge(s, o), b.routed, c)
    <3>1. Len(b.routed[1]) = PerRow /\ PerRow \in 1 .. b.n /\ b.n \in Nat /\ b.routed \in Seq(Rows)
      BY <2>4, PerRowIs, ListenerAssumption
    <3>2. New(b.n, 0).n = b.n /\ Width(New(b.n, 0), b.routed) = PerRow
      BY <3>1 DEF New, Width
    <3>3. BatchOK(New(b.n, 0), b.routed, NoLabel)
      BY <2>4 DEF Sound
    <3>4. Routed(b.routed, s.n, PerRow)
      BY <2>4, <3>1, <3>2, <3>3 DEF BatchOK, Routed
    <3> QED
      BY <2>2, <2>4, <3>4, MergeThenAdd
  <2> QED
    BY <2>3, <2>4
<1> QED
  BY <1>2, <1>3, <1>4, <1>5 DEF ListenerInv

LEMMA InvNext == ListenerInv /\ [Next]_vars => ListenerInv'
<1> SUFFICES ASSUME ListenerInv, [Next]_vars PROVE ListenerInv'
  OBVIOUS
<1>1. CASE \E m \in Models : AttachModel(m)
  BY <1>1, AttachModelInv
<1>2. CASE Install \/ Uninstall
  BY <1>2, InstallInv
<1>3. CASE (\E c \in Labels : Enter(c)) \/ Leave
  BY <1>3, LabelInv
<1>4. CASE MakeObserver
  BY <1>4, MakeObserverInv
<1>5. CASE BindObserver
  BY <1>5, BindObserverInv
<1>6. CASE \E n \in {Len(b.routed) : b \in Batches} : Forward(n)
  BY <1>6, ForwardInv
<1>7. CASE Hook
  BY <1>7, BypassInv, RefuseInv, ClashInv, ObserveInv DEF Hook
<1>8. CASE Export
  BY <1>8, ExportInv
<1>9. CASE UNCHANGED vars
  <2>1. Typed' /\ Wired' /\ Matched' /\ OwnContract'
    BY <1>9 DEF ListenerInv, Typed, Wired, Matched, OwnContract, Current, held, kept, vars
  <2>2. Kept' /\ Tally'
    BY <1>9 DEF ListenerInv, Kept, Tally, RowsOf, Own, held, kept, vars
  <2>3. ExportComplete' /\ MergeStreams'
    BY <1>9 DEF ListenerInv, ExportComplete, MergeStreams, vars
  <2> QED
    BY <2>1, <2>2, <2>3 DEF ListenerInv
<1> QED
  BY <1>1, <1>2, <1>3, <1>4, <1>5, <1>6, <1>7, <1>8, <1>9 DEF Next

LEMMA InvHolds == Spec => []ListenerInv
BY InvInit, InvNext, PTL DEF Spec

(* Every row the observer measures for a sound batch is counted once, for  *)
(* its own layer and under that layer's contract, REAP and HOPE taking     *)
(* their numbers from the same observation, and an export has every row    *)
(* that was ever added (reap_adapter.py, the wrapper and export): for any  *)
(* number of layers, observers, addresses and batches.                     *)
THEOREM RowsAreCounted == Spec => []RowsCounted
BY InvHolds, InvImplies, PTL

(* What the listener keeps always passes validate(), any two exported      *)
(* statistics of as many experts merge without an error, and a batch added *)
(* before the merge is one added after it (hope.py, add_batch, merge and   *)
(* validate).                                                              *)
THEOREM StreamsAreMerged == Spec => []StreamsMerge
BY InvHolds, InvImplies, PTL
=============================================================================
