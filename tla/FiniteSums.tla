---------------------------- MODULE FiniteSums ----------------------------
(***************************************************************************)
(* Sums over finite sets, as the models take them from the community       *)
(* module Functions.  Its fold is a recursive function, so that what it    *)
(* computes has to be proved by induction over the finite subsets of a     *)
(* set: a set of counterexamples has a smallest one.                       *)
(***************************************************************************)
EXTENDS Integers, Functions, FiniteSetTheorems, TLAPS

Chosen(s) == CHOOSE x \in s : TRUE
Recurrence(g, w, S) ==
  g = [s \in SUBSET S |-> IF s = {} THEN 0 ELSE w[Chosen(s)] + g[s \ {Chosen(s)}]]

(* Every nonempty set of finite subsets has a smallest element.            *)
LEMMA SmallestSubset ==
  ASSUME NEW S, IsFiniteSet(S), NEW Bad \in SUBSET SUBSET S, Bad # {}
  PROVE  \E s \in Bad : \A u \in SUBSET s : u # s => u \notin Bad
<1>1. FiniteSubsetsOf(S) = SUBSET S
  BY FS_FiniteSubsetsOfFinite
<1>2. IsWellFoundedOn(StrictSubsetOrdering(S), SUBSET S)
  BY <1>1, FS_StrictSubsetOrderingWellFounded
<1>3. PICK s \in Bad : \A u \in Bad : ~ (<<u, s>> \in StrictSubsetOrdering(S))
  BY <1>2, WFMin
<1> QED
  BY <1>3 DEF StrictSubsetOrdering

(* The fold takes a solution of the recurrence, if there is one.           *)
LEMMA SumIsChoice ==
  ASSUME NEW w, NEW S
  PROVE  SumFunctionOnSet(w, S) = (CHOOSE g : Recurrence(g, w, S))[S]
BY DEF SumFunctionOnSet, FoldFunctionOnSet, MapThenFoldSet, Recurrence, Chosen

(* The recurrence has at most one solution.                                *)
LEMMA OneSolution ==
  ASSUME NEW S, IsFiniteSet(S), NEW w, NEW g, NEW h, Recurrence(g, w, S), Recurrence(h, w, S)
  PROVE  g = h
<1> DEFINE Bad == {s \in SUBSET S : g[s] # h[s]}
<1>1. ASSUME Bad # {} PROVE FALSE
  <2>1. PICK s \in Bad : \A u \in SUBSET s : u # s => u \notin Bad
    <3>1. Bad \in SUBSET SUBSET S
      OBVIOUS
    <3> HIDE DEF Bad
    <3> QED
      BY <1>1, <3>1, SmallestSubset
  <2>2. s # {}
    BY DEF Recurrence
  <2>3. Chosen(s) \in s
    BY <2>2 DEF Chosen
  <2>4. g[s \ {Chosen(s)}] = h[s \ {Chosen(s)}]
    BY <2>1, <2>3
  <2> QED
    BY <2>1, <2>2, <2>4 DEF Recurrence
<1>2. \A s \in SUBSET S : g[s] = h[s]
  BY <1>1
<1>3. g = [s \in SUBSET S |-> g[s]] /\ h = [s \in SUBSET S |-> h[s]]
  BY DEF Recurrence
<1> QED
  BY <1>2, <1>3

(* What solves it for a set solves it for its subsets.                     *)
LEMMA SolutionBelow ==
  ASSUME NEW S, NEW w, NEW g, Recurrence(g, w, S), NEW T \in SUBSET S
  PROVE  Recurrence([s \in SUBSET T |-> g[s]], w, T)
<1> DEFINE r == [s \in SUBSET T |-> g[s]]
<1>1. ASSUME NEW s \in SUBSET T
      PROVE  r[s] = IF s = {} THEN 0 ELSE w[Chosen(s)] + r[s \ {Chosen(s)}]
  BY DEF Recurrence
<1> QED
  BY <1>1 DEF Recurrence

(* It has a solution for every finite set.                                 *)
LEMMA SomeSolution ==
  ASSUME NEW S, IsFiniteSet(S), NEW w
  PROVE  \E g : Recurrence(g, w, S)
<1> DEFINE Bad == {s \in SUBSET S : \A g : ~ Recurrence(g, w, s)}
           sum(s) == (CHOOSE g : Recurrence(g, w, s))[s]
<1>1. ASSUME Bad # {} PROVE FALSE
  <2>1. PICK s \in Bad : \A u \in SUBSET s : u # s => u \notin Bad
    <3>1. Bad \in SUBSET SUBSET S
      OBVIOUS
    <3> HIDE DEF Bad
    <3> QED
      BY <1>1, <3>1, SmallestSubset
  <2> DEFINE f == [u \in SUBSET s |-> IF u = {} THEN 0 ELSE w[Chosen(u)] + sum(u \ {Chosen(u)})]
  <2>2. ASSUME NEW u \in SUBSET s, u # s PROVE sum(u) = f[u]
    <3> DEFINE g == CHOOSE g : Recurrence(g, w, u)
    <3>1. Recurrence(g, w, u)
      BY <2>1, <2>2
    <3>2. CASE u = {}
      BY <3>1, <3>2 DEF Recurrence
    <3>3. CASE u # {}
      <4> DEFINE v == u \ {Chosen(u)}
                 h == CHOOSE h : Recurrence(h, w, v)
      <4>1. Recurrence([t \in SUBSET v |-> g[t]], w, v)
        BY <3>1, SolutionBelow
      <4>2. Recurrence(h, w, v)
        BY <4>1
      <4>3. IsFiniteSet(v)
        BY FS_Subset
      <4>4. h = [t \in SUBSET v |-> g[t]]
        BY <4>1, <4>2, <4>3, OneSolution
      <4>5. sum(v) = g[v]
        BY <4>4
      <4>6. g[u] = w[Chosen(u)] + g[v]
        BY <3>1, <3>3 DEF Recurrence
      <4> QED
        BY <4>5, <4>6, <3>3
    <3> QED
      BY <3>2, <3>3
  <2>3. ASSUME NEW u \in SUBSET s
        PROVE  f[u] = IF u = {} THEN 0 ELSE w[Chosen(u)] + f[u \ {Chosen(u)}]
    <3>1. CASE u = {}
      BY <3>1
    <3>2. CASE u # {}
      <4>1. Chosen(u) \in u
        BY <3>2 DEF Chosen
      <4>2. u \ {Chosen(u)} \in SUBSET s /\ u \ {Chosen(u)} # s
        BY <4>1
      <4>3. sum(u \ {Chosen(u)}) = f[u \ {Chosen(u)}]
        BY <2>2, <4>2
      <4> QED
        BY <3>2, <4>3
    <3> QED
      BY <3>1, <3>2
  <2>4. Recurrence(f, w, s)
    <3> HIDE DEF sum
    <3>1. f = [u \in SUBSET s |-> f[u]]
      OBVIOUS
    <3> HIDE DEF f
    <3> QED
      BY <2>3, <3>1 DEF Recurrence
  <2> QED
    BY <2>1, <2>4
<1> QED
  BY <1>1

(* A sum over a set is the chosen element's share and the sum of the rest. *)
LEMMA SumSteps ==
  ASSUME NEW S, IsFiniteSet(S), NEW w
  PROVE  SumFunctionOnSet(w, S) =
           IF S = {} THEN 0 ELSE w[Chosen(S)] + SumFunctionOnSet(w, S \ {Chosen(S)})
<1> DEFINE g == CHOOSE g : Recurrence(g, w, S)
           T == S \ {Chosen(S)}
           h == CHOOSE h : Recurrence(h, w, T)
<1>1. Recurrence(g, w, S)
  BY SomeSolution
<1>2. Recurrence([s \in SUBSET T |-> g[s]], w, T)
  BY <1>1, SolutionBelow
<1>3. Recurrence(h, w, T) /\ IsFiniteSet(T)
  BY <1>2, FS_Subset
<1>4. h = [s \in SUBSET T |-> g[s]]
  BY <1>2, <1>3, OneSolution
<1>5. h[T] = g[T]
  BY <1>4
<1>6. SumFunctionOnSet(w, S) = g[S] /\ SumFunctionOnSet(w, T) = h[T]
  BY SumIsChoice
<1>7. g[S] = IF S = {} THEN 0 ELSE w[Chosen(S)] + g[T]
  BY <1>1 DEF Recurrence
<1> HIDE DEF g, h, T
<1> QED
  BY <1>5, <1>6, <1>7 DEF T

(* A sum of integers is an integer.                                        *)
LEMMA SumIsInteger ==
  ASSUME NEW S, IsFiniteSet(S), NEW w, \A x \in S : w[x] \in Int
  PROVE  SumFunctionOnSet(w, S) \in Int
<1> DEFINE Bad == {s \in SUBSET S : SumFunctionOnSet(w, s) \notin Int}
<1>1. ASSUME Bad # {} PROVE FALSE
  <2>1. PICK s \in Bad : \A u \in SUBSET s : u # s => u \notin Bad
    <3>1. Bad \in SUBSET SUBSET S
      OBVIOUS
    <3> HIDE DEF Bad
    <3> QED
      BY <1>1, <3>1, SmallestSubset
  <2>2. IsFiniteSet(s)
    BY FS_Subset
  <2>3. s # {}
    BY <2>2, SumSteps
  <2>4. Chosen(s) \in s
    BY <2>3 DEF Chosen
  <2>5. SumFunctionOnSet(w, s \ {Chosen(s)}) \in Int
    BY <2>1, <2>4
  <2>6. SumFunctionOnSet(w, s) = w[Chosen(s)] + SumFunctionOnSet(w, s \ {Chosen(s)})
    BY <2>2, <2>3, SumSteps
  <2> QED
    BY <2>4, <2>5, <2>6
<1> QED
  BY <1>1

(* The order of a sum does not matter: any element may be taken first.     *)
THEOREM SumAdd ==
  ASSUME NEW S, IsFiniteSet(S), NEW w, \A y \in S : w[y] \in Int, NEW x \in S
  PROVE  SumFunctionOnSet(w, S) = w[x] + SumFunctionOnSet(w, S \ {x})
<1> DEFINE sum(s) == SumFunctionOnSet(w, s)
           Bad == {s \in SUBSET S : \E y \in s : sum(s) # w[y] + sum(s \ {y})}
<1>1. ASSUME Bad # {} PROVE FALSE
  <2>1. PICK s \in Bad : \A u \in SUBSET s : u # s => u \notin Bad
    <3>1. Bad \in SUBSET SUBSET S
      OBVIOUS
    <3> HIDE DEF Bad
    <3> QED
      BY <1>1, <3>1, SmallestSubset
  <2>2. PICK y \in s : sum(s) # w[y] + sum(s \ {y})
    BY <2>1
  <2> DEFINE c == Chosen(s)
  <2>3. c \in s
    BY <2>2 DEF Chosen
  <2>4. IsFiniteSet(s) /\ IsFiniteSet(s \ {c}) /\ IsFiniteSet(s \ {y}) /\ IsFiniteSet((s \ {c}) \ {y})
    BY FS_Subset
  <2>5. sum(s) = w[c] + sum(s \ {c})
    BY <2>2, <2>4, SumSteps
  <2>6. c # y
    BY <2>2, <2>5
  <2>7. sum(s \ {c}) = w[y] + sum((s \ {c}) \ {y})
    <3>1. s \ {c} \notin Bad
      BY <2>1, <2>3
    <3> QED
      BY <3>1, <2>2, <2>6
  <2>8. sum(s \ {y}) = w[c] + sum((s \ {y}) \ {c})
    <3>1. s \ {y} \notin Bad
      BY <2>1, <2>2
    <3> QED
      BY <3>1, <2>3, <2>6
  <2>9. (s \ {c}) \ {y} = (s \ {y}) \ {c}
    OBVIOUS
  <2>10. sum((s \ {c}) \ {y}) \in Int /\ w[c] \in Int /\ w[y] \in Int
    BY <2>3, <2>4, SumIsInteger
  <2> QED
    BY <2>2, <2>5, <2>7, <2>8, <2>9, <2>10
<1> QED
  BY <1>1

-----------------------------------------------------------------------------
(* What the other proofs use.                                              *)

(* Nothing adds up to 0.                                                   *)
THEOREM SumOfNothing == \A w : SumFunctionOnSet(w, {}) = 0
BY FS_EmptySet, SumSteps

(* A sum of natural numbers is one.                                        *)
THEOREM SumIsNatural ==
  ASSUME NEW S, IsFiniteSet(S), NEW w, \A x \in S : w[x] \in Nat
  PROVE  SumFunctionOnSet(w, S) \in Nat
<1> DEFINE Bad == {s \in SUBSET S : SumFunctionOnSet(w, s) \notin Nat}
<1>1. ASSUME Bad # {} PROVE FALSE
  <2>1. PICK s \in Bad : \A u \in SUBSET s : u # s => u \notin Bad
    <3>1. Bad \in SUBSET SUBSET S
      OBVIOUS
    <3> HIDE DEF Bad
    <3> QED
      BY <1>1, <3>1, SmallestSubset
  <2>2. s # {} /\ IsFiniteSet(s)
    <3>1. SumFunctionOnSet(w, s) \notin Nat /\ SumFunctionOnSet(w, {}) \in Nat
      BY SumOfNothing
    <3> QED
      BY <3>1, FS_Subset
  <2>3. PICK x \in s : TRUE
    BY <2>2
  <2>4. SumFunctionOnSet(w, s) = w[x] + SumFunctionOnSet(w, s \ {x})
    BY <2>2, SumAdd
  <2>5. SumFunctionOnSet(w, s \ {x}) \in Nat
    BY <2>1
  <2> QED
    BY <2>1, <2>4, <2>5
<1> QED
  BY <1>1

(* One more element adds its share.                                        *)
THEOREM SumWith ==
  ASSUME NEW S, IsFiniteSet(S), NEW x, x \notin S, NEW w, \A y \in S \cup {x} : w[y] \in Int
  PROVE  SumFunctionOnSet(w, S \cup {x}) = SumFunctionOnSet(w, S) + w[x]
<1>1. IsFiniteSet(S \cup {x})
  BY FS_AddElement
<1>2. SumFunctionOnSet(w, S \cup {x}) = w[x] + SumFunctionOnSet(w, (S \cup {x}) \ {x})
  BY <1>1, SumAdd
<1>3. (S \cup {x}) \ {x} = S
  OBVIOUS
<1>4. SumFunctionOnSet(w, S) \in Int /\ w[x] \in Int
  BY SumIsInteger
<1>5. SumFunctionOnSet(w, (S \cup {x}) \ {x}) = SumFunctionOnSet(w, S)
  BY <1>3
<1> QED
  BY <1>2, <1>4, <1>5

(* Only the weights of the set count.                                      *)
THEOREM SumSame ==
  ASSUME NEW S, IsFiniteSet(S), NEW w, NEW v, \A x \in S : w[x] = v[x]
  PROVE  SumFunctionOnSet(w, S) = SumFunctionOnSet(v, S)
<1> DEFINE Bad == {s \in SUBSET S : SumFunctionOnSet(w, s) # SumFunctionOnSet(v, s)}
<1>1. ASSUME Bad # {} PROVE FALSE
  <2>1. PICK s \in Bad : \A u \in SUBSET s : u # s => u \notin Bad
    <3>1. Bad \in SUBSET SUBSET S
      OBVIOUS
    <3> HIDE DEF Bad
    <3> QED
      BY <1>1, <3>1, SmallestSubset
  <2>2. s # {} /\ IsFiniteSet(s)
    BY FS_Subset, SumOfNothing
  <2>3. Chosen(s) \in s
    BY <2>2 DEF Chosen
  <2>4. SumFunctionOnSet(w, s \ {Chosen(s)}) = SumFunctionOnSet(v, s \ {Chosen(s)})
    BY <2>1, <2>3
  <2>5. SumFunctionOnSet(w, s) = w[Chosen(s)] + SumFunctionOnSet(w, s \ {Chosen(s)})
    BY <2>2, SumSteps
  <2>6. SumFunctionOnSet(v, s) = v[Chosen(s)] + SumFunctionOnSet(v, s \ {Chosen(s)})
    BY <2>2, SumSteps
  <2>7. w[Chosen(s)] = v[Chosen(s)]
    BY <2>3
  <2> QED
    BY <2>1, <2>4, <2>5, <2>6, <2>7
<1> QED
  BY <1>1

(* A sum over two sets that do not meet.                                   *)
THEOREM SumOfUnion ==
  ASSUME NEW S, IsFiniteSet(S), NEW T \in SUBSET S, NEW w, \A x \in S : w[x] \in Int
  PROVE  SumFunctionOnSet(w, S) = SumFunctionOnSet(w, T) + SumFunctionOnSet(w, S \ T)
<1> DEFINE Bad == {s \in SUBSET T :
                     SumFunctionOnSet(w, s \cup (S \ T))
                       # SumFunctionOnSet(w, s) + SumFunctionOnSet(w, S \ T)}
<1>1. IsFiniteSet(T) /\ IsFiniteSet(S \ T)
  BY FS_Subset
<1>2. SumFunctionOnSet(w, S \ T) \in Int
  BY <1>1, SumIsInteger
<1>3. ASSUME Bad # {} PROVE FALSE
  <2>1. PICK s \in Bad : \A u \in SUBSET s : u # s => u \notin Bad
    <3>1. Bad \in SUBSET SUBSET T
      OBVIOUS
    <3> HIDE DEF Bad
    <3> QED
      BY <1>1, <1>3, <3>1, SmallestSubset
  <2>2. s # {}
    <3>1. SumFunctionOnSet(w, {}) + SumFunctionOnSet(w, S \ T) = SumFunctionOnSet(w, S \ T)
      BY <1>2, SumOfNothing
    <3>2. {} \cup (S \ T) = S \ T
      OBVIOUS
    <3>3. SumFunctionOnSet(w, {} \cup (S \ T)) = SumFunctionOnSet(w, {}) + SumFunctionOnSet(w, S \ T)
      BY <3>1, <3>2
    <3> QED
      BY <3>3, <2>1
  <2>3. PICK x \in s : TRUE
    BY <2>2
  <2>4. IsFiniteSet(s) /\ IsFiniteSet(s \cup (S \ T)) /\ IsFiniteSet(s \ {x})
    <3>1. s \cup (S \ T) \in SUBSET S
      OBVIOUS
    <3> QED
      BY <3>1, FS_Subset
  <2>5. SumFunctionOnSet(w, s) = w[x] + SumFunctionOnSet(w, s \ {x})
    BY <2>4, SumAdd
  <2>6. SumFunctionOnSet(w, s \cup (S \ T)) = w[x] + SumFunctionOnSet(w, (s \ {x}) \cup (S \ T))
    <3>1. (s \cup (S \ T)) \ {x} = (s \ {x}) \cup (S \ T)
      OBVIOUS
    <3>2. \A y \in s \cup (S \ T) : w[y] \in Int
      OBVIOUS
    <3> QED
      BY <2>4, <3>1, <3>2, SumAdd
  <2>7. SumFunctionOnSet(w, (s \ {x}) \cup (S \ T))
          = SumFunctionOnSet(w, s \ {x}) + SumFunctionOnSet(w, S \ T)
    BY <2>1
  <2>8. w[x] \in Int /\ SumFunctionOnSet(w, s \ {x}) \in Int
    BY <2>4, SumIsInteger
  <2> QED
    BY <1>2, <2>1, <2>5, <2>6, <2>7, <2>8
<1>4. T \cup (S \ T) = S
  OBVIOUS
<1> QED
  BY <1>3, <1>4

(* Less is summed over less.                                               *)
THEOREM SumMonotone ==
  ASSUME NEW S, IsFiniteSet(S), NEW T \in SUBSET S, NEW w, \A x \in S : w[x] \in Nat
  PROVE  SumFunctionOnSet(w, T) <= SumFunctionOnSet(w, S)
<1>1. SumFunctionOnSet(w, S) = SumFunctionOnSet(w, T) + SumFunctionOnSet(w, S \ T)
  BY SumOfUnion
<1>2. IsFiniteSet(T) /\ IsFiniteSet(S \ T)
  BY FS_Subset
<1>3. SumFunctionOnSet(w, T) \in Nat /\ SumFunctionOnSet(w, S \ T) \in Nat
  BY <1>2, SumIsNatural
<1> QED
  BY <1>1, <1>3

(* Sums add up element by element.                                         *)
THEOREM SumPlus ==
  ASSUME NEW S, IsFiniteSet(S), NEW u, NEW v, NEW w,
         \A x \in S : u[x] \in Int /\ v[x] \in Int /\ w[x] = u[x] + v[x]
  PROVE  SumFunctionOnSet(w, S) = SumFunctionOnSet(u, S) + SumFunctionOnSet(v, S)
<1> DEFINE Bad == {s \in SUBSET S :
                     SumFunctionOnSet(w, s) # SumFunctionOnSet(u, s) + SumFunctionOnSet(v, s)}
<1>1. ASSUME Bad # {} PROVE FALSE
  <2>1. PICK s \in Bad : \A t \in SUBSET s : t # s => t \notin Bad
    <3>1. Bad \in SUBSET SUBSET S
      OBVIOUS
    <3> HIDE DEF Bad
    <3> QED
      BY <1>1, <3>1, SmallestSubset
  <2>2. s # {} /\ IsFiniteSet(s)
    <3>1. SumFunctionOnSet(w, {}) = SumFunctionOnSet(u, {}) + SumFunctionOnSet(v, {})
      BY SumOfNothing
    <3> QED
      BY <3>1, FS_Subset
  <2>3. PICK x \in s : TRUE
    BY <2>2
  <2>4. IsFiniteSet(s \ {x})
    BY <2>2, FS_Subset
  <2>5. /\ SumFunctionOnSet(u, s) = u[x] + SumFunctionOnSet(u, s \ {x})
        /\ SumFunctionOnSet(v, s) = v[x] + SumFunctionOnSet(v, s \ {x})
    BY <2>2, SumAdd
  <2>6. SumFunctionOnSet(w, s) = w[x] + SumFunctionOnSet(w, s \ {x})
    <3>1. \A y \in s : w[y] \in Int
      OBVIOUS
    <3> QED
      BY <2>2, <3>1, SumAdd
  <2>7. SumFunctionOnSet(w, s \ {x}) = SumFunctionOnSet(u, s \ {x}) + SumFunctionOnSet(v, s \ {x})
    BY <2>1
  <2>8. SumFunctionOnSet(u, s \ {x}) \in Int /\ SumFunctionOnSet(v, s \ {x}) \in Int
    BY <2>4, SumIsInteger
  <2> QED
    BY <2>1, <2>5, <2>6, <2>7, <2>8
<1> QED
  BY <1>1

(* A sum of as many times the same.                                        *)
THEOREM SumOfEqual ==
  ASSUME NEW S, IsFiniteSet(S), NEW c \in Nat, NEW w, \A x \in S : w[x] = c
  PROVE  SumFunctionOnSet(w, S) = Cardinality(S) * c
<1> DEFINE Bad == {s \in SUBSET S : SumFunctionOnSet(w, s) # Cardinality(s) * c}
<1>1. ASSUME Bad # {} PROVE FALSE
  <2>1. PICK s \in Bad : \A t \in SUBSET s : t # s => t \notin Bad
    <3>1. Bad \in SUBSET SUBSET S
      OBVIOUS
    <3> HIDE DEF Bad
    <3> QED
      BY <1>1, <3>1, SmallestSubset
  <2>2. s # {} /\ IsFiniteSet(s)
    <3>1. SumFunctionOnSet(w, {}) = 0 /\ Cardinality({}) = 0
      BY SumOfNothing, FS_EmptySet
    <3>2. 0 * c = 0
      OBVIOUS
    <3>3. SumFunctionOnSet(w, {}) = Cardinality({}) * c
      BY <3>1, <3>2
    <3>4. s # {}
      BY <2>1, <3>3
    <3> QED
      BY <3>4, FS_Subset
  <2>3. PICK x \in s : TRUE
    BY <2>2
  <2>4. SumFunctionOnSet(w, s) = w[x] + SumFunctionOnSet(w, s \ {x})
    BY <2>2, SumAdd
  <2>5. SumFunctionOnSet(w, s \ {x}) = Cardinality(s \ {x}) * c
    BY <2>1
  <2>6. PICK n \in Nat : n = Cardinality(s \ {x}) /\ Cardinality(s) = n + 1
    <3>1. IsFiniteSet(s \ {x}) /\ Cardinality(s \ {x}) = Cardinality(s) - 1
      BY <2>2, FS_RemoveElement
    <3>2. Cardinality(s) \in Nat /\ Cardinality(s \ {x}) \in Nat
      BY <2>2, <3>1, FS_CardinalityType
    <3> QED
      BY <3>1, <3>2
  <2>7. (n + 1) * c = n * c + c
    OBVIOUS
  <2> QED
    BY <2>1, <2>4, <2>5, <2>6, <2>7
<1> QED
  BY <1>1

(* A sum of at most as many times the largest.                             *)
THEOREM SumAtMost ==
  ASSUME NEW S, IsFiniteSet(S), NEW c \in Nat, NEW w, \A x \in S : w[x] \in 0 .. c
  PROVE  SumFunctionOnSet(w, S) \in 0 .. Cardinality(S) * c
<1> DEFINE v == [x \in S |-> c - w[x]]
           all == [x \in S |-> c]
<1>1. \A x \in S : w[x] \in Nat /\ v[x] \in Nat /\ all[x] = c /\ all[x] = w[x] + v[x]
  OBVIOUS
<1> HIDE DEF v, all
<1>2. SumFunctionOnSet(all, S) = SumFunctionOnSet(w, S) + SumFunctionOnSet(v, S)
  BY <1>1, SumPlus
<1>3. SumFunctionOnSet(all, S) = Cardinality(S) * c
  BY <1>1, SumOfEqual
<1>4. SumFunctionOnSet(w, S) \in Nat /\ SumFunctionOnSet(v, S) \in Nat
  BY <1>1, SumIsNatural
<1> QED
  BY <1>2, <1>3, <1>4

(* Elements that count for nothing may be left out.                        *)
THEOREM SumOfSupport ==
  ASSUME NEW S, IsFiniteSet(S), NEW T \in SUBSET S, NEW w, NEW v,
         \A x \in S : v[x] \in Int, \A x \in T : v[x] = w[x], \A x \in S \ T : v[x] = 0
  PROVE  SumFunctionOnSet(v, S) = SumFunctionOnSet(w, T)
<1>1. IsFiniteSet(T) /\ IsFiniteSet(S \ T)
  BY FS_Subset
<1>2. SumFunctionOnSet(v, S) = SumFunctionOnSet(v, T) + SumFunctionOnSet(v, S \ T)
  BY SumOfUnion
<1>3. SumFunctionOnSet(v, S \ T) = Cardinality(S \ T) * 0
  BY <1>1, SumOfEqual
<1>4. Cardinality(S \ T) \in Nat
  BY <1>1, FS_CardinalityType
<1>5. SumFunctionOnSet(v, T) = SumFunctionOnSet(w, T)
  BY <1>1, SumSame
<1>6. SumFunctionOnSet(v, T) \in Int
  BY <1>1, SumIsInteger
<1> QED
  BY <1>2, <1>3, <1>4, <1>5, <1>6

(* v weighs T as w does S, but for x, which may be a new element.          *)
Puts(v, T, w, S, x) ==
  /\ T = S \cup {x} /\ \A y \in S : w[y] \in Int
  /\ v[x] \in Int /\ \A y \in S \ {x} : v[y] = w[y]

THEOREM SumPut ==
  ASSUME NEW S, NEW x, NEW w, NEW v, NEW U, IsFiniteSet(S), Puts(v, U, w, S, x)
  PROVE  /\ IsFiniteSet(U)
         /\ x \in S => SumFunctionOnSet(v, U) = SumFunctionOnSet(w, S) + (v[x] - w[x])
         /\ x \notin S => SumFunctionOnSet(v, U) = SumFunctionOnSet(w, S) + v[x]
         /\ SumFunctionOnSet(w, S) \in Int
<1> USE DEF Puts
<1> DEFINE T == S \ {x}
<1>1. IsFiniteSet(T) /\ x \notin T /\ T \cup {x} = U /\ IsFiniteSet(U)
  BY FS_Subset, FS_AddElement
<1>2. \A y \in T \cup {x} : v[y] \in Int
  OBVIOUS
<1> HIDE DEF T
<1>3. SumFunctionOnSet(v, T \cup {x}) = SumFunctionOnSet(v, T) + v[x]
  BY <1>1, <1>2, SumWith
<1>4. SumFunctionOnSet(v, T) = SumFunctionOnSet(w, T)
  <2>1. \A y \in T : v[y] = w[y]
    BY DEF T
  <2> QED
    BY <1>1, <2>1, SumSame
<1>5. SumFunctionOnSet(w, T) \in Int
  <2>1. \A y \in T : w[y] \in Int
    BY DEF T
  <2> QED
    BY <1>1, <2>1, SumIsInteger
<1>6. CASE x \in S
  <2>1. SumFunctionOnSet(w, S) = w[x] + SumFunctionOnSet(w, T)
    BY <1>6, SumAdd DEF T
  <2>2. w[x] \in Int
    BY <1>6
  <2>3. SumFunctionOnSet(v, U) = SumFunctionOnSet(w, T) + v[x]
    BY <1>1, <1>3, <1>4
  <2> QED
    BY <1>1, <1>5, <1>6, <2>1, <2>2, <2>3
<1>7. CASE x \notin S
  <2>1. T = S
    BY <1>7 DEF T
  <2> QED
    BY <1>1, <1>3, <1>4, <1>5, <1>7, <2>1
<1> QED
  BY <1>6, <1>7

(* Counting the members of a set one by one.                               *)
THEOREM SumOfMembers ==
  ASSUME NEW S, IsFiniteSet(S), NEW T \in SUBSET S, NEW w,
         \A x \in S : w[x] = IF x \in T THEN 1 ELSE 0
  PROVE  SumFunctionOnSet(w, S) = Cardinality(T)
<1>1. IsFiniteSet(T) /\ IsFiniteSet(S \ T)
  BY FS_Subset
<1>2. \A x \in S : w[x] \in Int
  OBVIOUS
<1>3. SumFunctionOnSet(w, S) = SumFunctionOnSet(w, T) + SumFunctionOnSet(w, S \ T)
  BY <1>2, SumOfUnion
<1>4. SumFunctionOnSet(w, T) = Cardinality(T) * 1
  BY <1>1, SumOfEqual
<1>5. SumFunctionOnSet(w, S \ T) = Cardinality(S \ T) * 0
  BY <1>1, SumOfEqual
<1>6. Cardinality(T) \in Nat /\ Cardinality(S \ T) \in Nat
  BY <1>1, FS_CardinalityType
<1> QED
  BY <1>3, <1>4, <1>5, <1>6

(* What a relation has in E for t, and in D for e.                         *)
Seconds(rel, E, t) == {e \in E : <<t, e>> \in rel}
Firsts(rel, D, e)  == {t \in D : <<t, e>> \in rel}
Regular(rel, D, E, k) == \A t \in D : Cardinality(Seconds(rel, E, t)) = k
Counts(w, rel, D, E)  == \A e \in E : w[e] = Cardinality(Firsts(rel, D, e))

(* Pairs counted by their second elements are as many as by their first:   *)
(* when everything in D is related to k things in E, those of E are        *)
(* related to k times as many as are in D.                                 *)
THEOREM CountedTwice ==
  ASSUME NEW D, IsFiniteSet(D), NEW E, IsFiniteSet(E), NEW rel, NEW k \in Nat, NEW w,
         Regular(rel, D, E, k), Counts(w, rel, D, E)
  PROVE  SumFunctionOnSet(w, E) = Cardinality(D) * k
<1> USE DEF Firsts, Seconds, Regular, Counts
<1> DEFINE of(T, e) == {t \in T : <<t, e>> \in rel}
           count(T) == [e \in E |-> Cardinality(of(T, e))]
           Bad == {T \in SUBSET D : SumFunctionOnSet(count(T), E) # Cardinality(T) * k}
<1>1. ASSUME NEW T \in SUBSET D, NEW e \in E
      PROVE  IsFiniteSet(of(T, e)) /\ Cardinality(of(T, e)) \in Nat /\ count(T)[e] = Cardinality(of(T, e))
  <2>1. of(T, e) \in SUBSET D
    OBVIOUS
  <2>2. IsFiniteSet(of(T, e))
    BY <2>1, FS_Subset
  <2> QED
    BY <2>2, FS_CardinalityType
<1>2. ASSUME Bad # {} PROVE FALSE
  <2>1. PICK T \in Bad : \A t \in SUBSET T : t # T => t \notin Bad
    <3>1. Bad \in SUBSET SUBSET D
      OBVIOUS
    <3> HIDE DEF Bad
    <3> QED
      BY <1>2, <3>1, SmallestSubset
  <2>2. T # {}
    <3>1. SUFFICES ASSUME T = {} PROVE FALSE
      OBVIOUS
    <3>2. \A e \in E : of({}, e) = {}
      OBVIOUS
    <3>3. \A e \in E : count({})[e] = 0
      BY <3>2, FS_EmptySet
    <3> HIDE DEF count, of
    <3>4. SumFunctionOnSet(count({}), E) = Cardinality(E) * 0
      BY <3>3, SumOfEqual
    <3>5. Cardinality(E) \in Nat /\ Cardinality({}) = 0
      BY FS_CardinalityType, FS_EmptySet
    <3> QED
      BY <2>1, <3>1, <3>4, <3>5
  <2>3. PICK t \in T : TRUE
    BY <2>2
  <2> DEFINE U == T \ {t}
             one == [e \in E |-> IF <<t, e>> \in rel THEN 1 ELSE 0]
  <2>4. ASSUME NEW e \in E PROVE count(T)[e] = count(U)[e] + one[e]
    <3>1. IsFiniteSet(of(U, e)) /\ Cardinality(of(U, e)) \in Nat
      <4>1. U \in SUBSET D
        OBVIOUS
      <4> HIDE DEF U, of, count
      <4> QED
        BY <1>1, <4>1
    <3>2. of(T, e) = IF <<t, e>> \in rel THEN of(U, e) \cup {t} ELSE of(U, e)
      OBVIOUS
    <3>3. t \notin of(U, e)
      OBVIOUS
    <3>4. Cardinality(of(U, e) \cup {t}) = Cardinality(of(U, e)) + 1
      <4> HIDE DEF of, U
      <4> QED
        BY <3>1, <3>3, FS_AddElement
    <3>5. Cardinality(of(T, e)) = Cardinality(of(U, e)) + one[e]
      <4>1. one[e] = IF <<t, e>> \in rel THEN 1 ELSE 0
        OBVIOUS
      <4> HIDE DEF of, U, one
      <4> QED
        BY <3>1, <3>2, <3>4, <4>1
    <3> QED
      BY <3>5
  <2>5. \A e \in E : count(U)[e] \in Int /\ one[e] \in Int
    <3>1. U \in SUBSET D
      OBVIOUS
    <3>2. \A e \in E : count(U)[e] \in Int
      <4> HIDE DEF U, of, count
      <4> QED
        BY <1>1, <3>1
    <3> QED
      BY <3>2
  <2>6. SumFunctionOnSet(one, E) = k
    <3> DEFINE with == {e \in E : <<t, e>> \in rel}
    <3>1. \A e \in E : one[e] = IF e \in with THEN 1 ELSE 0
      OBVIOUS
    <3>2. with \in SUBSET E /\ Cardinality(with) = k
      OBVIOUS
    <3> HIDE DEF one, with
    <3> QED
      BY <3>1, <3>2, SumOfMembers
  <2>7. U \in SUBSET T /\ U # T
    BY <2>3
  <2>8. SumFunctionOnSet(count(U), E) = Cardinality(U) * k
    BY <2>1, <2>7
  <2>9. SumFunctionOnSet(count(T), E) = SumFunctionOnSet(count(U), E) + SumFunctionOnSet(one, E)
    <3> HIDE DEF count, one, U
    <3> QED
      BY <2>4, <2>5, SumPlus
  <2>10. PICK n \in Nat : n = Cardinality(U) /\ Cardinality(T) = n + 1
    <3>1. IsFiniteSet(T)
      BY FS_Subset
    <3>2. IsFiniteSet(U) /\ Cardinality(U) = Cardinality(T) - 1
      BY <3>1, FS_RemoveElement
    <3>3. Cardinality(T) \in Nat /\ Cardinality(U) \in Nat
      BY <3>1, <3>2, FS_CardinalityType
    <3> HIDE DEF U
    <3> QED
      BY <3>2, <3>3
  <2>11. (n + 1) * k = n * k + k
    OBVIOUS
  <2>12. SumFunctionOnSet(count(T), E) # Cardinality(T) * k
    BY <2>1
  <2> HIDE DEF count, one, U
  <2> QED
    BY <2>6, <2>8, <2>9, <2>10, <2>11, <2>12
<1>3. SumFunctionOnSet(count(D), E) = Cardinality(D) * k
  BY <1>2
<1>4. \A e \in E : w[e] = count(D)[e]
  OBVIOUS
<1> HIDE DEF count
<1>5. SumFunctionOnSet(w, E) = SumFunctionOnSet(count(D), E)
  BY <1>4, SumSame
<1> QED
  BY <1>3, <1>5

(* What one to one stands for another set weighs the same.                 *)
Matches(h, S, T) ==
  /\ \A x \in S : h[x] \in T
  /\ \A x, y \in S : h[x] = h[y] => x = y
  /\ \A t \in T : \E x \in S : h[x] = t

THEOREM SumMatched ==
  ASSUME NEW S, IsFiniteSet(S), NEW T, NEW h, Matches(h, S, T), NEW w, NEW v,
         \A x \in S : w[x] \in Int /\ w[x] = v[h[x]]
  PROVE  SumFunctionOnSet(w, S) = SumFunctionOnSet(v, T) /\ IsFiniteSet(T)
<1> DEFINE Im(s) == {h[x] : x \in s}
           Bad == {s \in SUBSET S : SumFunctionOnSet(w, s) # SumFunctionOnSet(v, Im(s))}
<1>1. ASSUME Bad # {} PROVE FALSE
  <2>1. PICK s \in Bad : \A u \in SUBSET s : u # s => u \notin Bad
    <3>1. Bad \in SUBSET SUBSET S
      OBVIOUS
    <3> HIDE DEF Bad
    <3> QED
      BY <1>1, <3>1, SmallestSubset
  <2>2. s # {} /\ IsFiniteSet(s)
    <3>1. Im({}) = {}
      OBVIOUS
    <3>2. SumFunctionOnSet(w, {}) = SumFunctionOnSet(v, Im({}))
      BY <3>1, SumOfNothing
    <3> QED
      BY <3>2, FS_Subset
  <2>3. PICK x \in s : TRUE
    BY <2>2
  <2>4. Im(s) \ {h[x]} = Im(s \ {x}) /\ h[x] \in Im(s) /\ \A t \in Im(s) : v[t] \in Int
    BY DEF Matches
  <2>5. IsFiniteSet(Im(s))
    <3> DEFINE g == [y \in s |-> h[y]]
    <3>1. g \in Surjection(s, Im(s))
      BY DEF Surjection
    <3> HIDE DEF g, Im
    <3> QED
      BY <2>2, <3>1, FS_Surjection
  <2>6. SumFunctionOnSet(w, s) = w[x] + SumFunctionOnSet(w, s \ {x})
    <3>1. \A y \in s : w[y] \in Int
      OBVIOUS
    <3> QED
      BY <2>2, <3>1, SumAdd
  <2>7. SumFunctionOnSet(v, Im(s)) = v[h[x]] + SumFunctionOnSet(v, Im(s \ {x}))
    <3> HIDE DEF Im
    <3>1. SumFunctionOnSet(v, Im(s)) = v[h[x]] + SumFunctionOnSet(v, Im(s) \ {h[x]})
      BY <2>4, <2>5, SumAdd
    <3> QED
      BY <2>4, <3>1
  <2>8. SumFunctionOnSet(w, s \ {x}) = SumFunctionOnSet(v, Im(s \ {x}))
    BY <2>1
  <2>9. w[x] = v[h[x]]
    OBVIOUS
  <2>10. SumFunctionOnSet(w, s) # SumFunctionOnSet(v, Im(s))
    BY <2>1
  <2> HIDE DEF Im, Bad
  <2> QED
    BY <2>6, <2>7, <2>8, <2>9, <2>10
<1>2. Im(S) = T
  BY DEF Matches
<1>3. SumFunctionOnSet(w, S) = SumFunctionOnSet(v, Im(S))
  BY <1>1
<1>4. IsFiniteSet(T)
  <2> DEFINE g == [y \in S |-> h[y]]
  <2>1. g \in Surjection(S, T)
    BY DEF Surjection, Matches
  <2> HIDE DEF g
  <2> QED
    BY <2>1, FS_Surjection
<1> HIDE DEF Im
<1> QED
  BY <1>2, <1>3, <1>4

(* A sum taken class by class.                                             *)
OfClass(k, S, c) == {x \in S : k[x] = c}

THEOREM SumByClass ==
  ASSUME NEW S, IsFiniteSet(S), NEW C, IsFiniteSet(C), NEW k, \A x \in S : k[x] \in C,
         NEW w, \A x \in S : w[x] \in Int, NEW W,
         \A c \in C : W[c] = SumFunctionOnSet(w, OfClass(k, S, c))
  PROVE  SumFunctionOnSet(W, C) = SumFunctionOnSet(w, S)
<1> DEFINE In(s) == {x \in S : k[x] \in s}
           Bad == {s \in SUBSET C : SumFunctionOnSet(W, s) # SumFunctionOnSet(w, In(s))}
<1>0. \A c \in C : W[c] \in Int
  <2> SUFFICES ASSUME NEW c \in C PROVE W[c] \in Int
    OBVIOUS
  <2>1. OfClass(k, S, c) \in SUBSET S
    BY DEF OfClass
  <2>2. IsFiniteSet(OfClass(k, S, c)) /\ \A x \in OfClass(k, S, c) : w[x] \in Int
    BY <2>1, FS_Subset
  <2>3. SumFunctionOnSet(w, OfClass(k, S, c)) \in Int
    BY <2>2, SumIsInteger
  <2> QED
    BY <2>3
<1>1. ASSUME Bad # {} PROVE FALSE
  <2>1. PICK s \in Bad : \A u \in SUBSET s : u # s => u \notin Bad
    <3>1. Bad \in SUBSET SUBSET C
      OBVIOUS
    <3> HIDE DEF Bad
    <3> QED
      BY <1>1, <3>1, SmallestSubset
  <2>2. s # {} /\ IsFiniteSet(s)
    <3>1. In({}) = {}
      OBVIOUS
    <3>2. SumFunctionOnSet(W, {}) = SumFunctionOnSet(w, In({}))
      BY <3>1, SumOfNothing
    <3> QED
      BY <3>2, FS_Subset
  <2>3. PICK c \in s : TRUE
    BY <2>2
  <2>4. /\ In(s) \ OfClass(k, S, c) = In(s \ {c}) /\ OfClass(k, S, c) \in SUBSET In(s)
        /\ In(s) \in SUBSET S
    BY DEF OfClass
  <2>5. IsFiniteSet(In(s)) /\ \A x \in In(s) : w[x] \in Int
    BY <2>4, FS_Subset
  <2>6. SumFunctionOnSet(W, s) = W[c] + SumFunctionOnSet(W, s \ {c})
    <3>1. \A y \in s : W[y] \in Int
      BY <1>0
    <3> QED
      BY <2>2, <3>1, SumAdd
  <2>7. SumFunctionOnSet(w, In(s))
          = SumFunctionOnSet(w, OfClass(k, S, c)) + SumFunctionOnSet(w, In(s \ {c}))
    <3> HIDE DEF In
    <3>1. SumFunctionOnSet(w, In(s)) = SumFunctionOnSet(w, OfClass(k, S, c))
                                         + SumFunctionOnSet(w, In(s) \ OfClass(k, S, c))
      BY <2>4, <2>5, SumOfUnion
    <3> QED
      BY <2>4, <3>1
  <2>8. SumFunctionOnSet(W, s \ {c}) = SumFunctionOnSet(w, In(s \ {c}))
    BY <2>1
  <2>9. W[c] = SumFunctionOnSet(w, OfClass(k, S, c))
    OBVIOUS
  <2>10. SumFunctionOnSet(W, s) # SumFunctionOnSet(w, In(s))
    BY <2>1
  <2> HIDE DEF In, Bad
  <2> QED
    BY <2>6, <2>7, <2>8, <2>9, <2>10
<1>2. In(C) = S
  OBVIOUS
<1>3. SumFunctionOnSet(W, C) = SumFunctionOnSet(w, In(C))
  BY <1>1
<1> HIDE DEF In
<1> QED
  BY <1>2, <1>3
-----------------------------------------------------------------------------
(* Ranks.                                                                  *)

Below(S, x) == {y \in S : y < x}

(* A finite set of integers in ascending order, by rank: each of its       *)
(* elements, once.                                                         *)
THEOREM Ascends ==
  ASSUME NEW S \in SUBSET Int, IsFiniteSet(S), NEW f,
         f = [i \in 1 .. Cardinality(S) |->
                CHOOSE x \in S : Cardinality({y \in S : y < x}) = i - 1]
  PROVE  Matches(f, 1 .. Cardinality(S), S)
<1>0. Cardinality(S) \in Nat
  BY FS_CardinalityType
<1> DEFINE r == [x \in S |-> Cardinality(Below(S, x)) + 1]
           n == Cardinality(S)
<1>1. ASSUME NEW x \in S
      PROVE  /\ IsFiniteSet(Below(S, x)) /\ Cardinality(Below(S, x)) \in Nat
             /\ r[x] = Cardinality(Below(S, x)) + 1 /\ r[x] \in 1 .. n
  <2>1. Below(S, x) \in SUBSET S /\ x \notin Below(S, x)
    BY DEF Below
  <2>2. /\ IsFiniteSet(Below(S, x)) /\ Cardinality(Below(S, x)) <= n
        /\ Cardinality(Below(S, x)) = n => Below(S, x) = S
    BY <2>1, FS_Subset
  <2>3. Cardinality(Below(S, x)) \in Nat
    BY <2>2, FS_CardinalityType
  <2> QED
    BY <1>0, <2>1, <2>2, <2>3
<1>2. ASSUME NEW x \in S, NEW y \in S, x < y
      PROVE  r[x] # r[y]
  <2>1. Below(S, x) \in SUBSET Below(S, y) /\ x \in Below(S, y) /\ x \notin Below(S, x)
    <3>1. \A z \in S : z \in Int
      OBVIOUS
    <3>2. \A z \in S : z < x => z < y
      BY <1>2, <3>1
    <3>3. ~(x < x)
      BY <3>1
    <3> QED
      BY <1>2, <3>2, <3>3 DEF Below
  <2>2. Cardinality(Below(S, x)) # Cardinality(Below(S, y))
    BY <1>1, <2>1, FS_Subset
  <2> HIDE DEF r
  <2> QED
    BY <1>1, <2>2
<1>3. \A x, y \in S : r[x] = r[y] => x = y
  <2> SUFFICES ASSUME NEW x \in S, NEW y \in S, x # y PROVE r[x] # r[y]
    BY DEF r
  <2>1. x < y \/ y < x
    OBVIOUS
  <2> HIDE DEF r
  <2> QED
    BY <1>2, <2>1
<1>4. r \in Injection(S, 1 .. n)
  BY <1>1, <1>3 DEF Injection, IsInjective
<1>5. IsFiniteSet(1 .. n) /\ Cardinality(1 .. n) = n
  BY <1>0, FS_Interval
<1>6. r \in Surjection(S, 1 .. n)
  <2> HIDE DEF r
  <2> QED
    BY <1>4, <1>5, FS_Injection
<1>7. \A i \in 1 .. n : \E x \in S : r[x] = i
  BY <1>6 DEF Surjection
<1>8. ASSUME NEW i \in 1 .. n
      PROVE  f[i] \in S /\ r[f[i]] = i
  <2>1. PICK x \in S : r[x] = i
    BY <1>7
  <2>2. Cardinality(Below(S, x)) = i - 1
    <3>1. r[x] = Cardinality(Below(S, x)) + 1 /\ Cardinality(Below(S, x)) \in Nat
      BY <1>1
    <3> HIDE DEF r
    <3> QED
      BY <2>1, <3>1
  <2>3. f[i] = CHOOSE z \in S : Cardinality({y \in S : y < z}) = i - 1
    OBVIOUS
  <2>4. f[i] \in S /\ Cardinality({y \in S : y < f[i]}) = i - 1
    BY <2>2, <2>3 DEF Below
  <2> QED
    BY <2>4, <1>0 DEF Below
<1>9. ASSUME NEW x \in S PROVE r[x] \in 1 .. n /\ f[r[x]] = x
  <2>1. r[x] \in 1 .. n
    BY <1>1
  <2>2. f[r[x]] \in S /\ r[f[r[x]]] = r[x]
    <3> HIDE DEF r
    <3> QED
      BY <1>8, <2>1
  <2> HIDE DEF r
  <2> QED
    BY <1>3, <2>1, <2>2
<1> HIDE DEF r
<1>10. \A i, j \in 1 .. n : f[i] = f[j] => i = j
  BY <1>8
<1>11. \A x \in S : \E i \in 1 .. n : f[i] = x
  BY <1>9
<1> QED
  BY <1>8, <1>10, <1>11 DEF Matches
=============================================================================
