-------------------------- MODULE DecisionsProofs --------------------------
(***************************************************************************)
(* Theorems about programs that pass judgement.  The slot-restore harness: *)
(* what a report that passes means, whatever server is measured.  The      *)
(* gates and levels: that no verdict of the report rests on a claim.  Tool *)
(* sessions: that the turns decide, in whatever order they are recorded.   *)
(* Pairing: that a comparison favours no side, order or control.           *)
(***************************************************************************)
EXTENDS SlotRestore, PairedOutcomes, Verdicts, ToolSession, FiniteSums, SequenceTheorems, TLAPS

-----------------------------------------------------------------------------
(* The slot-restore harness: what slots hold.                              *)

Cell == [token : Tokens, by : Completions \cup {"foreign"}]
Content == [tokens : Seq(Tokens), cells : Seq(Cell), live : BOOLEAN]
Held == {s \in Content : Len(s.tokens) <= Len(s.cells)}

(* A prefix, element by element.                                           *)
LEMMA PrefixIs ==
    ASSUME NEW S, NEW s \in Seq(S), NEW n \in 0 .. Len(s)
    PROVE  /\ Prefix(s, n) \in Seq(S) /\ Len(Prefix(s, n)) = n
           /\ \A i \in 1 .. n : Prefix(s, n)[i] = s[i]
<1>1. \A i \in 1 .. n : s[i] \in S
  BY LenProperties, ElementOfSeq
<1>2. Len(s) \in Nat
  BY LenProperties
<1> QED
  BY <1>1, <1>2, SubSeqProperties DEF Prefix

(* Two prefixes are the same when their elements are.                      *)
LEMMA SamePrefix ==
    ASSUME NEW S, NEW s \in Seq(S), NEW t \in Seq(S), NEW n \in 0 .. Len(s), n <= Len(t)
    PROVE  Prefix(s, n) = Prefix(t, n) <=> \A i \in 1 .. n : s[i] = t[i]
<1>1. n \in 0 .. Len(t) /\ n \in Nat
  BY LenProperties
<1>2. /\ Prefix(s, n) \in Seq(S) /\ Len(Prefix(s, n)) = n
      /\ \A i \in 1 .. n : Prefix(s, n)[i] = s[i]
  BY PrefixIs
<1>3. /\ Prefix(t, n) \in Seq(S) /\ Len(Prefix(t, n)) = n
      /\ \A i \in 1 .. n : Prefix(t, n)[i] = t[i]
  BY PrefixIs, <1>1
<1>4. ASSUME \A i \in 1 .. n : s[i] = t[i]
      PROVE  Prefix(s, n) = Prefix(t, n)
  BY <1>2, <1>3, <1>4, SeqEqual
<1>5. ASSUME Prefix(s, n) = Prefix(t, n)
      PROVE  \A i \in 1 .. n : s[i] = t[i]
  BY <1>2, <1>3, <1>5
<1> QED
  BY <1>4, <1>5

(* Agreement of two texts up to n, and not beyond. *)
Agree(held, prompt, n) ==
  /\ n \in 0 .. Len(prompt) /\ n <= Len(held)
  /\ \A i \in 1 .. n : held[i] = prompt[i]
  /\ n < Len(held) /\ n < Len(prompt) => held[n + 1] # prompt[n + 1]

(* There is one length of agreement ...                                    *)
LEMMA SharedIs ==
    ASSUME NEW held \in Seq(Tokens), NEW prompt \in Seq(Tokens), NEW n, Agree(held, prompt, n)
    PROVE  Shared(held, prompt) = n
<1> DEFINE Q(m) == /\ m <= Len(held) /\ Prefix(held, m) = Prefix(prompt, m)
                   /\ m < Len(held) /\ m < Len(prompt) => held[m + 1] # prompt[m + 1]
<1>1. Len(held) \in Nat /\ Len(prompt) \in Nat
  BY LenProperties
<1>2. n \in 0 .. Len(prompt) /\ n \in 0 .. Len(held)
  BY <1>1 DEF Agree
<1>3. Q(n)
  BY <1>1, <1>2, SamePrefix DEF Agree
<1>4. ASSUME NEW m \in 0 .. Len(prompt), Q(m)
      PROVE  m = n
  <2>1. m \in 0 .. Len(held)
    BY <1>1, <1>4
  <2>2. \A i \in 1 .. m : held[i] = prompt[i]
    BY <1>4, <2>1, SamePrefix
  <2>3. ~ m < n
    BY <1>1, <1>2, <1>4, <2>1 DEF Agree
  <2>4. ~ n < m
    BY <1>1, <1>2, <1>4, <2>1, <2>2 DEF Agree
  <2> QED
    BY <2>3, <2>4, <1>2
<1>5. Shared(held, prompt) = CHOOSE m \in 0 .. Len(prompt) : Q(m)
  BY DEF Shared
<1> HIDE DEF Q
<1> QED
  BY <1>2, <1>3, <1>4, <1>5

(* ... and there is one at all: the longest of the prefixes that agree.    *)
LEMMA SharedAgrees ==
    ASSUME NEW held \in Seq(Tokens), NEW prompt \in Seq(Tokens)
    PROVE  Agree(held, prompt, Shared(held, prompt))
<1> DEFINE L == Len(prompt)
           K == {n \in 0 .. L : n <= Len(held) /\ \A i \in 1 .. n : held[i] = prompt[i]}
           Rest == {(n + 1) .. L : n \in K}
<1>1. Len(held) \in Nat /\ L \in Nat
  BY LenProperties
<1>2. Rest \subseteq SUBSET (1 .. L)
  BY <1>1
<1>3. IsFiniteSet(1 .. L)
  BY FS_Interval, <1>1
<1>4. 0 \in K
  BY <1>1
<1>5. Rest # {}
  BY <1>4
<1>6. PICK r \in Rest : \A q \in Rest : ~ (q \subseteq r /\ q # r)
  <2> HIDE DEF Rest
  <2> QED
    BY <1>2, <1>3, <1>5, SmallestSubset
<1>7. PICK n \in K : r = (n + 1) .. L
  BY <1>6
<1>8. ASSUME n < Len(held), n < L, held[n + 1] = prompt[n + 1] PROVE FALSE
  <2>1. n + 1 \in K
    BY <1>1, <1>7, <1>8
  <2>2. (n + 1) + 1 .. L \in Rest
    BY <2>1
  <2>3. n + 1 \in r /\ n + 1 \notin ((n + 1) + 1 .. L)
    BY <1>7, <1>8, <1>1
  <2>4. ((n + 1) + 1 .. L) \subseteq r
    BY <1>7, <1>1
  <2> QED
    BY <1>6, <2>2, <2>3, <2>4
<1>9. Agree(held, prompt, n)
  BY <1>7, <1>8 DEF Agree
<1> QED
  BY <1>9, SharedIs

(* Texts that begin differently share nothing.                             *)
LEMMA SharedNothing ==
    ASSUME NEW held \in Seq(Tokens), NEW prompt \in Seq(Tokens),
           held = <<>> \/ prompt = <<>> \/ held[1] # prompt[1]
    PROVE  Shared(held, prompt) = 0
<1>1. Len(held) \in Nat /\ Len(prompt) \in Nat
  BY LenProperties
<1>2. held = <<>> => Len(held) = 0
  BY EmptySeq
<1>3. prompt = <<>> => Len(prompt) = 0
  BY EmptySeq
<1>4. Agree(held, prompt, 0)
  BY <1>1, <1>2, <1>3 DEF Agree
<1> QED
  BY <1>4, SharedIs

(* A text and a prefix of it share the prefix.                             *)
LEMMA SharedAll ==
    ASSUME NEW held \in Seq(Tokens), NEW prompt \in Seq(Tokens), NEW n,
           n = Len(held) \/ n = Len(prompt), n <= Len(held), n <= Len(prompt),
           \A i \in 1 .. n : held[i] = prompt[i]
    PROVE  Shared(held, prompt) = n
<1>1. Len(held) \in Nat /\ Len(prompt) \in Nat
  BY LenProperties
<1>2. Agree(held, prompt, n)
  BY <1>1 DEF Agree
<1> QED
  BY <1>2, SharedIs

(* What is reused is a proper prefix of the prompt that the slot holds.    *)
LEMMA ReusedBounds ==
    ASSUME NEW held \in Held, NEW prompt \in Seq(Tokens), prompt # <<>>
    PROVE  /\ Reused(held, prompt) \in 0 .. Len(prompt) - 1
           /\ Reused(held, prompt) <= Len(held.tokens)
           /\ \A i \in 1 .. Reused(held, prompt) : held.tokens[i] = prompt[i]
<1>1. Len(held.tokens) \in Nat /\ Len(prompt) \in Nat \ {0} /\ held.tokens \in Seq(Tokens)
  BY LenProperties, EmptySeq DEF Held, Content
<1>2. Agree(held.tokens, prompt, Shared(held.tokens, prompt))
  BY <1>1, SharedAgrees
<1> QED
  BY <1>1, <1>2 DEF Agree, Reused, Boundary

(* The cells of a text, one by one.                                        *)
LEMMA CellsAre ==
    ASSUME NEW text \in Seq(Tokens), NEW by \in Completions \cup {"foreign"}
    PROVE  /\ Cells(text, by) \in Seq(Cell) /\ Len(Cells(text, by)) = Len(text)
           /\ \A i \in 1 .. Len(text) : Cells(text, by)[i] = [token |-> text[i], by |-> by]
<1>1. Len(text) \in Nat /\ DOMAIN text = 1 .. Len(text) /\ \A i \in 1 .. Len(text) : text[i] \in Tokens
  BY LenProperties, ElementOfSeq
<1>2. \A i \in 1 .. Len(text) : [token |-> text[i], by |-> by] \in Cell
  BY <1>1 DEF Cell
<1>3. Cells(text, by) \in [1 .. Len(text) -> Cell]
  BY <1>1, <1>2 DEF Cells
<1>4. Cells(text, by) \in Seq(Cell) /\ Len(Cells(text, by)) = Len(text)
  BY <1>1, <1>3, SMT
<1> QED
  BY <1>1, <1>4 DEF Cells

(* All of a sequence but its last element.                                 *)
LEMMA FrontIs ==
    ASSUME NEW S, NEW s \in Seq(S), s # <<>>
    PROVE  /\ Front(s) \in Seq(S) /\ Len(Front(s)) = Len(s) - 1
           /\ \A i \in 1 .. Len(s) - 1 : Front(s)[i] = s[i]
<1>1. Len(s) \in Nat \ {0} /\ \A i \in 1 .. Len(s) - 1 : s[i] \in S
  BY EmptySeq, ElementOfSeq
<1> DEFINE n == Len(s) - 1
<1>7. Front(s) = SubSeq(s, 1, n)
  BY DEF Front
<1>8. n \in Nat
  BY <1>1
<1>2. n \in Nat /\ Front(s) = SubSeq(s, 1, n) /\ n - 1 + 1 = n /\ (1 <= n <=> n # 0)
  <2> HIDE DEF n
  <2> QED
    BY <1>7, <1>8
<1>3. \A i \in 1 .. n : s[i] \in S
  BY <1>1
<1> HIDE DEF n
<1>4. /\ SubSeq(s, 1, n) \in Seq(S)
      /\ Len(SubSeq(s, 1, n)) = IF 1 <= n THEN n - 1 + 1 ELSE 0
      /\ \A i \in 1 .. n - 1 + 1 : SubSeq(s, 1, n)[i] = s[1 + i - 1]
  BY <1>2, <1>3, SubSeqProperties
<1>5. \A i \in 1 .. n : 1 + i - 1 = i
  BY <1>2
<1>6. Front(s) \in Seq(S) /\ Len(Front(s)) = n /\ \A i \in 1 .. n : Front(s)[i] = s[i]
  BY <1>2, <1>4, <1>5
<1> QED
  BY <1>6 DEF n

(* The cells of a slot after a completion: those that were reused, then    *)
(* those the request computed.                                             *)
Grown(base, past, all, by) ==
  Prefix(base.cells, past) \o SubSeq(Cells(Front(all), by), past + 1, Len(all) - Boundary)

(* Which cell of a slot was reused and which was computed.                 *)
LEMMA GrownCells ==
    ASSUME NEW base \in Held, NEW all \in Seq(Tokens), all # <<>>, NEW past \in 0 .. Len(all) - 1,
           past <= Len(base.cells), NEW by \in Completions \cup {"foreign"}
    PROVE  /\ Grown(base, past, all, by) \in Seq(Cell)
           /\ Len(Grown(base, past, all, by)) = Len(all) - 1
           /\ \A i \in 1 .. past : Grown(base, past, all, by)[i] = base.cells[i]
           /\ \A i \in past + 1 .. Len(all) - 1 :
                Grown(base, past, all, by)[i] = [token |-> all[i], by |-> by]
<1> DEFINE fresh == Cells(Front(all), by)
           kept == Prefix(base.cells, past)
           added == SubSeq(fresh, past + 1, Len(all) - 1)
<1>1. Len(all) \in Nat \ {0} /\ base.cells \in Seq(Cell) /\ Len(base.cells) \in Nat
  BY EmptySeq, LenProperties DEF Held, Content
<1>2. /\ Front(all) \in Seq(Tokens) /\ Len(Front(all)) = Len(all) - 1
      /\ \A i \in 1 .. Len(all) - 1 : Front(all)[i] = all[i]
  BY FrontIs
<1>3. /\ fresh \in Seq(Cell) /\ Len(fresh) = Len(all) - 1
      /\ \A i \in 1 .. Len(all) - 1 : fresh[i] = [token |-> all[i], by |-> by]
  BY <1>2, CellsAre
<1>4. kept \in Seq(Cell) /\ Len(kept) = past /\ \A i \in 1 .. past : kept[i] = base.cells[i]
  BY <1>1, PrefixIs
<1>5. \A i \in past + 1 .. Len(all) - 1 : fresh[i] \in Cell
  BY <1>1, <1>3, ElementOfSeq
<1> HIDE DEF fresh, kept
<1>6. /\ added \in Seq(Cell) /\ Len(added) = Len(all) - 1 - past
      /\ \A i \in 1 .. Len(all) - 1 - past : added[i] = fresh[past + i]
  <2>1. /\ added \in Seq(Cell)
        /\ Len(added) = IF past + 1 <= Len(all) - 1 THEN Len(all) - 1 - (past + 1) + 1 ELSE 0
        /\ \A i \in 1 .. Len(all) - 1 - (past + 1) + 1 : added[i] = fresh[past + 1 + i - 1]
    BY <1>1, <1>5, SubSeqProperties
  <2> HIDE DEF added
  <2>2. past \in Nat
    BY <1>1
  <2>3. \A i \in 1 .. Len(all) - 1 - past : added[i] = fresh[past + i]
    <3> SUFFICES ASSUME NEW i \in 1 .. Len(all) - 1 - past PROVE added[i] = fresh[past + i]
      OBVIOUS
    <3>1. i \in 1 .. Len(all) - 1 - (past + 1) + 1 /\ past + 1 + i - 1 = past + i
      BY <1>1, <2>2
    <3> QED
      BY <2>1, <3>1
  <2> QED
    BY <1>1, <2>1, <2>2, <2>3
<1>7. Grown(base, past, all, by) = kept \o added
  BY DEF Grown, Boundary, kept, fresh
<1> HIDE DEF added
<1>12. kept \in Seq(Cell) /\ added \in Seq(Cell)
  BY <1>4, <1>6
<1>13. /\ kept \o added \in Seq(Cell) /\ Len(kept \o added) = Len(kept) + Len(added)
       /\ \A i \in 1 .. Len(kept) + Len(added) :
            (kept \o added)[i] = IF i <= Len(kept) THEN kept[i] ELSE added[i - Len(kept)]
  BY ONLY <1>12, ConcatProperties
<1>8. /\ kept \o added \in Seq(Cell) /\ Len(kept \o added) = past + (Len(all) - 1 - past)
      /\ \A i \in 1 .. past + (Len(all) - 1 - past) :
           (kept \o added)[i] = IF i <= past THEN kept[i] ELSE added[i - past]
  BY <1>4, <1>6, <1>13
<1>9. past \in Nat /\ past + (Len(all) - 1 - past) = Len(all) - 1
  BY <1>1
<1>10. ASSUME NEW i \in past + 1 .. Len(all) - 1
       PROVE  (kept \o added)[i] = [token |-> all[i], by |-> by]
  <2>1. i - past \in 1 .. Len(all) - 1 - past /\ past + (i - past) = i /\ i \in 1 .. Len(all) - 1 /\ ~(i <= past)
    BY <1>1, <1>9
  <2> QED
    BY <1>3, <1>6, <1>8, <1>9, <2>1
<1>11. ASSUME NEW i \in 1 .. past PROVE (kept \o added)[i] = base.cells[i]
  BY <1>1, <1>4, <1>8, <1>9, <1>11
<1> QED
  BY <1>7, <1>8, <1>9, <1>10, <1>11

(* What a completion starts from.                                          *)
Base(prompt) == IF Shared(ram.tokens, prompt) > Shared(slot.tokens, prompt) THEN ram ELSE slot

(* A text followed by another one.                                         *)
LEMMA Joined ==
    ASSUME NEW S, NEW s \in Seq(S), NEW t \in Seq(S), t # <<>>
    PROVE  /\ s \o t \in Seq(S) /\ s \o t # <<>> /\ Len(s \o t) = Len(s) + Len(t)
           /\ Len(s) \in Nat /\ Len(t) \in Nat \ {0}
           /\ \A i \in 1 .. Len(s) : (s \o t)[i] = s[i]
           /\ \A i \in 1 .. Len(t) : (s \o t)[Len(s) + i] = t[i]
<1>1. Len(s) \in Nat /\ Len(t) \in Nat \ {0} /\ Len(<<>>) = 0
  BY LenProperties, EmptySeq
<1>2. /\ s \o t \in Seq(S) /\ Len(s \o t) = Len(s) + Len(t)
      /\ \A i \in 1 .. Len(s) + Len(t) : (s \o t)[i] = IF i <= Len(s) THEN s[i] ELSE t[i - Len(s)]
  BY ONLY s \in Seq(S), t \in Seq(S), ConcatProperties
<1>3. s \o t # <<>>
  BY <1>1, <1>2
<1>4. \A i \in 1 .. Len(s) : (s \o t)[i] = s[i]
  BY <1>1, <1>2
<1>5. ASSUME NEW i \in 1 .. Len(t) PROVE (s \o t)[Len(s) + i] = t[i]
  <2>1. Len(s) + i \in 1 .. Len(s) + Len(t) /\ ~ (Len(s) + i <= Len(s)) /\ (Len(s) + i) - Len(s) = i
    BY <1>1
  <2> QED
    BY <1>2, <2>1
<1> QED
  BY <1>1, <1>2, <1>3, <1>4, <1>5

(* A completion leaves the prompt and all of the reply but its last token. *)
LEMMA CompletedSlot ==
    ASSUME slot \in Held, ram \in Held, counter \in Nat,
           NEW prompt \in Seq(Tokens), prompt # <<>>, NEW reply \in Seq(Tokens), reply # <<>>,
           NEW by \in Completions \cup {"foreign"}, Complete(prompt, by, reply)
    PROVE  LET past == Reused(Base(prompt), prompt)
               all  == prompt \o reply
           IN  /\ Base(prompt) \in Held /\ past \in 0 .. Len(prompt) - 1 /\ past <= Len(Base(prompt).cells)
               /\ slot'.tokens = Front(all) /\ slot'.cells = Grown(Base(prompt), past, all, by)
               /\ slot'.live = TRUE /\ slot' \in Held
               /\ Len(slot'.tokens) = Len(prompt) + Len(reply) - 1
               /\ \A i \in 1 .. Len(prompt) : slot'.tokens[i] = prompt[i]
               /\ Len(slot'.cells) = Len(slot'.tokens)
               /\ counter' = counter + Len(prompt) - past
               /\ counter' \in Nat /\ counter' > counter
<1> DEFINE base == Base(prompt)
           past == Reused(base, prompt)
           all == prompt \o reply
<1>1. base \in Held /\ base.cells \in Seq(Cell) /\ Len(base.tokens) <= Len(base.cells)
      /\ Len(base.cells) \in Nat /\ Len(base.tokens) \in Nat
  BY LenProperties DEF Base, Held, Content
<1>2. /\ all \in Seq(Tokens) /\ all # <<>> /\ Len(all) = Len(prompt) + Len(reply)
      /\ Len(prompt) \in Nat \ {0} /\ Len(reply) \in Nat \ {0}
      /\ \A i \in 1 .. Len(prompt) : all[i] = prompt[i]
  BY Joined, EmptySeq
<1>3. past \in 0 .. Len(prompt) - 1 /\ past <= Len(base.tokens)
  BY <1>1, ReusedBounds
<1>4. /\ slot' = [tokens |-> Front(all), cells |-> Grown(base, past, all, by), live |-> TRUE]
      /\ counter' = counter + Len(prompt) - past
  BY DEF Complete, Grown, Base
<1> HIDE DEF base, past, all
<1>5. past \in 0 .. Len(all) - 1 /\ past <= Len(base.cells)
  BY <1>1, <1>2, <1>3
<1>6. /\ Grown(base, past, all, by) \in Seq(Cell)
      /\ Len(Grown(base, past, all, by)) = Len(all) - 1
  BY <1>1, <1>2, <1>5, GrownCells
<1>7. /\ Front(all) \in Seq(Tokens) /\ Len(Front(all)) = Len(all) - 1
      /\ \A i \in 1 .. Len(all) - 1 : Front(all)[i] = all[i]
  BY <1>2, FrontIs
<1>8. slot' \in Held
  BY <1>4, <1>6, <1>7, <1>2 DEF Held, Content
<1>9. \A i \in 1 .. Len(prompt) : Front(all)[i] = prompt[i]
  BY <1>2, <1>7
<1> QED
  BY <1>1, <1>2, <1>3, <1>4, <1>5, <1>6, <1>7, <1>8, <1>9 DEF base, past, all

-----------------------------------------------------------------------------
(* The order of the steps.                                                 *)

LEMMA Positions ==
    /\ Follows("baseline") = 1 /\ Follows("erase_initial") = 2 /\ Follows("warm") = 3
    /\ Follows("save") = 4 /\ Follows("hot") = 5 /\ Follows("erase_after_hot") = 6
    /\ Follows("cold_probe") = 7 /\ Follows("restore") = 8 /\ Follows("restored") = 9
    /\ Follows("metrics") = 10 /\ Follows("erase_final") = 11
<1>1. DOMAIN Order = 1 .. 12
  BY DEF Order
<1>2. /\ Order[1] = "baseline" /\ Order[2] = "erase_initial" /\ Order[3] = "warm" /\ Order[4] = "save"
      /\ Order[5] = "hot" /\ Order[6] = "erase_after_hot" /\ Order[7] = "cold_probe"
      /\ Order[8] = "restore" /\ Order[9] = "restored" /\ Order[10] = "metrics"
      /\ Order[11] = "erase_final" /\ Order[12] = "done"
  BY DEF Order
<1>3. \A i \in 1 .. 12 : \/ i = 1 \/ i = 2 \/ i = 3 \/ i = 4 \/ i = 5 \/ i = 6
                         \/ i = 7 \/ i = 8 \/ i = 9 \/ i = 10 \/ i = 11 \/ i = 12
  OBVIOUS
<1>4. \A i, j \in 1 .. 12 : Order[i] = Order[j] => i = j
  BY <1>2, <1>3
<1>5. \A j \in 1 .. 12 : Follows(Order[j]) = j
  BY <1>1, <1>4 DEF Follows
<1> QED
  BY <1>2, <1>5

(* The step that follows each step.                                        *)
LEMMA NextStep ==
    /\ step = "baseline" => AfterStep = "erase_initial"
    /\ step = "erase_initial" => AfterStep = "warm"
    /\ step = "warm" => AfterStep = "save"
    /\ step = "save" => AfterStep = "hot"
    /\ step = "hot" => AfterStep = "erase_after_hot"
    /\ step = "erase_after_hot" => AfterStep = IF probing THEN "cold_probe" ELSE "restore"
    /\ step = "cold_probe" => AfterStep = "restore"
    /\ step = "restore" => AfterStep = "restored"
    /\ step = "restored" => AfterStep = "metrics"
    /\ step = "metrics" => AfterStep = "erase_final"
    /\ step = "erase_final" => AfterStep = "done"
BY Positions DEF AfterStep, Order

(* The steps, by name.                                                     *)
LEMMA StepNamesAre ==
    StepNames = {"baseline", "erase_initial", "warm", "save", "hot", "erase_after_hot", "cold_probe",
                 "restore", "restored", "metrics", "erase_final", "done", "error"}
<1>1. {Order[i] : i \in DOMAIN Order} = Range(Order)
  BY DEF Range
<1>2. DOMAIN Order = 1 .. 12
  BY DEF Order
<1>3. /\ Order[1] = "baseline" /\ Order[2] = "erase_initial" /\ Order[3] = "warm" /\ Order[4] = "save"
      /\ Order[5] = "hot" /\ Order[6] = "erase_after_hot" /\ Order[7] = "cold_probe"
      /\ Order[8] = "restore" /\ Order[9] = "restored" /\ Order[10] = "metrics"
      /\ Order[11] = "erase_final" /\ Order[12] = "done"
  BY DEF Order
<1>4. \A i : i \in 1 .. 12 <=> \/ i = 1 \/ i = 2 \/ i = 3 \/ i = 4 \/ i = 5 \/ i = 6
                         \/ i = 7 \/ i = 8 \/ i = 9 \/ i = 10 \/ i = 11 \/ i = 12
  OBVIOUS
<1>5. {Order[i] : i \in DOMAIN Order} = {"baseline", "erase_initial", "warm", "save", "hot",
        "erase_after_hot", "cold_probe", "restore", "restored", "metrics", "erase_final", "done"}
  BY <1>2, <1>3, <1>4
<1> QED
  BY <1>5 DEF StepNames

-----------------------------------------------------------------------------
(* Types                                                                   *)

Request == [prefill : Nat, base : Seq(Cell), reply : Seq(Tokens)]
Memory == [requests : [Completions -> Request], baseline : Nat, sum : Nat,
           saved : Nat, restored : Nat, erased : Nat]
SlotShape ==
  /\ server \in Servers /\ probing \in BOOLEAN
  /\ slot \in Held /\ ram \in Held /\ file \in Held
  /\ counter \in Nat /\ before \in 0 .. counter
  /\ seen \in Memory
  /\ step \in StepNames /\ stage \in {"before", "call", "after"}
  /\ step \in Readings \cup {"done"} => stage = "before"
  /\ failed \subseteq StepNames \cup {"comparison"}
  /\ foreign \in Seq(StepNames \X {"before", "call", "after"})

(* Whatever is asked or answered is a text that is not empty.              *)
LEMMA TextsAre ==
    /\ History \in Seq(Tokens) /\ Suffix \in Seq(Tokens) /\ Other \in Seq(Tokens)
    /\ OneToken \in Seq(Tokens) /\ \A r \in Replies : r \in Seq(Tokens)
    /\ History # <<>> /\ Other # <<>> /\ OneToken # <<>> /\ \A r \in Replies : r # <<>>
    /\ \A s : \A r \in RepliesTo(s) : r \in Seq(Tokens) /\ r # <<>>
<1>1. /\ History \in Seq(Tokens) /\ Suffix \in Seq(Tokens) /\ Other \in Seq(Tokens)
      /\ OneToken \in Seq(Tokens) /\ \A r \in Replies : r \in Seq(Tokens)
  BY TextsAssumption DEF Texts
<1>2. History # <<>> /\ Other # <<>>
  BY OtherAssumption
<1>3. Len(<<>>) = 0
  BY EmptySeq
<1>4. OneToken # <<>> /\ \A r \in Replies : r # <<>>
  BY <1>3, RepliesAssumption, NumbersAssumption
<1> QED
  BY <1>1, <1>2, <1>4 DEF RepliesTo

(* So is every prompt of the harness.                                      *)
LEMMA PromptsAre ==
    ASSUME SlotShape, NEW s
    PROVE  /\ Saved \in Seq(Tokens) /\ Saved # <<>>
           /\ PromptOf(s) \in Seq(Tokens) /\ PromptOf(s) # <<>>
<1>1. seen.requests["warm"].reply \in Seq(Tokens)
  BY DEF SlotShape, Memory, Completions, Request
<1>2. Saved \in Seq(Tokens) /\ Saved # <<>>
  BY <1>1, TextsAre, ConcatProperties, ConcatEqualIffEmpty DEF Saved
<1>3. Saved \o Suffix \in Seq(Tokens) /\ Saved \o Suffix # <<>>
  BY <1>2, TextsAre, ConcatProperties, ConcatEqualIffEmpty
<1> QED
  BY <1>2, <1>3, TextsAre DEF PromptOf

(* An empty slot is a content like any other.                              *)
LEMMA EmptyHeld == Empty \in Held
BY EmptySeq DEF Empty, Held, Content

(* A loaded snapshot keeps the cells that were there.                      *)
LEMMA MergedIs ==
    ASSUME file \in Held, NEW cells \in Seq(Cell)
    PROVE  /\ Merged(cells) \in Seq(Cell)
           /\ Len(Merged(cells)) = IF Len(cells) < Len(file.cells) THEN Len(file.cells) ELSE Len(cells)
           /\ \A i \in 1 .. Len(cells) : Merged(cells)[i] = cells[i]
           /\ \A i \in Len(cells) + 1 .. Len(file.cells) : Merged(cells)[i] = file.cells[i]
<1> DEFINE c == Len(cells)
           f == Len(file.cells)
           added == SubSeq(file.cells, c + 1, f)
<1>1. c \in Nat /\ f \in Nat /\ file.cells \in Seq(Cell)
  BY LenProperties DEF Held, Content
<1>2. \A i \in c + 1 .. f : file.cells[i] \in Cell
  BY <1>1, ElementOfSeq
<1> HIDE DEF c, f
<1>3. /\ added \in Seq(Cell) /\ Len(added) = IF c + 1 <= f THEN f - (c + 1) + 1 ELSE 0
      /\ \A i \in 1 .. f - (c + 1) + 1 : added[i] = file.cells[c + 1 + i - 1]
  BY <1>1, <1>2, SubSeqProperties
<1>4. Merged(cells) = cells \o added
  BY DEF Merged, c, f
<1> HIDE DEF added
<1>5. Len(added) = IF c < f THEN f - c ELSE 0
  BY <1>1, <1>3
<1>6. \A i \in 1 .. f - c : added[i] = file.cells[c + i]
  <2> SUFFICES ASSUME NEW i \in 1 .. f - c PROVE added[i] = file.cells[c + i]
    OBVIOUS
  <2>1. i \in 1 .. f - (c + 1) + 1 /\ c + 1 + i - 1 = c + i
    BY <1>1
  <2> QED
    BY <1>3, <2>1
<1>7. added \in Seq(Cell)
  BY <1>3
<1>8. /\ cells \o added \in Seq(Cell) /\ Len(cells \o added) = Len(cells) + Len(added)
      /\ \A i \in 1 .. Len(cells) + Len(added) :
           (cells \o added)[i] = IF i <= Len(cells) THEN cells[i] ELSE added[i - Len(cells)]
  BY ONLY <1>7, cells \in Seq(Cell), ConcatProperties
<1>9. Len(cells) = c
  BY DEF c
<1>10. Len(cells \o added) = IF c < f THEN f ELSE c
  BY <1>1, <1>5, <1>8, <1>9
<1>11. ASSUME NEW i \in 1 .. c PROVE (cells \o added)[i] = cells[i]
  BY <1>1, <1>5, <1>8, <1>9
<1>12. ASSUME NEW i \in c + 1 .. f PROVE (cells \o added)[i] = file.cells[i]
  <2>1. /\ i \in 1 .. c + Len(added) /\ ~ (i <= c) /\ i - c \in 1 .. f - c /\ c + (i - c) = i
    BY <1>1, <1>5
  <2> QED
    BY <1>6, <1>8, <1>9, <2>1
<1> QED
  BY <1>4, <1>8, <1>10, <1>11, <1>12 DEF c, f

(* The slot after a restore has the tokens of the snapshot.                *)
LEMMA LoadedHeld ==
    ASSUME SlotShape
    PROVE  Loaded \in Held /\ Loaded.tokens = file.tokens /\ Loaded.live = server.checkpoints
<1> DEFINE under == IF server.clears THEN <<>> ELSE slot.cells
<1>1. under \in Seq(Cell) /\ file \in Held
  BY EmptySeq DEF SlotShape, Held, Content
<1>2. /\ Len(file.cells) \in Nat /\ Len(file.tokens) \in Nat /\ Len(under) \in Nat
      /\ Len(file.tokens) <= Len(file.cells) /\ file.tokens \in Seq(Tokens)
  BY <1>1, LenProperties DEF Held, Content
<1>3. server.checkpoints \in BOOLEAN
  BY ServersAssumption DEF SlotShape
<1>4. Loaded = [tokens |-> file.tokens, cells |-> Merged(under), live |-> server.checkpoints]
  BY DEF Loaded
<1> HIDE DEF under
<1>5. Merged(under) \in Seq(Cell) /\ Len(Merged(under)) >= Len(file.tokens)
  BY <1>1, <1>2, MergedIs
<1> QED
  BY <1>2, <1>3, <1>4, <1>5 DEF Held, Content

(* What the harness remembers of a completion.                             *)
LEMMA CompletePromptIs ==
    ASSUME SlotShape, CompletePrompt
    PROVE  \E reply \in RepliesTo(step) :
             LET prompt == PromptOf(step)
                 past == Reused(Base(prompt), prompt)
             IN  /\ Complete(prompt, step, reply)
                 /\ reply \in Seq(Tokens) /\ reply # <<>>
                 /\ seen' = [seen EXCEPT !.requests[step] =
                               [prefill |-> Len(prompt) - past, base |-> Prefix(Base(prompt).cells, past),
                                reply |-> reply]]
                 /\ seen' \in Memory
<1> DEFINE prompt == PromptOf(step)
           past == Reused(Base(prompt), prompt)
<1>1. PICK reply \in RepliesTo(step) : Complete(prompt, step, reply)
  BY DEF CompletePrompt
<1>2. reply \in Seq(Tokens) /\ reply # <<>>
  BY TextsAre
<1>3. step \in Completions
  BY DEF CompletePrompt
<1>4. seen' = [seen EXCEPT !.requests[step] =
                 [prefill |-> Len(prompt) - past, base |-> Prefix(Base(prompt).cells, past),
                  reply |-> reply]]
  BY <1>1, <1>3 DEF Complete, Base
<1>5. prompt \in Seq(Tokens) /\ prompt # <<>>
  BY PromptsAre
<1>6. /\ Base(prompt) \in Held /\ past \in 0 .. Len(prompt) - 1 /\ past <= Len(Base(prompt).cells)
  <2> HIDE DEF prompt
  <2> QED
    BY <1>1, <1>2, <1>3, <1>5, CompletedSlot DEF SlotShape
<1>7. Base(prompt).cells \in Seq(Cell) /\ Len(Base(prompt).cells) \in Nat /\ Len(prompt) \in Nat
  BY <1>5, <1>6, LenProperties DEF Held, Content
<1>8. Prefix(Base(prompt).cells, past) \in Seq(Cell)
  <2> HIDE DEF prompt, past
  <2>1. past \in 0 .. Len(Base(prompt).cells)
    BY <1>6, <1>7
  <2> QED
    BY <1>7, <2>1, PrefixIs
<1>9. seen' \in Memory
  <2>1. Len(prompt) - past \in Nat
    BY <1>6, <1>7
  <2> DEFINE answer == [prefill |-> Len(prompt) - past, base |-> Prefix(Base(prompt).cells, past), reply |-> reply]
  <2>2. answer \in Request
    BY <2>1, <1>2, <1>8 DEF Request
  <2>3. seen' = [seen EXCEPT !.requests[step] = answer]
    BY <1>4
  <2> HIDE DEF answer
  <2> QED
    BY <2>2, <2>3, <1>3 DEF SlotShape, Memory
<1> QED
  BY <1>1, <1>2, <1>4, <1>9

(* The script never goes back to its first step.                           *)
LEMMA StepFollows ==
    ASSUME step \in StepNames, ~Ended
    PROVE  /\ AfterStep \in StepNames \ {"baseline", "error"}
           /\ AfterStep = "metrics" <=> step = "restored"
BY NextStep, StepNamesAre DEF Ended

(* The initial state has the shape.                                        *)
LEMMA ShapeInit == SlotInit => SlotShape
<1> SUFFICES ASSUME SlotInit PROVE SlotShape
  OBVIOUS
<1>1. slot \in Held
  <2>1. /\ Cells(Other, "foreign") \in Seq(Cell) /\ Len(Cells(Other, "foreign")) = Len(Other)
        /\ Len(Other) \in Nat
    BY TextsAre, CellsAre, LenProperties
  <2> QED
    BY <2>1, TextsAre DEF SlotInit, Held, Content
<1>2. Unseen \in Memory
  BY EmptySeq DEF Unseen, NoReply, Memory, Request
<1> QED
  BY <1>1, <1>2, EmptyHeld, EmptySeq, StepNamesAre DEF SlotInit, SlotShape

(* Every step keeps the shape.                                             *)
LEMMA ShapeStep ==
    ASSUME SlotShape, [SlotNext]_slotVars
    PROVE  SlotShape'
<1> USE DEF SlotShape
<1>1. CASE Baseline
  <2>1. step' \in StepNames /\ step' # "metrics" /\ step' # "baseline" /\ stage' = "before"
    BY <1>1, StepFollows DEF Baseline, Ended
  <2>2. seen' \in Memory
    BY <1>1 DEF Baseline, Memory
  <2> QED
    BY <1>1, <2>1, <2>2 DEF Baseline
<1>2. CASE ReadBefore
  BY <1>2 DEF ReadBefore, Ended
<1>3. CASE Erase
  <2>1. seen' \in Memory /\ step \notin Readings \cup {"done"}
    BY <1>3, LenProperties DEF Erase, Memory, Readings, Held, Content
  <2> QED
    BY <1>3, <2>1, EmptyHeld DEF Erase, Clear, Called
<1>4. CASE CompletePrompt
  <2>1. PICK reply \in RepliesTo(step) :
               Complete(PromptOf(step), step, reply) /\ reply \in Seq(Tokens) /\ reply # <<>> /\ seen' \in Memory
    BY <1>4, CompletePromptIs
  <2>2. PromptOf(step) \in Seq(Tokens) /\ PromptOf(step) # <<>> /\ step \in Completions
    BY <1>4, PromptsAre DEF CompletePrompt
  <2>3. slot' \in Held /\ counter' \in Nat /\ counter' > counter
    BY <2>1, <2>2, CompletedSlot
  <2>4. before \in 0 .. counter'
    BY <2>3
  <2>5. step \notin Readings \cup {"done"}
    BY <2>2 DEF Readings, Completions
  <2> QED
    BY <1>4, <2>1, <2>3, <2>4, <2>5 DEF CompletePrompt, Called
<1>5. CASE Save
  <2>1. seen' \in Memory /\ step \notin Readings \cup {"done"}
    BY <1>5, LenProperties DEF Save, Memory, Readings, Held, Content
  <2> QED
    BY <1>5, <2>1 DEF Save, Called
<1>6. CASE Restore
  <2>1. seen' \in Memory /\ step \notin Readings \cup {"done"}
    BY <1>6, LenProperties DEF Restore, Memory, Readings, Held, Content
  <2> QED
    BY <1>6, <2>1, LoadedHeld DEF Restore, Called
<1>7. CASE ReadAfter
  <2>3. step' = AfterStep /\ stage' = "before" /\ step \in StepNames /\ ~Ended
    BY <1>7 DEF ReadAfter
  <2>1. step' \in StepNames /\ stage' = "before"
    BY ONLY <2>3, StepFollows
  <2>2. seen' \in Memory
    <3>1. seen \in Memory /\ seen.sum + Delta \in Nat
      BY DEF Memory, Delta
    <3>2. seen' = [seen EXCEPT !.sum = seen.sum + Delta]
      BY <1>7 DEF ReadAfter
    <3> QED
      BY ONLY <3>1, <3>2 DEF Memory
  <2> QED
    BY <1>7, <2>1, <2>2 DEF ReadAfter
<1>8. CASE Metrics
  BY <1>8, StepFollows, StepNamesAre DEF Metrics, Ended
<1>9. CASE Abort
  BY <1>9, StepNamesAre DEF Abort, Readings
<1>10. CASE Intrude
  <2>1. Complete(Other, "foreign", OneToken)
    BY <1>10 DEF Intrude
  <2>2. slot' \in Held /\ counter' \in Nat /\ counter' > counter
    BY <2>1, TextsAre, CompletedSlot
  <2>3. before \in 0 .. counter'
    BY <2>2
  <2>4. foreign' \in Seq(StepNames \X {"before", "call", "after"})
    BY <1>10, AppendProperties DEF Intrude
  <2> QED
    BY <1>10, <2>2, <2>3, <2>4 DEF Intrude
<1>11. CASE UNCHANGED slotVars
  BY <1>11 DEF slotVars
<1> QED
  BY <1>1, <1>2, <1>3, <1>4, <1>5, <1>6, <1>7, <1>8, <1>9, <1>10, <1>11 DEF SlotNext, SlotRest

-----------------------------------------------------------------------------
(* What a report means                                                     *)

Accepted ==
  (step \in {"metrics", "erase_final", "done"} /\ failed = {}) =>
    Bounded("restored") /\ (server.logits => SameBase("hot", "restored"))

(* Only a completion changes what is remembered of the requests.           *)
LEMMA RequestsKept ==
    ASSUME SlotShape, [SlotNext]_slotVars, ~CompletePrompt
    PROVE  seen'.requests = seen.requests
BY DEF SlotShape, Memory, SlotNext, slotVars, SlotRest, Baseline, ReadBefore, Erase, Save, Restore,
       ReadAfter, Metrics, Abort, Intrude, Called

(* What the comparison accepted stays accepted.                            *)
LEMMA AcceptedStep ==
    ASSUME SlotShape, Accepted, [SlotNext]_slotVars
    PROVE  Accepted'
<1>1. CASE CompletePrompt
  BY <1>1 DEF CompletePrompt, Called, Completions, Accepted
<1>2. CASE ~CompletePrompt
  <2> SUFFICES ASSUME step' \in {"metrics", "erase_final", "done"}, failed' = {}
               PROVE  Bounded("restored")' /\ (server'.logits => SameBase("hot", "restored")')
    BY DEF Accepted
  <2>1. seen'.requests = seen.requests
    BY <1>2, RequestsKept
  <2>2. server' = server
    BY DEF SlotNext, slotVars, SlotRest, Baseline, ReadBefore, Erase, CompletePrompt, Save, Restore,
           ReadAfter, Metrics, Abort, Intrude, Called
  <2>3. Bounded("restored")' <=> Bounded("restored")
    BY <2>1 DEF Bounded
  <2>4. SameBase("hot", "restored")' <=> SameBase("hot", "restored")
    BY <2>1 DEF SameBase
  <2>5. CASE ReadAfter /\ step = "restored"
    <3>1. AnswerChecks /\ Comparison
      BY <2>5 DEF ReadAfter
    <3>2. Bounded("restored")
      BY <2>5, <3>1 DEF AnswerChecks
    <3> QED
      BY <3>1, <3>2, <2>2, <2>3, <2>4 DEF Comparison
  <2>6. CASE step' = step /\ failed' = failed
    BY <2>2, <2>3, <2>4, <2>6 DEF Accepted
  <2>7. CASE ReadAfter /\ step # "restored"
    <3>1. step \in {"metrics", "erase_final", "done"} /\ failed = {}
      BY <2>7, NextStep, StepNamesAre DEF ReadAfter, SlotShape, Ended
    <3> QED
      BY <3>1, <2>2, <2>3, <2>4 DEF Accepted
  <2>8. CASE Metrics
    <3>1. step = "metrics" /\ failed = {}
      BY <2>8 DEF Metrics
    <3> QED
      BY <3>1, <2>2, <2>3, <2>4 DEF Accepted
  <2>9. CASE Baseline \/ Abort
    BY <2>9, NextStep DEF Baseline, Abort
  <2>10. CASE ReadBefore \/ Erase \/ Save \/ Restore \/ Intrude \/ SlotRest \/ UNCHANGED slotVars
    <3>1. step' = step /\ failed' = failed
      BY <2>10 DEF ReadBefore, Erase, Save, Restore, Intrude, SlotRest, slotVars, Called
    <3> QED
      BY <3>1, <2>6
  <2> QED
    BY <1>2, <2>5, <2>7, <2>8, <2>9, <2>10 DEF SlotNext
<1> QED
  BY <1>1, <1>2

(* The bookkeeping of a content describes its cells.                       *)
Described(c) == /\ Len(c.cells) = Len(c.tokens)
                /\ \A i \in 1 .. Len(c.tokens) : c.cells[i].token = c.tokens[i]
AllDescribed == server.clears => Described(slot) /\ Described(ram) /\ Described(file)

(* A completion leaves a slot whose tokens describe its cells.             *)
LEMMA CompletionDescribed ==
    ASSUME slot \in Held, ram \in Held, counter \in Nat, Described(slot), Described(ram),
           NEW prompt \in Seq(Tokens), prompt # <<>>, NEW reply \in Seq(Tokens), reply # <<>>,
           NEW by \in Completions \cup {"foreign"}, Complete(prompt, by, reply)
    PROVE  Described(slot)'
<1> DEFINE base == Base(prompt)
           past == Reused(base, prompt)
           all == prompt \o reply
<1>1. /\ base \in Held /\ past \in 0 .. Len(prompt) - 1 /\ past <= Len(base.cells)
      /\ slot'.tokens = Front(all) /\ slot'.cells = Grown(base, past, all, by)
      /\ Len(slot'.cells) = Len(slot'.tokens)
  BY CompletedSlot
<1>2. /\ past <= Len(base.tokens) /\ \A i \in 1 .. past : base.tokens[i] = prompt[i]
  BY <1>1, ReusedBounds
<1>3. Described(base)
  BY DEF Base
<1>4. /\ all \in Seq(Tokens) /\ all # <<>> /\ Len(all) = Len(prompt) + Len(reply)
      /\ Len(prompt) \in Nat /\ Len(reply) \in Nat \ {0}
      /\ \A i \in 1 .. Len(prompt) : all[i] = prompt[i]
  BY Joined
<1>5. Len(base.tokens) \in Nat
  BY <1>1, LenProperties DEF Held, Content
<1> HIDE DEF base, past, all
<1>6. past \in 0 .. Len(all) - 1
  BY <1>1, <1>4
<1>7. /\ \A i \in 1 .. past : Grown(base, past, all, by)[i] = base.cells[i]
      /\ \A i \in past + 1 .. Len(all) - 1 : Grown(base, past, all, by)[i] = [token |-> all[i], by |-> by]
      /\ Len(Grown(base, past, all, by)) = Len(all) - 1
  <2>1. base \in Held /\ past <= Len(base.cells) /\ all \in Seq(Tokens) /\ all # <<>>
    BY <1>1, <1>4
  <2> QED
    BY ONLY <2>1, <1>6, by \in Completions \cup {"foreign"}, GrownCells
<1>8. \A i \in 1 .. Len(all) - 1 : Front(all)[i] = all[i]
  BY <1>4, FrontIs
<1>9. ASSUME NEW i \in 1 .. Len(all) - 1
      PROVE  Grown(base, past, all, by)[i].token = Front(all)[i]
  <2>1. CASE i <= past
    <3>1. i \in 1 .. past /\ i \in 1 .. Len(prompt) /\ i \in 1 .. Len(base.tokens)
      BY <2>1, <1>1, <1>2, <1>4, <1>5, <1>6
    <3> QED
      BY <3>1, <1>2, <1>3, <1>4, <1>7, <1>8 DEF Described
  <2>2. CASE ~(i <= past)
    <3>1. i \in past + 1 .. Len(all) - 1
      BY <2>2, <1>4, <1>6
    <3>2. Grown(base, past, all, by)[i] = [token |-> all[i], by |-> by]
      BY <3>1, <1>7
    <3> QED
      BY <3>2, <1>8
  <2> QED
    BY <2>1, <2>2
<1> QED
  BY <1>1, <1>7, <1>9 DEF Described

(* On a server that clears the slot first, every step does.                *)
LEMMA DescribedStep ==
    ASSUME SlotShape, AllDescribed, [SlotNext]_slotVars
    PROVE  AllDescribed'
<1> SUFFICES ASSUME server.clears PROVE Described(slot)' /\ Described(ram)' /\ Described(file)'
  BY DEF AllDescribed, SlotNext, slotVars, SlotRest, Baseline, ReadBefore, Erase, CompletePrompt, Save,
         Restore, ReadAfter, Metrics, Abort, Intrude, Called
<1>1. Described(slot) /\ Described(ram) /\ Described(file)
  BY DEF AllDescribed
<1>2. CASE UNCHANGED <<slot, ram, file>>
  BY <1>1, <1>2 DEF Described
<1>3. CASE Erase
  <2>1. Described(Empty)
    BY EmptySeq DEF Described, Empty
  <2> QED
    BY <1>1, <1>3, <2>1 DEF Erase, Clear, Described
<1>4. CASE CompletePrompt
  <2>1. PICK reply : Complete(PromptOf(step), step, reply) /\ reply \in Seq(Tokens) /\ reply # <<>>
    BY <1>4, CompletePromptIs
  <2>2. PromptOf(step) \in Seq(Tokens) /\ PromptOf(step) # <<>> /\ step \in Completions
    BY <1>4, PromptsAre DEF CompletePrompt
  <2>3. Described(slot)'
    BY <1>1, <2>1, <2>2, CompletionDescribed DEF SlotShape
  <2> QED
    BY <1>1, <1>4, <2>3 DEF CompletePrompt, Described
<1>5. CASE Save
  BY <1>1, <1>5 DEF Save, Described
<1>6. CASE Restore
  <2> DEFINE merged == Merged(<<>>)
  <2>1. <<>> \in Seq(Cell) /\ Len(<<>>) = 0 /\ file \in Held /\ file.cells \in Seq(Cell)
    BY EmptySeq DEF SlotShape, Held, Content
  <2>2. Len(file.cells) \in Nat /\ Len(file.tokens) = Len(file.cells)
    BY <1>1, <2>1, LenProperties DEF Described
  <2>3. /\ Len(merged) = IF Len(<<>>) < Len(file.cells) THEN Len(file.cells) ELSE Len(<<>>)
        /\ \A i \in Len(<<>>) + 1 .. Len(file.cells) : merged[i] = file.cells[i]
    BY <2>1, MergedIs
  <2>4. Len(merged) = Len(file.tokens) /\ \A i \in 1 .. Len(file.tokens) : merged[i] = file.cells[i]
    BY <2>1, <2>2, <2>3
  <2>5. slot' = [tokens |-> file.tokens, cells |-> merged, live |-> server.checkpoints]
    BY <1>6 DEF Restore, Loaded
  <2> HIDE DEF merged
  <2>6. Described(slot)'
    BY <1>1, <2>4, <2>5 DEF Described
  <2> QED
    BY <1>1, <1>6, <2>6 DEF Restore, Described
<1>7. CASE Intrude
  <2>1. Complete(Other, "foreign", OneToken)
    BY <1>7 DEF Intrude
  <2>2. Described(slot)'
    BY <1>1, <2>1, TextsAre, CompletionDescribed DEF SlotShape
  <2> QED
    BY <1>1, <1>7, <2>2 DEF Intrude, Described
<1>8. CASE Baseline \/ ReadBefore \/ ReadAfter \/ Metrics \/ Abort \/ SlotRest \/ UNCHANGED slotVars
  BY <1>2, <1>8 DEF Baseline, ReadBefore, ReadAfter, Metrics, Abort, SlotRest, slotVars
<1> QED
  BY <1>3, <1>4, <1>5, <1>6, <1>7, <1>8 DEF SlotNext

(* So it is to begin with.                                                 *)
LEMMA DescribedInit == SlotInit => AllDescribed
<1> SUFFICES ASSUME SlotInit PROVE Described(slot) /\ Described(ram) /\ Described(file)
  BY DEF AllDescribed
<1>1. Described(Empty)
  BY EmptySeq DEF Described, Empty
<1> DEFINE cells == Cells(Other, "foreign")
<1>2. /\ Len(cells) = Len(Other)
      /\ \A i \in 1 .. Len(Other) : cells[i] = [token |-> Other[i], by |-> "foreign"]
  BY TextsAre, CellsAre
<1>3. slot = [tokens |-> Other, cells |-> cells, live |-> TRUE]
  BY DEF SlotInit
<1> HIDE DEF cells
<1>4. ASSUME NEW i \in 1 .. Len(Other) PROVE cells[i].token = Other[i]
  <2>1. cells[i] = [token |-> Other[i], by |-> "foreign"]
    BY <1>2
  <2> QED
    BY <2>1
<1>5. Described(slot)
  BY <1>2, <1>3, <1>4 DEF Described
<1> QED
  BY <1>1, <1>5 DEF SlotInit

(* This is what the run checks of the slot.                                *)
LEMMA DescribedCells ==
    ASSUME SlotShape, AllDescribed
    PROVE  CellsMatchTokens
<1> SUFFICES ASSUME Described(slot)
             PROVE  /\ Len(slot.cells) = Len(slot.tokens)
                    /\ \A i \in DOMAIN slot.cells : slot.cells[i].token = slot.tokens[i]
  BY DEF AllDescribed, CellsMatchTokens
<1>1. DOMAIN slot.cells = 1 .. Len(slot.cells)
  BY LenProperties DEF SlotShape, Held, Content
<1> QED
  BY <1>1 DEF Described

(* What the request of the current step has cost by itself, and what the   *)
(* counter has grown by between the requests.                              *)
Own == IF stage = "after" /\ step \in Completions THEN seen.requests[step].prefill ELSE 0
Gap == (IF stage = "before" THEN counter ELSE before) - seen.baseline - seen.sum
Metered == StepNames \ {"baseline", "erase_final", "done", "error"}

(* Whoever came by has been noticed, will be in the totals, or will be in  *)
(* the reading of the current request.                                     *)
Gauged ==
  /\ step = "baseline" => seen.sum = 0
  /\ stage # "before" => Delta >= Own
  /\ step \in Metered => Gap >= 0
  /\ \A i \in DOMAIN foreign : Noticed(foreign[i]) /\ step # "error" =>
       \/ failed # {}
       \/ step \in Metered /\ Gap > 0
       \/ foreign[i][1] = step /\ foreign[i][2] # "before" /\ stage # "before" /\ Delta > Own

(* The numbers of the harness are numbers.                                 *)
LEMMA MemoryNumbers ==
    ASSUME SlotShape
    PROVE  /\ counter \in Nat /\ before \in Nat /\ before <= counter
           /\ seen.baseline \in Nat /\ seen.sum \in Nat
           /\ \A s \in Completions : seen.requests[s].prefill \in Nat
           /\ Own \in Nat /\ Delta \in Nat
BY DEF SlotShape, Memory, Request, Own, Delta

(* All but the cold probe are checked to cost what they should.            *)
LEMMA ChecksSeeAll ==
    ASSUME SlotShape, stage = "after", ~Ended, step # "cold_probe", AnswerChecks
    PROVE  Delta = Own
<1>1. step \in {"erase_initial", "warm", "save", "hot", "erase_after_hot", "restore", "restored", "erase_final"}
  BY StepNamesAre DEF SlotShape, Readings, Ended
<1>2. CASE step = "warm"
  BY <1>2 DEF AnswerChecks, Own, Completions
<1>3. CASE step \in {"hot", "restored"}
  BY <1>3 DEF AnswerChecks, Own, Completions
<1>4. CASE step \in {"erase_initial", "save", "erase_after_hot", "restore", "erase_final"}
  BY <1>4 DEF AnswerChecks, Own, Completions
<1> QED
  BY <1>1, <1>2, <1>3, <1>4

(* No step hides a request of another client.                              *)
LEMMA GaugedStep ==
    ASSUME SlotShape, Gauged, [SlotNext]_slotVars
    PROVE  Gauged'
<1> DEFINE Open(i) == \/ failed # {}
                      \/ step \in Metered /\ Gap > 0
                      \/ foreign[i][1] = step /\ foreign[i][2] # "before" /\ stage # "before" /\ Delta > Own
<1>0. SlotShape'
  BY ShapeStep
<1>1. CASE Baseline
  <2>1. /\ step' = "erase_initial" /\ stage' = "before" /\ step = "baseline" /\ stage = "before"
        /\ seen'.baseline = counter /\ seen'.sum = seen.sum /\ counter' = counter
        /\ failed' = failed /\ foreign' = foreign
    BY <1>1, NextStep DEF Baseline, SlotShape, Memory
  <2>2. Gap' = 0
    BY <2>1, MemoryNumbers DEF Gap, Gauged
  <2>3. \A i \in DOMAIN foreign : Noticed(foreign[i]) => failed # {}
    BY <2>1 DEF Gauged, Metered
  <2> QED
    BY <2>1, <2>2, <2>3 DEF Gauged, Noticed
<1>2. CASE ReadBefore
  <2>1. /\ step' = step /\ stage = "before" /\ stage' = "call" /\ counter' = counter /\ before' = counter
        /\ seen' = seen /\ failed' = failed /\ foreign' = foreign
    BY <1>2 DEF ReadBefore
  <2>2. Gap' = Gap /\ Delta' = 0 /\ Own' = 0
    BY <2>1, MemoryNumbers DEF Gap, Delta, Own
  <2>3. \A i \in DOMAIN foreign : Noticed(foreign[i]) /\ step # "error" =>
          failed # {} \/ (step \in Metered /\ Gap > 0)
    BY <2>1 DEF Gauged
  <2> QED
    BY <2>1, <2>2, <2>3 DEF Gauged, Noticed
<1>3. CASE Erase \/ Save \/ Restore
  <2>1. /\ step' = step /\ stage = "call" /\ stage' = "after" /\ counter' = counter /\ before' = before
        /\ seen'.baseline = seen.baseline /\ seen'.sum = seen.sum
        /\ failed' = failed /\ foreign' = foreign
        /\ step \notin Completions
    BY <1>3 DEF Erase, Save, Restore, Called, Completions, SlotShape, Memory
  <2>2. Gap' = Gap /\ Delta' = Delta /\ Own' = 0 /\ Own = 0
    BY <2>1 DEF Gap, Delta, Own
  <2> QED
    BY <2>1, <2>2 DEF Gauged, Noticed
<1>4. CASE CompletePrompt
  <2> DEFINE prompt == PromptOf(step)
             past == Reused(Base(prompt), prompt)
  <2>1. PICK reply : /\ Complete(prompt, step, reply) /\ reply \in Seq(Tokens) /\ reply # <<>>
                     /\ seen' = [seen EXCEPT !.requests[step] =
                               [prefill |-> Len(prompt) - past, base |-> Prefix(Base(prompt).cells, past),
                                reply |-> reply]]
    BY <1>4, CompletePromptIs
  <2>2. prompt \in Seq(Tokens) /\ prompt # <<>> /\ step \in Completions
    BY <1>4, PromptsAre DEF CompletePrompt
  <2>3. counter' = counter + Len(prompt) - past /\ past \in 0 .. Len(prompt) - 1
    BY <2>1, <2>2, CompletedSlot DEF SlotShape
  <2>4. Len(prompt) \in Nat
    BY <2>2, LenProperties
  <2>5. /\ seen'.baseline = seen.baseline /\ seen'.sum = seen.sum
        /\ seen'.requests[step].prefill = Len(prompt) - past
    BY <2>1, <2>2 DEF SlotShape, Memory
  <2>6. /\ step' = step /\ stage = "call" /\ stage' = "after" /\ before' = before
        /\ failed' = failed /\ foreign' = foreign
    BY <1>4 DEF CompletePrompt, Called
  <2> HIDE DEF prompt, past
  <2>7. Gap' = Gap
    BY <2>5, <2>6 DEF Gap
  <2>8. Own = 0 /\ Own' = Len(prompt) - past
    BY <2>2, <2>5, <2>6 DEF Own
  <2>9. Delta' = Delta + Own'
    BY <2>3, <2>4, <2>6, <2>8, MemoryNumbers DEF Delta
  <2>10. Delta >= 0 => Delta' >= Own'
    BY <2>9, <2>8, <2>3, <2>4, MemoryNumbers
  <2>11. Delta > 0 => Delta' > Own'
    BY <2>9, <2>8, <2>3, <2>4, MemoryNumbers
  <2> QED
    BY <2>2, <2>6, <2>5, <2>7, <2>8, <2>10, <2>11 DEF Gauged, Noticed, Completions
<1>5. CASE ReadAfter
  <2>1. /\ stage = "after" /\ ~Ended /\ stage' = "before" /\ step' = AfterStep
        /\ counter' = counter /\ foreign' = foreign /\ before' = before /\ failed \subseteq failed'
        /\ seen'.baseline = seen.baseline /\ seen'.sum = seen.sum + Delta
    BY <1>5 DEF ReadAfter, SlotShape, Memory
  <2>2. step \in Metered \ {"metrics"} \/ step = "erase_final"
    BY <2>1, StepNamesAre DEF SlotShape, Metered, Readings, Ended
  <2>3. step' \in StepNames \ {"baseline", "error"}
    BY <2>1, StepFollows DEF SlotShape
  <2>4. step \in Metered => step' \in Metered
    BY <2>1, <2>2, NextStep, StepNamesAre DEF Metered
  <2>5. Gap' = Gap
    BY <2>1, MemoryNumbers DEF Gap, Delta
  <2>6. step = "erase_final" => step' = "done"
    BY <2>1, NextStep
  <2>7. AnswerChecks \/ failed' # {}
    BY <1>5 DEF ReadAfter
  <2>8. ASSUME NEW i \in DOMAIN foreign, Noticed(foreign[i])
        PROVE  failed' # {} \/ (step' \in Metered /\ Gap' > 0)
    <3>1. CASE failed # {}
      BY <2>1, <3>1
    <3>2. CASE step \in Metered /\ Gap > 0
      BY <2>4, <2>5, <3>2
    <3>3. CASE foreign[i][1] = step /\ foreign[i][2] # "before" /\ stage # "before" /\ Delta > Own
      <4>1. step # "cold_probe"
        BY <2>8, <3>3 DEF Noticed
      <4>2. ~(Delta = Own)
        BY <3>3, MemoryNumbers
      <4> QED
        BY <2>1, <2>7, <4>1, <4>2, ChecksSeeAll
    <3> QED
      BY <2>1, <2>8, <3>1, <3>2, <3>3 DEF Gauged, Ended
  <2>9. step' \in Metered => step \in Metered
    BY <2>2, <2>6 DEF Metered
  <2> QED
    BY <2>1, <2>3, <2>5, <2>8, <2>9 DEF Gauged, Noticed
<1>6. CASE Metrics
  <2>1. /\ step = "metrics" /\ stage = "before" /\ step' = "erase_final" /\ stage' = "before"
        /\ foreign' = foreign /\ failed \subseteq failed' /\ (Totals \/ failed' # {})
    BY <1>6, NextStep DEF Metrics
  <2>2. step \in Metered
    BY <2>1, StepNamesAre DEF Metered
  <2>3. Gap > 0 => ~Totals
    BY <2>1, MemoryNumbers DEF Gap, Totals
  <2>4. \A i \in DOMAIN foreign : Noticed(foreign[i]) => failed' # {}
    BY <2>1, <2>2, <2>3 DEF Gauged
  <2>5. step' \notin Metered /\ step' # "baseline"
    BY <2>1 DEF Metered
  <2>6. \A i \in DOMAIN foreign' : Noticed(foreign'[i]) => failed' # {}
    BY <2>1, <2>4
  <2>7. ~(step' \in Metered')
    BY <2>5 DEF Metered
  <2> QED
    BY <2>1, <2>5, <2>6, <2>7 DEF Gauged, Noticed
<1>7. CASE Abort
  <2>1. step' = "error" /\ stage' = stage /\ counter' = counter /\ before' = before
    BY <1>7 DEF Abort
  <2>2. Own' = 0 /\ Delta' = Delta /\ Delta >= 0
    BY <2>1, MemoryNumbers DEF Own, Delta, Completions
  <2> QED
    BY <2>1, <2>2 DEF Gauged, Metered
<1>8. CASE Intrude
  <2>1. Complete(Other, "foreign", OneToken)
    BY <1>8 DEF Intrude
  <2>2. counter' \in Nat /\ counter' > counter
    BY <2>1, TextsAre, CompletedSlot DEF SlotShape
  <2>3. /\ step' = step /\ stage' = stage /\ before' = before /\ seen' = seen /\ failed' = failed
        /\ ~Ended /\ foreign' = Append(foreign, <<step, stage>>)
    BY <1>8 DEF Intrude
  <2>4. stage # "before" => Delta' > Delta /\ Own' = Own /\ Gap' = Gap
    BY <2>2, <2>3, MemoryNumbers DEF Delta, Own, Gap
  <2>5. stage = "before" => Gap' > Gap
    BY <2>2, <2>3, MemoryNumbers DEF Gap
  <2>6. Gap \in Int /\ Gap' \in Int /\ Own \in Nat /\ Delta \in Nat /\ Delta' \in Int
    <3>1. counter \in Nat /\ before \in Nat /\ seen.baseline \in Nat /\ seen.sum \in Nat
          /\ Own \in Nat /\ Delta \in Nat
      BY MemoryNumbers
    <3>2. Gap \in Int
      BY <3>1 DEF Gap
    <3>3. Gap' = (IF stage = "before" THEN counter' ELSE before) - seen.baseline - seen.sum
      BY <2>3 DEF Gap
    <3>4. Gap' \in Int
      BY <3>1, <3>3, <2>2
    <3>5. Delta' = counter' - before
      BY <2>3 DEF Delta
    <3> QED
      BY <3>1, <3>2, <3>4, <3>5, <2>2
  <2>7. step' \in Metered => Gap' >= 0
    BY <2>3, <2>4, <2>5, <2>6 DEF Gauged
  <2>8. stage' # "before" => Delta' >= Own'
    BY <2>3, <2>4, <2>6 DEF Gauged
  <2>9. ASSUME NEW i \in DOMAIN foreign', Noticed(foreign'[i]), step # "error"
        PROVE  Open(i)'
    <3>1. CASE i \in DOMAIN foreign
      <4>1. foreign'[i] = foreign[i]
        BY <2>3, <3>1, AppendProperties, LenProperties DEF SlotShape
      <4>2. Open(i)
        BY <2>9, <3>1, <4>1 DEF Gauged
      <4> QED
        BY <2>3, <2>4, <2>5, <2>6, <4>1, <4>2
    <3>2. CASE i \notin DOMAIN foreign
      <4>1. foreign'[i] = <<step, stage>>
        <5>1. <<step, stage>> \in StepNames \X {"before", "call", "after"} /\ foreign \in Seq(StepNames \X {"before", "call", "after"})
          BY DEF SlotShape
        <5> HIDE DEF SlotShape
        <5>2. DOMAIN foreign = 1 .. Len(foreign) /\ Len(foreign) \in Nat /\ foreign'[Len(foreign) + 1] = <<step, stage>>
              /\ DOMAIN foreign' = 1 .. Len(foreign) + 1
          BY <5>1, <2>3, AppendProperties, LenProperties
        <5> QED
          BY <2>9, <3>2, <5>2
      <4>2. foreign'[i][1] = step /\ foreign'[i][2] = stage
        BY <4>1
      <4>3. CASE stage = "before"
        <5>1. step \notin {"baseline", "erase_final"}
          BY <2>9, <4>1, <4>3 DEF Noticed
        <5>2. step \in Metered
          BY <2>3, <2>9, <5>1 DEF SlotShape, Metered, Ended
        <5>3. Gap >= 0
          BY <5>2 DEF Gauged
        <5> QED
          BY <2>3, <2>5, <2>6, <4>3, <5>2, <5>3
      <4>4. CASE stage # "before"
        <5>1. Delta >= Own
          BY <4>4 DEF Gauged
        <5> QED
          BY <2>3, <2>4, <2>6, <4>2, <4>4, <5>1
      <4> QED
        BY <4>3, <4>4
    <3> QED
      BY <3>1, <3>2
  <2> QED
    BY <2>3, <2>7, <2>8, <2>9 DEF Gauged, Noticed
<1>9. CASE SlotRest \/ UNCHANGED slotVars
  BY <1>9 DEF SlotRest, slotVars, Gauged, Gap, Delta, Own, Noticed
<1> QED
  BY <1>1, <1>2, <1>3, <1>4, <1>5, <1>6, <1>7, <1>8, <1>9 DEF SlotNext

(* This is what the run checks of other clients.                           *)
LEMMA GaugedNotices ==
    ASSUME SlotShape, Gauged
    PROVE  ForeignNoticed
<1>1. step = "done" => step \notin Metered /\ stage = "before"
  BY DEF SlotShape, Metered
<1> QED
  BY <1>1 DEF Gauged, ForeignNoticed

-----------------------------------------------------------------------------
(* The harness alone with the server: what is where, step by step.         *)

Passed(s, later) == (step = s /\ stage = "after") \/ step \in later
Until(s) == step = s /\ stage # "after"
ToTheEnd == {"metrics", "erase_final", "done"}
AfterHot == {"erase_after_hot", "cold_probe", "restore", "restored"} \cup ToTheEnd

Snapshot == [tokens |-> Front(Saved), cells |-> Cells(Front(Saved), "warm"), live |-> TRUE]
Begins(text, held) == Len(text) <= Len(held) /\ \A i \in 1 .. Len(text) : held[i] = text[i]
Good == server.clears /\ server.checkpoints /\ ~server.ram
Hot == seen.requests["hot"]
Restored == seen.requests["restored"]

\* Nobody but the harness moves the counter.
Counted ==
  /\ stage = "call" => before = counter
  /\ stage = "after" => Delta = Own
  /\ step \in Metered => Gap = 0
\* The prompt cache of the server.
Cached ==
  /\ ~server.ram => ram = Empty
  /\ step \in {"baseline", "erase_initial", "warm", "save", "hot"} \/ Until("erase_after_hot")
       => ram.tokens \in {<<>>, Other}
  /\ (Passed("erase_after_hot", {}) \/ Until("cold_probe")) /\ server.ram
       => ram.live /\ Begins(Saved, ram.tokens)
\* The slot and the snapshot, up to the hot reply.
Warmed ==
  /\ step = "baseline" \/ Until("erase_initial") => slot.tokens = Other
  /\ Passed("erase_initial", {}) \/ Until("warm") => slot = Empty
  /\ Passed("warm", {"save", "hot"} \cup AfterHot)
       => seen.requests["warm"].reply \in Replies /\ seen.requests["warm"].prefill = Len(History)
  /\ Passed("warm", {"save"}) \/ Until("hot") => slot = Snapshot
  /\ Passed("save", {"hot"} \cup AfterHot) => file = Snapshot /\ seen.saved = Len(Saved) - 1
  /\ Passed("hot", AfterHot) => /\ Hot.reply \in Replies /\ Hot.prefill = Len(Suffix) + 1
                                /\ Hot.base = Snapshot.cells
  /\ Passed("hot", {}) \/ Until("erase_after_hot")
       => slot.live /\ Begins(Saved, slot.tokens) /\ Len(slot.tokens) = Expected("hot")
  /\ Passed("erase_after_hot", {}) => seen.erased = Expected("hot")
\* The cold probe, and what the restore finds.
Probed ==
  /\ step = "cold_probe" => probing
  /\ Passed("erase_after_hot", {}) \/ Until("cold_probe") \/ (Until("restore") /\ ~probing)
       => slot = Empty
  /\ Passed("cold_probe", {}) => seen.requests["cold_probe"].prefill = IF server.ram THEN 1 ELSE Len(Saved)
  /\ (Passed("cold_probe", {}) \/ (Until("restore") /\ probing)) /\ ~server.ram
       => slot.cells = Cells(Saved, "cold_probe")
\* The restored slot and its reply.
Reloaded ==
  /\ Passed("restore", {}) => seen.restored = Len(file.tokens)
  /\ (Passed("restore", {}) \/ Until("restored")) /\ ~server.ram
       => /\ slot.tokens = Front(Saved) /\ slot.live = server.checkpoints
          /\ server.clears => slot.cells = Snapshot.cells
          /\ ~server.clears /\ probing => slot.cells[1].by = "cold_probe"
  /\ Passed("restored", ToTheEnd) /\ ~server.ram
       => /\ Good => /\ Restored.prefill = Len(Suffix) + 1 /\ Restored.base = Snapshot.cells
                     /\ Restored.reply = Hot.reply
          /\ ~server.checkpoints => Restored.prefill = Len(Saved) + Len(Suffix)
          /\ server.checkpoints /\ ~server.clears /\ probing => Restored.base[1].by = "cold_probe"
  /\ Passed("restored", {"metrics"}) \/ Until("erase_final") => Len(slot.tokens) = Expected("restored")
  /\ Passed("erase_final", {}) => seen.erased = Expected("restored")
\* What the checks have found.
Decided ==
  /\ Good => failed = {}
  /\ step \in {"restore", "restored"} \cup ToTheEnd /\ server.ram /\ probing => failed # {}
  /\ step \in ToTheEnd /\ probing /\ server.logits /\ ~Good => failed # {}

Alone == foreign = <<>> /\ step # "error" =>
           Counted /\ Cached /\ Warmed /\ Probed /\ Reloaded /\ Decided

(* The texts once the warm reply is known.                                 *)
LEMMA SavedIs ==
    ASSUME SlotShape, seen.requests["warm"].reply \in Replies
    PROVE  /\ Saved \in Seq(Tokens) /\ Saved # <<>> /\ Len(Saved) \in Nat /\ Len(Saved) >= 2
           /\ Saved[1] = History[1]
           /\ Front(Saved) \in Seq(Tokens) /\ Len(Front(Saved)) = Len(Saved) - 1
           /\ \A i \in 1 .. Len(Saved) - 1 : Front(Saved)[i] = Saved[i]
<1> DEFINE reply == seen.requests["warm"].reply
<1>1. reply \in Seq(Tokens) /\ reply # <<>> /\ History \in Seq(Tokens) /\ History # <<>>
  BY TextsAre
<1>2. Len(History) \in Nat \ {0} /\ Len(reply) \in Nat \ {0}
  BY <1>1, EmptySeq
<1>3. /\ Saved \in Seq(Tokens) /\ Saved # <<>> /\ Len(Saved) = Len(History) + Len(reply)
      /\ \A i \in 1 .. Len(History) : Saved[i] = History[i]
  BY <1>1, Joined DEF Saved
<1>4. Saved[1] = History[1]
  BY <1>2, <1>3
<1>5. /\ Front(Saved) \in Seq(Tokens) /\ Len(Front(Saved)) = Len(Saved) - 1
      /\ \A i \in 1 .. Len(Saved) - 1 : Front(Saved)[i] = Saved[i]
  BY <1>3, FrontIs
<1>6. Len(Saved) \in Nat /\ Len(Saved) >= 2
  BY <1>2, <1>3
<1> QED
  BY <1>3, <1>4, <1>5, <1>6

(* The prompt of the hot and of the restored request.                      *)
LEMMA HotPromptIs ==
    ASSUME SlotShape, seen.requests["warm"].reply \in Replies
    PROVE  /\ Saved \o Suffix \in Seq(Tokens) /\ Saved \o Suffix # <<>>
           /\ Len(Saved \o Suffix) = Len(Saved) + Len(Suffix) /\ Len(Suffix) \in Nat
           /\ \A i \in 1 .. Len(Saved) : (Saved \o Suffix)[i] = Saved[i]
           /\ (Saved \o Suffix)[1] = History[1]
<1>1. Saved \in Seq(Tokens) /\ Suffix \in Seq(Tokens) /\ Len(Saved) \in Nat /\ Len(Saved) >= 2
      /\ Len(Suffix) \in Nat /\ Saved[1] = History[1]
  BY SavedIs, TextsAre, LenProperties
<1>2. /\ Saved \o Suffix \in Seq(Tokens) /\ Len(Saved \o Suffix) = Len(Saved) + Len(Suffix)
      /\ \A i \in 1 .. Len(Saved) + Len(Suffix) :
           (Saved \o Suffix)[i] = IF i <= Len(Saved) THEN Saved[i] ELSE Suffix[i - Len(Saved)]
  BY <1>1, ConcatProperties
<1>3. Saved \o Suffix # <<>>
  BY <1>1, <1>2, EmptySeq
<1>4. \A i \in 1 .. Len(Saved) : (Saved \o Suffix)[i] = Saved[i]
  BY <1>1, <1>2
<1> QED
  BY <1>1, <1>2, <1>3, <1>4

(* The cells of the snapshot were computed by the warm request.            *)
LEMMA SnapshotIs ==
    ASSUME SlotShape, seen.requests["warm"].reply \in Replies
    PROVE  /\ Snapshot.cells \in Seq(Cell) /\ Len(Snapshot.cells) = Len(Saved) - 1
           /\ \A i \in 1 .. Len(Saved) - 1 : Snapshot.cells[i] = [token |-> Saved[i], by |-> "warm"]
<1> DEFINE text == Front(Saved)
<1>1. /\ text \in Seq(Tokens) /\ Len(text) = Len(Saved) - 1
      /\ \A i \in 1 .. Len(Saved) - 1 : text[i] = Saved[i]
  BY SavedIs
<1> HIDE DEF text
<1>2. /\ Cells(text, "warm") \in Seq(Cell) /\ Len(Cells(text, "warm")) = Len(text)
      /\ \A i \in 1 .. Len(text) : Cells(text, "warm")[i] = [token |-> text[i], by |-> "warm"]
  BY <1>1, CellsAre DEF Completions
<1>3. Snapshot.cells = Cells(text, "warm")
  BY DEF Snapshot, text
<1> QED
  BY <1>1, <1>2, <1>3

(* The prompt cache is of no use to the prompts of the harness before the  *)
(* hot slot went into it.                                                  *)
LEMMA BaseIsSlot ==
    ASSUME SlotShape, ram.tokens \in {<<>>, Other},
           NEW prompt \in Seq(Tokens), prompt # <<>>, prompt[1] = History[1] \/ ram.tokens = <<>>
    PROVE  Base(prompt) = slot
<1>1. ram.tokens \in Seq(Tokens) /\ slot.tokens \in Seq(Tokens) /\ Len(prompt) \in Nat
  BY LenProperties DEF SlotShape, Held, Content
<1>2. Other[1] # History[1]
  BY OtherAssumption, TextsAre
<1>3. Shared(ram.tokens, prompt) = 0
  BY <1>1, <1>2, SharedNothing
<1>4. Shared(slot.tokens, prompt) \in Nat
  BY <1>1, SharedAgrees DEF Agree
<1> QED
  BY <1>3, <1>4 DEF Base

(* From a slot that holds the saved text but for its last token, the rest  *)
(* of the prompt is computed; without a live window all of it.             *)
LEMMA ContinuedFrom ==
    ASSUME SlotShape, seen.requests["warm"].reply \in Replies, slot.tokens = Front(Saved)
    PROVE  Reused(slot, Saved \o Suffix) = IF slot.live THEN Len(Saved) - 1 ELSE 0
<1> DEFINE prompt == Saved \o Suffix
           n == Len(Saved) - 1
<1>1. /\ prompt \in Seq(Tokens) /\ Len(prompt) = Len(Saved) + Len(Suffix) /\ Len(Suffix) \in Nat
      /\ \A i \in 1 .. Len(Saved) : prompt[i] = Saved[i]
  BY HotPromptIs
<1>2. /\ Len(Saved) \in Nat /\ Len(Saved) >= 2 /\ slot.tokens \in Seq(Tokens) /\ Len(slot.tokens) = n
      /\ \A i \in 1 .. n : slot.tokens[i] = Saved[i]
  BY SavedIs
<1> HIDE DEF prompt
<1>3. \A i \in 1 .. n : slot.tokens[i] = prompt[i]
  BY <1>1, <1>2
<1>4. Shared(slot.tokens, prompt) = n
  <2>1. n = Len(slot.tokens) /\ n <= Len(prompt)
    BY <1>1, <1>2
  <2> HIDE DEF n
  <2> QED
    BY ONLY <1>1, <1>2, <1>3, <2>1, SharedAll
<1>5. n # Len(prompt)
  BY <1>1, <1>2
<1>6. Reused(slot, prompt) = IF slot.live THEN n ELSE 0
  BY <1>4, <1>5 DEF Reused
<1> QED
  BY <1>6 DEF prompt

(* Nothing is reused of an empty slot.                                     *)
LEMMA NothingReused ==
    ASSUME NEW prompt \in Seq(Tokens), prompt # <<>>
    PROVE  Reused(Empty, prompt) = 0
<1>1. Shared(<<>>, prompt) = 0
  BY SharedNothing, EmptySeq
<1>2. Len(prompt) \in Nat \ {0}
  BY EmptySeq
<1> QED
  BY <1>1, <1>2 DEF Reused, Empty

(* Then every cell is computed by the request.                             *)
LEMMA GrownFromNothing ==
    ASSUME NEW base \in Held, NEW all \in Seq(Tokens), all # <<>>, NEW by \in Completions \cup {"foreign"}
    PROVE  Grown(base, 0, all, by) = Cells(Front(all), by)
<1> DEFINE grown == Grown(base, 0, all, by)
           cells == Cells(Front(all), by)
<1>1. /\ Front(all) \in Seq(Tokens) /\ Len(Front(all)) = Len(all) - 1 /\ Len(all) \in Nat \ {0}
      /\ \A i \in 1 .. Len(all) - 1 : Front(all)[i] = all[i]
  BY FrontIs, EmptySeq
<1>2. /\ cells \in Seq(Cell) /\ Len(cells) = Len(all) - 1
      /\ \A i \in 1 .. Len(all) - 1 : cells[i] = [token |-> all[i], by |-> by]
  BY <1>1, CellsAre
<1>3. Len(base.cells) \in Nat
  BY LenProperties DEF Held, Content
<1>4. /\ grown \in Seq(Cell) /\ Len(grown) = Len(all) - 1
      /\ \A i \in 0 + 1 .. Len(all) - 1 : grown[i] = [token |-> all[i], by |-> by]
  BY <1>1, <1>3, GrownCells
<1> HIDE DEF grown, cells
<1>5. ASSUME NEW i \in 1 .. Len(grown) PROVE grown[i] = cells[i]
  <2>1. i \in 1 .. Len(all) - 1 /\ i \in 0 + 1 .. Len(all) - 1
    BY <1>1, <1>4
  <2> QED
    BY <2>1, <1>2, <1>4
<1>6. grown = cells
  BY <1>2, <1>4, <1>5, SeqEqual
<1> QED
  BY <1>6 DEF grown, cells

(* One completion of the harness, in terms of what it starts from.         *)
LEMMA AnyCompletion ==
    ASSUME SlotShape, CompletePrompt
    PROVE  \E reply \in RepliesTo(step) :
             LET prompt == PromptOf(step)
                 past == Reused(Base(prompt), prompt)
             IN  /\ reply \in Seq(Tokens) /\ reply # <<>>
                 /\ prompt \in Seq(Tokens) /\ prompt # <<>>
                 /\ slot' \in Held /\ slot'.live = TRUE
                 /\ slot'.tokens = Front(prompt \o reply)
                 /\ slot'.cells = Grown(Base(prompt), past, prompt \o reply, step)
                 /\ Len(slot'.tokens) = Len(prompt) + Len(reply) - 1
                 /\ \A i \in 1 .. Len(prompt) : slot'.tokens[i] = prompt[i]
                 /\ seen'.requests[step] = [prefill |-> Len(prompt) - past,
                                            base |-> Prefix(Base(prompt).cells, past), reply |-> reply]
                 /\ \A s \in Completions : s # step => seen'.requests[s] = seen.requests[s]
                 /\ seen'.saved = seen.saved /\ seen'.restored = seen.restored /\ seen'.erased = seen.erased
<1> DEFINE prompt == PromptOf(step)
           past == Reused(Base(prompt), prompt)
<1>1. PICK reply \in RepliesTo(step) :
        /\ Complete(prompt, step, reply) /\ reply \in Seq(Tokens) /\ reply # <<>>
        /\ seen' = [seen EXCEPT !.requests[step] =
                      [prefill |-> Len(prompt) - past, base |-> Prefix(Base(prompt).cells, past),
                       reply |-> reply]]
  BY CompletePromptIs
<1>2. prompt \in Seq(Tokens) /\ prompt # <<>> /\ step \in Completions
  BY PromptsAre DEF CompletePrompt
<1>3. /\ seen'.requests[step] = [prefill |-> Len(prompt) - past,
                                 base |-> Prefix(Base(prompt).cells, past), reply |-> reply]
      /\ \A s \in Completions : s # step => seen'.requests[s] = seen.requests[s]
      /\ seen'.saved = seen.saved /\ seen'.restored = seen.restored /\ seen'.erased = seen.erased
  <2> DEFINE answer == [prefill |-> Len(prompt) - past, base |-> Prefix(Base(prompt).cells, past), reply |-> reply]
  <2>1. seen' = [seen EXCEPT !.requests[step] = answer]
    BY <1>1
  <2>2. seen \in Memory /\ step \in Completions
    BY <1>2 DEF SlotShape
  <2> HIDE DEF answer
  <2>3. /\ seen'.requests[step] = answer
        /\ \A s \in Completions : s # step => seen'.requests[s] = seen.requests[s]
        /\ seen'.saved = seen.saved /\ seen'.restored = seen.restored /\ seen'.erased = seen.erased
    BY ONLY <2>1, <2>2 DEF Memory
  <2> QED
    BY <2>3 DEF answer
<1> HIDE DEF prompt
<1>4. /\ slot'.tokens = Front(prompt \o reply) /\ slot'.cells = Grown(Base(prompt), past, prompt \o reply, step)
      /\ slot'.live = TRUE /\ slot' \in Held
      /\ Len(slot'.tokens) = Len(prompt) + Len(reply) - 1
      /\ \A i \in 1 .. Len(prompt) : slot'.tokens[i] = prompt[i]
  BY <1>1, <1>2, CompletedSlot DEF SlotShape
<1> QED
  BY <1>1, <1>2, <1>3, <1>4 DEF prompt

(* The warm request starts from an empty slot.                             *)
LEMMA WarmCompletion ==
    ASSUME SlotShape, CompletePrompt, step = "warm", ram.tokens \in {<<>>, Other}, slot = Empty
    PROVE  /\ seen'.requests["warm"].reply \in Replies /\ seen'.requests["warm"].prefill = Len(History)
           /\ slot' = Snapshot'
<1>1. PromptOf("warm") = History /\ RepliesTo("warm") = Replies
  BY DEF PromptOf, RepliesTo
<1>2. History \in Seq(Tokens) /\ History # <<>> /\ Len(History) \in Nat
  BY TextsAre, LenProperties
<1>3. Base(History) = Empty
  BY <1>2, BaseIsSlot
<1>4. Reused(Base(History), History) = 0
  BY <1>2, <1>3, NothingReused
<1>5. PICK reply \in Replies :
        /\ reply \in Seq(Tokens) /\ reply # <<>>
        /\ slot' \in Held /\ slot'.live = TRUE /\ slot'.tokens = Front(History \o reply)
        /\ slot'.cells = Grown(Empty, 0, History \o reply, "warm")
        /\ seen'.requests["warm"] = [prefill |-> Len(History) - 0, base |-> Prefix(Empty.cells, 0), reply |-> reply]
  BY <1>1, <1>3, <1>4, AnyCompletion
<1>6. Saved' = History \o reply
  BY <1>5 DEF Saved
<1>7. History \o reply \in Seq(Tokens) /\ History \o reply # <<>>
  BY <1>2, <1>5, Joined
<1>8. slot'.cells = Cells(Front(History \o reply), "warm")
  BY <1>5, <1>7, EmptyHeld, GrownFromNothing DEF Completions
<1>9. slot' = [tokens |-> slot'.tokens, cells |-> slot'.cells, live |-> slot'.live]
  BY <1>5 DEF Held, Content
<1>10. slot' = [tokens |-> Front(Saved'), cells |-> Cells(Front(Saved'), "warm"), live |-> TRUE]
  BY <1>5, <1>6, <1>8, <1>9
<1>11. slot' = Snapshot'
  BY <1>10 DEF Snapshot
<1> QED
  BY <1>2, <1>5, <1>11

(* The hot request continues the warm one.                                 *)
LEMMA HotCompletion ==
    ASSUME SlotShape, CompletePrompt, step = "hot", seen.requests["warm"].reply \in Replies,
           ram.tokens \in {<<>>, Other}, slot = Snapshot
    PROVE  /\ Hot'.reply \in Replies /\ Hot'.prefill = Len(Suffix) + 1 /\ Hot'.base = Snapshot.cells
           /\ slot'.live /\ Begins(Saved, slot'.tokens) /\ Len(slot'.tokens) = Expected("hot")'
           /\ Saved' = Saved
<1> DEFINE prompt == Saved \o Suffix
           past == Len(Saved) - 1
<1>1. PromptOf("hot") = prompt /\ RepliesTo("hot") = Replies
  BY DEF PromptOf, RepliesTo
<1>2. /\ prompt \in Seq(Tokens) /\ prompt # <<>> /\ prompt[1] = History[1]
      /\ Len(prompt) = Len(Saved) + Len(Suffix) /\ Len(Suffix) \in Nat
      /\ \A i \in 1 .. Len(Saved) : prompt[i] = Saved[i]
  BY HotPromptIs
<1>3. Len(Saved) \in Nat /\ Len(Saved) >= 2
  BY SavedIs
<1> HIDE DEF prompt
<1>4. Base(prompt) = slot
  BY <1>2, BaseIsSlot
<1>5. Reused(slot, prompt) = past
  BY ContinuedFrom DEF Snapshot, prompt
<1>6. PICK reply \in Replies :
        /\ reply \in Seq(Tokens) /\ reply # <<>> /\ slot'.live = TRUE
        /\ Len(slot'.tokens) = Len(prompt) + Len(reply) - 1
        /\ \A i \in 1 .. Len(prompt) : slot'.tokens[i] = prompt[i]
        /\ seen'.requests["hot"] = [prefill |-> Len(prompt) - past, base |-> Prefix(slot.cells, past), reply |-> reply]
        /\ seen'.requests["warm"] = seen.requests["warm"]
  <2>1. PromptOf(step) = prompt /\ RepliesTo(step) = Replies /\ Reused(Base(prompt), prompt) = past
    BY <1>1, <1>4, <1>5
  <2>2. "warm" \in Completions /\ "warm" # step
    BY DEF Completions
  <2> HIDE DEF past
  <2>3. PICK reply \in Replies :
        /\ reply \in Seq(Tokens) /\ reply # <<>> /\ slot'.live = TRUE
        /\ Len(slot'.tokens) = Len(prompt) + Len(reply) - 1
        /\ \A i \in 1 .. Len(prompt) : slot'.tokens[i] = prompt[i]
        /\ seen'.requests[step] = [prefill |-> Len(prompt) - past, base |-> Prefix(Base(prompt).cells, past), reply |-> reply]
        /\ \A s \in Completions : s # step => seen'.requests[s] = seen.requests[s]
    BY ONLY <2>1, AnyCompletion, SlotShape, CompletePrompt
  <2> QED
    BY <2>2, <2>3, <1>4
<1>7. Saved' = Saved
  BY <1>6 DEF Saved
<1>8. Prefix(slot.cells, past) = Snapshot.cells
  BY SnapshotIs, SubSeqFull DEF Prefix
<1>9. Hot'.reply = reply /\ Hot'.prefill = Len(prompt) - past /\ Hot'.base = Snapshot.cells
  BY <1>6, <1>8 DEF Hot
<1>10. Len(prompt) - past = Len(Suffix) + 1
  BY <1>2, <1>3
<1>11. Len(reply) \in Nat \ {0}
  BY <1>6, EmptySeq
<1>12. Begins(Saved, slot'.tokens)
  BY <1>2, <1>3, <1>6, <1>11 DEF Begins
<1>13. Expected("hot")' = Len(prompt) + Len(reply) - 1
  BY <1>6, <1>7 DEF Expected, Boundary, prompt
<1> QED
  BY <1>6, <1>7, <1>9, <1>10, <1>12, <1>13

(* The cold probe computes its prompt again, unless a cache still holds it.*)
LEMMA ProbeCompletion ==
    ASSUME SlotShape, CompletePrompt, step = "cold_probe", seen.requests["warm"].reply \in Replies,
           slot = Empty, ~server.ram => ram = Empty,
           server.ram => ram.live /\ Begins(Saved, ram.tokens)
    PROVE  /\ seen'.requests["cold_probe"].prefill = IF server.ram THEN 1 ELSE Len(Saved)
           /\ ~server.ram => slot'.cells = Cells(Saved, "cold_probe")
           /\ \A s \in Completions : s # "cold_probe" => seen'.requests[s] = seen.requests[s]
<1> DEFINE past == Reused(Base(Saved), Saved)
           all == Saved \o OneToken
<1>1. PromptOf(step) = Saved /\ RepliesTo(step) = {OneToken}
  BY DEF PromptOf, RepliesTo
<1>2. /\ Saved \in Seq(Tokens) /\ Saved # <<>> /\ Len(Saved) \in Nat /\ Len(Saved) >= 2
  BY SavedIs
<1>3. /\ slot'.cells = Grown(Base(Saved), past, all, step)
      /\ seen'.requests[step] = [prefill |-> Len(Saved) - past, base |-> Prefix(Base(Saved).cells, past), reply |-> OneToken]
      /\ \A s \in Completions : s # step => seen'.requests[s] = seen.requests[s]
  BY ONLY <1>1, AnyCompletion, SlotShape, CompletePrompt
<1>4. seen'.requests[step].prefill = Len(Saved) - past
  BY <1>3
<1>5. Shared(slot.tokens, Saved) = 0
  BY <1>2, SharedNothing, EmptySeq DEF Empty
<1>6. CASE ~server.ram
  <2>1. Base(Saved) = Empty
    BY <1>5, <1>6 DEF Base
  <2>2. past = 0
    BY <2>1, <1>2, NothingReused
  <2>3. /\ all \in Seq(Tokens) /\ all # <<>> /\ Len(all) = Len(Saved) + 1
        /\ \A i \in 1 .. Len(Saved) : all[i] = Saved[i]
    <3>1. OneToken \in Seq(Tokens) /\ OneToken # <<>> /\ Len(OneToken) = 1
      BY TextsAre, RepliesAssumption
    <3>2. /\ all \in Seq(Tokens) /\ all # <<>> /\ Len(all) = Len(Saved) + Len(OneToken)
          /\ \A i \in 1 .. Len(Saved) : all[i] = Saved[i]
      BY ONLY <1>2, <3>1, Joined
    <3> QED
      BY <3>1, <3>2
  <2> HIDE DEF all, past
  <2>4. slot'.cells = Cells(Front(all), "cold_probe")
    BY <1>3, <2>1, <2>2, <2>3, EmptyHeld, GrownFromNothing DEF Completions
  <2>5. /\ Front(all) \in Seq(Tokens) /\ Len(Front(all)) = Len(Saved)
        /\ \A i \in 1 .. Len(Saved) : Front(all)[i] = Saved[i]
    <3>1. /\ Front(all) \in Seq(Tokens) /\ Len(Front(all)) = Len(all) - 1
          /\ \A i \in 1 .. Len(all) - 1 : Front(all)[i] = all[i]
      BY <2>3, FrontIs
    <3> QED
      BY <3>1, <2>3, <1>2
  <2>6. Front(all) = Saved
    BY <2>5, <1>2, SeqEqual
  <2> QED
    BY <1>2, <1>3, <1>4, <1>6, <2>2, <2>4, <2>6
<1>7. CASE server.ram
  <2>1. ram.tokens \in Seq(Tokens) /\ Len(ram.tokens) \in Nat
    BY LenProperties DEF SlotShape, Held, Content
  <2>2. Shared(ram.tokens, Saved) = Len(Saved)
    BY <1>2, <1>7, <2>1, SharedAll DEF Begins
  <2>3. Base(Saved) = ram
    BY <1>2, <1>5, <2>2 DEF Base
  <2>4. past = Len(Saved) - 1
    BY <1>2, <1>7, <2>2, <2>3 DEF Reused, Boundary
  <2> QED
    BY <1>2, <1>3, <1>4, <1>7, <2>4
<1> QED
  BY <1>6, <1>7

(* The restored request continues what was loaded.                         *)
LEMMA RestoredCompletion ==
    ASSUME SlotShape, CompletePrompt, step = "restored", seen.requests["warm"].reply \in Replies,
           ram = Empty, slot.tokens = Front(Saved), Hot.prefill = Len(Suffix) + 1, Hot.base = Snapshot.cells
    PROVE  /\ slot.live /\ slot.cells = Snapshot.cells
                => /\ Restored'.prefill = Len(Suffix) + 1 /\ Restored'.base = Snapshot.cells
                   /\ Restored'.reply = Hot.reply
           /\ ~slot.live => Restored'.prefill = Len(Saved) + Len(Suffix)
           /\ slot.live => Restored'.base[1] = slot.cells[1]
<1> DEFINE prompt == Saved \o Suffix
           past == Reused(slot, prompt)
<1>1. PromptOf(step) = prompt /\ RepliesTo(step) = Replies
  BY DEF PromptOf, RepliesTo
<1>2. /\ prompt \in Seq(Tokens) /\ prompt # <<>>
      /\ Len(prompt) = Len(Saved) + Len(Suffix) /\ Len(Suffix) \in Nat
  BY HotPromptIs
<1>3. /\ Len(Saved) \in Nat /\ Len(Saved) >= 2 /\ Len(slot.tokens) = Len(Saved) - 1
  BY SavedIs
<1>4. past = IF slot.live THEN Len(Saved) - 1 ELSE 0
  BY ContinuedFrom
<1> HIDE DEF prompt, past
<1>5. Base(prompt) = slot
  BY <1>2, BaseIsSlot, EmptySeq DEF Empty
<1>6. seen'.requests[step].prefill = Len(prompt) - past /\ seen'.requests[step].base = Prefix(slot.cells, past)
  <2>1. PICK reply : seen'.requests[step] =
          [prefill |-> Len(prompt) - past, base |-> Prefix(slot.cells, past), reply |-> reply]
    <3>1. past = Reused(Base(prompt), prompt)
      BY <1>5 DEF past
    <3>2. \E reply : seen'.requests[step] =
          [prefill |-> Len(prompt) - past, base |-> Prefix(Base(prompt).cells, past), reply |-> reply]
      BY ONLY <1>1, <3>1, AnyCompletion, SlotShape, CompletePrompt
    <3> QED
      BY <3>2, <1>5
  <2> QED
    BY <2>1
<1>7. Restored'.prefill = Len(prompt) - past /\ Restored'.base = Prefix(slot.cells, past)
  BY <1>6 DEF Restored
<1>8. CASE ~slot.live
  BY <1>2, <1>3, <1>4, <1>7, <1>8
<1>9. CASE slot.live
  <2>1. Len(prompt) - past = Len(Suffix) + 1 /\ past = Len(Saved) - 1
    BY <1>2, <1>3, <1>4, <1>9
  <2>2. slot.cells \in Seq(Cell) /\ Len(slot.cells) \in Nat /\ past \in 0 .. Len(slot.cells) /\ 1 \in 1 .. past
    BY <1>3, <2>1, LenProperties DEF SlotShape, Held, Content
  <2>3. Restored'.base[1] = slot.cells[1]
    BY <1>7, <2>2, PrefixIs
  <2>4. ASSUME slot.cells = Snapshot.cells
        PROVE  Restored'.base = Snapshot.cells
    BY <1>7, <2>1, <2>4, SnapshotIs, SubSeqFull DEF Prefix
  <2>5. ASSUME slot.cells = Snapshot.cells
        PROVE  Restored'.reply = Hot.reply
    BY <1>7, <2>1, <2>4, <2>5 DEF CompletePrompt, Restored, Hot
  <2> QED
    BY <1>7, <1>9, <2>1, <2>3, <2>4, <2>5
<1> QED
  BY <1>8, <1>9

(* The steps between the calls change nothing but the place.               *)
Quiet == Baseline \/ ReadBefore \/ ReadAfter \/ Metrics
Calling == Erase \/ CompletePrompt \/ Save \/ Restore

(* They keep what the server and the harness hold.                         *)
LEMMA QuietKeeps ==
    ASSUME SlotShape, Quiet
    PROVE  /\ UNCHANGED <<server, probing, slot, ram, file>>
           /\ seen'.requests = seen.requests /\ seen'.saved = seen.saved
           /\ seen'.restored = seen.restored /\ seen'.erased = seen.erased
           /\ Saved' = Saved /\ Snapshot' = Snapshot /\ Hot' = Hot /\ Restored' = Restored
           /\ \A s : Expected(s)' = Expected(s)
<1>1. /\ UNCHANGED <<server, probing, slot, ram, file>>
      /\ seen'.requests = seen.requests /\ seen'.saved = seen.saved
      /\ seen'.restored = seen.restored /\ seen'.erased = seen.erased
  BY DEF Quiet, Baseline, ReadBefore, ReadAfter, Metrics, SlotShape, Memory
<1>2. Saved' = Saved
  BY <1>1 DEF Saved
<1> QED
  BY <1>1, <1>2 DEF Snapshot, Hot, Restored, Expected

(* Where they lead.                                                        *)
LEMMA QuietMoves ==
    ASSUME SlotShape, Quiet
    PROVE  \/ step' = step /\ stage = "before" /\ stage' = "call" /\ step \notin Readings
           \/ /\ stage' = "before"
              /\ \/ step = "baseline" /\ stage = "before" /\ step' = "erase_initial"
                 \/ step = "metrics" /\ stage = "before" /\ step' = "erase_final"
                 \/ stage = "after" /\ step = "erase_initial" /\ step' = "warm"
                 \/ stage = "after" /\ step = "warm" /\ step' = "save"
                 \/ stage = "after" /\ step = "save" /\ step' = "hot"
                 \/ stage = "after" /\ step = "hot" /\ step' = "erase_after_hot"
                 \/ stage = "after" /\ step = "erase_after_hot" /\ probing /\ step' = "cold_probe"
                 \/ stage = "after" /\ step = "erase_after_hot" /\ ~probing /\ step' = "restore"
                 \/ stage = "after" /\ step = "cold_probe" /\ step' = "restore"
                 \/ stage = "after" /\ step = "restore" /\ step' = "restored"
                 \/ stage = "after" /\ step = "restored" /\ step' = "metrics"
                 \/ stage = "after" /\ step = "erase_final" /\ step' = "done"
<1>1. CASE Baseline
  BY <1>1, NextStep DEF Baseline
<1>2. CASE ReadBefore
  BY <1>2 DEF ReadBefore
<1>3. CASE Metrics
  BY <1>3, NextStep DEF Metrics
<1>4. CASE ReadAfter
  <2>1. stage = "after" /\ stage' = "before" /\ step' = AfterStep /\ ~Ended
    BY <1>4 DEF ReadAfter
  <2>2. step \in {"erase_initial", "warm", "save", "hot", "erase_after_hot", "cold_probe",
                  "restore", "restored", "erase_final"}
    BY <2>1, StepNamesAre DEF SlotShape, Readings, Ended
  <2> QED
    BY <2>1, <2>2, NextStep
<1> QED
  BY <1>1, <1>2, <1>3, <1>4 DEF Quiet

(* A call is answered and leads nowhere else.                              *)
LEMMA CallMoves ==
    ASSUME SlotShape, Calling
    PROVE  step' = step /\ stage = "call" /\ stage' = "after" /\ UNCHANGED <<server, probing, failed, before>>
BY DEF Calling, Erase, CompletePrompt, Save, Restore, Called

(* While nobody else came by and nothing failed, these are the only steps. *)
LEMMA AloneSteps ==
    ASSUME SlotShape, [SlotNext]_slotVars, foreign' = <<>>, step' # "error"
    PROVE  /\ foreign = <<>> /\ step # "error"
           /\ Quiet \/ Calling \/ UNCHANGED slotVars
<1>1. ~Intrude
  BY AppendProperties DEF Intrude, SlotShape
<1>2. ~Abort
  BY DEF Abort
<1>3. Quiet \/ Calling \/ UNCHANGED slotVars
  BY <1>1, <1>2 DEF SlotNext, SlotRest, Quiet, Calling
<1>4. foreign' = foreign
  BY <1>3 DEF Quiet, Calling, slotVars, Baseline, ReadBefore, ReadAfter, Metrics, Erase, CompletePrompt,
              Save, Restore, Called
<1>5. CASE Quiet
  BY <1>4, <1>5, QuietMoves DEF Readings
<1>6. CASE Calling
  BY <1>4, <1>6, CallMoves
<1> QED
  BY <1>3, <1>4, <1>5, <1>6 DEF slotVars

(* The counter moves by the requests of the harness.                       *)
LEMMA CountedStep ==
    ASSUME SlotShape, Gauged, Counted, Quiet \/ Calling, foreign = <<>>, step # "error"
    PROVE  Counted'
<1>1. CASE Baseline
  <2>1. /\ step = "baseline" /\ step' = "erase_initial" /\ stage' = "before" /\ counter' = counter
        /\ seen'.baseline = counter /\ seen'.sum = seen.sum
    BY <1>1, NextStep DEF Baseline, SlotShape, Memory
  <2>2. Gap' = 0
    BY <2>1, MemoryNumbers DEF Gauged, Gap
  <2> QED
    BY <2>1, <2>2 DEF Counted
<1>2. CASE ReadBefore
  <2>1. /\ step' = step /\ stage = "before" /\ stage' = "call" /\ counter' = counter /\ before' = counter
        /\ seen' = seen
    BY <1>2 DEF ReadBefore
  <2>2. Gap' = Gap
    BY <2>1 DEF Gap
  <2> QED
    BY <2>1, <2>2 DEF Counted, Metered
<1>3. CASE Erase \/ Save \/ Restore
  <2>1. /\ step' = step /\ stage = "call" /\ stage' = "after" /\ counter' = counter /\ before' = before
        /\ seen'.baseline = seen.baseline /\ seen'.sum = seen.sum /\ step \notin Completions
    BY <1>3 DEF Erase, Save, Restore, Called, Completions, SlotShape, Memory
  <2>2. Gap' = Gap /\ Delta' = 0 /\ Own' = 0
    BY <2>1, MemoryNumbers DEF Gap, Delta, Own, Counted
  <2> QED
    BY <2>1, <2>2 DEF Counted, Metered
<1>4. CASE CompletePrompt
  <2> DEFINE prompt == PromptOf(step)
             past == Reused(Base(prompt), prompt)
  <2>1. PICK reply : /\ Complete(prompt, step, reply) /\ reply \in Seq(Tokens) /\ reply # <<>>
                     /\ seen' = [seen EXCEPT !.requests[step] =
                               [prefill |-> Len(prompt) - past, base |-> Prefix(Base(prompt).cells, past),
                                reply |-> reply]]
    BY <1>4, CompletePromptIs
  <2>2. prompt \in Seq(Tokens) /\ prompt # <<>> /\ step \in Completions
    BY <1>4, PromptsAre DEF CompletePrompt
  <2>3. counter' = counter + Len(prompt) - past /\ past \in 0 .. Len(prompt) - 1
    BY <2>1, <2>2, CompletedSlot DEF SlotShape
  <2>4. Len(prompt) \in Nat
    BY <2>2, LenProperties
  <2>5. /\ seen'.baseline = seen.baseline /\ seen'.sum = seen.sum
        /\ seen'.requests[step].prefill = Len(prompt) - past
    BY <2>1, <2>2 DEF SlotShape, Memory
  <2>6. /\ step' = step /\ stage = "call" /\ stage' = "after" /\ before' = before
    BY <1>4 DEF CompletePrompt, Called
  <2> HIDE DEF prompt, past
  <2>7. Gap' = Gap
    BY <2>5, <2>6 DEF Gap
  <2>8. Own' = Len(prompt) - past
    BY <2>2, <2>5, <2>6 DEF Own
  <2>9. Delta' = Own'
    BY <2>3, <2>4, <2>6, <2>8, MemoryNumbers DEF Delta, Counted
  <2> QED
    BY <2>6, <2>7, <2>9 DEF Counted, Metered
<1>5. CASE ReadAfter
  <2>1. /\ stage = "after" /\ ~Ended /\ stage' = "before" /\ step' = AfterStep /\ counter' = counter
        /\ seen'.baseline = seen.baseline /\ seen'.sum = seen.sum + Delta
    BY <1>5 DEF ReadAfter, SlotShape, Memory
  <2>2. Gap' = Gap
    BY <2>1, MemoryNumbers DEF Gap, Delta
  <2>3. step' \in Metered => step \in Metered
    BY <1>5, <2>1, QuietMoves DEF Quiet, Metered, SlotShape
  <2> QED
    BY <2>1, <2>2, <2>3 DEF Counted, Metered
<1>6. CASE Metrics
  <2>1. step' = "erase_final" /\ stage' = "before"
    BY <1>6, NextStep DEF Metrics
  <2> QED
    BY <2>1 DEF Counted, Metered
<1> QED
  BY <1>1, <1>2, <1>3, <1>4, <1>5, <1>6 DEF Quiet, Calling

(* The prompt cache holds what was erased last.                            *)
LEMMA CachedStep ==
    ASSUME SlotShape, Cached, Warmed, Quiet \/ Calling, foreign = <<>>, step # "error"
    PROVE  Cached'
<1>1. CASE Quiet
  <2>1. ram' = ram /\ server' = server /\ Saved' = Saved
    BY <1>1, QuietKeeps
  <2>2. (step \in {"baseline", "erase_initial", "warm", "save", "hot"} \/ Until("erase_after_hot"))'
          => step \in {"baseline", "erase_initial", "warm", "save", "hot"} \/ Until("erase_after_hot")
    BY <1>1, QuietMoves DEF Until, Readings
  <2>3. (Passed("erase_after_hot", {}) \/ Until("cold_probe"))'
          => Passed("erase_after_hot", {}) \/ Until("cold_probe")
    BY <1>1, QuietMoves DEF Until, Passed, Readings
  <2>4. (ram.live /\ Begins(Saved, ram.tokens))' <=> ram.live /\ Begins(Saved, ram.tokens)
    BY <2>1 DEF Begins
  <2> QED
    BY <2>1, <2>2, <2>3, <2>4 DEF Cached
<1>2. CASE Calling /\ ~Erase
  <2>1. /\ ram' = ram /\ step' = step /\ stage = "call" /\ stage' = "after" /\ server' = server
        /\ step # "erase_after_hot"
    BY <1>2, CallMoves DEF Calling, CompletePrompt, Save, Restore, Completions
  <2> QED
    BY <2>1 DEF Cached, Until, Passed
<1>3. CASE Erase
  <2>1. /\ step' = step /\ stage = "call" /\ stage' = "after" /\ server' = server
        /\ ram' = (IF server.ram THEN slot ELSE ram) /\ Saved' = Saved
        /\ step \in {"erase_initial", "erase_after_hot", "erase_final"}
    BY <1>3, CallMoves DEF Calling, Erase, Clear, Saved, SlotShape, Memory
  <2>2. CASE step = "erase_initial"
    <3>1. slot.tokens = Other /\ (~server.ram => ram = Empty) /\ ram.tokens \in {<<>>, Other}
      BY <2>1, <2>2 DEF Cached, Warmed, Until
    <3>2. ~Passed("erase_after_hot", {})' /\ ~Until("cold_probe")'
      BY <2>1, <2>2 DEF Passed, Until
    <3>3. ram'.tokens \in {<<>>, Other} /\ (~server.ram => ram' = Empty)
      BY <2>1, <3>1
    <3> QED
      BY <2>1, <3>2, <3>3 DEF Cached
  <2>3. CASE step = "erase_after_hot"
    <3>1. slot.live /\ Begins(Saved, slot.tokens) /\ (~server.ram => ram = Empty)
      BY <2>1, <2>3 DEF Cached, Warmed, Until
    <3>2. server.ram => ram'.live /\ Begins(Saved, ram.tokens)'
      BY <2>1, <3>1 DEF Begins
    <3> QED
      BY <2>1, <2>3, <3>1, <3>2 DEF Cached, Until
  <2>4. CASE step = "erase_final"
    BY <2>1, <2>4 DEF Cached, Until, Passed
  <2> QED
    BY <2>1, <2>2, <2>3, <2>4
<1> QED
  BY <1>1, <1>2, <1>3

(* The saved text follows from the warm reply.                             *)
LEMMA WarmKept ==
    ASSUME seen'.requests["warm"] = seen.requests["warm"]
    PROVE  Saved' = Saved /\ Snapshot' = Snapshot
BY DEF Saved, Snapshot

(* What is expected of the hot slot follows from both replies.             *)
LEMMA HotKept ==
    ASSUME seen'.requests["warm"] = seen.requests["warm"], seen'.requests["hot"] = seen.requests["hot"]
    PROVE  Hot' = Hot /\ Expected("hot")' = Expected("hot")
BY WarmKept DEF Hot, Expected

(* An erased slot is empty and reports what it held.                       *)
LEMMA EraseIs ==
    ASSUME SlotShape, Erase
    PROVE  /\ step' = step /\ stage = "call" /\ stage' = "after" /\ file' = file /\ slot' = Empty
           /\ seen'.requests = seen.requests /\ seen'.saved = seen.saved /\ seen'.restored = seen.restored
           /\ seen'.erased = Len(slot.tokens)
           /\ step \in {"erase_initial", "erase_after_hot", "erase_final"}
BY DEF Erase, Clear, Called, SlotShape, Memory

(* Up to the hot reply all goes as the script says.                        *)
LEMMA WarmedStep ==
    ASSUME SlotShape, Cached, Warmed, Probed, Quiet \/ Calling, foreign = <<>>, step # "error"
    PROVE  Warmed'
<1>1. CASE Quiet
  <2>1. /\ slot' = slot /\ file' = file /\ Saved' = Saved /\ Snapshot' = Snapshot /\ Hot' = Hot
        /\ seen'.requests = seen.requests /\ seen'.saved = seen.saved /\ seen'.erased = seen.erased
        /\ Expected("hot")' = Expected("hot")
    BY <1>1, QuietKeeps
  <2>2. /\ (step = "baseline" \/ Until("erase_initial"))' => step = "baseline" \/ Until("erase_initial")
        /\ (Passed("erase_initial", {}) \/ Until("warm"))' => Passed("erase_initial", {}) \/ Until("warm")
        /\ Passed("warm", {"save", "hot"} \cup AfterHot)' => Passed("warm", {"save", "hot"} \cup AfterHot)
        /\ (Passed("warm", {"save"}) \/ Until("hot"))' => Passed("warm", {"save"}) \/ Until("hot")
    BY <1>1, QuietMoves DEF Until, Passed, Readings, AfterHot, ToTheEnd
  <2>3. /\ Passed("save", {"hot"} \cup AfterHot)' => Passed("save", {"hot"} \cup AfterHot)
        /\ Passed("hot", AfterHot)' => Passed("hot", AfterHot)
        /\ (Passed("hot", {}) \/ Until("erase_after_hot"))' => Passed("hot", {}) \/ Until("erase_after_hot")
        /\ ~Passed("erase_after_hot", {})'
    BY <1>1, QuietMoves DEF Until, Passed, Readings, AfterHot, ToTheEnd
  <2>4. Begins(Saved, slot.tokens)' <=> Begins(Saved, slot.tokens)
    BY <2>1 DEF Begins
  <2> HIDE DEF Quiet
  <2> QED
    BY <2>1, <2>2, <2>3, <2>4 DEF Warmed
<1>2. CASE Erase
  <2>1. /\ step' = step /\ stage' = "after" /\ stage = "call" /\ file' = file /\ slot' = Empty
        /\ seen'.requests = seen.requests /\ seen'.saved = seen.saved
        /\ seen'.erased = Len(slot.tokens)
        /\ step \in {"erase_initial", "erase_after_hot", "erase_final"}
    BY <1>2, EraseIs
  <2>2. Saved' = Saved /\ Snapshot' = Snapshot /\ Hot' = Hot /\ Expected("hot")' = Expected("hot")
    BY <2>1, WarmKept, HotKept
  <2>3. step = "erase_after_hot" => Len(slot.tokens) = Expected("hot")
    BY <2>1 DEF Warmed, Until
  <2>4. step # "erase_initial" => Passed("hot", AfterHot) /\ Passed("save", {"hot"} \cup AfterHot)
                                  /\ Passed("warm", {"save", "hot"} \cup AfterHot)
    BY <2>1 DEF Passed, AfterHot, ToTheEnd
  <2> QED
    BY <2>1, <2>2, <2>3, <2>4 DEF Warmed, Until, Passed, AfterHot, ToTheEnd
<1>3. CASE CompletePrompt
  <2>1. step' = step /\ stage = "call" /\ stage' = "after" /\ file' = file /\ ram' = ram /\ step \in Completions
    BY <1>3 DEF CompletePrompt, Called
  <2>2. /\ \A s \in Completions : s # step => seen'.requests[s] = seen.requests[s]
        /\ seen'.saved = seen.saved
    BY <1>3, AnyCompletion
  <2>3. CASE step = "warm"
    <3>1. ram.tokens \in {<<>>, Other} /\ slot = Empty
      BY <2>1, <2>3 DEF Cached, Warmed, Until
    <3>2. /\ seen'.requests["warm"].reply \in Replies /\ seen'.requests["warm"].prefill = Len(History)
          /\ slot' = Snapshot'
      BY <1>3, <2>3, <3>1, WarmCompletion
    <3> QED
      BY <2>1, <2>3, <3>2 DEF Warmed, Until, Passed, AfterHot, ToTheEnd
  <2>4. CASE step = "hot"
    <3>1. /\ ram.tokens \in {<<>>, Other} /\ slot = Snapshot /\ file = Snapshot /\ seen.saved = Len(Saved) - 1
          /\ seen.requests["warm"].reply \in Replies /\ seen.requests["warm"].prefill = Len(History)
      BY <2>1, <2>4 DEF Cached, Warmed, Until, Passed
    <3>2. /\ Hot'.reply \in Replies /\ Hot'.prefill = Len(Suffix) + 1 /\ Hot'.base = Snapshot.cells
          /\ slot'.live /\ Begins(Saved, slot'.tokens) /\ Len(slot'.tokens) = Expected("hot")'
      BY <1>3, <2>4, <3>1, HotCompletion
    <3>3. seen'.requests["warm"] = seen.requests["warm"]
      BY <2>2, <2>4 DEF Completions
    <3>4. Saved' = Saved /\ Snapshot' = Snapshot
      BY <3>3, WarmKept
    <3>5. Begins(Saved, slot.tokens)'
      BY <3>2, <3>4 DEF Begins
    <3> QED
      BY <2>1, <2>2, <2>4, <3>1, <3>2, <3>3, <3>4, <3>5 DEF Warmed, Until, Passed
  <2>5. CASE step \in {"cold_probe", "restored"}
    <3>1. seen'.requests["warm"] = seen.requests["warm"] /\ seen'.requests["hot"] = seen.requests["hot"]
      BY <2>2, <2>5 DEF Completions
    <3>2. Saved' = Saved /\ Snapshot' = Snapshot /\ Hot' = Hot /\ Expected("hot")' = Expected("hot")
      BY <3>1, WarmKept, HotKept
    <3>3. Passed("hot", AfterHot) /\ Passed("save", {"hot"} \cup AfterHot)
          /\ Passed("warm", {"save", "hot"} \cup AfterHot)
      BY <2>5 DEF Passed, AfterHot
    <3> QED
      BY <2>1, <2>2, <2>5, <3>1, <3>2, <3>3 DEF Warmed, Until, Passed
  <2> QED
    BY <2>1, <2>3, <2>4, <2>5 DEF Completions
<1>4. CASE Save
  <2>1. /\ step = "save" /\ step' = step /\ stage = "call" /\ stage' = "after" /\ slot' = slot /\ file' = slot
        /\ seen'.requests = seen.requests /\ seen'.saved = Len(slot.tokens)
    BY <1>4 DEF Save, Called, SlotShape, Memory
  <2>2. Saved' = Saved /\ Snapshot' = Snapshot
    BY <2>1, WarmKept
  <2>3. seen.requests["warm"].reply \in Replies /\ slot = Snapshot
    BY <2>1 DEF Warmed, Passed
  <2>4. Len(slot.tokens) = Len(Saved) - 1
    BY <2>3, SavedIs DEF Snapshot
  <2> QED
    BY <2>1, <2>2, <2>3, <2>4 DEF Warmed, Until, Passed, AfterHot, ToTheEnd
<1>5. CASE Restore
  <2>1. /\ step = "restore" /\ step' = step /\ stage = "call" /\ stage' = "after" /\ file' = file
        /\ seen'.requests = seen.requests /\ seen'.saved = seen.saved
    BY <1>5 DEF Restore, Called, SlotShape, Memory
  <2>2. Saved' = Saved /\ Snapshot' = Snapshot /\ Hot' = Hot
    BY <2>1, WarmKept, HotKept
  <2> QED
    BY <2>1, <2>2 DEF Warmed, Until, Passed, AfterHot, ToTheEnd
<1> QED
  BY <1>1, <1>2, <1>3, <1>4, <1>5 DEF Calling

(* So it does with the cold probe.                                         *)
LEMMA ProbedStep ==
    ASSUME SlotShape, Cached, Warmed, Probed, Quiet \/ Calling, foreign = <<>>, step # "error"
    PROVE  Probed'
<1>1. CASE Quiet
  <2>1. /\ slot' = slot /\ Saved' = Saved /\ seen'.requests = seen.requests /\ server' = server /\ probing' = probing
    BY <1>1, QuietKeeps
  <2>2. step' = "cold_probe" => probing
    BY <1>1, QuietMoves DEF Probed
  <2>3. (Passed("erase_after_hot", {}) \/ Until("cold_probe") \/ (Until("restore") /\ ~probing))'
          => Passed("erase_after_hot", {}) \/ Until("cold_probe") \/ (Until("restore") /\ ~probing)
    BY <1>1, <2>1, QuietMoves DEF Until, Passed, Readings, Probed
  <2>4. (Passed("cold_probe", {}) \/ (Until("restore") /\ probing))'
          => Passed("cold_probe", {}) \/ (Until("restore") /\ probing)
    BY <1>1, <2>1, QuietMoves DEF Until, Passed, Readings, Probed
  <2>5. ~Passed("cold_probe", {})'
    BY <1>1, QuietMoves DEF Passed
  <2> HIDE DEF Quiet
  <2> QED
    BY <2>1, <2>2, <2>3, <2>4, <2>5 DEF Probed
<1>2. CASE Erase
  <2>1. /\ step' = step /\ stage = "call" /\ stage' = "after" /\ slot' = Empty
        /\ step \in {"erase_initial", "erase_after_hot", "erase_final"}
    BY <1>2, EraseIs
  <2> QED
    BY <2>1 DEF Probed, Passed, Until
<1>3. CASE CompletePrompt
  <2>1. /\ step' = step /\ stage = "call" /\ stage' = "after" /\ server' = server /\ probing' = probing
        /\ step \in Completions
    BY <1>3 DEF CompletePrompt, Called
  <2>2. CASE step = "cold_probe"
    <3>1. /\ slot = Empty /\ probing /\ (~server.ram => ram = Empty)
          /\ (server.ram => ram.live /\ Begins(Saved, ram.tokens))
          /\ seen.requests["warm"].reply \in Replies
      BY <2>1, <2>2 DEF Probed, Cached, Warmed, Until, Passed, AfterHot
    <3>2. /\ seen'.requests["cold_probe"].prefill = IF server.ram THEN 1 ELSE Len(Saved)
          /\ ~server.ram => slot'.cells = Cells(Saved, "cold_probe")
          /\ seen'.requests["warm"] = seen.requests["warm"]
      BY <1>3, <2>2, <3>1, ProbeCompletion DEF Completions
    <3>3. Saved' = Saved
      BY <3>2, WarmKept
    <3> QED
      BY <2>1, <2>2, <3>1, <3>2, <3>3 DEF Probed, Passed, Until
  <2>3. CASE step # "cold_probe"
    BY <2>1, <2>3 DEF Probed, Passed, Until, Completions
  <2> QED
    BY <2>2, <2>3
<1>4. CASE Save \/ Restore
  <2>1. step' = step /\ stage' = "after" /\ step \in {"save", "restore"}
    BY <1>4 DEF Save, Restore, Called
  <2> QED
    BY <2>1 DEF Probed, Passed, Until
<1> QED
  BY <1>1, <1>2, <1>3, <1>4 DEF Calling

(* A server that merges keeps the cells of the probe.                      *)
LEMMA LoadedCells ==
    ASSUME SlotShape, file = Snapshot, seen.requests["warm"].reply \in Replies
    PROVE  /\ server.clears => Loaded.cells = Snapshot.cells
           /\ ~server.clears /\ slot.cells = Cells(Saved, "cold_probe") => Loaded.cells[1].by = "cold_probe"
<1>1. /\ Snapshot.cells \in Seq(Cell) /\ Len(Snapshot.cells) \in Nat /\ file \in Held
  BY SnapshotIs, LenProperties DEF SlotShape
<1>2. ASSUME server.clears PROVE Loaded.cells = Snapshot.cells
  <2> DEFINE merged == Merged(<<>>)
  <2>1. <<>> \in Seq(Cell) /\ Len(<<>>) = 0
    BY EmptySeq
  <2>2. /\ merged \in Seq(Cell)
        /\ Len(merged) = IF Len(<<>>) < Len(file.cells) THEN Len(file.cells) ELSE Len(<<>>)
        /\ \A i \in Len(<<>>) + 1 .. Len(file.cells) : merged[i] = file.cells[i]
    BY <1>1, <2>1, MergedIs
  <2>3. Loaded.cells = merged
    BY <1>2 DEF Loaded
  <2> HIDE DEF merged
  <2>4. Len(merged) = Len(Snapshot.cells) /\ \A i \in 1 .. Len(merged) : merged[i] = Snapshot.cells[i]
    BY <1>1, <2>1, <2>2
  <2>5. merged = Snapshot.cells
    BY <1>1, <2>2, <2>4, SeqEqual
  <2> QED
    BY <2>3, <2>5
<1>3. ASSUME ~server.clears, slot.cells = Cells(Saved, "cold_probe")
      PROVE  Loaded.cells[1].by = "cold_probe"
  <2> DEFINE cells == Cells(Saved, "cold_probe")
  <2>1. Saved \in Seq(Tokens) /\ Len(Saved) \in Nat /\ Len(Saved) >= 2
    BY SavedIs
  <2>2. /\ cells \in Seq(Cell) /\ Len(cells) = Len(Saved)
        /\ \A i \in 1 .. Len(Saved) : cells[i] = [token |-> Saved[i], by |-> "cold_probe"]
    BY <2>1, CellsAre DEF Completions
  <2>3. Loaded.cells = Merged(cells)
    BY <1>3 DEF Loaded
  <2> HIDE DEF cells
  <2>4. Merged(cells)[1] = cells[1]
    BY <1>1, <2>1, <2>2, MergedIs
  <2>5. cells[1] = [token |-> Saved[1], by |-> "cold_probe"]
    BY <2>1, <2>2
  <2> QED
    BY <2>3, <2>4, <2>5
<1> QED
  BY <1>2, <1>3

(* What the restored request computes shows what was loaded.               *)
LEMMA ReloadedStep ==
    ASSUME SlotShape, Cached, Warmed, Probed, Reloaded, Quiet \/ Calling, foreign = <<>>, step # "error"
    PROVE  Reloaded'
<1>1. CASE Quiet
  <2>1. /\ slot' = slot /\ file' = file /\ Saved' = Saved /\ Snapshot' = Snapshot /\ Hot' = Hot
        /\ Restored' = Restored /\ seen'.restored = seen.restored /\ seen'.erased = seen.erased
        /\ Expected("restored")' = Expected("restored") /\ server' = server /\ probing' = probing
    BY <1>1, QuietKeeps
  <2>2. /\ (Passed("restore", {}) \/ Until("restored"))' => Passed("restore", {}) \/ Until("restored")
        /\ Passed("restored", ToTheEnd)' => Passed("restored", ToTheEnd)
        /\ (Passed("restored", {"metrics"}) \/ Until("erase_final"))'
             => Passed("restored", {"metrics"}) \/ Until("erase_final")
        /\ ~Passed("restore", {})' /\ ~Passed("erase_final", {})'
    BY <1>1, QuietMoves DEF Until, Passed, Readings, ToTheEnd
  <2> HIDE DEF Quiet
  <2> QED
    BY <2>1, <2>2 DEF Reloaded, Good
<1>2. CASE Erase
  <2>1. /\ step' = step /\ stage = "call" /\ stage' = "after" /\ seen'.requests = seen.requests
        /\ seen'.erased = Len(slot.tokens) /\ server' = server /\ probing' = probing
        /\ step \in {"erase_initial", "erase_after_hot", "erase_final"}
    BY <1>2, EraseIs, CallMoves DEF Calling
  <2>2. Saved' = Saved /\ Snapshot' = Snapshot /\ Hot' = Hot /\ Restored' = Restored
        /\ Expected("restored")' = Expected("restored")
    BY <2>1, WarmKept, HotKept DEF Restored, Expected
  <2>3. CASE step = "erase_final"
    <3>1. Len(slot.tokens) = Expected("restored") /\ Passed("restored", ToTheEnd)
      BY <2>1, <2>3 DEF Reloaded, Until, Passed, ToTheEnd
    <3>2. ~Passed("restore", {})' /\ ~Until("restored")' /\ ~Passed("restored", {"metrics"})' /\ ~Until("erase_final")'
      BY <2>1, <2>3 DEF Until, Passed
    <3> QED
      BY <2>1, <2>2, <3>1, <3>2 DEF Reloaded, Good
  <2>4. CASE step # "erase_final"
    BY <2>1, <2>4 DEF Reloaded, Until, Passed, ToTheEnd
  <2> QED
    BY <2>3, <2>4
<1>3. CASE CompletePrompt
  <2>1. /\ step' = step /\ stage = "call" /\ stage' = "after" /\ server' = server /\ probing' = probing
        /\ ram' = ram /\ file' = file /\ step \in Completions
    BY <1>3 DEF CompletePrompt, Called
  <2>2. CASE step = "restored"
    <3>1. PICK reply \in RepliesTo(step) :
            /\ Len(slot'.tokens) = Len(PromptOf(step)) + Len(reply) - 1
            /\ seen'.requests[step].reply = reply
            /\ \A s \in Completions : s # step => seen'.requests[s] = seen.requests[s]
      <4> DEFINE prompt == PromptOf(step)
                 past == Reused(Base(prompt), prompt)
      <4>1. PICK reply \in RepliesTo(step) :
              /\ Len(slot'.tokens) = Len(prompt) + Len(reply) - 1
              /\ seen'.requests[step] = [prefill |-> Len(prompt) - past,
                                         base |-> Prefix(Base(prompt).cells, past), reply |-> reply]
              /\ \A s \in Completions : s # step => seen'.requests[s] = seen.requests[s]
        BY ONLY <1>3, SlotShape, AnyCompletion
      <4>2. seen'.requests[step].reply = reply
        BY <4>1
      <4> QED
        BY <4>1, <4>2
    <3>2. seen'.requests["warm"] = seen.requests["warm"] /\ seen'.requests["hot"] = seen.requests["hot"]
      BY <2>2, <3>1 DEF Completions
    <3>3. Saved' = Saved /\ Snapshot' = Snapshot /\ Hot' = Hot
      BY <3>2, WarmKept, HotKept
    <3>4. PromptOf(step) = Saved \o Suffix
      BY <2>2 DEF PromptOf
    <3>5. Len(slot'.tokens) = Expected("restored")'
      BY <2>2, <3>1, <3>3, <3>4 DEF Expected, Boundary
    <3>6. /\ seen.requests["warm"].reply \in Replies
          /\ Hot.prefill = Len(Suffix) + 1 /\ Hot.base = Snapshot.cells
      BY <2>1, <2>2 DEF Warmed, Passed, AfterHot
    <3>7. ~server.ram => /\ ram = Empty /\ slot.tokens = Front(Saved) /\ slot.live = server.checkpoints
                         /\ server.clears => slot.cells = Snapshot.cells
                         /\ ~server.clears /\ probing => slot.cells[1].by = "cold_probe"
      BY <2>1, <2>2 DEF Cached, Reloaded, Until
    <3>8. ~server.ram =>
           /\ slot.live /\ slot.cells = Snapshot.cells
                => /\ Restored'.prefill = Len(Suffix) + 1 /\ Restored'.base = Snapshot.cells
                   /\ Restored'.reply = Hot.reply
           /\ ~slot.live => Restored'.prefill = Len(Saved) + Len(Suffix)
           /\ slot.live => Restored'.base[1] = slot.cells[1]
      BY <1>3, <2>2, <3>6, <3>7, RestoredCompletion
    <3>9. ~Passed("restore", {})' /\ ~Until("restored")' /\ ~Passed("erase_final", {})'
      BY <2>1, <2>2 DEF Until, Passed
    <3> QED
      BY <2>1, <3>3, <3>5, <3>7, <3>8, <3>9 DEF Reloaded, Good
  <2>3. CASE step # "restored"
    BY <2>1, <2>3 DEF Reloaded, Until, Passed, ToTheEnd, Completions
  <2> QED
    BY <2>2, <2>3
<1>4. CASE Save
  <2>1. step' = "save" /\ stage' = "after"
    BY <1>4 DEF Save, Called
  <2> QED
    BY <2>1 DEF Reloaded, Until, Passed, ToTheEnd
<1>5. CASE Restore
  <2>1. /\ step = "restore" /\ step' = step /\ stage = "call" /\ stage' = "after" /\ slot' = Loaded /\ file' = file
        /\ seen'.restored = Len(file.tokens) /\ seen'.requests = seen.requests
        /\ server' = server /\ probing' = probing
    BY <1>5 DEF Restore, Called, SlotShape, Memory
  <2>2. Saved' = Saved /\ Snapshot' = Snapshot
    BY <2>1, WarmKept
  <2>3. file = Snapshot /\ seen.requests["warm"].reply \in Replies
    BY <2>1 DEF Warmed, Passed, AfterHot
  <2>4. probing /\ ~server.ram => slot.cells = Cells(Saved, "cold_probe")
    BY <2>1 DEF Probed, Until
  <2>5. Loaded.tokens = Front(Saved) /\ Loaded.live = server.checkpoints
    BY <2>3, LoadedHeld DEF Snapshot
  <2>6. ~Passed("restored", ToTheEnd)' /\ ~Passed("restored", {"metrics"})' /\ ~Until("erase_final")'
        /\ ~Passed("erase_final", {})'
    BY <2>1 DEF Passed, Until, ToTheEnd
  <2> QED
    BY <2>1, <2>2, <2>3, <2>4, <2>5, <2>6, LoadedCells DEF Reloaded
<1> QED
  BY <1>1, <1>2, <1>3, <1>4, <1>5 DEF Calling

(* The checks find each defect, and nothing else.                          *)
LEMMA JudgedStep ==
    ASSUME SlotShape, Counted, Warmed, Probed, Reloaded, Cached, Decided, Quiet \/ Calling,
           foreign = <<>>, step # "error"
    PROVE  Decided'
<1>1. CASE Calling
  <2>1. step' = step /\ failed' = failed /\ server' = server /\ probing' = probing
    BY <1>1, CallMoves
  <2> QED
    BY <2>1 DEF Decided, Good
<1>2. CASE ReadBefore
  BY <1>2 DEF ReadBefore, Decided, Good
<1>3. CASE Baseline
  <2>1. step' = "erase_initial" /\ failed' = failed /\ server' = server /\ probing' = probing
    BY <1>3, NextStep DEF Baseline
  <2> QED
    BY <2>1 DEF Decided, Good, ToTheEnd
<1>4. CASE Metrics
  <2>1. /\ step = "metrics" /\ stage = "before" /\ failed \subseteq failed' /\ (Totals => failed' = failed)
        /\ server' = server /\ probing' = probing
    BY <1>4 DEF Metrics
  <2>2. step \in Metered
    BY <2>1, StepNamesAre DEF Metered
  <2>3. Totals
    BY <2>1, <2>2, MemoryNumbers DEF Counted, Gap, Totals
  <2> QED
    BY <2>1, <2>3 DEF Decided, Good, ToTheEnd
<1>5. CASE ReadAfter
  <2>1. /\ stage = "after" /\ failed \subseteq failed' /\ server' = server /\ probing' = probing
        /\ AnswerChecks /\ (step = "restored" => Comparison) => failed' = failed
        /\ ~AnswerChecks => failed' # {}
        /\ step = "restored" /\ ~Comparison => failed' # {}
    BY <1>5 DEF ReadAfter
  <2>2. Delta = Own
    BY <2>1 DEF Counted
  <2>3. \/ step = "erase_initial" /\ step' = "warm"
        \/ step = "warm" /\ step' = "save"
        \/ step = "save" /\ step' = "hot"
        \/ step = "hot" /\ step' = "erase_after_hot"
        \/ step = "erase_after_hot" /\ step' = "cold_probe"
        \/ step = "erase_after_hot" /\ ~probing /\ step' = "restore"
        \/ step = "cold_probe" /\ step' = "restore"
        \/ step = "restore" /\ step' = "restored"
        \/ step = "restored" /\ step' = "metrics"
        \/ step = "erase_final" /\ step' = "done"
    BY <1>5, <2>1, QuietMoves DEF Quiet
  <2>4. Len(Suffix) \in Nat /\ ReplayBound \in Nat \ {0}
    BY TextsAre, LenProperties, NumbersAssumption DEF ReplayBound, Boundary
  <2>5. ASSUME Passed("warm", {"save", "hot"} \cup AfterHot)
        PROVE  Len(Saved) \in Nat /\ Len(Saved) >= 2
    BY <2>5, SavedIs DEF Warmed
  <2>6. ASSUME Good PROVE AnswerChecks /\ (step = "restored" => Comparison)
    <3>1. CASE step = "erase_initial"
      BY <2>2, <3>1 DEF AnswerChecks, Own, Completions
    <3>2. CASE step = "warm"
      BY <2>1, <2>2, <3>2 DEF AnswerChecks, Own, Completions, Warmed, Passed
    <3>3. CASE step = "save"
      BY <2>1, <2>2, <3>3 DEF AnswerChecks, Own, Completions, Warmed, Passed, Boundary
    <3>4. CASE step = "hot"
      <4>1. seen.requests["hot"].prefill = Len(Suffix) + 1
        BY <2>1, <3>4 DEF Warmed, Passed, Hot
      <4>2. Bounded("hot")
        BY <2>4, <4>1 DEF Bounded
      <4> QED
        BY <2>1, <2>2, <3>4, <4>2 DEF AnswerChecks, Own, Completions
    <3>5. CASE step = "erase_after_hot"
      BY <2>1, <2>2, <3>5 DEF AnswerChecks, Own, Completions, Warmed, Passed
    <3>6. CASE step = "cold_probe"
      BY <2>1, <2>2, <2>6, <3>6 DEF AnswerChecks, Probed, Passed, Good
    <3>7. CASE step = "restore"
      <4>1. file = Snapshot /\ seen.saved = Len(Saved) - 1 /\ seen.restored = Len(file.tokens)
            /\ seen.requests["warm"].reply \in Replies
        BY <2>1, <3>7 DEF Warmed, Reloaded, Passed, AfterHot
      <4>2. Len(file.tokens) = Len(Saved) - 1
        BY <4>1, SavedIs DEF Snapshot
      <4> QED
        BY <2>1, <2>2, <3>7, <4>1, <4>2 DEF AnswerChecks, Own, Completions
    <3>8. CASE step = "restored"
      <4>1. Restored.prefill = Len(Suffix) + 1 /\ Restored.base = Snapshot.cells /\ Restored.reply = Hot.reply
        BY <2>1, <2>6, <3>8 DEF Reloaded, Passed, Good
      <4>2. Hot.prefill = Len(Suffix) + 1 /\ Hot.base = Snapshot.cells
        BY <2>1, <3>8 DEF Warmed, Passed, AfterHot
      <4>3. Bounded("restored")
        BY <2>4, <4>1 DEF Bounded, Restored
      <4>4. Comparison
        BY <4>1, <4>2 DEF Comparison, SameBase, Hot, Restored
      <4> QED
        BY <2>1, <2>2, <3>8, <4>3, <4>4 DEF AnswerChecks, Own, Completions
    <3>9. CASE step = "erase_final"
      BY <2>1, <2>2, <3>9 DEF AnswerChecks, Own, Completions, Reloaded, Passed
    <3> QED
      BY <2>3, <3>1, <3>2, <3>3, <3>4, <3>5, <3>6, <3>7, <3>8, <3>9
  <2>7. Good => failed' = {}
    BY <2>1, <2>6 DEF Decided
  <2>8. ASSUME step' \in {"restore", "restored"} \cup ToTheEnd, server.ram, probing
        PROVE  failed' # {}
    <3>1. CASE step = "cold_probe"
      <4>1. seen.requests["cold_probe"].prefill = 1 /\ Len(Saved) \in Nat /\ Len(Saved) >= 2
        BY <2>1, <2>5, <2>8, <3>1 DEF Probed, Passed, AfterHot
      <4>2. ~AnswerChecks
        <5>1. seen.requests[step].prefill # Len(Saved)
          <6>1. seen.requests[step].prefill = 1
            BY <3>1, <4>1
          <6>2. \A n \in Nat : n >= 2 => n # 1
            OBVIOUS
          <6> QED
            BY <6>1, <6>2, <4>1, Zenon
        <5>2. AnswerChecks => seen.requests[step].prefill = Len(Saved)
          BY <3>1 DEF AnswerChecks
        <5> QED
          BY <5>1, <5>2
      <4> QED
        BY <2>1, <4>2
    <3>2. CASE step \in {"restore", "restored"} \cup ToTheEnd
      BY <2>1, <2>8, <3>2 DEF Decided
    <3> QED
      BY <2>3, <2>8, <3>1, <3>2 DEF ToTheEnd
  <2>9. ASSUME step' \in ToTheEnd, probing, server.logits, ~Good
        PROVE  failed' # {}
    <3>1. CASE step \in ToTheEnd
      BY <2>1, <2>9, <3>1 DEF Decided
    <3>2. CASE step = "restored" /\ server.ram
      BY <2>1, <2>9, <3>2 DEF Decided
    <3>3. CASE step = "restored" /\ ~server.ram
      <4>1. /\ Hot.prefill = Len(Suffix) + 1 /\ Hot.base = Snapshot.cells
            /\ seen.requests["warm"].reply \in Replies /\ Len(Saved) \in Nat /\ Len(Saved) >= 2
        BY <2>1, <2>5, <3>3 DEF Warmed, Passed, AfterHot
      <4>2. CASE ~server.checkpoints
        <5>1. Restored.prefill = Len(Saved) + Len(Suffix)
          BY <2>1, <3>3, <4>2 DEF Reloaded, Passed
        <5>2. Hot.prefill # Restored.prefill
          BY <2>4, <4>1, <5>1
        <5> QED
          BY <2>1, <3>3, <5>2 DEF Comparison, Hot, Restored
      <4>3. CASE server.checkpoints
        <5>1. Restored.base[1].by = "cold_probe"
          BY <2>1, <2>9, <3>3, <4>3 DEF Reloaded, Passed, Good
        <5>2. Snapshot.cells[1] = [token |-> Saved[1], by |-> "warm"]
          BY <4>1, SnapshotIs
        <5>3. Hot.base[1].by = "warm"
          BY <4>1, <5>2
        <5>4. ~SameBase("hot", "restored")
          BY <5>1, <5>3 DEF SameBase, Hot, Restored
        <5> QED
          BY <2>1, <2>9, <3>3, <5>4 DEF Comparison
      <4> QED
        BY <4>2, <4>3
    <3> QED
      BY <2>3, <2>9, <3>1, <3>2, <3>3 DEF ToTheEnd
  <2> QED
    BY <2>1, <2>7, <2>8, <2>9 DEF Decided, Good
<1> QED
  BY <1>1, <1>2, <1>3, <1>4, <1>5 DEF Quiet

(* Together: while alone, every step keeps to the script.                  *)
LEMMA AloneStep ==
    ASSUME SlotShape, Gauged, Alone, [SlotNext]_slotVars
    PROVE  Alone'
<1> SUFFICES ASSUME foreign' = <<>>, step' # "error"
             PROVE  (Counted /\ Cached /\ Warmed /\ Probed /\ Reloaded /\ Decided)'
  BY DEF Alone
<1>1. /\ foreign = <<>> /\ step # "error"
      /\ Quiet \/ Calling \/ UNCHANGED slotVars
  BY AloneSteps
<1>2. Counted /\ Cached /\ Warmed /\ Probed /\ Reloaded /\ Decided
  BY <1>1 DEF Alone
<1>3. CASE Quiet \/ Calling
  BY <1>1, <1>2, <1>3, CountedStep, CachedStep, WarmedStep, ProbedStep, ReloadedStep, JudgedStep
<1>4. CASE UNCHANGED slotVars
  BY <1>2, <1>4 DEF slotVars, Counted, Cached, Warmed, Probed, Reloaded, Decided, Delta, Own, Gap, Passed, Until,
                    Begins, Saved, Expected, Snapshot, Hot, Restored, Good
<1> QED
  BY <1>1, <1>3, <1>4

(* The script begins so.                                                   *)
LEMMA AloneInit == SlotInit => Alone
<1> SUFFICES ASSUME SlotInit
             PROVE  Counted /\ Cached /\ Warmed /\ Probed /\ Reloaded /\ Decided
  BY DEF Alone
<1>1. /\ step = "baseline" /\ stage = "before" /\ slot.tokens = Other /\ ram = Empty /\ failed = {}
  BY DEF SlotInit
<1>2. Counted /\ Cached /\ Decided
  BY <1>1 DEF Counted, Cached, Decided, Metered, Passed, Until, Empty, ToTheEnd
<1>3. Warmed
  BY <1>1 DEF Warmed, Passed, Until, AfterHot, ToTheEnd
<1>4. Probed /\ Reloaded
  BY <1>1 DEF Probed, Reloaded, Passed, Until, ToTheEnd
<1> QED
  BY <1>2, <1>3, <1>4

(* Nobody has come by to begin with.                                       *)
LEMMA GaugedInit == SlotInit => Gauged
<1>1. SlotInit => seen.sum = 0 /\ stage = "before" /\ step = "baseline" /\ DOMAIN foreign = {}
  <2>1. DOMAIN <<>> = {}
    BY LenProperties, EmptySeq
  <2> QED
    BY <2>1 DEF SlotInit, Unseen
<1> SUFFICES ASSUME SlotInit PROVE Gauged
  OBVIOUS
<1>2. step \notin Metered /\ stage = "before" /\ seen.sum = 0 /\ DOMAIN foreign = {}
  BY <1>1 DEF Metered
<1> HIDE DEF Metered
<1> QED
  BY <1>2 DEF Gauged

(* A request that fails ends the run without a failed check.               *)
LEMMA AlarmStep ==
    ASSUME SlotShape, NoFalseAlarm, Alone', [SlotNext]_slotVars
    PROVE  NoFalseAlarm'
<1>1. CASE step' # "error"
  BY <1>1 DEF Alone, Decided, Good, NoFalseAlarm
<1>2. CASE step' = "error" /\ ~Abort
  <2>1. ~Quiet
    <3>1. CASE ReadBefore
      BY <1>2, <3>1 DEF ReadBefore, Ended
    <3>2. CASE Quiet /\ ~ReadBefore
      BY <1>2, <3>2, QuietMoves DEF Quiet, Baseline, ReadAfter, Metrics
    <3> QED
      BY <3>1, <3>2
  <2>2. ~Calling
    BY <1>2, CallMoves DEF Calling, Erase, CompletePrompt, Completions, Save, Restore
  <2>5. UNCHANGED slotVars \/ Intrude
    BY <1>2, <2>1, <2>2 DEF SlotNext, SlotRest, Quiet, Calling
  <2>3. CASE UNCHANGED slotVars
    BY <2>3 DEF slotVars, NoFalseAlarm
  <2>4. CASE Intrude
    BY <1>2, <2>4 DEF Intrude, Ended
  <2> QED
    BY <2>5, <2>3, <2>4
<1>3. CASE Abort
  BY <1>3 DEF Abort, NoFalseAlarm
<1> QED
  BY <1>1, <1>2, <1>3

SlotIInv == SlotShape /\ Accepted /\ AllDescribed /\ Gauged /\ Alone /\ NoFalseAlarm

(* The inductive invariant of the harness and the slot.                    *)
THEOREM SlotInvariant == SlotSpec => []SlotIInv
<1>1. SlotInit => SlotIInv
  <2>1. SlotInit => Accepted /\ NoFalseAlarm
    BY DEF SlotInit, Accepted, NoFalseAlarm
  <2> QED
    BY <2>1, ShapeInit, DescribedInit, GaugedInit, AloneInit DEF SlotIInv
<1>2. SlotIInv /\ [SlotNext]_slotVars => SlotIInv'
  BY ShapeStep, AcceptedStep, DescribedStep, GaugedStep, AloneStep, AlarmStep DEF SlotIInv
<1> QED
  BY <1>1, <1>2, PTL DEF SlotSpec

(* Whatever the server does and whoever else uses it: a report that passes *)
(* means that the restored slot answered from the cells of the hot one,    *)
(* every defect of the patch's header fails the harness, and no foreign    *)
(* request within the readings goes unnoticed (state_restore_harness.py).  *)
THEOREM PassesMeanRestored == SlotSpec => []PassMeansRestored
<1>1. SlotIInv => SlotTypeOK
  BY DEF SlotIInv, SlotShape, SlotTypeOK, Held, Content
<1>2. SlotIInv => OkMeansRestored
  BY DEF SlotIInv, Accepted, OkMeansRestored
<1>3. SlotIInv => DefectsCaught
  BY DEF SlotIInv, Alone, Decided, ToTheEnd, Good, DefectsCaught
<1>4. SlotIInv => ForeignNoticed
  BY GaugedNotices DEF SlotIInv
<1>5. SlotIInv => PassMeansRestored
  BY <1>1, <1>2, <1>3, <1>4 DEF PassMeansRestored
<1> QED
  BY <1>5, SlotInvariant, PTL

(* A repaired server that nobody else uses passes every check, whatever it *)
(* generates, and its slots hold what their bookkeeping says.              *)
THEOREM RepairedServersPass == SlotSpec => []RepairedPasses
<1>1. SlotIInv => RepairedPasses
  BY DescribedCells DEF SlotIInv, RepairedPasses
<1> QED
  BY <1>1, SlotInvariant, PTL

(* Whatever the server does, the harness tells repaired servers from the   *)
(* others.                                                                 *)
THEOREM HarnessTellsThemApart == SlotSpec => []HarnessDecides
<1>1. PassMeansRestored /\ RepairedPasses => HarnessDecides
  BY DEF HarnessDecides
<1> QED
  BY <1>1, PassesMeanRestored, RepairedServersPass, PTL

-----------------------------------------------------------------------------
(* The levels of Verdicts.                                                 *)

(* The directory only ever holds the documents that may be filed, or the   *)
(* report of an earlier call.                                              *)
FiledOK == filed \in Seq(Documents)

(* A pass stands only with all its evidence (validate_record).             *)
LEMMA PassesAreBacked ==
    ASSUME NEW doc
    PROVE  LevelVerdict(doc) = "pass"
             <=> doc.verdict = "pass" /\ RequiredEvidence(doc.level) \subseteq doc.evidence
BY DEF LevelVerdict, MissingEvidence

(* A candidate has, on a level, what its only record of that level says.   *)
LEMMA OneRecordPerLevel ==
    ASSUME NEW docs, ~RefusedDocs(docs), NEW c, NEW level
    PROVE  VerdictAt(docs, c, level) = "pass"
             <=> \E i \in DOMAIN docs : /\ docs[i].candidate = c /\ docs[i].level = level
                                        /\ docs[i].verdict = "pass"
                                        /\ RequiredEvidence(level) \subseteq docs[i].evidence
<1> DEFINE found == {i \in DOMAIN docs : docs[i].candidate = c /\ docs[i].level = level}
<1>1. CASE found = {}
  <2>1. VerdictAt(docs, c, level) = "unmeasured"
    BY <1>1 DEF VerdictAt
  <2> QED
    BY <1>1, <2>1
<1>2. ASSUME NEW i \in found
      PROVE  VerdictAt(docs, c, level) = LevelVerdict(docs[i])
  <2>1. \A j \in found : j = i
    BY DEF RefusedDocs
  <2>2. i = CHOOSE j \in found : TRUE
    BY <2>1
  <2>3. found # {}
    OBVIOUS
  <2> QED
    BY <2>2, <2>3 DEF VerdictAt
<1>3. ASSUME NEW i \in found
      PROVE  VerdictAt(docs, c, level) = "pass"
               <=> docs[i].verdict = "pass" /\ RequiredEvidence(level) \subseteq docs[i].evidence
  BY <1>2, <1>3, PassesAreBacked
<1>4. \A i, j \in found : i = j
  BY DEF RefusedDocs
<1> QED
  BY <1>1, <1>3, <1>4

(* A verdict on a level is one of the three.                               *)
LEMMA VerdictsAreThree ==
    ASSUME NEW docs, ~RefusedDocs(docs), NEW c, NEW level,
           \A i \in DOMAIN docs : docs[i].valid => docs[i].verdict \in {"pass", "fail", "unmeasured"}
    PROVE  VerdictAt(docs, c, level) \in {"pass", "fail", "unmeasured"}
<1> DEFINE found == {i \in DOMAIN docs : docs[i].candidate = c /\ docs[i].level = level}
<1>1. CASE found = {}
  BY <1>1 DEF VerdictAt
<1>2. CASE found # {}
  <2>1. PICK i \in DOMAIN docs : VerdictAt(docs, c, level) = LevelVerdict(docs[i])
    <3>1. (CHOOSE i \in found : TRUE) \in found
      BY <1>2
    <3> QED
      BY <1>2, <3>1 DEF VerdictAt
  <2>2. docs[i].valid
    BY DEF RefusedDocs
  <2> QED
    BY <2>1, <2>2 DEF LevelVerdict
<1> QED
  BY <1>1, <1>2

(* The fields of an assessment.                                            *)
LEMMA AssessmentFields ==
    ASSUME NEW docs, NEW c
    PROVE  LET at == [level \in DOMAIN Required |-> VerdictAt(docs, c, level)]
           IN  /\ Assessment(docs, c).promotable = (Worst(Range(at)) = "pass")
               /\ Assessment(docs, c).eligible = EligibleOf(docs, c)
<1> DEFINE at == [level \in DOMAIN Required |-> VerdictAt(docs, c, level)]
           fails == {level \in DOMAIN at : at[level] = "fail"}
           holes == {level \in DOMAIN at : at[level] = "unmeasured"}
<1>1. Assessment(docs, c) =
        [levels |-> at, failed |-> fails, unmeasured |-> holes, verdict |-> Worst(Range(at)),
         promotable |-> Worst(Range(at)) = "pass", eligible |-> EligibleOf(docs, c)]
  BY Zenon DEF Assessment
<1> HIDE DEF at, fails, holes
<1>2. Assessment(docs, c).promotable = (Worst(Range(at)) = "pass")
  BY <1>1
<1>3. Assessment(docs, c).eligible = EligibleOf(docs, c)
  BY <1>1
<1> USE DEF at
<1> QED
  BY <1>2, <1>3

(* The worst of the verdicts on the levels is "pass" when each of them is. *)
LEMMA WorstIsPass ==
    ASSUME NEW at, \A level \in DOMAIN at : at[level] \in {"pass", "fail", "unmeasured"}
    PROVE  Worst(Range(at)) = "pass" <=> \A level \in DOMAIN at : at[level] = "pass"
<1>1. \A v : v \in Range(at) <=> \E level \in DOMAIN at : v = at[level]
  BY DEF Range
<1> QED
  BY <1>1 DEF Worst

(* Stages file documents and calls add reports: nothing else appears.      *)
LEMMA DocumentsStay ==
    ASSUME FiledOK, [LevelNext]_levelVars
    PROVE  FiledOK'
<1>1. ReportDocument \in Documents /\ LevelRecords \subseteq Documents
  BY DEF Documents
<1>2. CASE FileRecord
  BY <1>1, <1>2 DEF FileRecord, FiledOK
<1>3. CASE RunLevels
  BY <1>1, <1>3 DEF RunLevels, FiledOK
<1>4. CASE UNCHANGED levelVars
  BY <1>4 DEF levelVars, FiledOK
<1> QED
  BY <1>2, <1>3, <1>4 DEF LevelNext

(* In whatever order the stages file their records and the report is asked *)
(* for: every promotable or eligible candidate has a passing record with   *)
(* all evidence on each of its levels (assess and quality_frontier_eligible*)
(* of validate_levels.py).                                                 *)
THEOREM VerdictsAreBacked == LevelSpec => []NoEvidenceNoPass
<1>1. LevelInit => FiledOK
  BY DocumentsAssumption DEF LevelInit, FiledOK
<1>2. FiledOK /\ [LevelNext]_levelVars => FiledOK'
  BY DocumentsStay
<1>3. FiledOK => NoEvidenceNoPass
  <2> SUFFICES ASSUME FiledOK, ~RefusedDocs(filed), NEW c \in Candidates(filed)
               PROVE  LET backed(level) == \E i \in DOMAIN filed :
                            /\ filed[i].candidate = c /\ filed[i].level = level
                            /\ filed[i].verdict = "pass"
                            /\ RequiredEvidence(level) \subseteq filed[i].evidence
                      IN  /\ Report(filed)[c].promotable <=> \A level \in DOMAIN Required : backed(level)
                          /\ Report(filed)[c].eligible <=> \A level \in QualityLevels : backed(level)
    BY DEF NoEvidenceNoPass
  <2> DEFINE backed(level) == \E i \in DOMAIN filed :
                                /\ filed[i].candidate = c /\ filed[i].level = level
                                /\ filed[i].verdict = "pass"
                                /\ RequiredEvidence(level) \subseteq filed[i].evidence
             at == [level \in DOMAIN Required |-> VerdictAt(filed, c, level)]
  <2>1. \A i \in DOMAIN filed : filed[i].valid => filed[i].verdict \in {"pass", "fail", "unmeasured"}
    BY DocumentsAssumption DEF FiledOK
  <2>2. \A level : VerdictAt(filed, c, level) = "pass" <=> backed(level)
    BY OneRecordPerLevel
  <2>3. \A level : VerdictAt(filed, c, level) \in {"pass", "fail", "unmeasured"}
    BY <2>1, VerdictsAreThree
  <2>4. Report(filed)[c] = Assessment(filed, c)
    BY DEF Report
  <2>5. Report(filed)[c].promotable <=> Worst(Range(at)) = "pass"
    BY <2>4, AssessmentFields
  <2>6. Worst(Range(at)) = "pass" <=> \A level \in DOMAIN Required : at[level] = "pass"
    <3>1. DOMAIN at = DOMAIN Required /\ \A level \in DOMAIN at : at[level] \in {"pass", "fail", "unmeasured"}
      BY <2>3
    <3> HIDE DEF at
    <3> QED
      BY <3>1, WorstIsPass
  <2>7. Report(filed)[c].eligible <=> \A level \in QualityLevels : VerdictAt(filed, c, level) = "pass"
    BY <2>4, AssessmentFields DEF EligibleOf
  <2>8. \A level \in DOMAIN Required : at[level] = "pass" <=> backed(level)
    BY <2>2
  <2>9. \A level \in QualityLevels : VerdictAt(filed, c, level) = "pass" <=> backed(level)
    BY <2>2
  <2>10. Report(filed)[c].promotable <=> \A level \in DOMAIN Required : backed(level)
    <3> HIDE DEF at, backed
    <3> QED
      BY <2>5, <2>6, <2>8
  <2>11. Report(filed)[c].eligible <=> \A level \in QualityLevels : backed(level)
    <3> HIDE DEF backed
    <3> QED
      BY <2>7, <2>9
  <2> QED
    BY <2>10, <2>11
<1> QED
  BY <1>1, <1>2, <1>3, PTL DEF LevelSpec

-----------------------------------------------------------------------------
(* The gates: a record and thresholds keep their types, whatever is        *)
(* measured and configured.                                                *)
GateTyped == record \in Evidence /\ config \in Thresholds

LEMMA GateTypes == GateSpec => []GateTyped
<1>1. GateInit => GateTyped
  BY EvidenceAssumption DEF GateInit, GateTyped
<1>2. GateTyped /\ [GateNext]_gateVars => GateTyped'
  <2> SUFFICES ASSUME GateTyped, [GateNext]_gateVars PROVE GateTyped'
    OBVIOUS
  <2>1. CASE Measure
    <3>1. config' = config
      BY <2>1 DEF Measure
    <3>2. CASE record' = [record EXCEPT !.measured = TRUE]
      BY <3>1, <3>2 DEF GateTyped, Evidence
    <3>3. ASSUME NEW m \in Measurements, NEW v \in Values, record' = [record EXCEPT !.metrics[m] = v]
          PROVE  GateTyped'
      <4>1. v \in Int
        BY EvidenceAssumption
      <4> QED
        BY <3>1, <3>3, <4>1 DEF GateTyped, Evidence
    <3>4. ASSUME NEW f \in Flags, NEW b \in BOOLEAN, record' = [record EXCEPT !.flags[f] = b]
          PROVE  GateTyped'
      BY <3>1, <3>4 DEF GateTyped, Evidence
    <3> QED
      BY <2>1, <3>2, <3>3, <3>4 DEF Measure
  <2>2. CASE Configure
    BY <2>2 DEF Configure, GateTyped
  <2>3. CASE RunGates \/ UNCHANGED gateVars
    BY <2>3 DEF RunGates, gateVars, GateTyped
  <2> QED
    BY <2>1, <2>2, <2>3 DEF GateNext
<1> QED
  BY <1>1, <1>2, PTL DEF GateSpec

(* What makes a gate fail, and what makes it pass.                         *)
Short(r, th, m) == r.metrics[m] # None /\ ~(r.metrics[m] >= th.floor[m])
Reached(r, th, m) == r.metrics[m] # None /\ r.metrics[m] >= th.floor[m]
Misfit(r, th) == r.metrics["resident_weight_bytes"] # None /\ ~InBand(th, r.metrics["resident_weight_bytes"])
Fitting(r, th) == r.metrics["resident_weight_bytes"] # None /\ InBand(th, r.metrics["resident_weight_bytes"])

(* The verdict of the gates, over all of them.                             *)
LEMMA GatesJudge ==
    ASSUME NEW r \in Evidence, NEW th \in Thresholds,
           r.measured, ValidThresholds(th), ValidMetrics(r.metrics)
    PROVE  /\ CheckGates(r, th) = "fail" <=>
                \/ \E m \in Floored : Short(r, th, m)
                \/ Misfit(r, th)
                \/ \E f \in Flags : r.flags[f] = FALSE
           /\ CheckGates(r, th) = "pass" <=>
                /\ \A m \in Floored : Reached(r, th, m)
                /\ Fitting(r, th)
                /\ \A f \in Flags : r.flags[f] = TRUE
<1> DEFINE all == FloorVerdicts(r, th) \cup {WeightVerdict(r, th)} \cup FlagVerdicts(r)
           floorOf(m) == Judged(r.metrics[m], r.metrics[m] # None /\ r.metrics[m] >= th.floor[m])
           flagOf(f) == Judged(r.flags[f], r.flags[f] = TRUE)
<1>1. CheckGates(r, th) = Worst(all)
  BY DEF CheckGates
<1>2. \A v : v \in all <=> \/ \E m \in Floored : v = floorOf(m)
                           \/ v = WeightVerdict(r, th)
                           \/ \E f \in Flags : v = flagOf(f)
  BY DEF FloorVerdicts, FlagVerdicts
<1>3. \A m \in Floored : /\ floorOf(m) \in {"pass", "fail", "unmeasured"}
                         /\ floorOf(m) = "fail" <=> Short(r, th, m)
                         /\ floorOf(m) = "pass" <=> Reached(r, th, m)
  BY DEF Judged, Short, Reached
<1>4. /\ WeightVerdict(r, th) \in {"pass", "fail", "unmeasured"}
      /\ WeightVerdict(r, th) = "fail" <=> Misfit(r, th)
      /\ WeightVerdict(r, th) = "pass" <=> Fitting(r, th)
  BY DEF WeightVerdict, Judged, Misfit, Fitting
<1>5. \A f \in Flags : /\ flagOf(f) \in {"pass", "fail", "unmeasured"}
                       /\ flagOf(f) = "fail" <=> r.flags[f] = FALSE
                       /\ flagOf(f) = "pass" <=> r.flags[f] = TRUE
  <2>1. \A f \in Flags : r.flags[f] \in {TRUE, FALSE, None}
    BY DEF Evidence
  <2> QED
    BY <2>1, EvidenceAssumption DEF Judged
<1> HIDE DEF all, floorOf, flagOf
<1>6. Worst(all) = "fail" <=> "fail" \in all
  BY DEF Worst
<1>7. Worst(all) = "pass" <=> "fail" \notin all /\ "unmeasured" \notin all
  BY DEF Worst
<1>8. "fail" \notin all /\ "unmeasured" \notin all <=>
        /\ \A m \in Floored : floorOf(m) = "pass"
        /\ WeightVerdict(r, th) = "pass"
        /\ \A f \in Flags : flagOf(f) = "pass"
  BY <1>2, <1>3, <1>4, <1>5
<1>9. "fail" \in all <=> \/ \E m \in Floored : floorOf(m) = "fail"
                         \/ WeightVerdict(r, th) = "fail"
                         \/ \E f \in Flags : flagOf(f) = "fail"
  BY <1>2
<1> QED
  BY <1>1, <1>3, <1>4, <1>5, <1>6, <1>7, <1>8, <1>9

(* A record whose holes are filled: what was there stays.                  *)
LEMMA FilledIs ==
    ASSUME NEW r \in Evidence,
           NEW ms \in [Holes(r.metrics) -> {v \in Values : v >= 0}],
           NEW fs \in [Holes(r.flags) -> BOOLEAN]
    PROVE  /\ Fill(r, ms, fs) \in Evidence /\ Fill(r, ms, fs).measured = r.measured
           /\ \A m \in Measurements :
                Fill(r, ms, fs).metrics[m] = IF r.metrics[m] = None THEN ms[m] ELSE r.metrics[m]
           /\ \A f \in Flags : Fill(r, ms, fs).flags[f] = IF r.flags[f] = None THEN fs[f] ELSE r.flags[f]
           /\ ValidMetrics(r.metrics) => ValidMetrics(Fill(r, ms, fs).metrics)
<1> DEFINE metrics == Filled(r.metrics, ms)
           flags == Filled(r.flags, fs)
<1>1. DOMAIN r.metrics = Measurements /\ DOMAIN r.flags = Flags
  BY DEF Evidence
<1>2. metrics = [m \in Measurements |-> IF r.metrics[m] = None THEN ms[m] ELSE r.metrics[m]]
  BY <1>1 DEF Filled
<1>3. flags = [f \in Flags |-> IF r.flags[f] = None THEN fs[f] ELSE r.flags[f]]
  BY <1>1 DEF Filled
<1>4. \A m \in Measurements : r.metrics[m] = None => ms[m] \in Int /\ ms[m] >= 0
  BY <1>1, EvidenceAssumption DEF Holes
<1>5. \A f \in Flags : r.flags[f] = None => fs[f] \in BOOLEAN
  BY <1>1 DEF Holes
<1>6. metrics \in [Measurements -> Int \cup {None}]
  BY <1>2, <1>4 DEF Evidence
<1>7. flags \in [Flags -> BOOLEAN \cup {None}]
  BY <1>3, <1>5 DEF Evidence
<1>8. Fill(r, ms, fs) = [r EXCEPT !.metrics = metrics, !.flags = flags]
  BY DEF Fill
<1>9. ValidMetrics(r.metrics) => ValidMetrics(metrics)
  BY <1>2, <1>4 DEF ValidMetrics
<1> HIDE DEF metrics, flags
<1>10. /\ Fill(r, ms, fs) \in Evidence /\ Fill(r, ms, fs).measured = r.measured
       /\ Fill(r, ms, fs).metrics = metrics /\ Fill(r, ms, fs).flags = flags
  BY <1>6, <1>7, <1>8 DEF Evidence
<1> QED
  BY <1>2, <1>3, <1>9, <1>10

(* Whatever is measured and configured, in whatever order: the gates say   *)
(* "fail" exactly when no way of filling the holes would pass, and "pass"  *)
(* only of a record without holes (check_gates of gates.py).               *)
THEOREM VerdictsAreHonest == GateSpec => []VerdictIsHonest
<1>1. GateTyped => VerdictIsHonest
  <2> SUFFICES ASSUME GateTyped, record.measured, ValidThresholds(config), ValidMetrics(record.metrics)
               PROVE  /\ (CheckGates(record, config) = "fail") <=>
                           ~ \E ms \in [Holes(record.metrics) -> {v \in Values : v >= 0}],
                                fs \in [Holes(record.flags) -> BOOLEAN] :
                               CheckGates(Fill(record, ms, fs), config) = "pass"
                      /\ CheckGates(record, config) = "pass" =>
                           None \notin Range(record.metrics) /\ None \notin Range(record.flags)
    BY DEF VerdictIsHonest
  <2>1. record \in Evidence /\ config \in Thresholds
    BY DEF GateTyped
  <2>2. ASSUME NEW ms \in [Holes(record.metrics) -> {v \in Values : v >= 0}],
               NEW fs \in [Holes(record.flags) -> BOOLEAN],
               CheckGates(Fill(record, ms, fs), config) = "pass"
        PROVE  CheckGates(record, config) # "fail"
    <3> DEFINE r == Fill(record, ms, fs)
    <3>1. /\ r \in Evidence /\ r.measured /\ ValidMetrics(r.metrics)
          /\ \A m \in Measurements : record.metrics[m] # None => r.metrics[m] = record.metrics[m]
          /\ \A f \in Flags : record.flags[f] # None => r.flags[f] = record.flags[f]
      BY <2>1, FilledIs
    <3> HIDE DEF r
    <3>2. /\ \A m \in Floored : Reached(r, config, m)
          /\ Fitting(r, config)
          /\ \A f \in Flags : r.flags[f] = TRUE
      BY <2>1, <2>2, <3>1, GatesJudge DEF r
    <3>3. \A m \in Floored : ~Short(record, config, m)
      BY <3>1, <3>2 DEF Reached, Short, Measurements
    <3>4. ~Misfit(record, config)
      BY <3>1, <3>2 DEF Fitting, Misfit, Measurements
    <3>5. \A f \in Flags : record.flags[f] # FALSE
      BY <3>1, <3>2, EvidenceAssumption
    <3> QED
      BY <2>1, <3>3, <3>4, <3>5, GatesJudge
  <2>3. ASSUME CheckGates(record, config) # "fail"
        PROVE  \E ms \in [Holes(record.metrics) -> {v \in Values : v >= 0}],
                  fs \in [Holes(record.flags) -> BOOLEAN] :
                 CheckGates(Fill(record, ms, fs), config) = "pass"
    <3> DEFINE good(m) == CHOOSE v \in Values :
                            IF m \in Floored THEN v >= config.floor[m] ELSE InBand(config, v)
               ms == [m \in Holes(record.metrics) |-> good(m)]
               fs == [f \in Holes(record.flags) |-> TRUE]
               r == Fill(record, ms, fs)
    <3>1. config.floor \in [Floored -> Int] /\ config.min \in Int /\ config.min >= 0
          /\ \A m \in Floored : config.floor[m] >= 0
      BY <2>1, EvidenceAssumption DEF ValidThresholds
    <3>2. \A m \in Measurements : /\ good(m) \in Values
                                  /\ m \in Floored => good(m) >= config.floor[m]
                                  /\ m \notin Floored => InBand(config, good(m))
      BY <2>1, ThresholdsAssumption
    <3>3. \A m \in Measurements : good(m) \in Int /\ good(m) >= 0
      <4> HIDE DEF good
      <4>1. \A m \in Measurements : good(m) \in Int
        BY <3>2, EvidenceAssumption
      <4> QED
        BY <3>1, <3>2, <4>1 DEF InBand
    <3> HIDE DEF good
    <3>4. ms \in [Holes(record.metrics) -> {v \in Values : v >= 0}]
      BY <2>1, <3>2, <3>3 DEF Holes, Evidence
    <3>5. fs \in [Holes(record.flags) -> BOOLEAN]
      OBVIOUS
    <3>6. \A m \in Measurements : record.metrics[m] = None => ms[m] = good(m)
      BY <2>1 DEF Holes, Evidence
    <3>7. \A f \in Flags : record.flags[f] = None => fs[f] = TRUE
      BY <2>1 DEF Holes, Evidence
    <3> HIDE DEF ms, fs
    <3>8. /\ r \in Evidence /\ r.measured /\ ValidMetrics(r.metrics)
          /\ \A m \in Measurements : r.metrics[m] = IF record.metrics[m] = None THEN good(m)
                                                    ELSE record.metrics[m]
          /\ \A f \in Flags : r.flags[f] = IF record.flags[f] = None THEN TRUE ELSE record.flags[f]
      BY <2>1, <3>4, <3>5, <3>6, <3>7, FilledIs
    <3> HIDE DEF r
    <3>9. /\ \A m \in Floored : ~Short(record, config, m)
          /\ ~Misfit(record, config)
          /\ \A f \in Flags : record.flags[f] # FALSE
      BY <2>1, <2>3, GatesJudge
    <3>10. \A m \in Floored : Reached(r, config, m)
      BY <3>2, <3>3, <3>8, <3>9, EvidenceAssumption DEF Reached, Short, Measurements
    <3>11. Fitting(r, config)
      BY <3>2, <3>3, <3>8, <3>9, EvidenceAssumption DEF Fitting, Misfit, Measurements
    <3>12. \A f \in Flags : r.flags[f] = TRUE
      BY <2>1, <3>8, <3>9 DEF Evidence
    <3>13. CheckGates(r, config) = "pass"
      BY <2>1, <3>8, <3>10, <3>11, <3>12, GatesJudge
    <3> QED
      BY <3>4, <3>5, <3>13 DEF r
  <2>4. ASSUME CheckGates(record, config) = "pass"
        PROVE  None \notin Range(record.metrics) /\ None \notin Range(record.flags)
    <3>1. \A m \in Measurements : record.metrics[m] # None
      BY <2>1, <2>4, GatesJudge DEF Reached, Fitting, Measurements
    <3>2. \A f \in Flags : record.flags[f] # None
      BY <2>1, <2>4, GatesJudge, EvidenceAssumption
    <3> QED
      BY <2>1, <3>1, <3>2 DEF Range, Evidence
  <2> QED
    BY <2>2, <2>3, <2>4
<1> QED
  BY <1>1, GateTypes, PTL

-----------------------------------------------------------------------------
(* The levels: a verdict follows from the documents of its candidate and   *)
(* level, whatever their order and whatever else is in the directory.      *)
OnePerLevel(docs) ==
    \A i, j \in DOMAIN docs :
      docs[i].candidate = docs[j].candidate /\ docs[i].level = docs[j].level => i = j
SameDocs(docs, other, c, level) ==
    /\ \A i \in DOMAIN docs : docs[i].candidate = c /\ docs[i].level = level =>
         \E j \in DOMAIN other : other[j] = docs[i]
    /\ \A j \in DOMAIN other : other[j].candidate = c /\ other[j].level = level =>
         \E i \in DOMAIN docs : docs[i] = other[j]

LEMMA SameVerdict ==
    ASSUME NEW docs, NEW other, NEW c, NEW level,
           OnePerLevel(docs), OnePerLevel(other), SameDocs(docs, other, c, level)
    PROVE  VerdictAt(docs, c, level) = VerdictAt(other, c, level)
<1> DEFINE here == {i \in DOMAIN docs : docs[i].candidate = c /\ docs[i].level = level}
           there == {i \in DOMAIN other : other[i].candidate = c /\ other[i].level = level}
<1>1. CASE here = {}
  <2>1. there = {}
    BY <1>1 DEF SameDocs
  <2> QED
    BY <1>1, <2>1 DEF VerdictAt
<1>2. CASE here # {}
  <2>1. PICK i \in here : TRUE
    BY <1>2
  <2>2. PICK j \in DOMAIN other : other[j] = docs[i]
    BY <2>1 DEF SameDocs
  <2>3. j \in there
    BY <2>1, <2>2
  <2>4. (CHOOSE x \in here : TRUE) = i
    BY <2>1 DEF OnePerLevel
  <2>5. (CHOOSE x \in there : TRUE) = j
    BY <2>3 DEF OnePerLevel
  <2>6. VerdictAt(docs, c, level) = LevelVerdict(docs[i])
    BY <1>2, <2>4, Zenon DEF VerdictAt
  <2>7. VerdictAt(other, c, level) = LevelVerdict(other[j])
    BY <2>3, <2>5, Zenon DEF VerdictAt
  <2> QED
    BY <2>2, <2>6, <2>7
<1> QED
  BY <1>1, <1>2

(* So does the whole assessment of a candidate.                            *)
LEMMA SameAssessment ==
    ASSUME NEW docs, NEW other, NEW c, OnePerLevel(docs), OnePerLevel(other),
           \A level : SameDocs(docs, other, c, level)
    PROVE  Assessment(docs, c) = Assessment(other, c)
<1>1. \A level : VerdictAt(docs, c, level) = VerdictAt(other, c, level)
  BY SameVerdict
<1>2. [level \in DOMAIN Required |-> VerdictAt(docs, c, level)]
        = [level \in DOMAIN Required |-> VerdictAt(other, c, level)]
  BY <1>1
<1>3. EligibleOf(docs, c) = EligibleOf(other, c)
  <2>1. EligibleOf(docs, c) <=> EligibleOf(other, c)
    BY <1>1 DEF EligibleOf
  <2> QED
    BY <2>1 DEF EligibleOf
<1> QED
  BY <1>2, <1>3, Zenon DEF Assessment

(* The same documents in another order: b says which is where.             *)
LEMMA Reordered ==
    ASSUME NEW docs, NEW other, NEW b \in [DOMAIN other -> DOMAIN docs],
           \A i \in DOMAIN other : other[i] = docs[b[i]],
           \A i, j \in DOMAIN other : b[i] = b[j] => i = j,
           \A k \in DOMAIN docs : \E i \in DOMAIN other : b[i] = k,
           docs = <<>> <=> other = <<>>
    PROVE  /\ RefusedDocs(docs) <=> RefusedDocs(other)
           /\ ~RefusedDocs(docs) => Report(docs) = Report(other)
<1>1. RefusedDocs(docs) <=> RefusedDocs(other)
  <2>1. (\E i \in DOMAIN docs : ~docs[i].valid) <=> (\E i \in DOMAIN other : ~other[i].valid)
    OBVIOUS
  <2>2. (\E i, j \in DOMAIN docs : i # j /\ docs[i].candidate = docs[j].candidate
                                         /\ docs[i].level = docs[j].level)
          <=> (\E i, j \in DOMAIN other : i # j /\ other[i].candidate = other[j].candidate
                                                /\ other[i].level = other[j].level)
    OBVIOUS
  <2> QED
    BY <2>1, <2>2 DEF RefusedDocs
<1>2. ASSUME ~RefusedDocs(docs) PROVE Report(docs) = Report(other)
  <2>1. OnePerLevel(docs) /\ OnePerLevel(other)
    BY <1>1, <1>2 DEF RefusedDocs, OnePerLevel
  <2>2. \A c, level : SameDocs(docs, other, c, level)
    BY DEF SameDocs
  <2>3. \A c : Assessment(docs, c) = Assessment(other, c)
    BY <2>1, <2>2, SameAssessment
  <2>4. Candidates(docs) = Candidates(other)
    BY DEF Candidates
  <2> QED
    BY <2>3, <2>4 DEF Report
<1> QED
  BY <1>1, <1>2

(* The level-7 records of a directory decide nothing but deployment.       *)
LEMMA RuntimeIsApart == RuntimeApart
<1> DEFINE quality == Restrict(filed, {i \in DOMAIN filed : filed[i].level # 7})
<1> SUFFICES ASSUME ~RefusedDocs(filed), NEW c \in Candidates(quality)
             PROVE  Report(quality)[c].eligible = Report(filed)[c].eligible
  BY DEF RuntimeApart
<1>1. /\ DOMAIN quality = {i \in DOMAIN filed : filed[i].level # 7}
      /\ \A i \in DOMAIN quality : quality[i] = filed[i]
  BY DEF Restrict
<1> HIDE DEF quality
<1>2. OnePerLevel(filed)
  BY DEF RefusedDocs, OnePerLevel
<1>3. OnePerLevel(quality)
  BY <1>1, <1>2 DEF OnePerLevel
<1>4. \A level \in QualityLevels : SameDocs(quality, filed, c, level)
  BY <1>1 DEF SameDocs, QualityLevels
<1>5. \A level \in QualityLevels : VerdictAt(quality, c, level) = VerdictAt(filed, c, level)
  BY <1>2, <1>3, <1>4, SameVerdict
<1>6. EligibleOf(quality, c) <=> EligibleOf(filed, c)
  BY <1>5 DEF EligibleOf
<1>7. EligibleOf(quality, c) = EligibleOf(filed, c)
  BY <1>6 DEF EligibleOf
<1>8. c \in Candidates(filed)
  BY <1>1 DEF Candidates
<1>9. Report(quality)[c] = Assessment(quality, c) /\ Report(filed)[c] = Assessment(filed, c)
  BY <1>8 DEF Report
<1> QED
  BY <1>7, <1>9, AssessmentFields

(* No order of the files matters, and no document of another candidate.    *)
LEMMA FilesAreUnordered == ASSUME FiledOK PROVE FilesUnordered
<1> DEFINE back == Reverse(filed)
           b == [i \in 1 .. Len(filed) |-> Len(filed) - i + 1]
<1>1. Len(filed) \in Nat /\ DOMAIN filed = 1 .. Len(filed)
  BY DEF FiledOK
<1>2. back = [i \in 1 .. Len(filed) |-> filed[Len(filed) - i + 1]]
  BY DEF Reverse
<1>3. DOMAIN back = 1 .. Len(filed) /\ \A i \in DOMAIN back : back[i] = filed[b[i]]
  BY <1>1, <1>2
<1>4. /\ b \in [DOMAIN back -> DOMAIN filed]
      /\ \A i, j \in DOMAIN back : b[i] = b[j] => i = j
      /\ \A k \in DOMAIN filed : \E i \in DOMAIN back : b[i] = k
  <2>1. b \in [DOMAIN back -> DOMAIN filed]
    BY <1>1, <1>3
  <2>2. \A i, j \in DOMAIN back : b[i] = b[j] => i = j
    BY <1>1, <1>3
  <2>3. \A k \in DOMAIN filed : Len(filed) - k + 1 \in DOMAIN back /\ b[Len(filed) - k + 1] = k
    BY <1>1, <1>3
  <2> QED
    BY <2>1, <2>2, <2>3
<1>5. filed = <<>> <=> back = <<>>
  <2>1. filed = <<>> <=> Len(filed) = 0
    BY EmptySeq DEF FiledOK
  <2>2. back \in Seq(Documents) /\ Len(back) = Len(filed)
    BY <1>1, <1>2, <1>3, <1>4 DEF FiledOK
  <2>3. back = <<>> <=> Len(back) = 0
    BY <2>2, EmptySeq
  <2> QED
    BY <2>1, <2>2, <2>3
<1> HIDE DEF back, b
<1>6. /\ RefusedDocs(filed) <=> RefusedDocs(back)
      /\ ~RefusedDocs(filed) => Report(filed) = Report(back)
  BY <1>3, <1>4, <1>5, Reordered
<1>7. Candidates(filed) = Candidates(back)
  BY <1>3, <1>4 DEF Candidates
<1>8. ReportExit(back) = ReportExit(filed)
  <2>1. CASE RefusedDocs(filed)
    BY <1>6, <2>1 DEF ReportExit
  <2>2. CASE ~RefusedDocs(filed)
    BY <1>6, <1>7, <2>2 DEF ReportExit
  <2> QED
    BY <2>1, <2>2
<1>9. ASSUME ~RefusedDocs(filed), NEW c \in Candidates(filed)
      PROVE  LET own == Restrict(filed, {i \in DOMAIN filed : filed[i].candidate = c})
             IN  Report(own)[c] = Report(filed)[c]
  <2> DEFINE own == Restrict(filed, {i \in DOMAIN filed : filed[i].candidate = c})
  <2>1. /\ DOMAIN own = {i \in DOMAIN filed : filed[i].candidate = c}
        /\ \A i \in DOMAIN own : own[i] = filed[i]
    BY DEF Restrict
  <2> HIDE DEF own
  <2>2. OnePerLevel(filed)
    BY <1>9 DEF RefusedDocs, OnePerLevel
  <2>3. OnePerLevel(own)
    BY <2>1, <2>2 DEF OnePerLevel
  <2>4. \A level : SameDocs(own, filed, c, level)
    BY <2>1 DEF SameDocs
  <2>5. Assessment(own, c) = Assessment(filed, c)
    BY <2>2, <2>3, <2>4, SameAssessment
  <2>6. c \in Candidates(own)
    BY <1>9, <2>1 DEF Candidates
  <2>7. Report(own)[c] = Report(filed)[c]
    BY <1>9, <2>5, <2>6 DEF Report
  <2> QED
    BY <2>7 DEF own
<1> QED
  BY <1>6, <1>8, <1>9 DEF FilesUnordered, back

(* Whatever is filed and reported, in whatever order: records of level 7   *)
(* leave the quality frontier alone, and the assessment of a candidate     *)
(* depends on its own records and on no order (assemble_report).           *)
THEOREM RecordsSpeakForThemselves == LevelSpec => []RecordsIndependent
<1>1. LevelInit => FiledOK
  BY DocumentsAssumption DEF LevelInit, FiledOK
<1>2. FiledOK /\ [LevelNext]_levelVars => FiledOK'
  BY DocumentsStay
<1>3. FiledOK => RecordsIndependent
  BY RuntimeIsApart, FilesAreUnordered DEF RecordsIndependent
<1> QED
  BY <1>1, <1>2, <1>3, PTL DEF LevelSpec

(* Whatever is filed, every verdict of a report is backed by records of    *)
(* its own candidate and level.                                            *)
THEOREM LevelsAreBacked == LevelSpec => []LevelsBacked
<1>1. NoEvidenceNoPass /\ RecordsIndependent => LevelsBacked
  BY DEF LevelsBacked
<1> QED
  BY <1>1, VerdictsAreBacked, RecordsSpeakForThemselves, PTL
-----------------------------------------------------------------------------
(* Tool sessions: the order of the turns.                                  *)

Listed(gens) == gens \in Seq(Generations)

(* Places are numbers, and "before" is a strict total order of positions.  *)
LEMMA BeforeOrders ==
  ASSUME NEW gens, Listed(gens)
  PROVE  /\ Len(gens) \in Nat /\ DOMAIN gens = 1 .. Len(gens)
         /\ \A i \in DOMAIN gens : Place(gens, i) \in Int /\ gens[i] \in Generations
         /\ \A i \in DOMAIN gens : ~Before(gens, i, i)
         /\ \A i, j \in DOMAIN gens : i # j => Before(gens, i, j) \/ Before(gens, j, i)
         /\ \A i, j, k \in DOMAIN gens :
              Before(gens, i, j) /\ Before(gens, j, k) => Before(gens, i, k)
<1>1. Len(gens) \in Nat /\ DOMAIN gens = 1 .. Len(gens)
  BY LenProperties DEF Listed
<1>2. \A i \in DOMAIN gens : gens[i] \in Generations
  BY <1>1, ElementOfSeq DEF Listed
<1>3. \A i \in DOMAIN gens : Place(gens, i) \in Int
  BY <1>1, <1>2, GenerationsAssumption DEF Place
<1>4. \A i, j \in DOMAIN gens :
        /\ i \in Int /\ j \in Int /\ Place(gens, i) \in Int /\ Place(gens, j) \in Int
        /\ Before(gens, i, j) <=> (\/ Place(gens, i) < Place(gens, j)
                                  \/ (Place(gens, i) = Place(gens, j) /\ i < j))
  BY <1>1, <1>3 DEF Before
<1>5. \A i \in DOMAIN gens : ~Before(gens, i, i)
  BY <1>4
<1>6. \A i, j \in DOMAIN gens : i # j => Before(gens, i, j) \/ Before(gens, j, i)
  <2> TAKE i, j \in DOMAIN gens
  <2>1. PICK p \in Int, q \in Int : p = Place(gens, i) /\ q = Place(gens, j)
    BY <1>3
  <2>2. /\ Before(gens, i, j) <=> p < q \/ (p = q /\ i < j)
        /\ Before(gens, j, i) <=> q < p \/ (q = p /\ j < i)
    BY <2>1 DEF Before
  <2>3. i \in Int /\ j \in Int
    BY <1>1
  <2> QED
    BY <2>2, <2>3
<1>7. \A i, j, k \in DOMAIN gens : Before(gens, i, j) /\ Before(gens, j, k) => Before(gens, i, k)
  BY <1>4
<1> QED
  BY <1>1, <1>2, <1>3, <1>5, <1>6, <1>7

Ahead(gens, i) == {j \in DOMAIN gens : Before(gens, j, i)}

(* Every generation has a rank of its own, and there are as many ranks as  *)
(* generations.                                                            *)
LEMMA RanksOrder ==
  ASSUME NEW gens, Listed(gens)
  PROVE  /\ \A i \in DOMAIN gens : Rank(gens, i) \in DOMAIN gens
         /\ \A i, j \in DOMAIN gens : Rank(gens, i) = Rank(gens, j) => i = j
         /\ \A n \in DOMAIN gens : \E i \in DOMAIN gens : Rank(gens, i) = n
<1> DEFINE L == Len(gens)
           D == DOMAIN gens
<1>1. L \in Nat /\ D = 1 .. L
  BY BeforeOrders
<1>2. IsFiniteSet(D) /\ Cardinality(D) = L
  <2>1. IsFiniteSet(1 .. L) /\ Cardinality(1 .. L) = IF 1 > L THEN 0 ELSE L - 1 + 1
    BY <1>1, FS_Interval
  <2> QED
    BY <1>1, <2>1
<1>3. ASSUME NEW i \in D
      PROVE  /\ IsFiniteSet(Ahead(gens, i)) /\ Cardinality(Ahead(gens, i)) \in Nat
             /\ i \notin Ahead(gens, i) /\ Ahead(gens, i) \subseteq D
             /\ Rank(gens, i) = 1 + Cardinality(Ahead(gens, i))
  <2>1. Ahead(gens, i) \subseteq D
    BY DEF Ahead
  <2>2. IsFiniteSet(Ahead(gens, i))
    BY <1>2, <2>1, FS_Subset
  <2>3. i \notin Ahead(gens, i)
    BY BeforeOrders DEF Ahead
  <2> QED
    BY <2>1, <2>2, <2>3, FS_CardinalityType DEF Rank, Ahead
<1>4. ASSUME NEW i \in D, NEW S, IsFiniteSet(S), Ahead(gens, i) \cup {i} \subseteq S
      PROVE  Cardinality(Ahead(gens, i)) + 1 <= Cardinality(S)
  <2>1. Cardinality(Ahead(gens, i) \cup {i}) = Cardinality(Ahead(gens, i)) + 1
    BY <1>3, FS_AddElement
  <2>2. Cardinality(Ahead(gens, i) \cup {i}) <= Cardinality(S)
    BY <1>4, FS_Subset
  <2> QED
    BY <2>1, <2>2
<1>5. ASSUME NEW i \in D PROVE Rank(gens, i) \in D
  <2>1. Cardinality(Ahead(gens, i)) + 1 <= L
    <3>1. Ahead(gens, i) \cup {i} \subseteq D
      BY <1>3
    <3> QED
      BY <1>2, <1>4, <3>1
  <2>2. Cardinality(Ahead(gens, i)) \in Nat /\ Rank(gens, i) = 1 + Cardinality(Ahead(gens, i))
    BY <1>3
  <2> QED
    BY <1>1, <2>1, <2>2
<1>6. ASSUME NEW i \in D, NEW j \in D, Before(gens, i, j) PROVE Rank(gens, i) # Rank(gens, j)
  <2>1. Ahead(gens, i) \cup {i} \subseteq Ahead(gens, j)
    BY <1>6, BeforeOrders DEF Ahead
  <2>2. Cardinality(Ahead(gens, i)) + 1 <= Cardinality(Ahead(gens, j))
    BY <2>1, <1>3, <1>4
  <2>3. /\ Cardinality(Ahead(gens, i)) \in Nat /\ Rank(gens, i) = 1 + Cardinality(Ahead(gens, i))
        /\ Cardinality(Ahead(gens, j)) \in Nat /\ Rank(gens, j) = 1 + Cardinality(Ahead(gens, j))
    BY <1>3
  <2> QED
    BY <2>2, <2>3
<1>7. \A i, j \in D : Rank(gens, i) = Rank(gens, j) => i = j
  <2> SUFFICES ASSUME NEW i \in D, NEW j \in D, i # j PROVE Rank(gens, i) # Rank(gens, j)
    OBVIOUS
  <2>1. Before(gens, i, j) \/ Before(gens, j, i)
    BY BeforeOrders
  <2> QED
    BY <2>1, <1>6
<1>8. \A n \in D : \E i \in D : Rank(gens, i) = n
  <2> DEFINE f == [i \in D |-> Rank(gens, i)]
  <2>1. f \in Injection(D, D)
    <3>1. f \in [D -> D]
      BY <1>5
    <3>2. \A i, j \in D : f[i] = f[j] => i = j
      BY <1>7
    <3> QED
      BY <3>1, <3>2 DEF Injection, IsInjective
  <2>2. f \in Surjection(D, D)
    <3> HIDE DEF f, D
    <3> QED
      BY <1>2, <2>1, FS_Injection
  <2> QED
    BY <2>2 DEF Surjection
<1> QED
  BY <1>5, <1>7, <1>8

(* The turns are the generations, each once.                               *)
LEMMA TurnsAre ==
  ASSUME NEW gens, Listed(gens)
  PROVE  /\ DOMAIN InTurn(gens) = DOMAIN gens /\ InTurn(gens) \in Seq(Generations)
         /\ Len(InTurn(gens)) = Len(gens)
         /\ \A i \in DOMAIN gens : InTurn(gens)[Rank(gens, i)] = gens[i]
         /\ \A n \in DOMAIN gens : \E i \in DOMAIN gens : Rank(gens, i) = n /\ InTurn(gens)[n] = gens[i]
<1> DEFINE D == DOMAIN gens
           at(n) == CHOOSE i \in D : Rank(gens, i) = n
<1>1. Len(gens) \in Nat /\ D = 1 .. Len(gens) /\ \A i \in D : gens[i] \in Generations
  BY BeforeOrders
<1>2. /\ \A i \in D : Rank(gens, i) \in D
      /\ \A i, j \in D : Rank(gens, i) = Rank(gens, j) => i = j
      /\ \A n \in D : \E i \in D : Rank(gens, i) = n
  BY RanksOrder
<1>3. \A n \in D : at(n) \in D /\ Rank(gens, at(n)) = n
  BY <1>2
<1>4. InTurn(gens) = [n \in D |-> gens[at(n)]]
  BY DEF InTurn
<1> HIDE DEF at
<1>5. InTurn(gens) \in [1 .. Len(gens) -> Generations]
  BY <1>1, <1>3, <1>4
<1>6. InTurn(gens) \in Seq(Generations) /\ Len(InTurn(gens)) = Len(gens)
  BY <1>1, <1>5, IsASeq, LenProperties
<1>7. \A i \in D : InTurn(gens)[Rank(gens, i)] = gens[i]
  BY <1>2, <1>3, <1>4
<1>8. \A n \in D : Rank(gens, at(n)) = n /\ InTurn(gens)[n] = gens[at(n)]
  BY <1>3, <1>4
<1> QED
  BY <1>3, <1>4, <1>6, <1>7, <1>8

Numbers(gens) == {gens[i].sequence : i \in DOMAIN gens}

(* An order of arrival in which every generation has a number of its own   *)
(* and its reverse have the same turns.                                    *)
LEMMA ReversedTurns ==
  ASSUME NEW gens, Listed(gens),
         None \notin Numbers(gens), Cardinality(Numbers(gens)) = Len(gens)
  PROVE  InTurn(Backwards(gens)) = InTurn(gens)
<1> DEFINE rev == Backwards(gens)
<1>0. PICK L \in Nat : L = Len(gens) /\ DOMAIN gens = 1 .. L /\ Cardinality(Numbers(gens)) = L
  BY BeforeOrders
<1> DEFINE D == 1 .. L
           other(i) == L + 1 - i
<1>1. \A i \in D : gens[i] \in Generations /\ gens[i].sequence \in Int
  <2>1. \A i \in D : gens[i].sequence # None
    BY <1>0 DEF Numbers
  <2> QED
    BY <1>0, <2>1, BeforeOrders, GenerationsAssumption
<1>2. \A i \in D : other(i) \in D /\ other(other(i)) = i
  OBVIOUS
<1>3. /\ rev \in Seq(Generations) /\ DOMAIN rev = D /\ Len(rev) = L
      /\ \A i \in D : rev[i] = gens[other(i)]
  <2>1. rev = [i \in 1 .. L |-> gens[other(i)]]
    BY <1>0 DEF Backwards
  <2>2. \A i \in 1 .. L : gens[other(i)] \in Generations
    BY <1>1, <1>2
  <2>3. rev \in [1 .. L -> Generations]
    BY <2>1, <2>2
  <2>4. rev \in Seq(Generations) /\ Len(rev) = L
    BY <1>0, <2>3, IsASeq, LenProperties
  <2> QED
    BY <1>0, <2>1, <2>4
<1>4. \A i, j \in D : gens[i].sequence = gens[j].sequence => i = j
  <2> DEFINE f == [i \in D |-> gens[i].sequence]
  <2>1. IsFiniteSet(D) /\ Cardinality(D) = L
    <3>1. IsFiniteSet(1 .. L) /\ Cardinality(1 .. L) = IF 1 > L THEN 0 ELSE L - 1 + 1
      BY FS_Interval
    <3> QED
      BY <3>1
  <2>2. f \in Surjection(D, Numbers(gens))
    <3>1. f \in [D -> Numbers(gens)] /\ \A t \in Numbers(gens) : \E i \in D : f[i] = t
      BY <1>0 DEF Numbers
    <3> QED
      BY <3>1 DEF Surjection
  <2>3. f \in Injection(D, Numbers(gens))
    <3>1. Cardinality(D) = Cardinality(Numbers(gens))
      BY <1>0, <2>1
    <3> HIDE DEF f, D
    <3> QED
      BY <2>1, <2>2, <3>1, FS_SurjSameCardinalityImpliesInj
  <2> QED
    BY <2>3 DEF Injection, IsInjective
<1>5. ASSUME NEW i \in D PROVE Rank(rev, i) = Rank(gens, other(i))
  <2> DEFINE S == Ahead(rev, i)
             T == Ahead(gens, other(i))
             f == [j \in S |-> other(j)]
  <2>1. \A j \in D : Before(rev, j, i) <=> Before(gens, other(j), other(i))
    <3> TAKE j \in D
    <3>1. /\ Place(rev, i) = gens[other(i)].sequence /\ Place(gens, other(i)) = gens[other(i)].sequence
          /\ Place(rev, j) = gens[other(j)].sequence /\ Place(gens, other(j)) = gens[other(j)].sequence
      <4>1. gens[other(i)].sequence # None /\ gens[other(j)].sequence # None
        BY <1>0, <1>2 DEF Numbers
      <4> QED
        BY <1>0, <1>2, <1>3, <4>1 DEF Place
    <3>2. gens[other(i)].sequence \in Int /\ gens[other(j)].sequence \in Int
      BY <1>1, <1>2
    <3>3. gens[other(i)].sequence = gens[other(j)].sequence => i = j
      BY <1>2, <1>4
    <3>4. other(j) < other(i) <=> i < j
      OBVIOUS
    <3>5. PICK p \in Int, q \in Int : p = gens[other(i)].sequence /\ q = gens[other(j)].sequence
      BY <3>2
    <3>6. /\ Before(rev, j, i) <=> q < p \/ (q = p /\ j < i)
          /\ Before(gens, other(j), other(i)) <=> q < p \/ (q = p /\ other(j) < other(i))
      BY <3>1, <3>5 DEF Before
    <3> QED
      BY <3>3, <3>5, <3>6
  <2>2. S \subseteq D /\ T \subseteq D /\ \A j \in D : j \in S <=> other(j) \in T
    BY <1>0, <1>2, <1>3, <2>1 DEF Ahead
  <2>3. IsFiniteSet(S)
    <3>1. IsFiniteSet(1 .. L)
      BY <1>0, FS_Interval
    <3> QED
      BY <2>2, <3>1, FS_Subset
  <2>4. f \in Bijection(S, T)
    <3>1. f \in [S -> T]
      BY <2>2
    <3>2. \A j, k \in S : f[j] = f[k] => j = k
      <4> TAKE j, k \in S
      <4>1. j \in D /\ k \in D /\ f[j] = other(j) /\ f[k] = other(k)
        BY <2>2
      <4> HIDE DEF f
      <4> QED
        BY <4>1
    <3>3. \A t \in T : \E j \in S : f[j] = t
      <4> TAKE t \in T
      <4>1. other(t) \in S /\ other(other(t)) = t
        BY <1>2, <2>2
      <4> QED
        BY <4>1
    <3> HIDE DEF f, S, T
    <3> QED
      BY <3>1, <3>2, <3>3 DEF Bijection, Injection, IsInjective, Surjection
  <2>5. Cardinality(S) = Cardinality(T)
    <3> HIDE DEF f, S, T
    <3>1. ExistsBijection(S, T)
      BY <2>4 DEF ExistsBijection
    <3> QED
      BY <2>3, <3>1, FS_Bijection
  <2> QED
    BY <2>5 DEF Rank, Ahead
<1>6. ASSUME NEW n \in D PROVE InTurn(rev)[n] = InTurn(gens)[n]
  <2>1. PICK i \in D : Rank(rev, i) = n /\ InTurn(rev)[n] = rev[i]
    <3>1. Listed(rev) /\ DOMAIN rev = D
      BY <1>3 DEF Listed
    <3> HIDE DEF rev
    <3> QED
      BY <3>1, TurnsAre
  <2>2. InTurn(gens)[Rank(gens, other(i))] = gens[other(i)]
    BY <1>0, <1>2, TurnsAre
  <2> QED
    BY <1>3, <1>5, <2>1, <2>2
<1>7. DOMAIN InTurn(rev) = D /\ DOMAIN InTurn(gens) = D
  BY <1>0, <1>3, TurnsAre DEF Listed
<1> QED
  <2>1. InTurn(rev) = [n \in D |-> InTurn(rev)[n]]
    <3>1. DOMAIN rev = D
      BY <1>3
    <3> HIDE DEF rev
    <3> QED
      BY <3>1 DEF InTurn
  <2>2. InTurn(gens) = [n \in D |-> InTurn(gens)[n]]
    BY <1>0 DEF InTurn
  <2> QED
    BY <1>6, <2>1, <2>2

-----------------------------------------------------------------------------
(* Sessions.                                                               *)

LEMMA SessionsAreListed == SessionSpec => []Listed(session)
<1>1. SessionInit => Listed(session)
  BY DEF SessionInit, Listed
<1>2. Listed(session) /\ [SessionNext]_sessionVars => Listed(session)'
  <2> SUFFICES ASSUME Listed(session), [SessionNext]_sessionVars PROVE Listed(session)'
    OBVIOUS
  <2>1. CASE AddGeneration
    BY <2>1, AppendProperties DEF AddGeneration, Listed
  <2>2. CASE UNCHANGED session
    BY <2>2 DEF Listed
  <2> QED
    BY <2>1, <2>2 DEF SessionNext, SessionRest, sessionVars
<1> QED
  BY <1>1, <1>2, PTL DEF SessionSpec

(* When every generation carries a number of its own, the order in which   *)
(* they were recorded does not matter to any metric (score_session).       *)
LEMMA ArrivalIsFree == Listed(session) => ArrivalFree
<1> SUFFICES ASSUME Listed(session), None \notin Numbers(session),
                    Cardinality(Numbers(session)) = Len(session)
             PROVE  Score(Backwards(session)) = Score(session)
  BY DEF ArrivalFree, Numbers
<1>1. InTurn(Backwards(session)) = InTurn(session)
  BY ReversedTurns
<1> QED
  BY <1>1 DEF Score

(* A failed metric fails the session.                                      *)
LEMMA FailureFails ==
  ASSUME NEW gens, Scorable(gens), Score(gens).tool_error_handling.verdict = "fail"
  PROVE  ScorerExit(gens) = 1
<1> DEFINE score == Score(gens)
<1>1. "tool_error_handling" \in DOMAIN score
  BY DEF Score
<1> HIDE DEF score
<1>2. "fail" \in {score[m].verdict : m \in DOMAIN score}
  BY <1>1 DEF score
<1>3. SessionVerdict(score) = "fail"
  BY <1>2 DEF SessionVerdict
<1> QED
  BY <1>3 DEF ScorerExit, score

LEMMA LastErrorDecides == Listed(session) => LastErrorCounts
<1> SUFFICES ASSUME Listed(session), Scorable(session) PROVE LastErrorCounts
  BY DEF LastErrorCounts
<1> DEFINE turns == InTurn(session)
           responding == {i \in DOMAIN turns : Responds(turns[i])}
           after(i) == {e \in Errors(turns) : \A j \in responding : e[1] >= j}
<1>1. Len(turns) \in Nat /\ DOMAIN turns = 1 .. Len(turns)
  BY BeforeOrders, TurnsAre
<1> HIDE DEF turns
<1>2. \A e \in Errors(turns) : e[1] \in DOMAIN turns
  BY DEF Errors
<1>3. Errors(turns) \ Handled(turns) = after(0)
  BY <1>1, <1>2 DEF Handled
<1>4. ASSUME NEW e \in Errors(turns), e[1] = Len(turns) PROVE ScorerExit(session) = 1
  <2>1. e \notin Handled(turns)
    BY <1>1, <1>4 DEF Handled
  <2>2. ErrorHandling(turns).verdict = "fail"
    BY <2>1 DEF ErrorHandling, Universal
  <2>3. Score(session).tool_error_handling = ErrorHandling(turns)
    BY DEF Score, turns
  <2> QED
    BY <2>2, <2>3, FailureFails
<1> QED
  BY <1>3, <1>4 DEF LastErrorCounts, turns

(* What happens to a metric when turns are added.                          *)
Within(t, u) == \A n \in DOMAIN t : \E m \in DOMAIN u : u[m] = t[n]

\* A failure stays, and what was measured is not unmeasured again.
Stays(old, new) ==
  /\ old.verdict = "fail" => new.verdict = "fail"
  /\ old.verdict = "pass" => new.verdict # "unmeasured"

LEMMA CallsStay ==
  ASSUME NEW t, NEW u, Within(t, u)
  PROVE  /\ \A c \in CallsOf(t) : \E d \in CallsOf(u) : Call(u, d) = Call(t, c)
         /\ \A c \in Allowed(t) : \E d \in Allowed(u) : Call(u, d) = Call(t, c)
         /\ \A c \in Commands(t) : \E d \in Commands(u) : Call(u, d) = Call(t, c)
<1>1. ASSUME NEW c \in CallsOf(t) PROVE \E d \in CallsOf(u) : Call(u, d) = Call(t, c)
  <2>1. PICK i \in DOMAIN t : \E k \in DOMAIN t[i].calls : c = <<i, k>>
    BY DEF CallsOf
  <2> PICK k \in DOMAIN t[i].calls : c = <<i, k>>
    BY <2>1
  <2>2. PICK j \in DOMAIN u : u[j] = t[i]
    BY DEF Within
  <2>3. <<j, k>> \in CallsOf(u)
    BY <2>2 DEF CallsOf
  <2>4. Call(u, <<j, k>>) = Call(t, c)
    BY <2>1, <2>2 DEF Call
  <2> QED
    BY <2>3, <2>4
<1>2. \A c \in Allowed(t) : \E d \in Allowed(u) : Call(u, d) = Call(t, c)
  BY <1>1 DEF Allowed
<1>3. \A c \in Commands(t) : \E d \in Commands(u) : Call(u, d) = Call(t, c)
  BY <1>1 DEF Commands
<1> QED
  BY <1>1, <1>2, <1>3

\* The same for metrics that count the good among all of a kind.
LEMMA UniversalStays ==
  ASSUME NEW good, NEW all, NEW good2, NEW all2, good \subseteq all, good2 \subseteq all2,
         all # {} => all2 # {},
         all \ good # {} => all2 \ good2 # {}
  PROVE  Stays(Universal(good, all), Universal(good2, all2))
BY DEF Stays, Universal

LEMMA StructuredStays == ASSUME NEW t, NEW u, Within(t, u) PROVE Stays(Structured(t), Structured(u))
<1> DEFINE ok(turns) ==
             {i \in DOMAIN turns : /\ ~turns[i].parseError
                                   /\ \A k \in DOMAIN turns[i].calls : ~turns[i].calls[k].argumentsError}
<1>1. ok(t) \subseteq DOMAIN t /\ ok(u) \subseteq DOMAIN u
  OBVIOUS
<1>2. DOMAIN t # {} => DOMAIN u # {}
  BY DEF Within
<1>3. ASSUME NEW i \in DOMAIN t \ ok(t) PROVE DOMAIN u \ ok(u) # {}
  <2>1. PICK j \in DOMAIN u : u[j] = t[i]
    BY DEF Within
  <2>2. j \notin ok(u)
    BY <2>1
  <2> QED
    BY <2>2
<1> HIDE DEF ok
<1>4. Stays(Universal(ok(t), DOMAIN t), Universal(ok(u), DOMAIN u))
  BY <1>1, <1>2, <1>3, UniversalStays
<1> QED
  BY <1>4 DEF Structured, ok

LEMMA NamesStay == ASSUME NEW t, NEW u, Within(t, u) PROVE Stays(Names(t), Names(u))
<1>1. Allowed(t) \subseteq CallsOf(t) /\ Allowed(u) \subseteq CallsOf(u)
  BY DEF Allowed
<1>2. CallsOf(t) # {} => CallsOf(u) # {}
  BY CallsStay
<1>3. ASSUME NEW c \in CallsOf(t) \ Allowed(t) PROVE CallsOf(u) \ Allowed(u) # {}
  <2>1. PICK d \in CallsOf(u) : Call(u, d) = Call(t, c)
    BY CallsStay
  <2>2. d \notin Allowed(u)
    BY <2>1 DEF Allowed
  <2> QED
    BY <2>2
<1> QED
  BY <1>1, <1>2, <1>3, UniversalStays DEF Names

LEMMA EscapingStays == ASSUME NEW t, NEW u, Within(t, u) PROVE Stays(Escaping(t), Escaping(u))
<1> DEFINE all(turns) == {c \in Commands(turns) : Command(Call(turns, c)).escaping # "none"}
           good(turns) == {c \in all(turns) : Command(Call(turns, c)).escaping = "right"}
<1>1. good(t) \subseteq all(t) /\ good(u) \subseteq all(u)
  OBVIOUS
<1>2. ASSUME NEW c \in all(t) PROVE \E d \in all(u) : Call(u, d) = Call(t, c)
  BY CallsStay
<1>3. ASSUME NEW c \in all(t) \ good(t) PROVE all(u) \ good(u) # {}
  <2>1. PICK d \in all(u) : Call(u, d) = Call(t, c)
    BY <1>2
  <2>2. d \notin good(u)
    BY <2>1
  <2> QED
    BY <2>2
<1>4. Escaping(t) = Universal(good(t), all(t)) /\ Escaping(u) = Universal(good(u), all(u))
  BY DEF Escaping
<1> HIDE DEF all, good
<1> QED
  BY <1>1, <1>2, <1>3, <1>4, UniversalStays

LEMMA StopsStay == ASSUME NEW t, NEW u, Within(t, u) PROVE Stays(Stops(t), Stops(u))
<1> DEFINE ok(turns) == {i \in DOMAIN turns :
                           turns[i].stop = IF turns[i].calls # <<>> \/ turns[i].parseError
                                           THEN "tool_use" ELSE "end_turn"}
<1>1. ok(t) \subseteq DOMAIN t /\ ok(u) \subseteq DOMAIN u
  OBVIOUS
<1>2. DOMAIN t # {} => DOMAIN u # {}
  BY DEF Within
<1>3. ASSUME NEW i \in DOMAIN t \ ok(t) PROVE DOMAIN u \ ok(u) # {}
  <2>1. PICK j \in DOMAIN u : u[j] = t[i]
    BY DEF Within
  <2>2. j \notin ok(u)
    BY <2>1
  <2> QED
    BY <2>2
<1> HIDE DEF ok
<1>4. Stays(Universal(ok(t), DOMAIN t), Universal(ok(u), DOMAIN u))
  BY <1>1, <1>2, <1>3, UniversalStays
<1> QED
  BY <1>4 DEF Stops, ok

LEMMA DisciplineStays == ASSUME NEW t, NEW u, Within(t, u) PROVE Stays(Discipline(t), Discipline(u))
<1> DEFINE all(turns) == {c \in Commands(turns) : Command(Call(turns, c)).destructive}
           good(turns) == {c \in all(turns) : Call(turns, c).guarded}
<1>1. ASSUME NEW c \in all(t) \ good(t) PROVE all(u) \ good(u) # {}
  <2>1. PICK d \in Commands(u) : Call(u, d) = Call(t, c)
    BY CallsStay
  <2>2. d \in all(u) /\ d \notin good(u)
    BY <2>1
  <2> QED
    BY <2>2
<1>2. /\ Discipline(t).verdict = IF good(t) = all(t) THEN "pass" ELSE "fail"
      /\ Discipline(u).verdict = IF good(u) = all(u) THEN "pass" ELSE "fail"
  BY DEF Discipline
<1>3. good(t) \subseteq all(t)
  OBVIOUS
<1> HIDE DEF all, good
<1>4. good(t) # all(t) => good(u) # all(u)
  BY <1>1, <1>3
<1> QED
  BY <1>2, <1>4 DEF Stays

\* Calls that cannot be verified may be added, but none that was found wrong goes away.
LEMMA SchemaFailureStays ==
  ASSUME NEW t, NEW u, Within(t, u), ArgumentSchema(t).verdict = "fail"
  PROVE  ArgumentSchema(u).verdict = "fail"
<1>1. PICK c \in Verifiable(t) : c \notin Conforming(t)
  BY DEF ArgumentSchema, Conforming
<1>2. PICK d \in Allowed(u) : Call(u, d) = Call(t, c)
  BY CallsStay DEF Verifiable
<1>3. d \in Verifiable(u) /\ d \notin Conforming(u)
  BY <1>1, <1>2 DEF Verifiable, Conforming
<1>4. Allowed(u) # {} /\ Conforming(u) # Verifiable(u)
  BY <1>2, <1>3
<1>5. ArgumentSchema(u).verdict =
        IF Allowed(u) = {} THEN "unmeasured"
        ELSE IF Conforming(u) # Verifiable(u) THEN "fail"
        ELSE IF Verifiable(u) # Allowed(u) THEN "unmeasured" ELSE "pass"
  BY DEF ArgumentSchema
<1> QED
  BY <1>4, <1>5

LEMMA ErrorsStay ==
  ASSUME NEW t, NEW u, Within(t, u), ErrorHandling(t).verdict = "pass"
  PROVE  ErrorHandling(u).verdict # "unmeasured"
<1>1. PICK e \in Errors(t) : TRUE
  BY DEF ErrorHandling, Universal
<1>2. PICK i \in DOMAIN t : \E k \in DOMAIN t[i].results : t[i].results[k].isError
  BY <1>1 DEF Errors
<1> PICK k \in DOMAIN t[i].results : t[i].results[k].isError
  BY <1>2
<1>3. PICK j \in DOMAIN u : u[j] = t[i]
  BY DEF Within
<1>4. <<j, k>> \in Errors(u)
  BY <1>2, <1>3 DEF Errors
<1> QED
  BY <1>4 DEF ErrorHandling, Universal

(* Whatever is recorded later, what was recorded is among the turns.       *)
LEMMA TurnsStay ==
  ASSUME NEW gens, Listed(gens), NEW g \in Generations
  PROVE  Within(InTurn(gens), InTurn(Append(gens, g)))
<1>1. /\ Listed(Append(gens, g)) /\ DOMAIN gens \subseteq DOMAIN Append(gens, g)
      /\ \A i \in DOMAIN gens : Append(gens, g)[i] = gens[i]
  <2>1. Append(gens, g) \in Seq(Generations) /\ Len(Append(gens, g)) = Len(gens) + 1
    BY AppendProperties DEF Listed
  <2>2. DOMAIN gens = 1 .. Len(gens) /\ Len(gens) \in Nat
    BY BeforeOrders
  <2>3. DOMAIN Append(gens, g) = 1 .. Len(gens) + 1
    BY <2>1, BeforeOrders DEF Listed
  <2>4. \A i \in 1 .. Len(gens) : Append(gens, g)[i] = gens[i]
    BY AppendProperties DEF Listed
  <2> QED
    BY <2>1, <2>2, <2>3, <2>4 DEF Listed
<1> SUFFICES ASSUME NEW n \in DOMAIN gens
             PROVE  \E m \in DOMAIN InTurn(Append(gens, g)) :
                      InTurn(Append(gens, g))[m] = InTurn(gens)[n]
  BY TurnsAre DEF Within
<1>2. PICK i \in DOMAIN gens : InTurn(gens)[n] = gens[i]
  BY TurnsAre
<1>3. /\ Rank(Append(gens, g), i) \in DOMAIN InTurn(Append(gens, g))
      /\ InTurn(Append(gens, g))[Rank(Append(gens, g), i)] = gens[i]
  BY <1>1, TurnsAre, RanksOrder
<1> QED
  BY <1>2, <1>3

LEMMA ScoresStay ==
  ASSUME NEW gens, NEW more, Within(InTurn(gens), InTurn(more))
  PROVE  LET old == Score(gens)
             new == Score(more)
         IN  \A m \in DOMAIN old :
               /\ old[m].verdict = "fail" => m = "tool_error_handling" \/ new[m].verdict = "fail"
               /\ old[m].verdict = "pass" /\ new[m].verdict = "unmeasured"
                    => m = "valid_argument_schema"
<1> DEFINE t == InTurn(gens)
           u == InTurn(more)
<1>1. /\ Stays(Structured(t), Structured(u)) /\ Stays(Names(t), Names(u))
      /\ Stays(Escaping(t), Escaping(u)) /\ Stays(Stops(t), Stops(u))
      /\ Stays(Discipline(t), Discipline(u))
  BY StructuredStays, NamesStay, EscapingStays, StopsStay, DisciplineStays
<1>2. ArgumentSchema(t).verdict = "fail" => ArgumentSchema(u).verdict = "fail"
  BY SchemaFailureStays
<1>3. ErrorHandling(t).verdict = "pass" => ErrorHandling(u).verdict # "unmeasured"
  BY ErrorsStay
<1> HIDE DEF t, u
<1>4. Score(gens) =
        [valid_structured_output |-> Structured(t), valid_tool_names |-> Names(t),
         valid_argument_schema |-> ArgumentSchema(t), escaping_correctness |-> Escaping(t),
         stop_behavior |-> Stops(t), tool_error_handling |-> ErrorHandling(t),
         destructive_discipline |-> Discipline(t)]
  BY DEF Score, t
<1>5. Score(more) =
        [valid_structured_output |-> Structured(u), valid_tool_names |-> Names(u),
         valid_argument_schema |-> ArgumentSchema(u), escaping_correctness |-> Escaping(u),
         stop_behavior |-> Stops(u), tool_error_handling |-> ErrorHandling(u),
         destructive_discipline |-> Discipline(u)]
  BY DEF Score, u
<1> QED
  BY <1>1, <1>2, <1>3, <1>4, <1>5 DEF Stays

(* What was recorded cannot be made good by recording more: only an error  *)
(* of a tool can still be handled, and only calls without a schema take a  *)
(* metric out of the verdict (score_session).                              *)
THEOREM FailuresAreFinal == SessionSpec => FailuresStay
<1> DEFINE Steady ==
      Scorable(session) /\ Scorable(session') =>
        LET old == Score(session)
            new == Score(session')
        IN  \A m \in DOMAIN old :
              /\ old[m].verdict = "fail" => m = "tool_error_handling" \/ new[m].verdict = "fail"
              /\ old[m].verdict = "pass" /\ new[m].verdict = "unmeasured"
                   => m = "valid_argument_schema"
<1>1. ASSUME Listed(session), SessionNext PROVE Steady
  <2>1. CASE AddGeneration
    <3>1. PICK g \in Generations : session' = Append(session, g)
      BY <2>1 DEF AddGeneration
    <3>2. Within(InTurn(session), InTurn(session'))
      BY <1>1, <3>1, TurnsStay
    <3> QED
      BY <3>2, ScoresStay
  <2>2. CASE SessionRest
    <3>1. Within(InTurn(session), InTurn(session'))
      BY <2>2 DEF SessionRest, Within
    <3> QED
      BY <3>1, ScoresStay
  <2> QED
    BY <1>1, <2>1, <2>2 DEF SessionNext
<1>2. Listed(session) /\ [SessionNext]_sessionVars => [Steady]_sessionVars
  BY <1>1
<1> QED
  BY <1>2, SessionsAreListed, PTL DEF SessionSpec, FailuresStay

(* For any generations: the turns of a session decide its score, neither   *)
(* the order in which they were recorded nor the turn an error was in      *)
(* (score_session).                                                        *)
THEOREM TurnsDecideScores == SessionSpec => []TurnsDecide
<1>1. Listed(session) => TurnsDecide
  BY ArrivalIsFree, LastErrorDecides DEF TurnsDecide
<1> QED
  BY <1>1, SessionsAreListed, PTL

-----------------------------------------------------------------------------
(* Pairing: files of runs.                                                 *)

Anyone ==
  {Record(s, Keys[i], o) : s \in Sides, i \in DOMAIN Keys, o \in Outcomes}
    \cup {x.record : x \in Extras}
Filed(records) == records \in Seq(Anyone)

LEMMA FiledIs ==
  ASSUME NEW a, Filed(a)
  PROVE  /\ Len(a) \in Nat /\ DOMAIN a = 1 .. Len(a)
         /\ IsFiniteSet(DOMAIN a) /\ Cardinality(DOMAIN a) = Len(a)
<1>1. Len(a) \in Nat /\ DOMAIN a = 1 .. Len(a)
  BY LenProperties DEF Filed
<1>2. IsFiniteSet(1 .. Len(a)) /\ Cardinality(1 .. Len(a)) = IF 1 > Len(a) THEN 0 ELSE Len(a) - 1 + 1
  BY <1>1, FS_Interval
<1> QED
  BY <1>1, <1>2

(* A file in which the keys count as many as the runs has one run a key.   *)
LEMMA OneEach ==
  ASSUME NEW a, Filed(a)
  PROVE  OneRunPerKey(a) <=>
           \A i, j \in DOMAIN a : KeyOf(a[i]) = KeyOf(a[j]) => i = j
<1> DEFINE f == [i \in DOMAIN a |-> KeyOf(a[i])]
<1>1. f \in Surjection(DOMAIN a, KeysOf(a))
  BY DEF Surjection, KeysOf
<1>2. Cardinality(KeysOf(a)) = Cardinality(DOMAIN a) <=> f \in Injection(DOMAIN a, KeysOf(a))
  <2> HIDE DEF f
  <2> QED
    BY <1>1, FiledIs, FS_Surjection
<1>3. f \in Injection(DOMAIN a, KeysOf(a)) <=> \A i, j \in DOMAIN a : f[i] = f[j] => i = j
  BY <1>1 DEF Injection, IsInjective, Surjection
<1> QED
  BY <1>2, <1>3, FiledIs DEF OneRunPerKey

LEMMA RunIs ==
  ASSUME NEW a, Filed(a), OneRunPerKey(a), NEW i \in DOMAIN a
  PROVE  Run(a, KeyOf(a[i])) = a[i]
BY OneEach DEF Run

OneModel(a) == \A i, j \in DOMAIN a : a[i].model = a[j].model
LEMMA RefusalIs ==
  ASSUME NEW a
  PROVE  /\ Refusal(a) = None <=> OneRunPerKey(a) /\ OneModel(a)
         /\ Refusal(a) # None => Refusal(a) = IF OneRunPerKey(a) THEN "models" ELSE "duplicate"
BY ReasonsAssumption DEF Refusal, OneModel

(* b has runs of a, each once, and all runs of tasks among them.           *)
Picks(h, b, a) ==
  /\ \A i \in DOMAIN b : h[i] \in DOMAIN a /\ b[i] = a[h[i]]
  /\ \A i, j \in DOMAIN b : h[i] = h[j] => i = j
  /\ \A j \in Tasks(a) : \E i \in DOMAIN b : h[i] = j

LEMMA PicksKeep ==
  ASSUME NEW a, Filed(a), NEW b, Filed(b), NEW h, Picks(h, b, a)
  PROVE  /\ OneRunPerKey(a) => OneRunPerKey(b)
         /\ OneModel(a) => OneModel(b)
         /\ TaskKeys(b) = TaskKeys(a)
         /\ (\A i \in DOMAIN a : ValidRecord(a[i])) => \A i \in DOMAIN b : ValidRecord(b[i])
         /\ OneRunPerKey(a) => \A k \in TaskKeys(a) : Run(b, k) = Run(a, k)
<1>1. OneRunPerKey(a) => OneRunPerKey(b)
  BY OneEach DEF Picks
<1>2. OneModel(a) => OneModel(b)
  BY DEF Picks, OneModel
<1>3. ASSUME NEW k \in TaskKeys(a)
      PROVE  \E i \in DOMAIN b : b[i].type = "task" /\ KeyOf(b[i]) = k
                                 /\ h[i] \in DOMAIN a /\ b[i] = a[h[i]]
  BY <1>3 DEF Picks, TaskKeys, Tasks
<1>4. TaskKeys(b) \subseteq TaskKeys(a)
  BY DEF Picks, TaskKeys, Tasks
<1>5. TaskKeys(a) \subseteq TaskKeys(b)
  BY <1>3 DEF TaskKeys, Tasks
<1>6. ASSUME OneRunPerKey(a), NEW k \in TaskKeys(a)
      PROVE  Run(b, k) = Run(a, k)
  <2>1. PICK i \in DOMAIN b : KeyOf(b[i]) = k /\ h[i] \in DOMAIN a /\ b[i] = a[h[i]]
    BY <1>3
  <2> QED
    BY <1>1, <1>6, <2>1, RunIs
<1>7. (\A i \in DOMAIN a : ValidRecord(a[i])) => \A i \in DOMAIN b : ValidRecord(b[i])
  BY DEF Picks
<1> QED
  BY <1>1, <1>2, <1>4, <1>5, <1>6, <1>7

-----------------------------------------------------------------------------
(* Pairing: figures of the same runs.                                      *)

SameRuns(keys, a, b) == \A k \in keys : Run(a, k) = Run(b, k)

LEMMA SameSuccesses ==
  ASSUME NEW keys, NEW a, NEW b, SameRuns(keys, a, b)
  PROVE  \A s \in SUBSET keys : /\ Successes(a, s) = Successes(b, s)
                                /\ Catastrophes(a, s) = Catastrophes(b, s)
<1> SUFFICES ASSUME NEW s \in SUBSET keys
             PROVE  /\ Successes(a, s) = Successes(b, s) /\ Catastrophes(a, s) = Catastrophes(b, s)
  OBVIOUS
<1>1. /\ {k \in s : Run(a, k).success} = {k \in s : Run(b, k).success}
      /\ {k \in s : Run(a, k).catastrophic} = {k \in s : Run(b, k).catastrophic}
  BY DEF SameRuns
<1> QED
  BY <1>1 DEF Successes, Catastrophes

LEMMA SameMeans ==
  ASSUME NEW keys, NEW a, NEW b, SameRuns(keys, a, b)
  PROVE  MeansOf(a, keys) = MeansOf(b, keys)
<1>1. ASSUME NEW t PROVE Mean(a, keys, t) = Mean(b, keys, t)
  <2>1. SeedsOf(keys, t) \in SUBSET keys
    BY DEF SeedsOf
  <2> QED
    BY <2>1, SameSuccesses DEF Mean
<1> QED
  BY <1>1 DEF MeansOf

LEMMA SameTest ==
  ASSUME NEW keys, NEW a, NEW b, SameRuns(keys, a, b), NEW c, NEW d, SameRuns(keys, c, d)
  PROVE  McNemar(a, c, keys) = McNemar(b, d, keys)
<1>1. /\ {k \in keys : Run(a, k).success /\ ~Run(c, k).success}
           = {k \in keys : Run(b, k).success /\ ~Run(d, k).success}
      /\ {k \in keys : ~Run(a, k).success /\ Run(c, k).success}
           = {k \in keys : ~Run(b, k).success /\ Run(d, k).success}
  BY DEF SameRuns
<1> QED
  BY <1>1 DEF McNemar

LEMMA SameSlices ==
  ASSUME NEW keys, NEW a, NEW b, SameRuns(keys, a, b), NEW c, NEW d, SameRuns(keys, c, d), NEW dim
  PROVE  /\ Slices(a, c, keys, dim) = Slices(b, d, keys, dim)
         /\ Mismatches(a, c, keys, dim) = Mismatches(b, d, keys, dim)
<1>1. {k \in keys : SliceOf(Run(a, k), dim) # SliceOf(Run(c, k), dim)}
        = {k \in keys : SliceOf(Run(b, k), dim) # SliceOf(Run(d, k), dim)}
  BY DEF SameRuns
<1>2. {SliceOf(Run(a, k), dim) : k \in keys} = {SliceOf(Run(b, k), dim) : k \in keys}
  BY DEF SameRuns
<1> DEFINE of(r, v) == {k \in keys : SliceOf(Run(r, k), dim) = v}
           count(r, s) == [pairs |-> Cardinality(s), successes |-> Successes(r, s),
                           catastrophes |-> Catastrophes(r, s)]
           row(r, q, v) == [reference |-> count(r, of(r, v)), candidate |-> count(q, of(r, v))]
<1>3. ASSUME NEW v PROVE row(a, c, v) = row(b, d, v)
  <2>1. of(a, v) = of(b, v) /\ of(a, v) \in SUBSET keys
    BY DEF SameRuns
  <2> HIDE DEF of
  <2>2. count(a, of(a, v)) = count(b, of(b, v)) /\ count(c, of(a, v)) = count(d, of(b, v))
    BY <2>1, SameSuccesses
  <2> QED
    BY <2>2
<1>4. /\ Slices(a, c, keys, dim) = [v \in {SliceOf(Run(a, k), dim) : k \in keys} |-> row(a, c, v)]
      /\ Slices(b, d, keys, dim) = [v \in {SliceOf(Run(b, k), dim) : k \in keys} |-> row(b, d, v)]
  BY DEF Slices
<1>5. Slices(a, c, keys, dim) = Slices(b, d, keys, dim)
  <2> HIDE DEF row
  <2> QED
    BY <1>2, <1>3, <1>4
<1> QED
  BY <1>1, <1>5 DEF Mismatches

(* What a report holds besides the summaries of the controls.              *)
Fields == {"status", "pairs", "tasks", "missing", "successes", "rates", "intervals", "ratio",
           "ratioCI", "wins", "losses", "mcnemar", "catastrophes", "slices", "mismatches"}
Figures(p, t, m, s, r, i, o, ci, w, l, mc, ca, sl, mi, co) ==
  [status |-> "analysed", pairs |-> p, tasks |-> t, missing |-> m, successes |-> s, rates |-> r,
   intervals |-> i, ratio |-> o, ratioCI |-> ci, wins |-> w, losses |-> l, mcnemar |-> mc,
   catastrophes |-> ca, slices |-> sl, mismatches |-> mi, controls |-> co]

LEMMA ControlsAside ==
  ASSUME NEW p, NEW t, NEW m, NEW s, NEW r, NEW i, NEW o, NEW ci, NEW w, NEW l, NEW mc,
         NEW ca, NEW sl, NEW mi, NEW x, NEW y
  PROVE  LET f == Figures(p, t, m, s, r, i, o, ci, w, l, mc, ca, sl, mi, x)
             g == Figures(p, t, m, s, r, i, o, ci, w, l, mc, ca, sl, mi, y)
         IN  /\ DOMAIN f = Fields \cup {"controls"} /\ DOMAIN g = Fields \cup {"controls"}
             /\ \A field \in Fields : f[field] = g[field]
BY DEF Figures, Fields

(* Files with the same runs of tasks have the same figures.                *)
SameTasks(a, b) == TaskKeys(a) = TaskKeys(b) /\ SameRuns(TaskKeys(a), a, b)

LEMMA SameFigures ==
  ASSUME NEW a, NEW b, SameTasks(a, b), NEW c, NEW d, SameTasks(c, d), NEW draws
  PROVE  LET f == Compared(a, c, draws)
             g == Compared(b, d, draws)
         IN  /\ DOMAIN f = Fields \cup {"controls"} /\ DOMAIN g = Fields \cup {"controls"}
             /\ \A field \in Fields : g[field] = f[field]
             /\ (ControlSummary(a) = ControlSummary(b) /\ ControlSummary(c) = ControlSummary(d)) => g = f
<1> DEFINE keys == Matched(a, c)
           all(k, missing, rs, cs, rm, cm, test, rc, cc, slices, mismatches, controls) ==
             Figures(Cardinality(k), Len(Clusters(k)), missing, [reference |-> rs, candidate |-> cs],
                    [reference |-> Total(rm), candidate |-> Total(cm)],
                    [reference |-> Interval(Sampled(rm, Clusters(k), draws)),
                     candidate |-> Interval(Sampled(cm, Clusters(k), draws))],
                    IF Total(rm) = 0 THEN None ELSE (RatioUnit * Total(cm)) \div Total(rm),
                    IF Total(rm) = 0 THEN None
                      ELSE Interval(RatioSamples(rm, cm, Clusters(k), draws)),
                    Cardinality({t \in DOMAIN rm : cm[t] > rm[t]}),
                    Cardinality({t \in DOMAIN rm : cm[t] < rm[t]}),
                    test, [reference |-> rc, candidate |-> cc], slices, mismatches, controls)
           of(x, y, k) ==
             all(k, [side \in Sides |-> Missing(x, y, side)], Successes(x, k), Successes(y, k),
                 MeansOf(x, k), MeansOf(y, k), McNemar(x, y, k), Catastrophes(x, k),
                 Catastrophes(y, k), [dim \in Dimensions |-> Slices(x, y, k, dim)],
                 [dim \in Dimensions |-> Mismatches(x, y, k, dim)],
                 [reference |-> ControlSummary(x), candidate |-> ControlSummary(y)])
<1>1. Matched(b, d) = keys /\ [side \in Sides |-> Missing(b, d, side)] = [side \in Sides |-> Missing(a, c, side)]
  BY DEF SameTasks, Matched, Missing
<1>2. SameRuns(keys, a, b) /\ SameRuns(keys, c, d)
  BY DEF SameTasks, SameRuns, Matched
<1>3. Compared(a, c, draws) = of(a, c, Matched(a, c)) /\ Compared(b, d, draws) = of(b, d, Matched(b, d))
  BY DEF Compared, Figures
<1> HIDE DEF keys
<1>4. MeansOf(b, keys) = MeansOf(a, keys) /\ MeansOf(d, keys) = MeansOf(c, keys)
  BY <1>2, SameMeans
<1>5. /\ Successes(b, keys) = Successes(a, keys) /\ Successes(d, keys) = Successes(c, keys)
      /\ Catastrophes(b, keys) = Catastrophes(a, keys) /\ Catastrophes(d, keys) = Catastrophes(c, keys)
  BY <1>2, SameSuccesses
<1>6. McNemar(b, d, keys) = McNemar(a, c, keys)
  BY <1>2, SameTest
<1>7. /\ [dim \in Dimensions |-> Slices(b, d, keys, dim)] = [dim \in Dimensions |-> Slices(a, c, keys, dim)]
      /\ [dim \in Dimensions |-> Mismatches(b, d, keys, dim)]
           = [dim \in Dimensions |-> Mismatches(a, c, keys, dim)]
  BY <1>2, SameSlices
<1> DEFINE same(x) == all(keys, [side \in Sides |-> Missing(a, c, side)], Successes(a, keys),
                          Successes(c, keys), MeansOf(a, keys), MeansOf(c, keys),
                          McNemar(a, c, keys), Catastrophes(a, keys), Catastrophes(c, keys),
                          [dim \in Dimensions |-> Slices(a, c, keys, dim)],
                          [dim \in Dimensions |-> Mismatches(a, c, keys, dim)], x)
           one == [reference |-> ControlSummary(a), candidate |-> ControlSummary(c)]
           other == [reference |-> ControlSummary(b), candidate |-> ControlSummary(d)]
<1>8. of(a, c, keys) = same(one) /\ of(b, d, keys) = same(other)
  <2> HIDE DEF all
  <2> QED
    BY <1>1, <1>4, <1>5, <1>6, <1>7
<1>9. /\ DOMAIN same(one) = Fields \cup {"controls"} /\ DOMAIN same(other) = Fields \cup {"controls"}
      /\ \A field \in Fields : same(one)[field] = same(other)[field]
  <2> DEFINE rm == MeansOf(a, keys)  cm == MeansOf(c, keys)
  <2>1. PICK p, t, m, s, r, i, o, ci, w, l, mc, ca, sl, mi :
          /\ p = Cardinality(keys) /\ t = Len(Clusters(keys))
          /\ m = [side \in Sides |-> Missing(a, c, side)]
          /\ s = [reference |-> Successes(a, keys), candidate |-> Successes(c, keys)]
          /\ r = [reference |-> Total(rm), candidate |-> Total(cm)]
          /\ i = [reference |-> Interval(Sampled(rm, Clusters(keys), draws)),
                  candidate |-> Interval(Sampled(cm, Clusters(keys), draws))]
          /\ o = IF Total(rm) = 0 THEN None ELSE (RatioUnit * Total(cm)) \div Total(rm)
          /\ ci = IF Total(rm) = 0 THEN None
                    ELSE Interval(RatioSamples(rm, cm, Clusters(keys), draws))
          /\ w = Cardinality({x \in DOMAIN rm : cm[x] > rm[x]})
          /\ l = Cardinality({x \in DOMAIN rm : cm[x] < rm[x]})
          /\ mc = McNemar(a, c, keys)
          /\ ca = [reference |-> Catastrophes(a, keys), candidate |-> Catastrophes(c, keys)]
          /\ sl = [dim \in Dimensions |-> Slices(a, c, keys, dim)]
          /\ mi = [dim \in Dimensions |-> Mismatches(a, c, keys, dim)]
    OBVIOUS
  <2>2. ASSUME NEW x
        PROVE  same(x) = Figures(p, t, m, s, r, i, o, ci, w, l, mc, ca, sl, mi, x)
    BY <2>1
  <2> HIDE DEF one, other, keys, same
  <2> QED
    BY <2>2, ControlsAside
<1>10. Compared(a, c, draws) = same(one) /\ Compared(b, d, draws) = same(other)
  <2> HIDE DEF of, same
  <2> QED
    BY <1>1, <1>3, <1>8 DEF keys
<1> HIDE DEF of, all, same
<1> QED
  BY <1>9, <1>10

-----------------------------------------------------------------------------
(* Pairing: no order of the files.                                         *)

Flip(a) == [i \in DOMAIN a |-> (Len(a) - i) + 1]

LEMMA ReverseIs ==
  ASSUME NEW a, Filed(a)
  PROVE  /\ Filed(Reverse(a)) /\ Len(Reverse(a)) = Len(a) /\ DOMAIN Reverse(a) = DOMAIN a
         /\ Picks(Flip(a), Reverse(a), a) /\ Picks(Flip(a), a, Reverse(a))
<1>1. PICK n \in Nat : n = Len(a) /\ DOMAIN a = 1 .. n
  BY FiledIs
<1>2. /\ \A i \in 1 .. n : (n - i) + 1 \in 1 .. n /\ (n - ((n - i) + 1)) + 1 = i
      /\ \A i, j \in 1 .. n : (n - i) + 1 = (n - j) + 1 => i = j
  BY <1>1
<1>3. \A i \in 1 .. n : a[i] \in Anyone
  BY <1>1, ElementOfSeq DEF Filed
<1>4. Reverse(a) = [i \in 1 .. n |-> a[(n - i) + 1]] /\ Flip(a) = [i \in 1 .. n |-> (n - i) + 1]
  BY <1>1 DEF Reverse, Flip
<1>5. Reverse(a) \in [1 .. n -> Anyone]
  BY <1>2, <1>3, <1>4
<1>6. Filed(Reverse(a)) /\ Len(Reverse(a)) = n
  BY <1>5, IsASeq, LenProperties DEF Filed
<1>7. \A i \in 1 .. n : /\ Flip(a)[i] \in 1 .. n /\ Flip(a)[Flip(a)[i]] = i
                        /\ Reverse(a)[i] = a[Flip(a)[i]] /\ a[i] = Reverse(a)[Flip(a)[i]]
  BY <1>2, <1>4
<1>8. \A i, j \in 1 .. n : Flip(a)[i] = Flip(a)[j] => i = j
  BY <1>7
<1> QED
  BY <1>1, <1>4, <1>6, <1>7, <1>8 DEF Picks, Tasks

LEMMA FlippedCount ==
  ASSUME NEW n \in Nat, NEW S \in SUBSET (1 .. n), NEW T \in SUBSET (1 .. n), NEW f,
         \A i \in 1 .. n : f[i] \in 1 .. n /\ f[f[i]] = i /\ (i \in S <=> f[i] \in T)
  PROVE  Cardinality(S) = Cardinality(T)
<1> DEFINE g == [i \in S |-> f[i]]
<1>1. g \in [S -> T] /\ (\A i, j \in S : g[i] = g[j] => i = j)
  OBVIOUS
<1>2. \A j \in T : f[j] \in S /\ g[f[j]] = j
  OBVIOUS
<1>3. g \in Bijection(S, T)
  <2> HIDE DEF g
  <2> QED
    BY <1>1, <1>2 DEF Bijection, Injection, Surjection, IsInjective
<1>4. IsFiniteSet(1 .. n)
  BY FS_Interval
<1>5. IsFiniteSet(S)
  BY <1>4, FS_Subset
<1> QED
  BY <1>3, <1>5, FS_Bijection DEF ExistsBijection

LEMMA ReversedControls ==
  ASSUME NEW a, Filed(a)
  PROVE  ControlSummary(Reverse(a)) = ControlSummary(a)
<1> DEFINE b == Reverse(a)
           f == Flip(a)
<1>1. PICK n \in Nat : /\ n = Len(a) /\ DOMAIN a = 1 .. n /\ DOMAIN b = 1 .. n
                       /\ \A i \in 1 .. n : f[i] \in 1 .. n /\ f[f[i]] = i /\ b[i] = a[f[i]]
  BY FiledIs, ReverseIs DEF Flip, Picks
<1> HIDE DEF b, f
<1>2. Cardinality(Controls(b)) = Cardinality(Controls(a))
  <2>1. /\ Controls(b) \in SUBSET (1 .. n) /\ Controls(a) \in SUBSET (1 .. n)
        /\ \A i \in 1 .. n : i \in Controls(b) <=> f[i] \in Controls(a)
    BY <1>1 DEF Controls
  <2> QED
    BY <1>1, <2>1, FlippedCount
<1>3. Cardinality({i \in Controls(b) : b[i].success}) = Cardinality({i \in Controls(a) : a[i].success})
  <2> DEFINE S == {i \in Controls(b) : b[i].success}
             T == {i \in Controls(a) : a[i].success}
  <2>1. /\ S \in SUBSET (1 .. n) /\ T \in SUBSET (1 .. n)
        /\ \A i \in 1 .. n : i \in S <=> f[i] \in T
    BY <1>1 DEF Controls
  <2> HIDE DEF S, T
  <2> QED
    BY <1>1, <2>1, FlippedCount DEF S, T
<1>4. Cardinality({i \in Controls(b) : b[i].catastrophic})
        = Cardinality({i \in Controls(a) : a[i].catastrophic})
  <2> DEFINE S == {i \in Controls(b) : b[i].catastrophic}
             T == {i \in Controls(a) : a[i].catastrophic}
  <2>1. /\ S \in SUBSET (1 .. n) /\ T \in SUBSET (1 .. n)
        /\ \A i \in 1 .. n : i \in S <=> f[i] \in T
    BY <1>1 DEF Controls
  <2> HIDE DEF S, T
  <2> QED
    BY <1>1, <2>1, FlippedCount DEF S, T
<1> QED
  BY <1>2, <1>3, <1>4 DEF ControlSummary, b

LEMMA ReversedFile ==
  ASSUME NEW a, Filed(a)
  PROVE  /\ Loads(Reverse(a)) <=> Loads(a)
         /\ Refusal(Reverse(a)) = Refusal(a)
         /\ TaskKeys(Reverse(a)) = TaskKeys(a)
         /\ OneRunPerKey(a) => SameTasks(a, Reverse(a))
         /\ Loads(a) /\ OneModel(a) => Reverse(a)[1].model = a[1].model
<1> DEFINE b == Reverse(a)
<1>1. /\ Filed(b) /\ Len(b) = Len(a) /\ DOMAIN b = DOMAIN a
      /\ Picks(Flip(a), b, a) /\ Picks(Flip(a), a, b)
  BY ReverseIs
<1> HIDE DEF b
<1>2. /\ OneRunPerKey(a) <=> OneRunPerKey(b)
      /\ OneModel(a) <=> OneModel(b)
      /\ TaskKeys(b) = TaskKeys(a)
      /\ (\A i \in DOMAIN a : ValidRecord(a[i])) <=> \A i \in DOMAIN b : ValidRecord(b[i])
      /\ OneRunPerKey(a) => \A k \in TaskKeys(a) : Run(b, k) = Run(a, k)
  BY <1>1, PicksKeep
<1>3. a # <<>> <=> b # <<>>
  BY <1>1, EmptySeq DEF Filed
<1>4. Refusal(b) = Refusal(a)
  BY <1>2, RefusalIs
<1>5. ASSUME a # <<>>, OneModel(a)
      PROVE  b[1].model = a[1].model
  <2>1. 1 \in DOMAIN a /\ 1 \in DOMAIN b
    BY <1>1, <1>5, FiledIs, EmptySeq DEF Filed
  <2>2. Flip(a)[1] \in DOMAIN a /\ b[1] = a[Flip(a)[1]]
    BY <1>1, <2>1 DEF Picks
  <2> QED
    BY <1>5, <2>1, <2>2 DEF OneModel
<1> QED
  BY <1>2, <1>3, <1>4, <1>5 DEF Loads, SameTasks, SameRuns, b

LEMMA OrderIsFree ==
  ASSUME NEW a, Filed(a), NEW b, Filed(b), NEW whole, NEW draws
  PROVE  Analysis(Reverse(a), Reverse(b), whole, draws) = Analysis(a, b, whole, draws)
<1> DEFINE c == Reverse(a)
           d == Reverse(b)
<1>1. /\ Loads(c) <=> Loads(a)
      /\ Loads(d) <=> Loads(b)
      /\ Refusal(c) = Refusal(a) /\ Refusal(d) = Refusal(b)
  BY ReversedFile
<1>2. Matched(c, d) = Matched(a, b) /\ \A side : Missing(c, d, side) = Missing(a, b, side)
  BY ReversedFile DEF Matched, Missing
<1>3. Loads(a) /\ Refusal(a) = None => c[1].model = a[1].model
  BY ReversedFile, RefusalIs
<1>4. Loads(b) /\ Refusal(b) = None => d[1].model = b[1].model
  BY ReversedFile, RefusalIs
<1>5. Refusal(a) = None /\ Refusal(b) = None => Compared(c, d, draws) = Compared(a, b, draws)
  <2> SUFFICES ASSUME Refusal(a) = None, Refusal(b) = None
               PROVE  Compared(c, d, draws) = Compared(a, b, draws)
    OBVIOUS
  <2>1. SameTasks(a, c) /\ SameTasks(b, d)
    BY ReversedFile, RefusalIs
  <2>2. ControlSummary(a) = ControlSummary(c) /\ ControlSummary(b) = ControlSummary(d)
    BY ReversedControls
  <2> HIDE DEF c, d
  <2> QED
    BY <2>1, <2>2, SameFigures
<1> HIDE DEF c, d
<1>6. Analysis(c, d, whole, draws) = Analysis(a, b, whole, draws)
  BY <1>1, <1>2, <1>3, <1>4, <1>5 DEF Analysis
<1> QED
  BY <1>6 DEF c, d

-----------------------------------------------------------------------------
(* Pairing: controls apart.                                                *)

LEMMA WithoutControlsIs ==
  ASSUME NEW a, Filed(a)
  PROVE  /\ Filed(WithoutControls(a))
         /\ \E f : Picks(f, WithoutControls(a), a)
         /\ Len(WithoutControls(a)) = Cardinality(Tasks(a))
         /\ IsFiniteSet(Tasks(a))
<1> DEFINE n == Cardinality(Tasks(a))
           f == [k \in 1 .. n |->
                   CHOOSE i \in Tasks(a) : Cardinality({j \in Tasks(a) : j < i}) = k - 1]
           b == WithoutControls(a)
<1>1. IsFiniteSet(Tasks(a)) /\ Tasks(a) \in SUBSET Int /\ Tasks(a) \subseteq DOMAIN a
  <2>1. Tasks(a) \in SUBSET DOMAIN a
    BY DEF Tasks
  <2> QED
    BY <2>1, FiledIs, FS_Subset
<1>2. n \in Nat
  BY <1>1, FS_CardinalityType
<1>3. Matches(f, 1 .. n, Tasks(a))
  <2> HIDE DEF f
  <2> QED
    BY <1>1, Ascends DEF f
<1>4. b = [k \in 1 .. n |-> a[f[k]]]
  BY DEF WithoutControls
<1> HIDE DEF f, b, n
<1>5. \A k \in 1 .. n : f[k] \in Tasks(a) /\ f[k] \in DOMAIN a /\ b[k] = a[f[k]] /\ b[k] \in Anyone
  BY <1>1, <1>3, <1>4, FiledIs, ElementOfSeq DEF Matches, Filed
<1>6. b \in [1 .. n -> Anyone]
  BY <1>4, <1>5
<1>7. b \in Seq(Anyone) /\ Len(b) = n /\ DOMAIN b = 1 .. n
  BY <1>2, <1>6, IsASeq, LenProperties
<1>8. Picks(f, b, a)
  BY <1>3, <1>5, <1>7 DEF Picks, Matches
<1> QED
  BY <1>1, <1>7, <1>8 DEF Filed, b, n

LEMMA ControlsAreApart ==
  ASSUME NEW a, Filed(a), NEW b, Filed(b), NEW whole, NEW draws,
         Analysis(a, b, whole, draws).status = "analysed"
  PROVE  LET full == Analysis(a, b, whole, draws)
             bare == Analysis(WithoutControls(a), WithoutControls(b), whole, draws)
         IN  bare.status = "analysed" /\ \A f \in DOMAIN bare \ {"controls"} : bare[f] = full[f]
<1> DEFINE c == WithoutControls(a)
           d == WithoutControls(b)
<1>1. /\ Loads(a) /\ Loads(b) /\ Refusal(a) = None /\ Refusal(b) = None
      /\ a[1].model # b[1].model
      /\ ~(~whole /\ \E side \in Sides : Missing(a, b, side) # {})
      /\ Matched(a, b) # {}
      /\ Analysis(a, b, whole, draws) = Compared(a, b, draws)
  BY DEF Analysis, Refused
<1>2. ASSUME NEW x, Filed(x), Loads(x), Refusal(x) = None, TaskKeys(x) # {}
      PROVE  /\ Loads(WithoutControls(x)) /\ Refusal(WithoutControls(x)) = None
             /\ SameTasks(x, WithoutControls(x))
             /\ WithoutControls(x)[1].model = x[1].model
  <2> DEFINE y == WithoutControls(x)
  <2>1. PICK f : /\ Filed(y) /\ Picks(f, y, x) /\ Len(y) = Cardinality(Tasks(x))
                 /\ IsFiniteSet(Tasks(x))
    BY <1>2, WithoutControlsIs
  <2>2. Tasks(x) # {}
    BY <1>2 DEF TaskKeys
  <2> HIDE DEF y
  <2>3. y # <<>> /\ 1 \in DOMAIN y
    <3>1. Len(y) # 0
      BY <2>1, <2>2, FS_EmptySet
    <3>2. Len(y) \in Nat /\ DOMAIN y = 1 .. Len(y)
      BY <2>1, FiledIs
    <3> QED
      BY <3>1, <3>2, EmptySeq
  <2>4. OneRunPerKey(x) /\ OneModel(x)
    BY <1>2, RefusalIs
  <2>5. /\ OneRunPerKey(y) /\ OneModel(y) /\ TaskKeys(y) = TaskKeys(x)
        /\ \A i \in DOMAIN y : ValidRecord(y[i])
        /\ \A k \in TaskKeys(x) : Run(y, k) = Run(x, k)
    BY <1>2, <2>1, <2>4, PicksKeep DEF Loads
  <2>6. y[1].model = x[1].model
    <3>1. f[1] \in DOMAIN x /\ y[1] = x[f[1]]
      BY <2>1, <2>3 DEF Picks
    <3>2. 1 \in DOMAIN x
      <4>1. Len(x) \in Nat /\ DOMAIN x = 1 .. Len(x)
        BY <1>2, FiledIs
      <4> QED
        BY <3>1, <4>1
    <3> QED
      BY <2>4, <3>1, <3>2 DEF OneModel
  <2>7. Loads(y)
    BY <2>3, <2>5 DEF Loads
  <2>8. Refusal(y) = None
    BY <2>5, RefusalIs
  <2>9. SameTasks(x, y)
    BY <2>5 DEF SameTasks, SameRuns
  <2> QED
    BY <2>6, <2>7, <2>8, <2>9 DEF y
<1>3. TaskKeys(a) # {} /\ TaskKeys(b) # {}
  BY <1>1 DEF Matched
<1>4. /\ Loads(c) /\ Refusal(c) = None /\ SameTasks(a, c) /\ c[1].model = a[1].model
      /\ Loads(d) /\ Refusal(d) = None /\ SameTasks(b, d) /\ d[1].model = b[1].model
  BY <1>1, <1>2, <1>3
<1> HIDE DEF c, d
<1>5. Matched(c, d) = Matched(a, b) /\ \A side : Missing(c, d, side) = Missing(a, b, side)
  BY <1>4 DEF SameTasks, Matched, Missing
<1>6. Analysis(c, d, whole, draws) = Compared(c, d, draws)
  BY <1>1, <1>4, <1>5 DEF Analysis
<1>7. /\ DOMAIN Compared(c, d, draws) = Fields \cup {"controls"}
      /\ \A f \in Fields : Compared(c, d, draws)[f] = Compared(a, b, draws)[f]
  BY <1>4, SameFigures
<1>8. Compared(c, d, draws).status = "analysed"
  BY DEF Compared
<1> QED
  BY <1>1, <1>6, <1>7, <1>8 DEF c, d

-----------------------------------------------------------------------------
(* Pairing: neither side.                                                  *)

Swap(f) == [side \in Sides |-> f[OtherSide(side)]]
LEMMA Swapped ==
  \A x, y : Swap([reference |-> x, candidate |-> y]) = [reference |-> y, candidate |-> x]
BY DEF Swap, Sides, OtherSide

LEMMA KeysFinite ==
  ASSUME NEW a, Filed(a)
  PROVE  IsFiniteSet(TaskKeys(a))
<1> DEFINE f == [i \in Tasks(a) |-> KeyOf(a[i])]
<1>1. f \in Surjection(Tasks(a), TaskKeys(a))
  BY DEF Surjection, TaskKeys
<1>2. IsFiniteSet(Tasks(a))
  BY WithoutControlsIs
<1> HIDE DEF f
<1> QED
  BY <1>1, <1>2, FS_Surjection

LEMMA TestMirrored ==
  ASSUME NEW keys, IsFiniteSet(keys), NEW a, NEW b
  PROVE  LET r == McNemar(a, b, keys)
             m == McNemar(b, a, keys)
         IN  /\ m.status = r.status
             /\ r.status = "computed" =>
                  m = [status |-> "computed", b |-> r.c, c |-> r.b, p |-> r.p]
<1> DEFINE B == {k \in keys : Run(a, k).success /\ ~Run(b, k).success}
           C == {k \in keys : ~Run(a, k).success /\ Run(b, k).success}
           B2 == {k \in keys : Run(b, k).success /\ ~Run(a, k).success}
           C2 == {k \in keys : ~Run(b, k).success /\ Run(a, k).success}
           seeded == \E k \in keys : Cardinality(SeedsOf(keys, k[1])) > 1
           made(x, y) == [status |-> "computed", b |-> x, c |-> y, p |-> McNemarP(x, y)]
<1>1. B2 = C /\ C2 = B /\ B \in SUBSET keys /\ C \in SUBSET keys
  OBVIOUS
<1>2. PICK x \in Nat, y \in Nat : x = Cardinality(B) /\ y = Cardinality(C)
  <2> HIDE DEF B, C
  <2> QED
    BY <1>1, FS_Subset, FS_CardinalityType
<1>3. McNemarP(x, y) = McNemarP(y, x)
  <2>1. x + y = y + x /\ (IF x < y THEN x ELSE y) = (IF y < x THEN y ELSE x)
    OBVIOUS
  <2> QED
    BY <2>1 DEF McNemarP
<1>4. /\ McNemar(a, b, keys) = IF seeded THEN [status |-> "not_applicable"]
                                ELSE made(Cardinality(B), Cardinality(C))
      /\ McNemar(b, a, keys) = IF seeded THEN [status |-> "not_applicable"]
                                ELSE made(Cardinality(B2), Cardinality(C2))
  BY DEF McNemar
<1>5. made(y, x) = [status |-> "computed", b |-> made(x, y).c, c |-> made(x, y).b, p |-> made(x, y).p]
      /\ made(x, y).status = "computed" /\ made(y, x).status = "computed"
  BY <1>3
<1>6. /\ McNemar(a, b, keys) = IF seeded THEN [status |-> "not_applicable"] ELSE made(x, y)
      /\ McNemar(b, a, keys) = IF seeded THEN [status |-> "not_applicable"] ELSE made(y, x)
  <2> HIDE DEF B, C, B2, C2, made, seeded
  <2> QED
    BY <1>1, <1>2, <1>4
<1> HIDE DEF seeded
<1> QED
  BY <1>5, <1>6

LEMMA SidesMirrored ==
  ASSUME NEW a, Filed(a), NEW b, Filed(b), NEW whole, NEW draws,
         Analysis(a, b, whole, draws).status = "analysed"
  PROVE  /\ Analysis(a, b, whole, draws) = Compared(a, b, draws)
         /\ Analysis(b, a, whole, draws) = Compared(b, a, draws)
<1>1. /\ Loads(a) /\ Loads(b) /\ Refusal(a) = None /\ Refusal(b) = None
      /\ a[1].model # b[1].model
      /\ ~(~whole /\ \E side \in Sides : Missing(a, b, side) # {})
      /\ Matched(a, b) # {}
      /\ Analysis(a, b, whole, draws) = Compared(a, b, draws)
  BY DEF Analysis, Refused
<1>2. \A side \in Sides : Missing(b, a, side) = Missing(a, b, OtherSide(side)) /\ OtherSide(side) \in Sides
  BY DEF Missing, Sides, OtherSide
<1>3. Matched(b, a) = Matched(a, b)
  BY DEF Matched
<1> QED
  BY <1>1, <1>2, <1>3 DEF Analysis

LEMMA FiguresMirrored ==
  ASSUME NEW a, Filed(a), NEW b, Filed(b), NEW draws
  PROVE  LET r == Compared(a, b, draws)
             m == Compared(b, a, draws)
         IN  /\ m.status = r.status /\ m.pairs = r.pairs /\ m.tasks = r.tasks
             /\ m.wins = r.losses /\ m.losses = r.wins
             /\ m.missing = Swap(r.missing) /\ m.successes = Swap(r.successes)
             /\ m.rates = Swap(r.rates) /\ m.intervals = Swap(r.intervals)
             /\ m.catastrophes = Swap(r.catastrophes) /\ m.controls = Swap(r.controls)
             /\ m.mismatches = r.mismatches
             /\ m.mcnemar = McNemar(b, a, Matched(a, b)) /\ r.mcnemar = McNemar(a, b, Matched(a, b))
<1> DEFINE r == Compared(a, b, draws)
           m == Compared(b, a, draws)
           keys == Matched(a, b)
<1>1. Matched(b, a) = keys
  BY DEF Matched
<1>2. \A side \in Sides : Missing(b, a, side) = Missing(a, b, OtherSide(side)) /\ OtherSide(side) \in Sides
  BY DEF Missing, Sides, OtherSide
<1>3. \A dim : Mismatches(b, a, keys, dim) = Mismatches(a, b, keys, dim)
  <2> SUFFICES ASSUME NEW dim PROVE Mismatches(b, a, keys, dim) = Mismatches(a, b, keys, dim)
    OBVIOUS
  <2>1. {k \in keys : SliceOf(Run(b, k), dim) # SliceOf(Run(a, k), dim)}
          = {k \in keys : SliceOf(Run(a, k), dim) # SliceOf(Run(b, k), dim)}
    OBVIOUS
  <2> QED
    BY <2>1 DEF Mismatches
<1>4. m.status = r.status /\ m.pairs = r.pairs /\ m.tasks = r.tasks
  BY <1>1 DEF Compared
<1>5. m.wins = r.losses /\ m.losses = r.wins
  <2> DEFINE f == MeansOf(a, keys)  g == MeansOf(b, keys)
  <2>1. DOMAIN f = DOMAIN g
    BY DEF MeansOf
  <2>2. /\ r.wins = Cardinality({t \in DOMAIN f : g[t] > f[t]})
        /\ r.losses = Cardinality({t \in DOMAIN f : g[t] < f[t]})
    BY DEF Compared
  <2>3. /\ m.wins = Cardinality({t \in DOMAIN g : f[t] > g[t]})
        /\ m.losses = Cardinality({t \in DOMAIN g : f[t] < g[t]})
    BY <1>1 DEF Compared
  <2> HIDE DEF f, g, m, r
  <2>4. /\ {t \in DOMAIN f : g[t] < f[t]} = {t \in DOMAIN g : f[t] > g[t]}
        /\ {t \in DOMAIN f : g[t] > f[t]} = {t \in DOMAIN g : f[t] < g[t]}
    BY <2>1
  <2> QED
    BY <2>2, <2>3, <2>4
<1>6. m.missing = Swap(r.missing)
  <2>1. r.missing = [side \in Sides |-> Missing(a, b, side)] /\ m.missing = [side \in Sides |-> Missing(b, a, side)]
    BY DEF Compared
  <2> QED
    BY <1>2, <2>1 DEF Swap
<1>7. m.successes = Swap(r.successes)
  BY <1>1, Swapped DEF Compared
<1>8. m.rates = Swap(r.rates)
  BY <1>1, Swapped DEF Compared
<1>9. m.intervals = Swap(r.intervals)
  BY <1>1, Swapped DEF Compared
<1>10. m.catastrophes = Swap(r.catastrophes) /\ m.controls = Swap(r.controls)
  BY <1>1, Swapped DEF Compared
<1>11. m.mismatches = r.mismatches
  BY <1>1, <1>3 DEF Compared
<1>12. m.mcnemar = McNemar(b, a, keys) /\ r.mcnemar = McNemar(a, b, keys)
  BY <1>1 DEF Compared
<1> QED
  BY <1>4, <1>5, <1>6, <1>7, <1>8, <1>9, <1>10, <1>11, <1>12

-----------------------------------------------------------------------------
(* Pairing: every report.                                                  *)

PairInv ==
  /\ runs \in [Sides -> Seq(Anyone)]
  /\ report # None =>
       report.result = Analysis(runs["reference"], runs["candidate"], report.missing, report.draws)

THEOREM PairInvariant == PairSpec => []PairInv
<1>1. ASSUME PairInit PROVE PairInv
  <2>1. <<>> \in Seq(Anyone)
    BY EmptySeq
  <2> QED
    BY <1>1, <2>1 DEF PairInit, PairInv
<1>2. ASSUME PairInv, [PairNext]_pairVars PROVE PairInv'
  <2>1. CASE RunPair
    <3>1. PICK i \in DOMAIN Keys, outcome \in [Sides -> Outcomes] :
            runs' = [side \in Sides |-> Append(runs[side], Record(side, Keys[i], outcome[side]))]
      BY <2>1 DEF RunPair
    <3>2. \A side \in Sides : /\ Record(side, Keys[i], outcome[side]) \in Anyone
                              /\ runs[side] \in Seq(Anyone)
      BY <1>2 DEF PairInv, Anyone
    <3>3. \A side \in Sides : Append(runs[side], Record(side, Keys[i], outcome[side])) \in Seq(Anyone)
      BY <3>2, AppendProperties
    <3> QED
      BY <2>1, <3>1, <3>3 DEF RunPair, PairInv
  <2>2. CASE RunOne
    <3>1. PICK x \in Extras : runs' = [runs EXCEPT ![x.side] = Append(@, x.record)]
      BY <2>2 DEF RunOne
    <3>2. \A s \in Sides : Append(runs[s], x.record) \in Seq(Anyone)
      BY <1>2, AppendProperties DEF PairInv, Anyone
    <3> QED
      BY <1>2, <2>2, <3>1, <3>2 DEF RunOne, PairInv
  <2>3. CASE Analyze
    BY <1>2, <2>3 DEF Analyze, PairInv
  <2>4. CASE UNCHANGED pairVars
    BY <1>2, <2>4 DEF PairInv, pairVars
  <2> QED
    BY <1>2, <2>1, <2>2, <2>3, <2>4 DEF PairNext, PairRest
<1> QED
  BY <1>1, <1>2, PTL DEF PairSpec

(* For any tasks, seeds, outcomes and replicates, any number of runs: a    *)
(* report favours neither side, no order of the files and no run of a      *)
(* control (analyze of paired.py).                                         *)
THEOREM NothingIsFavoured == PairSpec => []NothingFavoured
<1>1. ASSUME PairInv PROVE OrderFree
  BY <1>1, OrderIsFree DEF PairInv, OrderFree, Ref, Cand, Filed, Sides
<1>2. ASSUME PairInv PROVE ControlsApart
  <2> SUFFICES ASSUME Analyzed PROVE ControlsApart
    BY DEF ControlsApart
  <2>1. /\ Filed(Ref) /\ Filed(Cand)
        /\ report.result = Analysis(Ref, Cand, report.missing, report.draws)
        /\ report.result.status = "analysed"
    BY <1>1, <1>2 DEF PairInv, Analyzed, Filed, Ref, Cand, Sides
  <2> QED
    BY <2>1, ControlsAreApart DEF ControlsApart
<1>3. ASSUME PairInv PROVE Mirror
  <2> SUFFICES ASSUME Analyzed PROVE Mirror
    BY DEF Mirror
  <2>1. /\ Filed(Ref) /\ Filed(Cand)
        /\ report.result = Analysis(Ref, Cand, report.missing, report.draws)
        /\ report.result.status = "analysed"
    BY <1>3 DEF PairInv, Analyzed, Filed, Ref, Cand, Sides
  <2>2. PICK r, m : /\ r = report.result /\ m = Analysis(Cand, Ref, report.missing, report.draws)
    OBVIOUS
  <2>3. r = Compared(Ref, Cand, report.draws) /\ m = Compared(Cand, Ref, report.draws)
    BY <2>1, <2>2, SidesMirrored
  <2>4. IsFiniteSet(Matched(Ref, Cand))
    BY <2>1, KeysFinite, FS_Subset DEF Matched
  <2>5. /\ m.status = r.status /\ m.pairs = r.pairs /\ m.tasks = r.tasks
        /\ m.wins = r.losses /\ m.losses = r.wins
        /\ m.missing = Swap(r.missing) /\ m.successes = Swap(r.successes)
        /\ m.rates = Swap(r.rates) /\ m.intervals = Swap(r.intervals)
        /\ m.catastrophes = Swap(r.catastrophes) /\ m.controls = Swap(r.controls)
        /\ m.mismatches = r.mismatches
        /\ m.mcnemar = McNemar(Cand, Ref, Matched(Ref, Cand))
        /\ r.mcnemar = McNemar(Ref, Cand, Matched(Ref, Cand))
    BY <2>1, <2>3, FiguresMirrored
  <2>6. /\ m.mcnemar.status = r.mcnemar.status
        /\ r.mcnemar.status = "computed" =>
             m.mcnemar = [status |-> "computed", b |-> r.mcnemar.c, c |-> r.mcnemar.b, p |-> r.mcnemar.p]
    BY <2>4, <2>5, TestMirrored
  <2> QED
    BY <2>2, <2>5, <2>6 DEF Mirror, Swap
<1> QED
  BY <1>1, <1>2, <1>3, PairInvariant, PTL DEF NothingFavoured

-----------------------------------------------------------------------------
(* Pairing: slices.                                                        *)

(* What is counted class by class adds up.                                 *)
LEMMA CountedByClass ==
  ASSUME NEW keys, IsFiniteSet(keys), NEW cls, NEW T \in SUBSET keys, NEW V,
         \A k \in keys : cls[k] \in V, \A v \in V : \E k \in keys : cls[k] = v,
         NEW W, \A v \in V : W[v] = Cardinality(OfClass(cls, T, v))
  PROVE  SumFunctionOnSet(W, V) = Cardinality(T)
<1> DEFINE w == [k \in keys |-> IF k \in T THEN 1 ELSE 0]
           f == [k \in keys |-> cls[k]]
<1>1. IsFiniteSet(V)
  <2>1. f \in Surjection(keys, V)
    BY DEF Surjection
  <2> HIDE DEF f
  <2> QED
    BY <2>1, FS_Surjection
<1>2. ASSUME NEW v \in V
      PROVE  W[v] = SumFunctionOnSet(w, OfClass(cls, keys, v))
  <2> DEFINE S == OfClass(cls, keys, v)
             U == OfClass(cls, T, v)
  <2>1. S \in SUBSET keys /\ U \in SUBSET S /\ \A k \in S : w[k] = IF k \in U THEN 1 ELSE 0
    BY DEF OfClass
  <2>2. IsFiniteSet(S)
    BY <2>1, FS_Subset
  <2> HIDE DEF S, U, w
  <2>3. SumFunctionOnSet(w, S) = Cardinality(U)
    BY <2>1, <2>2, SumOfMembers
  <2> QED
    BY <2>3 DEF S, U
<1>3. \A k \in keys : w[k] \in Int /\ cls[k] \in V
  OBVIOUS
<1>4. \A k \in keys : w[k] = IF k \in T THEN 1 ELSE 0
  OBVIOUS
<1> HIDE DEF w
<1>5. SumFunctionOnSet(W, V) = SumFunctionOnSet(w, keys)
  BY <1>1, <1>2, <1>3, SumByClass
<1>6. SumFunctionOnSet(w, keys) = Cardinality(T)
  BY <1>4, SumOfMembers
<1> QED
  BY <1>5, <1>6

Succeeded(r, keys) == {k \in keys : Run(r, k).success}
Ruined(r, keys) == {k \in keys : Run(r, k).catastrophic}

LEMMA SlicesAddUp ==
  ASSUME NEW keys, IsFiniteSet(keys), NEW a, NEW b, NEW dim
  PROVE  LET of == Slices(a, b, keys, dim)
             total(side, count) == SumFunction([v \in DOMAIN of |-> of[v][side][count]])
         IN  /\ \A v \in DOMAIN of : of[v]["reference"].pairs = of[v]["candidate"].pairs
             /\ total("reference", "pairs") = Cardinality(keys)
             /\ total("candidate", "pairs") = Cardinality(keys)
             /\ total("reference", "successes") = Successes(a, keys)
             /\ total("candidate", "successes") = Successes(b, keys)
             /\ total("reference", "catastrophes") = Catastrophes(a, keys)
             /\ total("candidate", "catastrophes") = Catastrophes(b, keys)
<1> DEFINE of == Slices(a, b, keys, dim)
           cls == [k \in keys |-> SliceOf(Run(a, k), dim)]
           V == {cls[k] : k \in keys}
           in(v) == {k \in keys : cls[k] = v}
           side(r, v) == [pairs |-> Cardinality(in(v)), successes |-> Successes(r, in(v)),
                          catastrophes |-> Catastrophes(r, in(v))]
           of2 == [v \in V |-> [reference |-> side(a, v), candidate |-> side(b, v)]]
           total(s, count) == SumFunction([v \in DOMAIN of |-> of[v][s][count]])
<1>1. of = of2
  <2>1. V = {SliceOf(Run(a, k), dim) : k \in keys}
    OBVIOUS
  <2>2. \A v : in(v) = {k \in keys : SliceOf(Run(a, k), dim) = v}
    OBVIOUS
  <2>3. of = [v \in {SliceOf(Run(a, k), dim) : k \in keys} |->
                [reference |-> [pairs |-> Cardinality({k \in keys : SliceOf(Run(a, k), dim) = v}),
                                successes |-> Successes(a, {k \in keys : SliceOf(Run(a, k), dim) = v}),
                                catastrophes |-> Catastrophes(a, {k \in keys : SliceOf(Run(a, k), dim) = v})],
                 candidate |-> [pairs |-> Cardinality({k \in keys : SliceOf(Run(a, k), dim) = v}),
                                successes |-> Successes(b, {k \in keys : SliceOf(Run(a, k), dim) = v}),
                                catastrophes |-> Catastrophes(b, {k \in keys : SliceOf(Run(a, k), dim) = v})]]]
    BY DEF Slices
  <2> HIDE DEF in, V
  <2> QED
    BY <2>1, <2>2, <2>3
<1>2. /\ DOMAIN of = V
      /\ \A v \in V : of[v] = [reference |-> side(a, v), candidate |-> side(b, v)]
  BY <1>1
<1> HIDE DEF of, V
<1>3. \A v \in V : of[v]["reference"].pairs = of[v]["candidate"].pairs
  <2> HIDE DEF in
  <2> QED
    BY <1>2
<1>4. ASSUME NEW s, NEW count, NEW T \in SUBSET keys,
             \A v \in V : of[v][s][count] = Cardinality(OfClass(cls, T, v))
      PROVE  total(s, count) = Cardinality(T)
  <2> DEFINE W == [v \in V |-> of[v][s][count]]
  <2>1. \A v \in V : W[v] = Cardinality(OfClass(cls, T, v))
    BY <1>4
  <2>2. total(s, count) = SumFunctionOnSet(W, V)
    BY <1>2 DEF SumFunction
  <2>3. (\A k \in keys : cls[k] \in V) /\ (\A v \in V : \E k \in keys : cls[k] = v)
    BY DEF V
  <2> HIDE DEF W, cls
  <2>4. SumFunctionOnSet(W, V) = Cardinality(T)
    BY <2>1, <2>3, CountedByClass
  <2> QED
    BY <2>2, <2>4
<1>5. \A v \in V : /\ of[v]["reference"]["pairs"] = Cardinality(OfClass(cls, keys, v))
                   /\ of[v]["candidate"]["pairs"] = Cardinality(OfClass(cls, keys, v))
  BY <1>2 DEF OfClass
<1>6. ASSUME NEW x
      PROVE  /\ \A v : /\ Successes(x, in(v)) = Cardinality(OfClass(cls, Succeeded(x, keys), v))
                       /\ Catastrophes(x, in(v)) = Cardinality(OfClass(cls, Ruined(x, keys), v))
             /\ Successes(x, keys) = Cardinality(Succeeded(x, keys))
             /\ Catastrophes(x, keys) = Cardinality(Ruined(x, keys))
             /\ Succeeded(x, keys) \in SUBSET keys /\ Ruined(x, keys) \in SUBSET keys
  <2> HIDE DEF cls
  <2>1. ASSUME NEW v
        PROVE  /\ {k \in in(v) : Run(x, k).success} = OfClass(cls, Succeeded(x, keys), v)
               /\ {k \in in(v) : Run(x, k).catastrophic} = OfClass(cls, Ruined(x, keys), v)
    BY DEF OfClass, Succeeded, Ruined
  <2>2. Succeeded(x, keys) \in SUBSET keys /\ Ruined(x, keys) \in SUBSET keys
    BY DEF Succeeded, Ruined
  <2> HIDE DEF in
  <2>3. ASSUME NEW v
        PROVE  /\ Successes(x, in(v)) = Cardinality(OfClass(cls, Succeeded(x, keys), v))
               /\ Catastrophes(x, in(v)) = Cardinality(OfClass(cls, Ruined(x, keys), v))
    BY <2>1 DEF Successes, Catastrophes
  <2>4. /\ Successes(x, keys) = Cardinality(Succeeded(x, keys))
        /\ Catastrophes(x, keys) = Cardinality(Ruined(x, keys))
    BY DEF Successes, Catastrophes, Succeeded, Ruined
  <2> QED
    BY <2>2, <2>3, <2>4
<1>7. \A v \in V : /\ of[v]["reference"]["successes"] = Successes(a, in(v))
                   /\ of[v]["candidate"]["successes"] = Successes(b, in(v))
                   /\ of[v]["reference"]["catastrophes"] = Catastrophes(a, in(v))
                   /\ of[v]["candidate"]["catastrophes"] = Catastrophes(b, in(v))
  BY <1>2
<1> HIDE DEF cls, total, in
<1>8. total("reference", "pairs") = Cardinality(keys) /\ total("candidate", "pairs") = Cardinality(keys)
  BY <1>4, <1>5
<1>9. total("reference", "successes") = Successes(a, keys)
  <2>1. /\ Succeeded(a, keys) \in SUBSET keys /\ Successes(a, keys) = Cardinality(Succeeded(a, keys))
        /\ \A v \in V : of[v]["reference"]["successes"] = Cardinality(OfClass(cls, Succeeded(a, keys), v))
    BY <1>6, <1>7
  <2> QED
    BY <1>4, <2>1
<1>10. total("candidate", "successes") = Successes(b, keys)
  <2>1. /\ Succeeded(b, keys) \in SUBSET keys /\ Successes(b, keys) = Cardinality(Succeeded(b, keys))
        /\ \A v \in V : of[v]["candidate"]["successes"] = Cardinality(OfClass(cls, Succeeded(b, keys), v))
    BY <1>6, <1>7
  <2> QED
    BY <1>4, <2>1
<1>11. total("reference", "catastrophes") = Catastrophes(a, keys)
  <2>1. /\ Ruined(a, keys) \in SUBSET keys /\ Catastrophes(a, keys) = Cardinality(Ruined(a, keys))
        /\ \A v \in V : of[v]["reference"]["catastrophes"] = Cardinality(OfClass(cls, Ruined(a, keys), v))
    BY <1>6, <1>7
  <2> QED
    BY <1>4, <2>1
<1>12. total("candidate", "catastrophes") = Catastrophes(b, keys)
  <2>1. /\ Ruined(b, keys) \in SUBSET keys /\ Catastrophes(b, keys) = Cardinality(Ruined(b, keys))
        /\ \A v \in V : of[v]["candidate"]["catastrophes"] = Cardinality(OfClass(cls, Ruined(b, keys), v))
    BY <1>6, <1>7
  <2> QED
    BY <1>4, <2>1
<1> QED
  BY <1>2, <1>3, <1>8, <1>9, <1>10, <1>11, <1>12 DEF total, of

(* For any runs: the slices of a report add up to its totals on both sides *)
(* (_bucket_slices).                                                       *)
THEOREM SlicesAlwaysCover == PairSpec => []SlicesCover
<1>1. ASSUME PairInv PROVE SlicesCover
  <2> SUFFICES ASSUME Analyzed PROVE SlicesCover
    BY DEF SlicesCover
  <2>1. /\ Filed(Ref) /\ Filed(Cand)
        /\ report.result = Analysis(Ref, Cand, report.missing, report.draws)
        /\ report.result.status = "analysed"
    BY <1>1 DEF PairInv, Analyzed, Filed, Ref, Cand, Sides
  <2>2. report.result = Compared(Ref, Cand, report.draws)
    BY <2>1, SidesMirrored
  <2> DEFINE keys == Matched(Ref, Cand)
             r == report.result
  <2>3. IsFiniteSet(keys)
    BY <2>1, KeysFinite, FS_Subset DEF Matched
  <2>4. /\ r.pairs = Cardinality(keys)
        /\ r.successes = [reference |-> Successes(Ref, keys), candidate |-> Successes(Cand, keys)]
        /\ r.catastrophes = [reference |-> Catastrophes(Ref, keys), candidate |-> Catastrophes(Cand, keys)]
        /\ \A dim \in Dimensions : r.slices[dim] = Slices(Ref, Cand, keys, dim)
    BY <2>2 DEF Compared
  <2> HIDE DEF keys, r
  <2> SUFFICES ASSUME NEW dim \in Dimensions
               PROVE  LET of == r.slices[dim]
                          total(side, count) == SumFunction([v \in DOMAIN of |-> of[v][side][count]])
                      IN  /\ \A v \in DOMAIN of : of[v]["reference"].pairs = of[v]["candidate"].pairs
                          /\ \A side \in Sides :
                               /\ total(side, "pairs") = r.pairs
                               /\ total(side, "successes") = r.successes[side]
                               /\ total(side, "catastrophes") = r.catastrophes[side]
    BY DEF SlicesCover, r
  <2>5. PICK of : of = r.slices[dim] /\ of = Slices(Ref, Cand, keys, dim)
    BY <2>4
  <2> DEFINE total(side, count) == SumFunction([v \in DOMAIN of |-> of[v][side][count]])
  <2>6. /\ \A v \in DOMAIN of : of[v]["reference"].pairs = of[v]["candidate"].pairs
        /\ total("reference", "pairs") = Cardinality(keys)
        /\ total("candidate", "pairs") = Cardinality(keys)
        /\ total("reference", "successes") = Successes(Ref, keys)
        /\ total("candidate", "successes") = Successes(Cand, keys)
        /\ total("reference", "catastrophes") = Catastrophes(Ref, keys)
        /\ total("candidate", "catastrophes") = Catastrophes(Cand, keys)
    BY <2>3, <2>5, SlicesAddUp
  <2> HIDE DEF total
  <2>7. \A side \in Sides : /\ total(side, "pairs") = r.pairs
                            /\ total(side, "successes") = r.successes[side]
                            /\ total(side, "catastrophes") = r.catastrophes[side]
    BY <2>4, <2>6 DEF Sides
  <2> QED
    BY <2>5, <2>6, <2>7 DEF total
<1> QED
  BY <1>1, PairInvariant, PTL
=============================================================================
