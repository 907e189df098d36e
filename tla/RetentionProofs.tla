-------------------------- MODULE RetentionProofs --------------------------
(* Theorems about Retention, for every inventory, pressure and cap: whom   *)
(* the loops choose, and then what the bytes they count add up to.         *)
EXTENDS Retention, FiniteSums, TLAPS

(* What each part of the pass has not touched yet.                         *)
PhaseOK ==
    /\ phase \in {"slot", "uma", "window"} => aged = {} /\ squeezed = {}
    /\ phase \in {"slot", "uma", "window", "warm"} => evicted = {}
    /\ phase \notin {"disk", "done"} => forDisk = {}

(* The inductive invariant: each property says only what has been chosen   *)
(* so far, PhaseOK says that the pools a later loop uses no longer change. *)
PolicyInv == TypeOK /\ PhaseOK /\ NobodyOutranked /\ LeastRecentFirst /\ CacheBeforeState

(* A pass starts with nothing chosen.                                      *)
LEMMA FreshPass ==
    ASSUME yielded = {}, hotFreed = 0, aged = {}, squeezed = {}, evicted = {},
           dropped = {}, forDisk = {}, freed = 0
    PROVE  /\ PhaseOK /\ NobodyOutranked /\ LeastRecentFirst /\ CacheBeforeState
           /\ forDisk \subseteq evicted /\ dropped \subseteq DOMAIN prefixes
           /\ aged \cup squeezed \subseteq InTier("WARM")
           /\ evicted \subseteq InTier("WARM") \cup InTier("COLD")
           /\ hotFreed \in Nat /\ freed \in Nat
BY DEF PhaseOK, NobodyOutranked, LeastRecentFirst, CacheBeforeState, ColdLeft

(* Every observation the policy may be given starts a pass.                *)
LEMMA PolicyInit == Init => PolicyInv
<1> SUFFICES ASSUME Init PROVE PolicyInv
  OBVIOUS
<1>1. ObservedOK([sessions |-> sessions, prefixes |-> prefixes]) /\ PressureOK(pressure)
  BY ObservationAssumption DEF Init, ObservedOK
<1> QED
  BY <1>1, FreshPass DEF Init, PolicyInv, TypeOK, Phases

(* The types of the observed entries.                                      *)
LEMMA ObservedTypes ==
    ASSUME TypeOK
    PROVE  /\ DOMAIN sessions \subseteq Nat /\ DOMAIN prefixes \subseteq Nat
           /\ IsFiniteSet(DOMAIN sessions) /\ IsFiniteSet(DOMAIN prefixes)
           /\ \A i \in DOMAIN sessions : SessionOK(sessions[i])
           /\ \A i \in DOMAIN prefixes : PrefixOK(prefixes[i])
BY DEF TypeOK, ObservedOK

(* One waiter yields: it is of the lowest priority left, and then of the   *)
(* longest wait.                                                           *)
LEMMA YieldInv ==
    ASSUME PolicyInv, phase \in {"slot", "uma"}, phase' \in {"slot", "uma"},
           NEW i \in Ranked, Yield(i)
    PROVE  PolicyInv'
<1>1. i \in InTier("HOT") /\ sessions[i].lifecycle = "WAITING" /\ i \in DOMAIN sessions
  BY DEF Ranked, Eligible, InTier
<1>2. sessions[i].state_bytes \in Nat
  BY <1>1, ObservedTypes DEF PolicyInv, SessionOK
<1>3. TypeOK'
  BY <1>1, <1>2 DEF Yield, PolicyInv, TypeOK, inventory, nvmeChoice, InTier, Phases
<1>4. PhaseOK' /\ LeastRecentFirst' /\ CacheBeforeState'
  BY DEF Yield, PolicyInv, PhaseOK, LeastRecentFirst, CacheBeforeState, inventory, nvmeChoice,
         EffectiveWarm, EffectiveCold, ColdLeft, SnapshotPool, Live, InTier
<1>5. Ranked' = Ranked \ {i}
  BY DEF Yield, Ranked, Eligible, Idle, InTier, inventory
<1>6. \A j \in Ranked \ {i} : YieldsBefore(i, j)
  BY DEF Yield
<1>7. \A j \in Ranked \ {i} : sessions[i].priority \in Int /\ sessions[j].priority \in Int
  BY <1>1, ObservedTypes DEF PolicyInv, SessionOK, Priorities, Ranked, InTier
<1>8. \A j \in Ranked \ {i} :
        /\ sessions[i].last_accessed \in Int /\ sessions[j].last_accessed \in Int
  BY <1>1, ObservedTypes DEF PolicyInv, SessionOK, Ranked, InTier
<1>9. NobodyOutranked'
  BY <1>5, <1>6, <1>7, <1>8 DEF Yield, PolicyInv, NobodyOutranked, YieldsBefore, inventory
<1> QED
  BY <1>3, <1>4, <1>9 DEF PolicyInv

(* A step that only moves to a later loop.                                 *)
LEMMA PhaseInv ==
    ASSUME PolicyInv, UNCHANGED <<inventory, hotChoice, nvmeChoice>>, phase' \in Phases,
           phase' \in {"slot", "uma", "window"} => phase \in {"slot", "uma", "window"},
           phase' = "warm" => phase = "warm",
           phase' \notin {"disk", "done"} => phase \notin {"disk", "done"}
    PROVE  PolicyInv'
<1>1. TypeOK'
  BY DEF PolicyInv, TypeOK, InTier, inventory, hotChoice, nvmeChoice
<1>2. PhaseOK'
  BY DEF PolicyInv, PhaseOK, inventory, hotChoice, nvmeChoice
<1>3. NobodyOutranked'
  BY DEF PolicyInv, NobodyOutranked, Ranked, Eligible, Idle, InTier, inventory, hotChoice
<1>4. LeastRecentFirst' /\ CacheBeforeState'
  BY DEF PolicyInv, LeastRecentFirst, CacheBeforeState, inventory, hotChoice, nvmeChoice,
         EffectiveWarm, EffectiveCold, ColdLeft, SnapshotPool, Live, InTier
<1> QED
  BY <1>1, <1>2, <1>3, <1>4 DEF PolicyInv

(* The steps that leave the hot choice and the inventory alone keep what   *)
(* was said of the hot choice.                                             *)
LEMMA HotFrame ==
    ASSUME PolicyInv, UNCHANGED <<inventory, hotChoice>>
    PROVE  NobodyOutranked'
BY DEF PolicyInv, NobodyOutranked, Ranked, Eligible, Idle, InTier, inventory, hotChoice

(* The first of a pool by age was accessed no later than the rest of it.   *)
LEMMA OldestFirst ==
    ASSUME TypeOK, NEW pool, pool \subseteq DOMAIN sessions, NEW i \in pool,
           Oldest(i, pool)
    PROVE  \A j \in pool : sessions[i].last_accessed <= sessions[j].last_accessed
<1>1. \A j \in pool : sessions[j].last_accessed \in Int
  BY ObservedTypes DEF SessionOK
<1>2. \A j \in pool \ {i} : OlderThan(i, j)
  BY DEF Oldest
<1> QED
  BY <1>1, <1>2 DEF OlderThan

(* The same for prefix entries.                                            *)
LEMMA OldestPrefix ==
    ASSUME TypeOK, NEW i \in Live, OldestLive(i)
    PROVE  \A j \in Live : prefixes[i].last_accessed <= prefixes[j].last_accessed
<1>1. \A j \in Live : prefixes[j].last_accessed \in Int
  BY ObservedTypes DEF PrefixOK, Live
<1> QED
  BY <1>1 DEF OldestLive, PrefixOlder

(* Demotions for the window preserve the invariant.                        *)
LEMMA WindowInv == ASSUME PolicyInv, Window PROVE PolicyInv'
<1>1. TypeOK'
  BY DEF Window, PolicyInv, TypeOK, PhaseOK, InTier, inventory, hotChoice, Phases
<1>2. PhaseOK' /\ LeastRecentFirst' /\ CacheBeforeState'
  BY DEF Window, PolicyInv, PhaseOK, LeastRecentFirst, CacheBeforeState, inventory, hotChoice,
         Live
<1> QED
  BY <1>1, <1>2, HotFrame DEF Window, PolicyInv

(* A demotion for the warm quota preserves the invariant.                  *)
LEMMA WarmDemoteInv == ASSUME PolicyInv, WarmDemote PROVE PolicyInv'
<1>1. PICK i \in EffectiveWarm :
         Oldest(i, EffectiveWarm) /\ squeezed' = squeezed \cup {i}
  BY DEF WarmDemote
<1>2. i \in InTier("WARM") /\ EffectiveWarm \subseteq DOMAIN sessions
  BY DEF EffectiveWarm, InTier
<1>3. TypeOK'
  BY <1>1, <1>2 DEF WarmDemote, PolicyInv, TypeOK, InTier, inventory, hotChoice, Phases
<1>4. \A j \in EffectiveWarm : sessions[i].last_accessed <= sessions[j].last_accessed
  BY <1>1, <1>2, OldestFirst DEF PolicyInv
<1>5. PhaseOK' /\ CacheBeforeState' /\ evicted = {} /\ forDisk = {}
  BY DEF WarmDemote, PolicyInv, PhaseOK, CacheBeforeState, inventory, Live
<1>6. EffectiveWarm' \subseteq EffectiveWarm
  BY <1>1 DEF WarmDemote, EffectiveWarm, InTier, inventory
<1>7. LeastRecentFirst'
  BY <1>1, <1>4, <1>5, <1>6 DEF WarmDemote, PolicyInv, LeastRecentFirst, inventory, Live
<1> QED
  BY <1>3, <1>5, <1>7, HotFrame DEF WarmDemote, PolicyInv

(* An eviction for the cold quota preserves the invariant.                 *)
LEMMA ColdEvictInv == ASSUME PolicyInv, ColdEvict PROVE PolicyInv'
<1>1. PICK i \in ColdLeft : Oldest(i, ColdLeft) /\ Evict(i)
  BY DEF ColdEvict
<1>2. i \in (InTier("WARM") \cup InTier("COLD")) /\ ColdLeft \subseteq DOMAIN sessions
  BY DEF ColdLeft, EffectiveCold, InTier, PolicyInv, TypeOK
<1>3. sessions[i].state_bytes \in Nat
  BY <1>1, <1>2, ObservedTypes DEF PolicyInv, SessionOK
<1>4. TypeOK'
  BY <1>1, <1>2, <1>3 DEF ColdEvict, Evict, PolicyInv, TypeOK, InTier, inventory, hotChoice, Phases
<1>5. \A j \in ColdLeft : sessions[i].last_accessed <= sessions[j].last_accessed
  BY <1>1, <1>2, OldestFirst DEF PolicyInv
<1>6. PhaseOK' /\ CacheBeforeState' /\ forDisk = {} /\ forDisk' = {}
  BY <1>1 DEF ColdEvict, Evict, PolicyInv, PhaseOK, CacheBeforeState, inventory, Live
<1>7. ColdLeft' = ColdLeft \ {i} /\ EffectiveWarm' = EffectiveWarm /\ Live' = Live
  BY <1>1 DEF Evict, ColdLeft, EffectiveCold, EffectiveWarm, InTier, inventory, Live
<1>8. LeastRecentFirst'
  BY <1>1, <1>5, <1>6, <1>7 DEF Evict, PolicyInv, LeastRecentFirst, inventory
<1> QED
  BY <1>1, <1>4, <1>6, <1>8, HotFrame DEF Evict, PolicyInv

(* Dropping a prefix entry preserves the invariant if it is useless or the *)
(* oldest of the live ones.                                                *)
LEMMA DropInv ==
    ASSUME PolicyInv, NEW i \in DOMAIN prefixes, Drop(i), phase' = phase,
           prefixes[i].compatible =>
               i \in Live /\ \A j \in Live :
                   prefixes[i].last_accessed <= prefixes[j].last_accessed
    PROVE  PolicyInv'
<1>1. prefixes[i].state_bytes \in Nat
  BY ObservedTypes DEF PolicyInv, PrefixOK
<1>2. TypeOK'
  BY <1>1 DEF Drop, PolicyInv, TypeOK, InTier, inventory, hotChoice
<1>3. Live' = Live \ {i}
  BY DEF Drop, Live, inventory
<1>4. PhaseOK' /\ CacheBeforeState'
  BY <1>3 DEF Drop, PolicyInv, PhaseOK, CacheBeforeState
<1>5. /\ EffectiveWarm' = EffectiveWarm /\ ColdLeft' = ColdLeft
      /\ SnapshotPool' = SnapshotPool
  BY DEF Drop, EffectiveWarm, EffectiveCold, ColdLeft, SnapshotPool, InTier, inventory
<1>6. LeastRecentFirst'
  BY <1>3, <1>5 DEF Drop, PolicyInv, LeastRecentFirst, inventory
<1> QED
  BY <1>2, <1>4, <1>6, HotFrame DEF Drop, PolicyInv

(* The three loops over the prefix cache preserve the invariant.           *)
LEMMA PrefixInv ==
    ASSUME PolicyInv, Incompatible \/ PrefixEvict \/ DiskPrefix
    PROVE  PolicyInv'
<1>1. CASE Incompatible
  <2>1. CASE Useless = {}
    BY <1>1, <2>1, PhaseInv DEF Incompatible, Phases
  <2>2. CASE Useless # {}
    <3>1. PICK i \in Useless : Drop(i)
      BY <1>1, <2>2 DEF Incompatible
    <3> QED
      BY <1>1, <2>2, <3>1, DropInv DEF Incompatible, Useless
  <2> QED
    BY <2>1, <2>2
<1>2. CASE PrefixEvict \/ DiskPrefix
  <2>1. PICK i \in Live : OldestLive(i) /\ Drop(i)
    BY <1>2 DEF PrefixEvict, DiskPrefix
  <2>2. Live \subseteq DOMAIN prefixes /\ phase' = phase
    BY <1>2 DEF Live, PrefixEvict, DiskPrefix
  <2>3. \A j \in Live : prefixes[i].last_accessed <= prefixes[j].last_accessed
    BY <2>1, <2>2, OldestPrefix DEF PolicyInv
  <2> QED
    BY <2>1, <2>2, <2>3, DropInv
<1> QED
  BY <1>1, <1>2

(* An eviction for the disk target preserves the invariant.                *)
LEMMA DiskSnapshotInv == ASSUME PolicyInv, DiskSnapshot PROVE PolicyInv'
<1>1. PICK i \in SnapshotPool : /\ Oldest(i, SnapshotPool)
                                /\ Evict(i)
                                /\ forDisk' = forDisk \cup {i}
  BY DEF DiskSnapshot
<1>2. /\ i \in (InTier("WARM") \cup InTier("COLD")) /\ i \notin evicted
      /\ SnapshotPool \subseteq DOMAIN sessions
  BY DEF SnapshotPool, EffectiveWarm, EffectiveCold, InTier, PolicyInv, TypeOK
<1>3. sessions[i].state_bytes \in Nat
  BY <1>1, <1>2, ObservedTypes DEF PolicyInv, SessionOK
<1>4. TypeOK'
  BY <1>1, <1>2, <1>3 DEF Evict, PolicyInv, TypeOK, InTier, inventory, hotChoice
<1>5. \A j \in SnapshotPool : sessions[i].last_accessed <= sessions[j].last_accessed
  BY <1>1, <1>2, OldestFirst DEF PolicyInv
<1>6. /\ SnapshotPool' = SnapshotPool \ {i} /\ ColdLeft' \subseteq ColdLeft
      /\ EffectiveWarm' = EffectiveWarm /\ Live' = Live
  BY <1>1 DEF Evict, ColdLeft, SnapshotPool, EffectiveCold, EffectiveWarm, InTier, inventory, Live
<1>7. PhaseOK' /\ CacheBeforeState'
  BY <1>1, <1>6 DEF DiskSnapshot, Evict, PolicyInv, PhaseOK, CacheBeforeState, PrefixesSpent
<1>8. evicted' \ forDisk' = evicted \ forDisk /\ forDisk \subseteq evicted
  BY <1>1, <1>2 DEF Evict, PolicyInv, TypeOK
<1>9. LeastRecentFirst'
  BY <1>1, <1>5, <1>6, <1>8 DEF Evict, PolicyInv, LeastRecentFirst, inventory
<1> QED
  BY <1>1, <1>4, <1>7, <1>9, HotFrame DEF Evict, PolicyInv

(* The scheduler's next observation is valid, and starts a pass.           *)
LEMMA ApplyInv == ASSUME PolicyInv, Apply PROVE PolicyInv'
<1> DEFINE left == {j \in DOMAIN sessions : Action(j) # "evict_snapshot"}
<1>1. ASSUME NEW i \in left PROVE SessionOK(Applied(i))
  <2>1. SessionOK(sessions[i])
    BY ObservedTypes DEF PolicyInv
  <2>2. CASE i \in yielded
    BY <2>1, <2>2 DEF Applied, SessionOK
  <2>3. CASE i \notin yielded /\ Action(i) = "demote_to_cold"
    <3>1. sessions[i].tier = "WARM"
      BY <2>3 DEF Action, PolicyInv, TypeOK, InTier
    <3> QED
      BY <2>1, <2>3, <3>1 DEF Applied, SessionOK
  <2> QED
    BY <2>1, <2>2, <2>3 DEF Applied
<1>2. DOMAIN sessions' \subseteq Nat /\ \A i \in DOMAIN sessions' : SessionOK(sessions'[i])
  BY <1>1, ObservedTypes DEF Apply, PolicyInv
<1>3. DOMAIN prefixes' \subseteq Nat /\ \A i \in DOMAIN prefixes' : PrefixOK(prefixes'[i])
  BY ObservedTypes DEF Apply, PolicyInv
<1>4. ObservedOK([sessions |-> sessions', prefixes |-> prefixes'])
  <2>1. DOMAIN sessions' \in SUBSET DOMAIN sessions /\ DOMAIN prefixes' \in SUBSET DOMAIN prefixes
    BY DEF Apply
  <2>2. IsFiniteSet(DOMAIN sessions') /\ IsFiniteSet(DOMAIN prefixes')
    BY <2>1, ObservedTypes, FS_Subset DEF PolicyInv
  <2> QED
    BY <1>2, <1>3, <2>2 DEF ObservedOK
<1>5. PressureOK(pressure')
  BY ObservationAssumption DEF Apply
<1>6. phase' = "slot" /\ pass' \in Nat /\ yielded' = {}
  BY DEF Apply, PolicyInv, TypeOK
<1>7. (PhaseOK /\ NobodyOutranked /\ LeastRecentFirst /\ CacheBeforeState)'
  BY DEF Apply, PhaseOK, NobodyOutranked, LeastRecentFirst, CacheBeforeState, ColdLeft
<1>8. TypeOK'
  BY <1>4, <1>5, <1>6 DEF Apply, TypeOK, Phases
<1> QED
  BY <1>7, <1>8 DEF PolicyInv

(* Every step preserves the invariant.                                     *)
LEMMA PolicyStep == PolicyInv /\ [Next]_vars => PolicyInv'
<1> SUFFICES ASSUME PolicyInv, [Next]_vars PROVE PolicyInv'
  OBVIOUS
<1>1. CASE SlotDemand
  <2>1. CASE pressure.needs_hot_slot /\ Ranked # {}
    BY <1>1, <2>1, YieldInv DEF SlotDemand
  <2>2. CASE ~(pressure.needs_hot_slot /\ Ranked # {})
    BY <1>1, <2>2, PhaseInv DEF SlotDemand, Phases
  <2> QED
    BY <2>1, <2>2
<1>2. CASE UmaYield
  BY <1>2, YieldInv DEF UmaYield
<1>3. CASE HotDone \/ WarmDone \/ ColdDone \/ PrefixDone \/ DiskDone
  BY <1>3, PhaseInv DEF HotDone, WarmDone, ColdDone, PrefixDone, DiskDone, Phases
<1>4. CASE Window \/ WarmDemote \/ ColdEvict
  BY <1>4, WindowInv, WarmDemoteInv, ColdEvictInv
<1>5. CASE Incompatible \/ PrefixEvict \/ DiskPrefix \/ DiskSnapshot
  BY <1>5, PrefixInv, DiskSnapshotInv
<1>6. CASE Apply
  BY <1>6, ApplyInv
<1>7. CASE Finished \/ UNCHANGED vars
  BY <1>7, PhaseInv DEF Finished, vars, PolicyInv, TypeOK
<1> QED
  BY <1>1, <1>2, <1>3, <1>4, <1>5, <1>6, <1>7 DEF Next

(* The inductive invariant of the pass.                                    *)
THEOREM PolicyInvariant == Spec => []PolicyInv
BY PolicyInit, PolicyStep, PTL DEF Spec

(* Only waiters are made to yield, only warm snapshots are demoted and     *)
(* nothing that is in memory is deleted, whatever is observed.             *)
THEOREM PolicyTypes == Spec => []TypeOK
<1>1. PolicyInv => TypeOK
  BY DEF PolicyInv
<1> QED
  BY <1>1, PolicyInvariant, PTL

(* The waiters that yield are the lowest in priority, longest idle first.  *)
THEOREM PriorityRespected == Spec => []NobodyOutranked
<1>1. PolicyInv => NobodyOutranked
  BY DEF PolicyInv
<1> QED
  BY <1>1, PolicyInvariant, PTL

(* Every demotion and deletion takes the least recently accessed entry of  *)
(* its pool, although the pools of later loops depend on earlier ones.     *)
THEOREM LeastRecentlyUsed == Spec => []LeastRecentFirst
<1>1. PolicyInv => LeastRecentFirst
  BY DEF PolicyInv
<1> QED
  BY <1>1, PolicyInvariant, PTL

(* No snapshot is deleted for disk space while a cached prefix is left.    *)
THEOREM CacheSpentFirst == Spec => []CacheBeforeState
<1>1. PolicyInv => CacheBeforeState
  BY DEF PolicyInv
<1> QED
  BY <1>1, PolicyInvariant, PTL

(* Every choice of every loop is the next in the order of victims.         *)
THEOREM VictimsAreInOrder == Spec => []VictimsInOrder
<1>1. TypeOK /\ NobodyOutranked /\ LeastRecentFirst /\ CacheBeforeState => VictimsInOrder
  BY DEF VictimsInOrder
<1> QED
  BY <1>1, PolicyTypes, PriorityRespected, LeastRecentlyUsed, CacheSpentFirst, PTL

-----------------------------------------------------------------------------
(* The bytes                                                               *)

(* What holds of the pools once their loop is done.                        *)
Fits ==
    /\ phase \notin {"slot", "uma", "window"} =>
           aged = {i \in InTier("WARM") : Idle(i) > WarmWindow}
    /\ phase \in {"cold", "prefix", "quota", "disk", "done"} => Bytes(EffectiveWarm) <= WarmCap
    /\ phase \in {"prefix", "quota", "disk", "done"} => Bytes(ColdLeft) <= ColdCap
    /\ phase \in {"quota", "disk", "done"} => Useless = {}
    /\ phase \in {"disk", "done"} => PrefixBytes(Live) <= PrefixCap

(* An inventory that a decision left, and nobody came into since.          *)
Rested ==
    (pass > 1 /\ quiet) =>
        /\ \A i \in InTier("WARM") : ~ (Idle(i) > WarmWindow)
        /\ Bytes(InTier("WARM")) <= WarmCap /\ Bytes(InTier("COLD")) <= ColdCap
        /\ \A i \in DOMAIN prefixes : prefixes[i].compatible
        /\ PrefixBytes(DOMAIN prefixes) <= PrefixCap
        /\ squeezed = {}
        /\ phase \notin {"disk", "done"} \/ ~pressure.disk_pressure => evicted = {} /\ dropped = {}

Fresh == /\ phase = "slot" => yielded = {} /\ hotFreed = 0
         /\ phase \in {"slot", "uma", "window", "warm", "cold", "prefix"} =>
                \A i \in dropped : ~prefixes[i].compatible
         /\ phase \in {"slot", "uma", "window", "warm", "cold"} => dropped = {}

(* The second layer of the invariant, over PolicyInv.                      *)
BytesInv == Fits /\ Rested /\ Fresh /\ FreedIsDeleted /\ NothingNeedless

(* One more entry costs its bytes, and fewer entries cost no more.         *)
LEMMA BytesCount ==
    ASSUME TypeOK, NEW S \in SUBSET DOMAIN sessions
    PROVE  /\ Bytes(S) \in Nat
           /\ \A T \in SUBSET S : Bytes(T) <= Bytes(S) /\ Bytes(T) \in Nat
           /\ \A i \in DOMAIN sessions \ S : Bytes(S \cup {i}) = Bytes(S) + sessions[i].state_bytes
<1> DEFINE w == Sizes(sessions)
<1>1. IsFiniteSet(S) /\ IsFiniteSet(DOMAIN sessions)
  BY ObservedTypes, FS_Subset
<1>2. \A i \in DOMAIN sessions : w[i] \in Nat /\ w[i] = sessions[i].state_bytes
  BY ObservedTypes DEF SessionOK, Sizes
<1>3. \A T \in SUBSET S : IsFiniteSet(T)
  BY <1>1, FS_Subset
<1> HIDE DEF w
<1>4. \A T \in SUBSET S : SumFunctionOnSet(w, T) \in Nat
  BY <1>2, <1>3, SumIsNatural
<1>5. \A T \in SUBSET S : SumFunctionOnSet(w, T) <= SumFunctionOnSet(w, S)
  BY <1>1, <1>2, SumMonotone
<1>6. ASSUME NEW i \in DOMAIN sessions \ S
      PROVE  SumFunctionOnSet(w, S \cup {i}) = SumFunctionOnSet(w, S) + w[i]
  <2>1. \A y \in S \cup {i} : w[y] \in Int
    BY <1>2
  <2> QED
    BY <1>1, <2>1, SumWith
<1> QED
  BY <1>2, <1>4, <1>5, <1>6 DEF Bytes, w

(* The same for prefix entries.                                            *)
LEMMA PrefixBytesCount ==
    ASSUME TypeOK, NEW S \in SUBSET DOMAIN prefixes
    PROVE  /\ PrefixBytes(S) \in Nat
           /\ \A T \in SUBSET S : PrefixBytes(T) <= PrefixBytes(S) /\ PrefixBytes(T) \in Nat
           /\ \A i \in DOMAIN prefixes \ S :
                  PrefixBytes(S \cup {i}) = PrefixBytes(S) + prefixes[i].state_bytes
<1> DEFINE w == Sizes(prefixes)
<1>1. IsFiniteSet(S)
  BY ObservedTypes, FS_Subset
<1>2. \A i \in DOMAIN prefixes : w[i] \in Nat /\ w[i] = prefixes[i].state_bytes
  BY ObservedTypes DEF PrefixOK, Sizes
<1>3. \A T \in SUBSET S : IsFiniteSet(T)
  BY <1>1, FS_Subset
<1> HIDE DEF w
<1>4. \A T \in SUBSET S : SumFunctionOnSet(w, T) \in Nat
  BY <1>2, <1>3, SumIsNatural
<1>5. \A T \in SUBSET S : SumFunctionOnSet(w, T) <= SumFunctionOnSet(w, S)
  BY <1>1, <1>2, SumMonotone
<1>6. ASSUME NEW i \in DOMAIN prefixes \ S
      PROVE  SumFunctionOnSet(w, S \cup {i}) = SumFunctionOnSet(w, S) + w[i]
  <2>1. \A y \in S \cup {i} : w[y] \in Int
    BY <1>2
  <2> QED
    BY <1>1, <2>1, SumWith
<1> QED
  BY <1>2, <1>4, <1>5, <1>6 DEF PrefixBytes, w

(* The pools are places of the observed lists.                             *)
LEMMA PoolsObserved ==
    ASSUME TypeOK
    PROVE  /\ EffectiveWarm \in SUBSET DOMAIN sessions /\ EffectiveCold \in SUBSET DOMAIN sessions
           /\ ColdLeft \in SUBSET DOMAIN sessions /\ SnapshotPool \in SUBSET (DOMAIN sessions \ evicted)
           /\ evicted \in SUBSET DOMAIN sessions /\ yielded \in SUBSET DOMAIN sessions
           /\ Live \in SUBSET (DOMAIN prefixes \ dropped) /\ Useless \in SUBSET (DOMAIN prefixes \ dropped)
           /\ dropped \in SUBSET DOMAIN prefixes
BY DEF TypeOK, EffectiveWarm, EffectiveCold, ColdLeft, SnapshotPool, InTier, Live, Useless

(* A snapshot that is evicted is counted once.                             *)
LEMMA EvictCounts ==
    ASSUME TypeOK, FreedIsDeleted, NEW i \in DOMAIN sessions \ evicted, Evict(i)
    PROVE  FreedIsDeleted'
<1>1. Bytes(evicted \cup {i}) = Bytes(evicted) + sessions[i].state_bytes
  BY PoolsObserved, BytesCount
<1>2. Bytes(evicted) \in Nat /\ PrefixBytes(dropped) \in Nat /\ sessions[i].state_bytes \in Nat
  BY PoolsObserved, BytesCount, PrefixBytesCount, ObservedTypes DEF SessionOK
<1>3. Bytes(evicted)' = Bytes(evicted \cup {i}) /\ PrefixBytes(dropped)' = PrefixBytes(dropped)
  BY DEF Evict, Bytes, PrefixBytes, inventory
<1>4. freed' = freed + sessions[i].state_bytes
  BY DEF Evict
<1> QED
  BY <1>1, <1>2, <1>3, <1>4 DEF FreedIsDeleted

(* The same for a prefix that is dropped.                                  *)
LEMMA DropCounts ==
    ASSUME TypeOK, FreedIsDeleted, NEW i \in DOMAIN prefixes \ dropped, Drop(i)
    PROVE  FreedIsDeleted'
<1>1. PrefixBytes(dropped \cup {i}) = PrefixBytes(dropped) + prefixes[i].state_bytes
  BY PoolsObserved, PrefixBytesCount
<1>2. Bytes(evicted) \in Nat /\ PrefixBytes(dropped) \in Nat /\ prefixes[i].state_bytes \in Nat
  BY PoolsObserved, BytesCount, PrefixBytesCount, ObservedTypes DEF PrefixOK
<1>3. PrefixBytes(dropped)' = PrefixBytes(dropped \cup {i}) /\ Bytes(evicted)' = Bytes(evicted)
  BY DEF Drop, Bytes, PrefixBytes, inventory
<1>4. freed' = freed + prefixes[i].state_bytes
  BY DEF Drop
<1> QED
  BY <1>1, <1>2, <1>3, <1>4 DEF FreedIsDeleted

(* Every step keeps the account of what is freed.                          *)
LEMMA FreedStep == ASSUME PolicyInv, FreedIsDeleted, [Next]_vars PROVE FreedIsDeleted'
<1>1. CASE UNCHANGED <<inventory, evicted, dropped, freed>>
  BY <1>1 DEF FreedIsDeleted, Bytes, PrefixBytes, inventory
<1>2. ASSUME NEW i \in DOMAIN sessions \ evicted, Evict(i) PROVE FreedIsDeleted'
  BY <1>2, EvictCounts DEF PolicyInv
<1>3. ASSUME NEW i \in DOMAIN prefixes \ dropped, Drop(i) PROVE FreedIsDeleted'
  BY <1>3, DropCounts DEF PolicyInv
<1>4. CASE SlotDemand \/ UmaYield \/ HotDone \/ Window \/ WarmDemote \/ WarmDone \/ ColdDone
           \/ PrefixDone \/ DiskDone \/ Finished \/ UNCHANGED vars
  BY <1>1, <1>4 DEF SlotDemand, UmaYield, HotDone, Yield, Window, WarmDemote, WarmDone, ColdDone,
                    PrefixDone, DiskDone, Finished, vars, nvmeChoice
<1>5. CASE ColdEvict \/ DiskSnapshot
  BY <1>2, <1>5, PoolsObserved DEF ColdEvict, DiskSnapshot, ColdLeft, PolicyInv
<1>6. CASE Incompatible \/ PrefixEvict \/ DiskPrefix
  BY <1>1, <1>3, <1>6, PoolsObserved DEF Incompatible, PrefixEvict, DiskPrefix, PolicyInv, nvmeChoice
<1>7. CASE Apply
  BY <1>7, SumOfNothing DEF Apply, FreedIsDeleted, Bytes, PrefixBytes
<1> QED
  BY <1>4, <1>5, <1>6, <1>7 DEF Next

(* What starts a pass, and what the loops before the prefix quota drop.    *)
LEMMA FreshStep == ASSUME PolicyInv, Fresh, [Next]_vars PROVE Fresh'
<1>1. CASE SlotDemand \/ UmaYield \/ HotDone \/ Window \/ WarmDemote \/ WarmDone \/ ColdDone
  BY <1>1 DEF SlotDemand, UmaYield, HotDone, Yield, Window, WarmDemote, WarmDone, ColdDone,
              Fresh, inventory, nvmeChoice
<1>2. CASE PrefixDone \/ DiskDone \/ PrefixEvict \/ DiskPrefix \/ DiskSnapshot
  BY <1>2 DEF PrefixDone, DiskDone, PrefixEvict, DiskPrefix, DiskSnapshot, Evict, Fresh
<1>3. CASE ColdEvict
  BY <1>3 DEF ColdEvict, Evict, Fresh, inventory
<1>4. CASE Incompatible
  <2>1. CASE Useless = {}
    BY <1>4, <2>1 DEF Incompatible, Fresh
  <2>2. CASE Useless # {}
    BY <1>4, <2>2 DEF Incompatible, Fresh, Drop, Useless, inventory
  <2> QED
    BY <2>1, <2>2
<1>5. CASE Apply
  BY <1>5 DEF Apply, Fresh
<1>6. CASE Finished \/ UNCHANGED vars
  BY <1>6 DEF Finished, vars, Fresh, inventory, hotChoice, nvmeChoice
<1> QED
  BY <1>1, <1>2, <1>3, <1>4, <1>5, <1>6 DEF Next

(* The last choice of a demand is one that was still missing.              *)
LEMMA NeedStep ==
    ASSUME PolicyInv, PolicyInv', Fresh, NothingNeedless, [Next]_vars PROVE NothingNeedless'
<1>0. pressure.required_free_bytes \in Nat /\ hotFreed \in Nat /\ freed \in Nat
  BY DEF PolicyInv, TypeOK, PressureOK
<1>1. CASE UNCHANGED <<inventory, hotChoice, forDisk, freed>>
  BY <1>1 DEF NothingNeedless, inventory, hotChoice
<1>2. CASE SlotDemand
  <2>1. CASE pressure.needs_hot_slot /\ Ranked # {}
    <3>1. PICK i \in Ranked : Yield(i)
      BY <1>2, <2>1 DEF SlotDemand
    <3>2. yielded' = {i} /\ Cardinality(yielded') = 1
      BY <1>2, <3>1, FS_Singleton DEF Yield, SlotDemand, Fresh
    <3> QED
      BY <2>1, <3>1, <3>2 DEF NothingNeedless, Yield, inventory, nvmeChoice
  <2>2. CASE ~(pressure.needs_hot_slot /\ Ranked # {})
    BY <1>1, <1>2, <2>2 DEF SlotDemand, nvmeChoice
  <2> QED
    BY <2>1, <2>2
<1>3. CASE UmaYield
  <2>1. PICK i \in Ranked : Yield(i)
    BY <1>3 DEF UmaYield
  <2>2. pressure.uma_pressure /\ hotFreed < pressure.required_free_bytes
    BY <1>0, <1>3 DEF UmaYield, UmaTarget
  <2>3. sessions[i].state_bytes \in Nat
    BY ObservedTypes DEF PolicyInv, SessionOK, Ranked, InTier
  <2>4. hotFreed' - sessions'[i].state_bytes < pressure'.required_free_bytes /\ i \in yielded'
    BY <1>0, <2>1, <2>2, <2>3 DEF Yield, inventory
  <2>5. /\ pressure' = pressure /\ sessions' = sessions /\ forDisk' = forDisk /\ freed' = freed
    BY <2>1 DEF Yield, inventory, nvmeChoice
  <2> QED
    BY <2>2, <2>4, <2>5 DEF NothingNeedless
<1>4. CASE DiskSnapshot
  <2>1. PICK i \in SnapshotPool : Evict(i) /\ forDisk' = forDisk \cup {i}
    BY <1>4 DEF DiskSnapshot
  <2>2. pressure.disk_pressure /\ freed < pressure.required_free_bytes
    BY <1>0, <1>4 DEF DiskSnapshot, TargetMet, DiskTarget
  <2>3. sessions[i].state_bytes \in Nat
    BY ObservedTypes, PoolsObserved DEF PolicyInv, SessionOK
  <2>4. freed' - sessions'[i].state_bytes < pressure'.required_free_bytes /\ i \in forDisk'
    BY <1>0, <2>1, <2>2, <2>3 DEF Evict, inventory
  <2>5. pressure' = pressure /\ sessions' = sessions /\ yielded' = yielded /\ hotFreed' = hotFreed
    BY <2>1 DEF Evict, inventory, hotChoice
  <2> QED
    BY <2>2, <2>4, <2>5 DEF NothingNeedless
<1>5. CASE ColdEvict \/ Incompatible \/ PrefixEvict \/ DiskPrefix
  <2>1. forDisk' = {}
    BY <1>5 DEF ColdEvict, Incompatible, PrefixEvict, DiskPrefix, PolicyInv, PhaseOK,
                CacheBeforeState, Drop, nvmeChoice
  <2>2. UNCHANGED <<inventory, hotChoice>>
    BY <1>5 DEF ColdEvict, Evict, Incompatible, PrefixEvict, DiskPrefix, Drop
  <2> QED
    BY <2>1, <2>2 DEF NothingNeedless, inventory, hotChoice
<1>6. CASE HotDone \/ Window \/ WarmDemote \/ WarmDone \/ ColdDone \/ PrefixDone \/ DiskDone
           \/ Finished \/ UNCHANGED vars
  BY <1>1, <1>6 DEF HotDone, Window, WarmDemote, WarmDone, ColdDone, PrefixDone, DiskDone, Finished,
                    vars, nvmeChoice
<1>7. CASE Apply
  BY <1>7 DEF Apply, NothingNeedless
<1> QED
  BY <1>2, <1>3, <1>4, <1>5, <1>6, <1>7 DEF Next

(* What the pools and their bytes depend on.                               *)
LEMMA WarmFrame ==
    ASSUME UNCHANGED <<sessions, aged, squeezed>>
    PROVE  /\ EffectiveWarm' = EffectiveWarm /\ Bytes(EffectiveWarm)' = Bytes(EffectiveWarm)
           /\ InTier("WARM")' = InTier("WARM") /\ \A i : Idle(i)' = Idle(i)
BY DEF EffectiveWarm, InTier, Bytes, Idle

LEMMA ColdFrame ==
    ASSUME UNCHANGED <<sessions, aged, squeezed, evicted>>
    PROVE  ColdLeft' = ColdLeft /\ Bytes(ColdLeft)' = Bytes(ColdLeft)
BY DEF ColdLeft, EffectiveCold, InTier, Bytes

LEMMA PrefixFrame ==
    ASSUME UNCHANGED <<prefixes, dropped>>
    PROVE  /\ Useless' = Useless /\ Live' = Live
           /\ PrefixBytes(Live)' = PrefixBytes(Live)
BY DEF Useless, Live, PrefixBytes

(* A loop is left when its pool fits, and later loops only shrink it.      *)
LEMMA FitsStep == ASSUME PolicyInv, Fits, [Next]_vars PROVE Fits'
<1>0. TypeOK /\ WarmCap \in Nat /\ ColdCap \in Nat /\ PrefixCap \in Nat
  BY ConfigAssumption DEF PolicyInv, ConfigOK
<1>1. CASE SlotDemand \/ UmaYield \/ HotDone
  BY <1>1 DEF SlotDemand, UmaYield, HotDone, Yield, Fits
<1>2. CASE Window
  BY <1>2 DEF Window, Fits, InTier, Idle, inventory
<1>3. CASE WarmDemote
  BY <1>3 DEF WarmDemote, Fits, InTier, Idle, inventory
<1>4. CASE WarmDone
  BY <1>4, WarmFrame DEF WarmDone, Fits, inventory, nvmeChoice
<1>5. CASE ColdEvict
  BY <1>5, WarmFrame DEF ColdEvict, Evict, Fits, inventory
<1>6. CASE ColdDone
  BY <1>6, WarmFrame, ColdFrame DEF ColdDone, Fits, inventory, nvmeChoice
<1>7. CASE Incompatible
  BY <1>7, WarmFrame, ColdFrame, PrefixFrame DEF Incompatible, Drop, Fits, inventory, nvmeChoice
<1>8. CASE PrefixEvict
  <2>1. Useless' \subseteq Useless
    BY <1>8 DEF PrefixEvict, Drop, Useless, inventory
  <2> QED
    BY <1>8, <2>1, WarmFrame, ColdFrame DEF PrefixEvict, Drop, Fits, inventory
<1>9. CASE PrefixDone
  BY <1>9, WarmFrame, ColdFrame, PrefixFrame DEF PrefixDone, Fits, inventory, nvmeChoice
<1>10. CASE DiskPrefix
  <2>1. Useless' \subseteq Useless /\ Live' \subseteq Live
    BY <1>10 DEF DiskPrefix, Drop, Useless, Live, inventory
  <2>2. PrefixBytes(Live)' = PrefixBytes(Live')
    BY <1>10 DEF DiskPrefix, Drop, PrefixBytes, inventory
  <2>3. PrefixBytes(Live') <= PrefixBytes(Live) /\ PrefixBytes(Live') \in Nat /\ PrefixBytes(Live) \in Nat
    BY <1>0, <2>1, PoolsObserved, PrefixBytesCount
  <2>4. PrefixBytes(Live)' <= PrefixCap
    BY <1>0, <1>10, <2>2, <2>3 DEF DiskPrefix, Fits
  <2> QED
    BY <1>10, <2>1, <2>4, WarmFrame, ColdFrame DEF DiskPrefix, Drop, Fits, inventory
<1>11. CASE DiskSnapshot
  <2>1. ColdLeft' \subseteq ColdLeft
    BY <1>11 DEF DiskSnapshot, Evict, ColdLeft, EffectiveCold, InTier, inventory
  <2>2. Bytes(ColdLeft)' = Bytes(ColdLeft')
    BY <1>11 DEF DiskSnapshot, Evict, Bytes, inventory
  <2>3. Bytes(ColdLeft') <= Bytes(ColdLeft) /\ Bytes(ColdLeft') \in Nat /\ Bytes(ColdLeft) \in Nat
    BY <1>0, <2>1, PoolsObserved, BytesCount
  <2>4. Bytes(ColdLeft)' <= ColdCap
    BY <1>0, <1>11, <2>2, <2>3 DEF DiskSnapshot, Fits
  <2> QED
    BY <1>11, <2>4, WarmFrame, PrefixFrame DEF DiskSnapshot, Evict, Fits, inventory
<1>12. CASE DiskDone \/ Finished \/ UNCHANGED vars
  BY <1>12, WarmFrame, ColdFrame, PrefixFrame
     DEF DiskDone, Finished, vars, Fits, inventory, nvmeChoice
<1>13. CASE Apply
  BY <1>13 DEF Apply, Fits
<1> QED
  BY <1>1, <1>2, <1>3, <1>4, <1>5, <1>6, <1>7, <1>8, <1>9, <1>10, <1>11, <1>12, <1>13 DEF Next

(* In an inventory that fits, nothing is old and nothing is too much.      *)
LEMMA RestedPools ==
    ASSUME TypeOK, Fits, Rested, pass > 1, quiet
    PROVE  /\ phase \notin {"slot", "uma", "window"} => aged = {}
           /\ aged = {} => EffectiveWarm = InTier("WARM")
           /\ aged = {} /\ evicted = {} => ColdLeft = InTier("COLD")
           /\ dropped = {} => Live = DOMAIN prefixes
           /\ Useless = {}
           /\ Bytes(InTier("WARM")) \in Nat /\ Bytes(InTier("COLD")) \in Nat
           /\ PrefixBytes(DOMAIN prefixes) \in Nat
<1>1. Bytes(InTier("WARM")) \in Nat /\ Bytes(InTier("COLD")) \in Nat
  BY BytesCount DEF InTier
<1>2. PrefixBytes(DOMAIN prefixes) \in Nat
  BY PrefixBytesCount
<1>3. squeezed = {} /\ Useless = {}
  BY DEF Rested, Useless
<1>4. phase \notin {"slot", "uma", "window"} => aged = {}
  BY DEF Fits, Rested
<1>5. aged = {} => EffectiveWarm = InTier("WARM")
  BY <1>3 DEF EffectiveWarm
<1>6. aged = {} /\ evicted = {} => ColdLeft = InTier("COLD")
  BY <1>3 DEF ColdLeft, EffectiveCold
<1>7. dropped = {} => Live = DOMAIN prefixes
  BY DEF Rested, Live
<1> QED
  BY <1>1, <1>2, <1>3, <1>4, <1>5, <1>6, <1>7

(* A decision that is carried out, and made nobody yield, leaves such an   *)
(* inventory.                                                              *)
LEMMA ApplyRests == ASSUME PolicyInv, Fits, Apply PROVE Rested'
<1> SUFFICES ASSUME pass' > 1, quiet' PROVE Rested'
  BY DEF Rested
<1>0. TypeOK /\ WarmCap \in Nat /\ ColdCap \in Nat /\ PrefixCap \in Nat
  BY ConfigAssumption DEF PolicyInv, ConfigOK
<1>1. yielded = {} /\ phase = "done"
  BY DEF Apply
<1>2. DOMAIN sessions' = DOMAIN sessions \ evicted
  BY <1>1 DEF Apply, Action
<1>3. ASSUME NEW i \in DOMAIN sessions'
      PROVE  /\ sessions'[i].state_bytes = sessions[i].state_bytes
             /\ sessions'[i].last_accessed = sessions[i].last_accessed
             /\ sessions'[i].tier = IF i \in aged \cup squeezed THEN "COLD" ELSE sessions[i].tier
  <2>1. sessions'[i] = Applied(i) /\ i \notin yielded /\ i \notin evicted
    BY <1>1, <1>2 DEF Apply
  <2>2. SessionOK(sessions[i])
    BY <1>0, <1>2, ObservedTypes
  <2>3. CASE i \in aged \cup squeezed
    BY <2>1, <2>2, <2>3 DEF Applied, Action, SessionOK
  <2>4. CASE i \notin aged \cup squeezed
    BY <2>1, <2>4 DEF Applied, Action
  <2> QED
    BY <2>3, <2>4
<1>4. InTier("WARM")' = EffectiveWarm \ evicted
  BY <1>0, <1>2, <1>3 DEF InTier, EffectiveWarm, TypeOK
<1>5. InTier("COLD")' = ColdLeft
  BY <1>0, <1>2, <1>3 DEF InTier, ColdLeft, EffectiveCold, TypeOK
<1>6. ASSUME NEW S \in SUBSET DOMAIN sessions' PROVE SumFunctionOnSet(Sizes(sessions'), S) = Bytes(S)
  <2>1. IsFiniteSet(S)
    BY <1>0, <1>2, ObservedTypes, FS_Subset
  <2>2. \A i \in S : Sizes(sessions')[i] = Sizes(sessions)[i]
    BY <1>2, <1>3 DEF Sizes
  <2> QED
    BY <2>1, <2>2, SumSame DEF Bytes
<1>7. Bytes(InTier("WARM"))' <= WarmCap
  <2>1. Bytes(InTier("WARM"))' = Bytes(EffectiveWarm \ evicted)
    BY <1>2, <1>4, <1>6, <1>0, PoolsObserved DEF Bytes
  <2>2. /\ Bytes(EffectiveWarm \ evicted) <= Bytes(EffectiveWarm)
        /\ Bytes(EffectiveWarm \ evicted) \in Nat /\ Bytes(EffectiveWarm) \in Nat
    BY <1>0, PoolsObserved, BytesCount
  <2> QED
    BY <1>0, <1>1, <2>1, <2>2 DEF Fits
<1>8. Bytes(InTier("COLD"))' <= ColdCap
  <2>1. ColdLeft \in SUBSET DOMAIN sessions'
    BY <1>0, <1>2, PoolsObserved DEF ColdLeft
  <2>2. Bytes(InTier("COLD"))' = Bytes(ColdLeft)
    BY <1>5, <1>6, <2>1 DEF Bytes
  <2> QED
    BY <1>1, <2>2 DEF Fits
<1>9. \A i \in InTier("WARM")' : ~ (Idle(i)' > WarmWindow)
  <2>1. ASSUME NEW i \in EffectiveWarm \ evicted PROVE ~ (Idle(i)' > WarmWindow)
    <3>1. aged = {j \in InTier("WARM") : Idle(j) > WarmWindow}
      BY <1>1 DEF Fits
    <3>2. i \in InTier("WARM") /\ i \notin aged /\ i \in DOMAIN sessions'
      BY <1>2 DEF EffectiveWarm, InTier
    <3>3. Idle(i)' = Idle(i)
      BY <1>3, <3>2 DEF Idle
    <3> QED
      BY <3>1, <3>2, <3>3
  <2> QED
    BY <1>4, <2>1
<1>10. /\ DOMAIN prefixes' = DOMAIN prefixes \ dropped
       /\ \A i \in DOMAIN prefixes' : prefixes'[i] = prefixes[i]
  BY DEF Apply
<1>11. \A i \in DOMAIN prefixes' : prefixes'[i].compatible
  BY <1>0, <1>1, <1>10, ObservedTypes DEF Fits, Useless, PrefixOK
<1>12. PrefixBytes(DOMAIN prefixes)' <= PrefixCap
  <2>1. DOMAIN prefixes' = Live
    BY <1>10, <1>11 DEF Live
  <2>2. IsFiniteSet(Live)
    BY <1>0, PoolsObserved, ObservedTypes, FS_Subset
  <2>3. \A i \in Live : Sizes(prefixes')[i] = Sizes(prefixes)[i]
    BY <1>10, <2>1 DEF Sizes
  <2>4. SumFunctionOnSet(Sizes(prefixes'), Live) = SumFunctionOnSet(Sizes(prefixes), Live)
    BY <2>2, <2>3, SumSame
  <2>5. PrefixBytes(DOMAIN prefixes)' = PrefixBytes(Live)
    BY <2>1, <2>4 DEF PrefixBytes
  <2> QED
    BY <1>1, <2>5 DEF Fits
<1>13. squeezed' = {} /\ evicted' = {} /\ dropped' = {}
  BY DEF Apply
<1> QED
  BY <1>7, <1>8, <1>9, <1>11, <1>12, <1>13 DEF Rested

(* Such an inventory is left alone by every loop but those for a demand.   *)
LEMMA RestedStep == ASSUME PolicyInv, Fits, Rested, [Next]_vars PROVE Rested'
<1>1. CASE Apply
  BY <1>1, ApplyRests
<1>2. CASE ~Apply
  <2>1. UNCHANGED inventory
    BY <1>2 DEF Next, vars, inventory, SlotDemand, UmaYield, HotDone, Yield, Window, WarmDemote,
                WarmDone, ColdEvict, Evict, ColdDone, Incompatible, PrefixEvict, Drop, PrefixDone,
                DiskPrefix, DiskSnapshot, DiskDone, Finished
  <2> SUFFICES ASSUME pass > 1, quiet PROVE Rested'
    BY <2>1 DEF Rested, inventory
  <2>2. /\ \A i \in InTier("WARM") : ~ (Idle(i) > WarmWindow)
        /\ Bytes(InTier("WARM")) <= WarmCap /\ Bytes(InTier("COLD")) <= ColdCap
        /\ \A i \in DOMAIN prefixes : prefixes[i].compatible
        /\ PrefixBytes(DOMAIN prefixes) <= PrefixCap
        /\ squeezed = {}
        /\ phase \notin {"disk", "done"} \/ ~pressure.disk_pressure => evicted = {} /\ dropped = {}
    BY DEF Rested
  <2>3. (/\ \A i \in InTier("WARM") : ~ (Idle(i) > WarmWindow)
         /\ Bytes(InTier("WARM")) <= WarmCap /\ Bytes(InTier("COLD")) <= ColdCap
         /\ \A i \in DOMAIN prefixes : prefixes[i].compatible
         /\ PrefixBytes(DOMAIN prefixes) <= PrefixCap)'
    BY <2>1, <2>2 DEF inventory, InTier, Idle, Bytes, PrefixBytes
  <2>4. WarmCap \in Nat /\ ColdCap \in Nat /\ PrefixCap \in Nat /\ TypeOK
    BY ConfigAssumption DEF ConfigOK, PolicyInv
  <2>5. ~WarmDemote
    BY <2>2, <2>4, RestedPools DEF WarmDemote
  <2>6. ~ColdEvict
    BY <2>2, <2>4, RestedPools DEF ColdEvict
  <2>7. Incompatible => UNCHANGED nvmeChoice /\ phase' = "quota" /\ phase = "prefix"
    BY <2>4, RestedPools DEF Incompatible
  <2>8. ~PrefixEvict
    BY <2>2, <2>4, RestedPools DEF PrefixEvict
  <2>9. ~pressure.disk_pressure => ~DiskPrefix /\ ~DiskSnapshot
    <3>1. freed \in Nat
      BY <2>4 DEF TypeOK
    <3> QED
      BY <3>1 DEF DiskPrefix, DiskSnapshot, TargetMet, DiskTarget
  <2>10. squeezed' = {}
    BY <2>2, <2>5, <2>7, <1>2 DEF Next, vars, SlotDemand, UmaYield, HotDone, Yield, Window,
                WarmDone, ColdEvict, Evict, ColdDone, Incompatible, PrefixEvict, Drop, PrefixDone,
                DiskPrefix, DiskSnapshot, DiskDone, Finished, nvmeChoice
  <2>11. \/ evicted' = evicted /\ dropped' = dropped
            /\ (phase \in {"disk", "done"} => phase' \in {"disk", "done"})
         \/ pressure.disk_pressure /\ phase' = "disk"
    BY <1>2, <2>5, <2>6, <2>7, <2>8, <2>9
       DEF Next, vars, SlotDemand, UmaYield, HotDone, Yield, Window, Evict,
           WarmDone, ColdDone, Drop, PrefixDone, DiskPrefix, DiskSnapshot, DiskDone, Finished, nvmeChoice
  <2>12. phase' \notin {"disk", "done"} \/ ~pressure'.disk_pressure => evicted' = {} /\ dropped' = {}
    BY <2>1, <2>2, <2>11 DEF inventory
  <2> QED
    BY <2>1, <2>3, <2>10, <2>12 DEF Rested, inventory
<1> QED
  BY <1>1, <1>2

(* Nothing has been counted when the first pass starts.                    *)
LEMMA BytesInit == Init => BytesInv
<1> SUFFICES ASSUME Init PROVE BytesInv
  OBVIOUS
<1>1. FreedIsDeleted
  BY SumOfNothing DEF Init, FreedIsDeleted, Bytes, PrefixBytes
<1> QED
  BY <1>1 DEF Init, BytesInv, Fits, Rested, Fresh, NothingNeedless

(* The second layer of the invariant.                                      *)
THEOREM BytesInvariant == Spec => []BytesInv
<1>1. PolicyInv /\ PolicyInv' /\ BytesInv /\ [Next]_vars => BytesInv'
  BY FreedStep, FreshStep, NeedStep, FitsStep, RestedStep DEF BytesInv
<1> QED
  BY <1>1, BytesInit, PolicyInvariant, PTL DEF Spec

(* The bytes claimed as freed are those of what is deleted, and no demand  *)
(* costs more than it needs.                                               *)
THEOREM DemandsAreMet == Spec => []DemandMet
<1>1. BytesInv => DemandMet
  BY DEF BytesInv, DemandMet
<1> QED
  BY <1>1, BytesInvariant, PTL

(* Every pool is within its cap once the decision is carried out.          *)
LEMMA DoneFits == ASSUME PolicyInv, Fits PROVE CapsHold
<1> SUFFICES ASSUME phase = "done" PROVE CapsHold
  BY DEF CapsHold
<1> DEFINE kept == {i \in DOMAIN sessions \ yielded : Action(i) # "evict_snapshot"}
           warm == {i \in kept : Applied(i).tier = "WARM"}
           cold == {i \in kept : Applied(i).tier = "COLD"}
<1>0. TypeOK /\ WarmCap \in Nat /\ ColdCap \in Nat /\ PrefixCap \in Nat
  BY ConfigAssumption DEF PolicyInv, ConfigOK
<1>1. ASSUME NEW i \in kept
      PROVE  /\ i \in DOMAIN sessions /\ i \notin evicted
             /\ Applied(i).tier = IF i \in aged \cup squeezed THEN "COLD" ELSE sessions[i].tier
  <2>1. SessionOK(sessions[i])
    BY <1>0, ObservedTypes
  <2>2. i \notin evicted /\ i \notin yielded
    BY DEF Action
  <2>3. CASE i \in aged \cup squeezed
    BY <2>1, <2>2, <2>3 DEF Applied, Action, SessionOK
  <2>4. CASE i \notin aged \cup squeezed
    BY <2>1, <2>2, <2>4 DEF Applied, Action
  <2> QED
    BY <2>2, <2>3, <2>4
<1>2. warm \in SUBSET EffectiveWarm
  BY <1>1 DEF EffectiveWarm, InTier
<1>3. cold \in SUBSET ColdLeft
  BY <1>1 DEF ColdLeft, EffectiveCold, InTier
<1>4. Bytes(warm) <= Bytes(EffectiveWarm) /\ Bytes(warm) \in Nat /\ Bytes(EffectiveWarm) \in Nat
  BY <1>0, <1>2, PoolsObserved, BytesCount
<1>5. Bytes(cold) <= Bytes(ColdLeft) /\ Bytes(cold) \in Nat /\ Bytes(ColdLeft) \in Nat
  BY <1>0, <1>3, PoolsObserved, BytesCount
<1>6. \A i \in DOMAIN prefixes \ dropped : prefixes[i].compatible
  BY <1>0, ObservedTypes DEF Fits, Useless, PrefixOK
<1>7. DOMAIN prefixes \ dropped = Live
  BY <1>6 DEF Live
<1> HIDE DEF warm, cold, kept
<1>8. Bytes(warm) <= WarmCap /\ Bytes(cold) <= ColdCap
  BY <1>0, <1>4, <1>5 DEF Fits
<1>9. PrefixBytes(DOMAIN prefixes \ dropped) <= PrefixCap
  BY <1>7 DEF Fits
<1> QED
  BY <1>6, <1>8, <1>9 DEF CapsHold, warm, cold, kept

(* A decision is final: every pool is within its cap, and asked again,     *)
(* without a demand, the policy has nothing to do.                         *)
THEOREM DecisionsAreFinal == Spec => []DecisionFinal
<1>1. PolicyInv /\ BytesInv => CapsHold
  BY DoneFits DEF BytesInv
<1>2. PolicyInv /\ BytesInv => Settled
  <2> SUFFICES ASSUME PolicyInv, BytesInv, phase = "done", pass > 1, quiet, ~pressure.disk_pressure
               PROVE  aged = {} /\ squeezed = {} /\ evicted = {} /\ dropped = {}
    BY DEF Settled
  <2>1. Rested /\ Fits /\ TypeOK
    BY DEF BytesInv, PolicyInv
  <2>2. aged = {}
    BY <2>1, RestedPools
  <2> QED
    BY <2>1, <2>2 DEF Rested
<1>3. PolicyInv /\ BytesInv => DecisionFinal
  BY <1>1, <1>2 DEF DecisionFinal
<1> QED
  BY <1>3, PolicyInvariant, BytesInvariant, PTL

(* Both: a decision does what is asked, and leaves nothing to be done.     *)
THEOREM DecisionsHold == Spec => []DecisionHolds
<1>1. DemandMet /\ DecisionFinal => DecisionHolds
  BY DEF DecisionHolds
<1> QED
  BY <1>1, DemandsAreMet, DecisionsAreFinal, PTL
=============================================================================
