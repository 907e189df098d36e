----------------------------- MODULE Retention -----------------------------
(***************************************************************************)
(* The retention policy of src/mimo_halo/state_tier/retention.py: one pass *)
(* over an observation, each selection loop an action per selected entry.  *)
(* Sessions and prefix entries are named by their place in the observed    *)
(* lists, which breaks ties of the stable sorts.  Between two passes the   *)
(* scheduler, which is not in this repository, applies the decision.       *)
(***************************************************************************)
EXTENDS Integers, FiniteSets, Functions

CONSTANTS
    Observations,   \* what the policy may be given: inventory and pressure
    Pressures,      \* the pressure blocks of later passes
    Now,            \* the observation clock
    Grace,          \* hot_idle_grace_seconds
    WarmWindow,     \* warm_nvme.preferred_retention_seconds
    WarmCap, ColdCap, PrefixCap,    \* max_size_bytes of the three pools
    Passes          \* bound: decisions in a behaviour

Priorities      == 0 .. 3
HotLifecycles   == {"RUNNING", "WAITING", "SUSPENDING", "RESTORING"}

SessionOK(s) ==
    /\ \/ s.tier = "HOT" /\ s.lifecycle \in HotLifecycles
       \/ s.tier \in {"WARM", "COLD"} /\ s.lifecycle = "NVME_RESIDENT"
    /\ s.priority \in Priorities
    /\ s.last_accessed \in Int /\ s.last_accessed <= Now
    /\ s.state_bytes \in Nat

PrefixOK(e) ==
    /\ e.last_accessed \in Int /\ e.last_accessed <= Now
    /\ e.state_bytes \in Nat
    /\ e.compatible \in BOOLEAN

PressureOK(q) ==
    /\ q.needs_hot_slot \in BOOLEAN
    /\ q.uma_pressure \in BOOLEAN
    /\ q.disk_pressure \in BOOLEAN
    /\ q.required_free_bytes \in Nat
    /\ q.incoming \subseteq Priorities

ObservedOK(o) ==
    /\ DOMAIN o.sessions \subseteq Nat /\ DOMAIN o.prefixes \subseteq Nat
    /\ IsFiniteSet(DOMAIN o.sessions) /\ IsFiniteSet(DOMAIN o.prefixes)
    /\ \A i \in DOMAIN o.sessions : SessionOK(o.sessions[i])
    /\ \A i \in DOMAIN o.prefixes : PrefixOK(o.prefixes[i])

ConfigOK ==
    /\ Now \in Int /\ {Grace, WarmWindow, WarmCap, ColdCap, PrefixCap} \subseteq Nat
    /\ Passes \in Nat

ASSUME ConfigAssumption == ConfigOK
ASSUME ObservationAssumption ==
    /\ \A o \in Observations : ObservedOK(o) /\ PressureOK(o.pressure)
    /\ \A q \in Pressures : PressureOK(q)

VARIABLES
    sessions, prefixes,     \* the observed inventory
    pressure,               \* the observed pressure block
    phase,                  \* which loop of the policy is running
    yielded, hotFreed,      \* hot_evictions and their bytes
    aged,                   \* demoted for the warm window
    squeezed,               \* demoted for the warm quota
    evicted,                \* snapshots to delete
    dropped,                \* prefix_evictions
    forDisk,                \* those of evicted that the disk target took
    freed,                  \* prefix_freed + state_freed
    pass,                   \* which decision of the behaviour this is
    quiet                   \* no earlier pass made anybody yield

inventory == <<sessions, prefixes, pressure, pass, quiet>>
hotChoice == <<yielded, hotFreed>>
nvmeChoice == <<aged, squeezed, evicted, dropped, forDisk, freed>>
vars == <<inventory, phase, hotChoice, nvmeChoice>>
-----------------------------------------------------------------------------
Idle(i)  == Now - sessions[i].last_accessed
Sizes(list) == [i \in DOMAIN list |-> list[i].state_bytes]
Bytes(S) == SumFunctionOnSet(Sizes(sessions), S)
PrefixBytes(S) == SumFunctionOnSet(Sizes(prefixes), S)
InTier(t) == {i \in DOMAIN sessions : sessions[i].tier = t}

(* The hot pool: waiters past their grace, outranked by an incoming        *)
(* request, or asked for by a sized demand on unified memory.              *)
Eligible(i) ==
    /\ sessions[i].lifecycle = "WAITING"
    /\ \/ Idle(i) >= Grace
       \/ \E q \in pressure.incoming : q < sessions[i].priority
       \/ pressure.uma_pressure /\ pressure.required_free_bytes > 0

Ranked == {i \in InTier("HOT") \ yielded : Eligible(i)}

(* Lowest priority first, then longest idle, then as listed.               *)
(* Mutant: the priority is not negated in the sort key.                    *)
YieldsEagerly(i, j) ==
    \/ sessions[i].priority < sessions[j].priority
    \/ /\ sessions[i].priority = sessions[j].priority
       /\ \/ sessions[i].last_accessed < sessions[j].last_accessed
          \/ sessions[i].last_accessed = sessions[j].last_accessed /\ i < j
YieldsBefore(i, j) ==
    \/ sessions[i].priority > sessions[j].priority
    \/ /\ sessions[i].priority = sessions[j].priority
       /\ \/ sessions[i].last_accessed < sessions[j].last_accessed
          \/ sessions[i].last_accessed = sessions[j].last_accessed /\ i < j

Yield(i) ==
    /\ \A j \in Ranked \ {i} : YieldsBefore(i, j)
    /\ yielded' = yielded \cup {i}
    /\ hotFreed' = hotFreed + sessions[i].state_bytes
    /\ UNCHANGED <<inventory, nvmeChoice>>

(* Slot admission takes one waiter, if there is one.                       *)
SlotDemand ==
    /\ phase = "slot"
    /\ phase' = "uma"
    /\ IF pressure.needs_hot_slot /\ Ranked # {}
         THEN \E i \in Ranked : Yield(i)
         ELSE UNCHANGED <<inventory, hotChoice, nvmeChoice>>

(* Mutant: the byte demand counts without the flag that goes with it.      *)
AnyTarget == pressure.required_free_bytes
UmaTarget == IF pressure.uma_pressure THEN pressure.required_free_bytes ELSE 0

UmaYield ==
    /\ phase = "uma"
    /\ hotFreed < UmaTarget
    /\ \E i \in Ranked : Yield(i)
    /\ UNCHANGED phase

HotDone ==
    /\ phase = "uma"
    /\ hotFreed >= UmaTarget \/ Ranked = {}
    /\ phase' = "window"
    /\ UNCHANGED <<inventory, hotChoice, nvmeChoice>>
-----------------------------------------------------------------------------
(* Snapshots past the warm window change class; no byte is freed.          *)
Window ==
    /\ phase = "window"
    /\ aged' = {i \in InTier("WARM") : Idle(i) > WarmWindow}
    /\ phase' = "warm"
    /\ UNCHANGED <<inventory, hotChoice, squeezed, evicted, dropped, forDisk, freed>>

(* Mutant: the pool is not restricted to the warm tier.                    *)
NotAged       == DOMAIN sessions \ (aged \cup squeezed)
EffectiveWarm == InTier("WARM") \ (aged \cup squeezed)

(* Mutant: what the warm quota demotes does not reach the cold pool.       *)
ColdAsListed  == InTier("COLD") \cup aged
EffectiveCold == InTier("COLD") \cup aged \cup squeezed

(* The order of effective_warm + effective_cold, ties included.            *)
Segment(i) == IF i \in EffectiveWarm THEN 0 ELSE IF i \in squeezed THEN 2 ELSE 1

(* Mutant: the sort is reversed.                                           *)
NewerThan(i, j) ==
    \/ sessions[i].last_accessed > sessions[j].last_accessed
    \/ sessions[i].last_accessed = sessions[j].last_accessed /\ i < j
OlderThan(i, j) ==
    \/ sessions[i].last_accessed < sessions[j].last_accessed
    \/ /\ sessions[i].last_accessed = sessions[j].last_accessed
       /\ \/ Segment(i) < Segment(j)
          \/ Segment(i) = Segment(j) /\ i < j

Oldest(i, pool) == \A j \in pool \ {i} : OlderThan(i, j)

WarmDemote ==
    /\ phase = "warm"
    /\ Bytes(EffectiveWarm) > WarmCap
    /\ \E i \in EffectiveWarm :
          /\ Oldest(i, EffectiveWarm)
          /\ squeezed' = squeezed \cup {i}
    /\ UNCHANGED <<inventory, phase, hotChoice, aged, evicted, dropped, forDisk, freed>>

WarmDone ==
    /\ phase = "warm"
    /\ Bytes(EffectiveWarm) <= WarmCap
    /\ phase' = "cold"
    /\ UNCHANGED <<inventory, hotChoice, nvmeChoice>>

Evict(i) ==
    /\ evicted' = evicted \cup {i}
    /\ freed' = freed + sessions[i].state_bytes
    /\ UNCHANGED <<inventory, hotChoice, phase, aged, squeezed, dropped>>

ColdLeft == EffectiveCold \ evicted

ColdEvict ==
    /\ phase = "cold"
    /\ Bytes(ColdLeft) > ColdCap
    /\ \E i \in ColdLeft : Oldest(i, ColdLeft) /\ Evict(i)
    /\ UNCHANGED forDisk

ColdDone ==
    /\ phase = "cold"
    /\ Bytes(ColdLeft) <= ColdCap
    /\ phase' = "prefix"
    /\ UNCHANGED <<inventory, hotChoice, nvmeChoice>>
-----------------------------------------------------------------------------
Live == {i \in DOMAIN prefixes : prefixes[i].compatible} \ dropped

PrefixOlder(i, j) ==
    \/ prefixes[i].last_accessed < prefixes[j].last_accessed
    \/ prefixes[i].last_accessed = prefixes[j].last_accessed /\ i < j

OldestLive(i) == \A j \in Live \ {i} : PrefixOlder(i, j)

Drop(i) ==
    /\ dropped' = dropped \cup {i}
    /\ freed' = freed + prefixes[i].state_bytes
    /\ UNCHANGED <<inventory, hotChoice, aged, squeezed, evicted, forDisk>>

Useless == {i \in DOMAIN prefixes : ~prefixes[i].compatible} \ dropped

Incompatible ==
    /\ phase = "prefix"
    /\ IF Useless = {}
         THEN phase' = "quota" /\ UNCHANGED <<inventory, hotChoice, nvmeChoice>>
         ELSE (\E i \in Useless : Drop(i)) /\ UNCHANGED phase

PrefixEvict ==
    /\ phase = "quota"
    /\ PrefixBytes(Live) > PrefixCap
    /\ \E i \in Live : OldestLive(i) /\ Drop(i)
    /\ UNCHANGED phase

PrefixDone ==
    /\ phase = "quota"
    /\ PrefixBytes(Live) <= PrefixCap
    /\ phase' = "disk"
    /\ UNCHANGED <<inventory, hotChoice, nvmeChoice>>

DiskTarget == IF pressure.disk_pressure THEN pressure.required_free_bytes ELSE 0

(* Mutant: a target that is exactly met asks for one more entry.           *)
TargetExceeded == freed > DiskTarget \/ DiskTarget = 0
TargetMet      == freed >= DiskTarget

(* Mutant: snapshots the cold quota already deletes are counted again.     *)
AnySnapshot  == EffectiveWarm \cup EffectiveCold
SnapshotPool == (EffectiveWarm \cup EffectiveCold) \ evicted

DiskPrefix ==
    /\ phase = "disk"
    /\ ~TargetMet
    /\ \E i \in Live : OldestLive(i) /\ Drop(i)
    /\ UNCHANGED phase

(* Mutant: snapshots go before the prefix cache is spent.                  *)
PrefixesUnspent == TRUE
PrefixesSpent   == Live = {}

DiskSnapshot ==
    /\ phase = "disk"
    /\ ~TargetMet /\ PrefixesSpent
    /\ \E i \in SnapshotPool :
          /\ Oldest(i, SnapshotPool)
          /\ Evict(i)
          /\ forDisk' = forDisk \cup {i}

DiskDone ==
    /\ phase = "disk"
    /\ TargetMet \/ (Live = {} /\ SnapshotPool = {})
    /\ phase' = "done"
    /\ UNCHANGED <<inventory, hotChoice, nvmeChoice>>
-----------------------------------------------------------------------------
(* The one action reported for a session.                                  *)
(* Mutant: the demotion is looked up before the eviction.                  *)
DemotedFirst(i) ==
    IF i \in yielded THEN "keep"
    ELSE IF i \in aged \cup squeezed THEN "demote_to_cold"
    ELSE IF i \in evicted THEN "evict_snapshot" ELSE "keep"
Action(i) ==
    IF i \in yielded THEN "keep"
    ELSE IF i \in evicted THEN "evict_snapshot"
    ELSE IF i \in aged \cup squeezed THEN "demote_to_cold" ELSE "keep"

Init ==
    /\ \E o \in Observations :
          sessions = o.sessions /\ prefixes = o.prefixes /\ pressure = o.pressure
    /\ phase = "slot" /\ pass = 1 /\ quiet = TRUE
    /\ yielded = {} /\ aged = {} /\ squeezed = {} /\ evicted = {}
    /\ dropped = {} /\ forDisk = {} /\ hotFreed = 0 /\ freed = 0

Applied(i) ==
    IF i \in yielded THEN [sessions[i] EXCEPT !.tier = "WARM", !.lifecycle = "NVME_RESIDENT"]
    ELSE IF Action(i) = "demote_to_cold" THEN [sessions[i] EXCEPT !.tier = "COLD"]
    ELSE sessions[i]

(* The scheduler carries the decision out and asks again.                  *)
Apply ==
    /\ phase = "done" /\ pass < Passes
    /\ sessions' = [i \in {j \in DOMAIN sessions : Action(j) # "evict_snapshot"} |->
                       Applied(i)]
    /\ prefixes' = [i \in DOMAIN prefixes \ dropped |-> prefixes[i]]
    /\ pressure' \in Pressures
    /\ phase' = "slot" /\ pass' = pass + 1 /\ quiet' = (quiet /\ yielded = {})
    /\ yielded' = {} /\ aged' = {} /\ squeezed' = {} /\ evicted' = {}
    /\ dropped' = {} /\ forDisk' = {} /\ hotFreed' = 0 /\ freed' = 0

(* The last decision is made.                                              *)
Finished == phase = "done" /\ pass = Passes /\ UNCHANGED vars

Next ==
    \/ SlotDemand \/ UmaYield \/ HotDone
    \/ Window \/ WarmDemote \/ WarmDone \/ ColdEvict \/ ColdDone
    \/ Incompatible \/ PrefixEvict \/ PrefixDone
    \/ DiskPrefix \/ DiskSnapshot \/ DiskDone
    \/ Apply \/ Finished

Spec == Init /\ [][Next]_vars
-----------------------------------------------------------------------------
Phases == {"slot", "uma", "window", "warm", "cold", "prefix", "quota", "disk", "done"}

(* The variables have their types; only waiters are yielded, only warm     *)
(* snapshots demoted, and nothing that is in memory is deleted.            *)
TypeOK ==
    /\ ObservedOK([sessions |-> sessions, prefixes |-> prefixes])
    /\ PressureOK(pressure)
    /\ phase \in Phases /\ pass \in Nat /\ quiet \in BOOLEAN
    /\ \A i \in yielded : i \in InTier("HOT") /\ sessions[i].lifecycle = "WAITING"
    /\ aged \cup squeezed \subseteq InTier("WARM")
    /\ evicted \subseteq InTier("WARM") \cup InTier("COLD")
    /\ forDisk \subseteq evicted
    /\ dropped \subseteq DOMAIN prefixes
    /\ hotFreed \in Nat /\ freed \in Nat

(* No waiter is made to yield while one that could have gone instead has a *)
(* lower priority, or the same and a longer wait.                          *)
NobodyOutranked ==
    \A i \in yielded, j \in Ranked :
        /\ sessions[i].priority >= sessions[j].priority
        /\ sessions[i].priority = sessions[j].priority =>
               sessions[i].last_accessed <= sessions[j].last_accessed

(* Every loop takes the least recently accessed entry of its pool first:   *)
(* demotions, quota evictions, evictions for the disk target and prefixes. *)
LeastRecentFirst ==
    /\ \A i \in squeezed, j \in EffectiveWarm :
           sessions[i].last_accessed <= sessions[j].last_accessed
    /\ \A i \in evicted \ forDisk, j \in ColdLeft :
           sessions[i].last_accessed <= sessions[j].last_accessed
    /\ \A i \in forDisk, j \in SnapshotPool :
           sessions[i].last_accessed <= sessions[j].last_accessed
    /\ \A i \in dropped, j \in Live :
           prefixes[i].compatible =>
               prefixes[i].last_accessed <= prefixes[j].last_accessed

(* A disk target never costs a snapshot while a cached prefix is left.     *)
CacheBeforeState == forDisk # {} => Live = {}

(* Carrying the decision out leaves every pool within its cap and nothing  *)
(* in the prefix cache that cannot be used.                                *)
CapsHold ==
    phase = "done" =>
        LET kept == {i \in DOMAIN sessions \ yielded : Action(i) # "evict_snapshot"}
        IN  /\ Bytes({i \in kept : Applied(i).tier = "WARM"}) <= WarmCap
            /\ Bytes({i \in kept : Applied(i).tier = "COLD"}) <= ColdCap
            /\ PrefixBytes(DOMAIN prefixes \ dropped) <= PrefixCap
            /\ \A i \in DOMAIN prefixes \ dropped : prefixes[i].compatible

(* The bytes claimed as freed are those of what is deleted: demotions free *)
(* none, and no entry is counted twice.                                    *)
FreedIsDeleted == freed = Bytes(evicted) + PrefixBytes(dropped)

(* Nothing goes beyond what was asked for: without its last choice the     *)
(* demand for memory, or the disk target, would not be met.                *)
NothingNeedless ==
    /\ yielded # {} =>
           \/ pressure.needs_hot_slot /\ Cardinality(yielded) = 1
           \/ /\ pressure.uma_pressure
              /\ \E i \in yielded :
                     hotFreed - sessions[i].state_bytes < pressure.required_free_bytes
    /\ forDisk # {} =>
           /\ pressure.disk_pressure
           /\ \E i \in forDisk :
                  freed - sessions[i].state_bytes < pressure.required_free_bytes

(* Asked again, without a demand, about what its decision left, the policy *)
(* has nothing more to do, unless a session that yielded is new to the     *)
(* warm tier.                                                              *)
Settled ==
    (phase = "done" /\ pass > 1 /\ quiet /\ ~pressure.disk_pressure)
    => aged = {} /\ squeezed = {} /\ evicted = {} /\ dropped = {}

(* Whoever is chosen, by any loop, is the next in the order of victims     *)
(* (the sorts of retention.py:390-548).                                    *)
VictimsInOrder == TypeOK /\ NobodyOutranked /\ LeastRecentFirst /\ CacheBeforeState

(* A demand costs no more than it needs, and the bytes claimed for it are  *)
(* really freed (the accounting beside each loop).                         *)
DemandMet == FreedIsDeleted /\ NothingNeedless

(* A decision is final: carried out, it leaves every pool within its cap,  *)
(* and asked again the policy finds nothing to do.                         *)
DecisionFinal == CapsHold /\ Settled

(* A decision does all that is asked and no more, and need not be made     *)
(* again (plan of retention.py).                                           *)
DecisionHolds == DemandMet /\ DecisionFinal
=============================================================================
