---------------------------- MODULE MCRetention ----------------------------
(* Small inventories for Retention.  The clock reads 3, the caps are a few *)
(* bytes, and last accesses fall on both sides of the grace and of the     *)
(* warm window.                                                            *)
EXTENDS Retention

MCSession(lifecycle, tier, priority, last, bytes) ==
    [lifecycle |-> lifecycle, tier |-> tier, priority |-> priority,
     last_accessed |-> last, state_bytes |-> bytes]
MCPrefix(compatible, last, bytes) ==
    [compatible |-> compatible, last_accessed |-> last, state_bytes |-> bytes]
MCPressure(slot, uma, disk, required, incoming) ==
    [needs_hot_slot |-> slot, uma_pressure |-> uma, disk_pressure |-> disk,
     required_free_bytes |-> required, incoming |-> incoming]

MCWaiters == {MCSession("WAITING", "HOT", q, t, b) : q \in {1, 3}, t \in {1, 3}, b \in {0, 2}}
MCRunner  == MCSession("RUNNING", "HOT", 3, 0, 2)
MCStored  == {MCSession("NVME_RESIDENT", tier, 2, t, b) :
                 tier \in {"WARM", "COLD"}, t \in {1, 2, 3}, b \in {0, 2}}

(* Three sessions in memory, every demand on it.                           *)
MCHotObservations ==
    [sessions : [1 .. 3 -> MCWaiters \cup {MCRunner}], prefixes : {<<>>},
     pressure : {MCPressure(slot, uma, FALSE, required, incoming) :
        slot \in BOOLEAN, uma \in BOOLEAN, required \in {0, 3}, incoming \in {{}, {2}}}]

(* Three snapshots beside the cached prefixes, every demand on the disk.   *)
MCDiskObservations ==
    [sessions : [1 .. 3 -> MCStored],
     prefixes : {<<>>, <<MCPrefix(TRUE, 2, 1), MCPrefix(FALSE, 3, 1)>>,
                 <<MCPrefix(TRUE, 3, 1), MCPrefix(TRUE, 1, 2)>>},
     pressure : {MCPressure(FALSE, FALSE, disk, 4, {}) : disk \in BOOLEAN}]

(* Waiters and snapshots, every demand at once.                            *)
MCBothObservations ==
    [sessions : {<<a, b, c>> : a \in MCWaiters, b \in {MCRunner} \cup MCWaiters,
                               c \in {s \in MCStored : s.state_bytes = 2}},
     prefixes : {<<MCPrefix(TRUE, 2, 1), MCPrefix(FALSE, 3, 1)>>},
     pressure : {MCPressure(slot, uma, disk, 3, {2}) :
        slot \in BOOLEAN, uma \in BOOLEAN, disk \in BOOLEAN}]

MCObservations == MCHotObservations \cup MCDiskObservations \cup MCBothObservations
MCPressures == {MCPressure(FALSE, FALSE, FALSE, 0, {}), MCPressure(FALSE, TRUE, TRUE, 2, {})}
=============================================================================
