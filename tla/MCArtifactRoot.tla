--------------------------- MODULE MCArtifactRoot ---------------------------
(* Two contents for the caller's files, one of which has a secret in it,   *)
(* and a create of each kind.                                              *)
EXTENDS ArtifactRoot

CONSTANTS c1, c2, lb, p1, p2

MCCreate(kind, declared, inplace) ==
    [kind |-> kind, label |-> lb, declared |-> declared, inplace |-> inplace]
MCCreates ==
    {MCCreate("dataset", {"environment"}, {}),
     MCCreate("dataset", {"environment", "payload"}, {"payload"}),
     MCCreate("pruned", {"environment", "input"}, {})}
MCLimit == [command |-> 3, kill |-> 1, edit |-> 1, damage |-> 1]
MCPair  == [command |-> 2, kill |-> 0, edit |-> 1, damage |-> 0]
=============================================================================
