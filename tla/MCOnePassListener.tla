------------------------- MODULE MCOnePassListener -------------------------
(* Two layers of three experts, two of which are active in a row.   *)
EXTENDS OnePassListener, TLC

CONSTANTS code, a1, a2, a3, a4

MCRow(i, j, x) == <<[id |-> i, gate |-> 1, norm |-> x], [id |-> j, gate |-> 1, norm |-> 2]>>
MCBatch(routed, flaw) == [n |-> 3, routed |-> routed, flaw |-> flaw]

MCModels == {<<"moe", "moe">>, <<"moe", "unsupported">>}
MCBatches ==
    {MCBatch(<<>>, "none"), MCBatch(<<MCRow(0, 1, 0)>>, "none"),
     MCBatch(<<MCRow(2, 1, 1)>>, "none"), MCBatch(<<MCRow(0, 1, NonFinite)>>, "none"),
     MCBatch(<<MCRow(2, 1, 1)>>, "unresolved"), MCBatch(<<MCRow(0, 1, 1)>>, "drifted")}
MCLabels == {code, Unnamed}
MCLimit == [k \in Kinds |-> CASE k = "forward" -> 2 [] k = "observer" -> 2
                              [] k = "install" -> 1 [] k = "label" -> 1 [] OTHER -> 1]
MCSymmetry == Permutations({a1, a2, a3, a4})
=============================================================================
