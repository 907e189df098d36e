-------------------------- MODULE MCCandidateBuild --------------------------
(***************************************************************************)
(* Two layers of three experts with two projections; two experts of each   *)
(* layer survive (25 percent of three, rounded).  Every job is good or has *)
(* one thing wrong.  One run checks the builder's plan, the publication of *)
(* its map, the encoding of tensors and the artifact root, each from its   *)
(* own initial states while the others rest.                               *)
(***************************************************************************)
EXTENDS CandidatePlan, MapPublication, MCAffineCodec, MCArtifactRoot, TLC

MCLayers == {1, 2}
MCProjections == {"down", "gate"}

Text(cls, l) == TensorName("text", l, 0, cls, "weight")
Vision == TensorName("text", 9, 0, "vision", "weight")
Draft == TensorName("text", 9, 0, "draft", "weight")

MCExpertOrder ==
  [i \in 1 .. 24 |->
     LET j == i - 1
     IN  ExpertTensor(1 + j \div 12, (j \div 4) % 3, IF (j \div 2) % 2 = 0 THEN "down" ELSE "gate",
                      IF j % 2 = 0 THEN "weight" ELSE "scale")]
MCTensorOrder ==
  MCExpertOrder
    \o <<ExpertTensor(1, 3, "gate", "weight"), ExpertTensor(1, 3, "gate", "scale"),
         RouterTensor(1, "bias"), RouterTensor(1, "weight"),
         RouterTensor(2, "bias"), RouterTensor(2, "weight"), RouterTensor(7, "weight"),
         Text("embeddings_lm_head", 0), Text("attention_qkv", 0), Text("dense_ffn", 0),
         Text("dense_ffn", 1), Text("other", 0), Vision, Draft>>

-----------------------------------------------------------------------------
(* Sources                                                                 *)

Item(component, dtype, quant, r, w, params, size, sub) ==
  [component |-> component, dtype |-> dtype, quant |-> quant, rows |-> r, width |-> w,
   params |-> params, bytes |-> size, sub |-> sub]

BaseEntry(n) ==
  CASE n.kind = "expert" /\ n.part = "weight" -> Item("text", "U8", "mxfp4", 1, 128, 128, 64, FALSE)
    [] n.kind = "expert" -> Item("text", "U8", None, 1, 4, 0, 4, FALSE)
    [] n.kind = "router" /\ n.part = "weight" -> Item("text", "F32", None, 3, 2, 6, 24, FALSE)
    [] n.kind = "router" -> Item("text", "F32", None, 3, 1, 3, 12, FALSE)
    [] n.proj = "embeddings_lm_head" -> Item("text", "BF16", None, 1, 128, 128, 256, FALSE)
    [] n.proj = "vision" -> Item("vision", "BF16", None, 1, 4, 4, 8, FALSE)
    [] n.proj = "draft" -> Item("dflash", "BF16", None, 1, 4, 4, 8, TRUE)
    [] OTHER -> Item("text", "F8", None, 1, 16, 16, 16, FALSE)

BaseNames ==
  {ExpertTensor(l, e, p, t) : l \in MCLayers, e \in 0 .. 2, p \in MCProjections, t \in Parts}
    \cup {RouterTensor(l, t) : l \in MCLayers, t \in RouterParts}
    \cup {Text("embeddings_lm_head", 0), Text("attention_qkv", 0), Text("dense_ffn", 0), Vision, Draft}

HeaderOf(tensors) == [n \in {m \in DOMAIN tensors : ~tensors[m].sub} |-> [bytes |-> tensors[n].bytes, dtype |-> tensors[n].dtype]]
\* f @@ <<>> is f, held as a table instead of computed at each application.
Table(f) == f @@ <<>>
Walk(tensors) == SelectSeq(MCTensorOrder, LAMBDA n : n \in DOMAIN tensors /\ ~tensors[n].sub)
SourceOf(tensors) ==
  [tensors |-> Table(tensors), walk |-> Walk(tensors), header |-> Table(HeaderOf(tensors)), sizes |-> TRUE, unlisted |-> FALSE,
   sub_recorded |-> TRUE, metadata |-> TRUE,
   config |-> [routed |-> 3, topK |-> TopK, store |-> "mxfp4"]]

BaseTensors == [n \in BaseNames |-> BaseEntry(n)]
Base == SourceOf(BaseTensors)
With(names) == SourceOf([n \in BaseNames \cup names |-> BaseEntry(n)])
Without(names) == SourceOf([n \in BaseNames \ names |-> BaseEntry(n)])
Changed(n, entry) == SourceOf([BaseTensors EXCEPT ![n] = entry])
HeaderWithout(n) == [Base EXCEPT !.header = [m \in DOMAIN @ \ {n} |-> Base.header[m]]]

AnExpert == ExpertTensor(1, 1, "gate", "weight")
ASurvivor == ExpertTensor(1, 0, "gate", "weight")
ARouter == RouterTensor(2, "weight")
Downs == {n \in BaseNames : n.kind = "expert" /\ n.proj = "down"}

SourceList ==
  <<Base, Without({AnExpert}), Without({AnExpert, ScaleOf(AnExpert)}), Without(Downs),
   With({ExpertTensor(1, 3, "gate", "weight"), ExpertTensor(1, 3, "gate", "scale")}),
   With({RouterTensor(7, "weight")}),
   With({Text("dense_ffn", 1)}), With({Text("other", 0)}),
   HeaderWithout(AnExpert), HeaderWithout(ScaleOf(AnExpert)), HeaderWithout(Vision),
   [Base EXCEPT !.header[AnExpert].bytes = 63], [Base EXCEPT !.header[ScaleOf(AnExpert)].dtype = "F32"],
   Changed(AnExpert, [BaseEntry(AnExpert) EXCEPT !.quant = None]),
   Changed(ASurvivor, Item("text", "F8", "fp8", 1, 128, 128, 128, FALSE)),
   Changed(ScaleOf(AnExpert), [BaseEntry(ScaleOf(AnExpert)) EXCEPT !.bytes = 5]),
   Changed(ARouter, [BaseEntry(ARouter) EXCEPT !.quant = "mxfp4"]),
   Changed(ARouter, [BaseEntry(ARouter) EXCEPT !.bytes = 25]),
   Changed(ARouter, [BaseEntry(ARouter) EXCEPT !.rows = 2]),
   Changed(ARouter, [BaseEntry(ARouter) EXCEPT !.params = 1]),
   Changed(Text("embeddings_lm_head", 0), [BaseEntry(Text("embeddings_lm_head", 0)) EXCEPT !.dtype = "F8", !.bytes = 128]),
   Changed(Draft, [BaseEntry(Draft) EXCEPT !.component = "text"]),
   [Base EXCEPT !.sizes = FALSE], [Base EXCEPT !.unlisted = TRUE], [Base EXCEPT !.sub_recorded = FALSE],
   [Base EXCEPT !.metadata = FALSE], [Base EXCEPT !.config = None],
   [Base EXCEPT !.config.routed = None], [Base EXCEPT !.config.topK = 1],
   [Without(Downs) EXCEPT !.config = None]>>

-----------------------------------------------------------------------------
(* Selections, orders and maps                                             *)

Choose(l, s) == [layer |-> l, original |-> 3, retained |-> s, pruned |-> None]
Selection(s, t) == [topK |-> None, layers |-> <<Choose(1, s), Choose(2, t)>>]
BaseSelection == Selection(<<2, 0>>, <<0, 1>>)
SelectionList ==
  <<BaseSelection, Selection(<<0, 1>>, <<1, 2>>), Selection(<<1, 2>>, <<2, 1>>),
          Selection(<<1, 1>>, <<0, 1>>), Selection(<<1, 3>>, <<0, 1>>),
          Selection(<<1>>, <<0, 1>>), Selection(<<>>, <<0, 1>>), Selection(<<0, 1, 2>>, <<2, 1, 0>>),
          [topK |-> None, layers |-> <<Choose(1, <<0, 1>>)>>],
          [topK |-> None, layers |-> <<Choose(1, <<0, 1>>), Choose(1, <<0, 2>>)>>],
          [BaseSelection EXCEPT !.topK = 8],
          [BaseSelection EXCEPT !.layers[1].pruned = {0}],
          [BaseSelection EXCEPT !.layers[1].pruned = {1}]>>

Chosen(sel) == [l \in MCLayers |-> sel.layers[l].retained]
BaseMap == PruneMapOf(BaseTensors, Chosen(BaseSelection))
MapList ==
  <<None, BaseMap,
   [BaseMap EXCEPT !.mode = "shape_only"],
   [BaseMap EXCEPT !.count = 3],
   [BaseMap EXCEPT !.layers[1].retained = <<0, 2>>],
   [BaseMap EXCEPT !.layers[1].retained = <<2, 2>>],
   [BaseMap EXCEPT !.layers[1].new[1] = 1],
   [BaseMap EXCEPT !.layers[1].new[1] = 1, !.layers[1].new[0] = None],
   [BaseMap EXCEPT !.layers[2].pruned = {}],
   [BaseMap EXCEPT !.layers[2].router["bias"] = None],
   [BaseMap EXCEPT !.layers[2].router["weight"] = 24],
   [BaseMap EXCEPT !.layers = [l \in {1} |-> BaseMap.layers[1]]]>>

OrderList ==
  <<None, (1 :> <<0, 2>> @@ 2 :> <<0, 1>>), (1 :> <<2, 0>> @@ 2 :> <<1, 0>>),
    (1 :> <<0, 1>> @@ 2 :> <<0, 1>>), (1 :> <<0, 2>>), (1 :> <<0, 2, 2>> @@ 2 :> <<0, 1>>)>>

-----------------------------------------------------------------------------
(* Recipes                                                                 *)

Row(fmt, label, n, unit) ==
  [format |-> fmt, label |-> label, units |-> n, unit_bytes |-> unit, class_bytes |-> n * unit,
   second_gen |-> Mode(fmt) = "affine", bit_exact |-> Mode(fmt) # "affine"]
Declared(row, before) == [format |-> row.format, before |-> before, after |-> row.class_bytes]

ExpertRows(native, second) ==
  (IF native > 0 THEN "experts_native" :> Row("mxfp4_native", "expert_instance", native, 136) ELSE << >>)
    @@ (IF second > 0 THEN "experts_second_gen" :> Row("q3_affine_g128", "expert_instance", second, 100)
        ELSE << >>)
OtherRows(embed) ==
  ("router" :> Row("native_dense_row_sliced", "retained_index", 2, 24))
    @@ ("attention_qkv" :> Row("native_fp8_e4m3", "tensor", 1, 16))
    @@ ("dense_ffn" :> Row("native_fp8_e4m3", "tensor", 1, 16))
    @@ ("embeddings_lm_head" :> Row(embed, "tensor", 1, CASE embed = "native_bf16" -> 256
                                      [] embed = "q6_affine_g128" -> 98 [] OTHER -> 132))
Recipe(base, extra, embed) ==
  LET second == 2 * base + Cardinality(extra)
      table == ExpertRows(4 - second, second) @@ OtherRows(embed)
      affine == {c \in DOMAIN table : table[c].second_gen}
      sum == MapThenSumSet(LAMBDA c : table[c].class_bytes, DOMAIN table)
      before == [c \in affine |-> IF c = "experts_second_gen" THEN second * 136 ELSE 256]
  IN  [percent |-> 25, retained |-> 2, total |-> 4, pruned |-> 2,
       rows |-> table, ledger |-> [c \in affine |-> Declared(table[c], before[c])],
       native |-> 4 - second, q3 |-> second, native_bytes |-> 136, q3_bytes |-> 100,
       base |-> base, extra |-> extra, per_extra |-> IF extra = {} THEN 0 ELSE base + 1,
       planned |-> sum,
       floor |-> sum + MapThenSumSet(LAMBDA c : before[c] - table[c].class_bytes, affine),
       id |-> TRUE]

Q == Recipe(2, {}, "native_bf16")
M == Recipe(1, {}, "native_bf16")
N == Recipe(0, {}, "native_bf16")
Unused == "norms" :> Row("q6_affine_g128", "tensor", 0, 5)
Counted == "norms" :> Row("q6_affine_g128", "retained_index", 2, 0)
\* Without the down projections, an instance costs half.
Halved(r) ==
  [r EXCEPT !.rows["experts_native"] = Row("mxfp4_native", "expert_instance", 4, 68),
            !.native_bytes = 68, !.planned = None, !.floor = None]

RecipeList ==
  <<Q, M, N, Recipe(0, {2}, "native_bf16"), Recipe(1, {2}, "native_bf16"),
    Recipe(0, {}, "q6_affine_g128"), Recipe(2, {}, "q8_affine_g64"), Halved(N),
    [N EXCEPT !.percent = 20], [N EXCEPT !.percent = 45], [N EXCEPT !.total = 5], [N EXCEPT !.pruned = 3],
   [N EXCEPT !.rows["router"].unit_bytes = 23], [N EXCEPT !.rows["router"].format = "native_f32"],
   [N EXCEPT !.rows["attention_qkv"].format = "native_dense_row_sliced"],
   [N EXCEPT !.rows["attention_qkv"].format = "native_bf16"],
   [N EXCEPT !.rows["attention_qkv"] = Row("q8_affine_g64", "tensor", 1, 16)],
   [N EXCEPT !.rows["embeddings_lm_head"] = Row("q6_affine_g128", "tensor", 1, 98), !.planned = None,
             !.floor = None],
   [Q EXCEPT !.rows["experts_second_gen"].second_gen = FALSE],
   [Q EXCEPT !.rows["experts_second_gen"] = Row("q3_affine_g128", "expert_instance", 4, 101)],
   [Q EXCEPT !.rows["experts_second_gen"] = Row("q3_affine_g128", "expert_instance", 5, 80)],
   [Q EXCEPT !.ledger = << >>],
   [Q EXCEPT !.ledger["experts_second_gen"].after = 1],
   [Q EXCEPT !.ledger["experts_second_gen"].format = "q6_affine_g128"],
   [Q EXCEPT !.planned = 1], [Q EXCEPT !.floor = 1], [Q EXCEPT !.id = FALSE],
   [Q EXCEPT !.q3_bytes = 99], [Q EXCEPT !.per_extra = 1], [Q EXCEPT !.base = 1],
   [M EXCEPT !.extra = {1}], [M EXCEPT !.extra = {9}, !.per_extra = 2],
   [M EXCEPT !.base = 3, !.extra = {}, !.q3 = 6, !.native = -2],
   [M EXCEPT !.rows = [c \in DOMAIN M.rows \ {"experts_native"} |-> M.rows[c]]],
   [N EXCEPT !.rows = Unused @@ N.rows], [N EXCEPT !.rows = Counted @@ N.rows],
   [N EXCEPT !.rows = Unused @@ N.rows, !.ledger = "norms" :> Declared(Unused["norms"], 0)],
   [N EXCEPT !.ledger = "router" :> Declared(N.rows["router"], 0)],
   [N EXCEPT !.rows["dense_ffn"].units = 2, !.rows["dense_ffn"].class_bytes = 32],
   [N EXCEPT !.rows["embeddings_lm_head"] = Row("native_bf16", "tensor", 1, 255), !.planned = None,
             !.floor = None]>>

\* The numbers of source, map, selection, order and recipe.
JobNumbers ==
  {<<1, 1, sel, 1, r>> : sel \in DOMAIN SelectionList, r \in {1, 3}}
    \cup {<<1, g, 1, o, r>> : g \in {1, 2}, o \in DOMAIN OrderList, r \in 1 .. 7}
    \cup {<<1, 1, 1, o, r>> : o \in 1 .. 3, r \in DOMAIN RecipeList}
    \cup {<<1, g, 1, 1, r>> : g \in DOMAIN MapList, r \in {1, 3}}
    \cup {<<s, g, 1, 2, r>> : s \in DOMAIN SourceList, g \in {1, 2}, r \in {1, 2, 3, 8}}
MCJobs == {[source |-> SourceList[n[1]], given |-> MapList[n[2]], selection |-> SelectionList[n[3]],
            order |-> OrderList[n[4]], recipe |-> RecipeList[n[5]]] : n \in JobNumbers}

-----------------------------------------------------------------------------
(* Publication: two builders of one selection, one of another              *)

CONSTANTS b1, b2, b3, t1, t2
MCBuilders == {b1, b2, b3}
MCTexts == {t1, t2}
MCChoice == b1 :> t1 @@ b2 :> t1 @@ b3 :> t2

SomeJob == CHOOSE j \in MCJobs : TRUE
SomeTensor == CHOOSE t \in RefusedTensors : TRUE

VARIABLE machine
buildVars == <<machine, planVars, pubVars, codecVars, vars>>

PlanRuns == machine = "plan" /\ PlanNext /\ UNCHANGED <<machine, pubVars, codecVars, vars>>
PubRuns == machine = "publication" /\ PubNext /\ UNCHANGED <<machine, planVars, codecVars, vars>>
CodecRuns == machine = "codec" /\ CodecNext /\ UNCHANGED <<machine, planVars, pubVars, vars>>
RootRuns == machine = "root" /\ Next /\ UNCHANGED <<machine, planVars, pubVars, codecVars>>

BuildInit ==
  /\ machine \in {"plan", "publication", "codec", "root"}
  /\ PlanInit /\ (machine # "plan" => job = SomeJob)
  /\ PubInit /\ (machine # "publication" => file = NoMap)
  /\ CodecInit /\ (machine # "codec" => tensor = SomeTensor)
  /\ Init /\ (machine # "root" => \A n \in Copied : supplied[n] = c1)
BuildNext == PlanRuns \/ PubRuns \/ CodecRuns \/ RootRuns
BuildSpec == BuildInit /\ [][BuildNext]_buildVars
=============================================================================
