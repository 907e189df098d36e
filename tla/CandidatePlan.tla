--------------------------- MODULE CandidatePlan ---------------------------
(***************************************************************************)
(* One run of the candidate builder (build/__main__.py, build/candidate.py)*)
(* from its inputs to the records it writes: the prune map is derived or   *)
(* read, the recipe validated, precision assigned to experts, every tensor *)
(* of the source planned, the plan closed against the recipe, and the      *)
(* output written.  What happens to the files themselves, and the sidecars *)
(* that follow, is in ArtifactRoot.                                        *)
(*                                                                         *)
(* The inputs are one of Jobs, chosen at the start; Jobs is to hold good   *)
(* inputs and inputs with one thing wrong.                                 *)
(***************************************************************************)
EXTENDS PruneMap

CONSTANTS
  Jobs,         \* inputs: [source, given, selection, order, recipe]
  Target,       \* the resident bytes aimed at
  Tolerance

\* What the documents of a job are, good or bad: the records of an inventory
\* (models/inventory.py:405-507 classifies tensors and sizes an FP8 one), the names
\* of the root shards in the order of the code, by shard and then by name, lists of
\* ids, and the fields of the source's config.
Components == {"text", "dflash", "mtp", "vision", "audio"}
RecordSound(n, entry) ==
  /\ n = TensorName(n.kind, n.layer, n.expert, n.proj, n.part)
  /\ n.kind = "expert" => n.proj \in Projections /\ n.part \in Parts
  /\ n.kind = "router" => n = RouterTensor(n.layer, n.part) /\ n.part \in RouterParts
  /\ n.kind \in {"expert", "router", "text"}
  /\ entry.component \in Components
  /\ {entry.rows, entry.width, entry.params, entry.bytes} \subseteq Nat
  /\ entry.dtype = "F8" => entry.bytes = entry.rows * entry.width
SourceListed(src) ==
  /\ \A n \in DOMAIN src.tensors : RecordSound(n, src.tensors[n])
  /\ \A n \in DOMAIN src.header : src.header[n].bytes \in Nat /\ n \in Elements(src.walk)
  /\ src.walk \in Seq(DOMAIN src.tensors)
  /\ Elements(src.walk) = {n \in DOMAIN src.tensors : ~src.tensors[n].sub}
  /\ src.config # None => DOMAIN src.config = {"routed", "topK", "store"}
WellFormed(j) ==
  /\ SourceListed(j.source)
  /\ j.given # None => \A l \in DOMAIN j.given.layers : j.given.layers[l].retained \in Seq(Int)
  /\ \A i \in DOMAIN j.selection.layers : j.selection.layers[i].retained \in Seq(Int)
  /\ j.order # None => \A l \in DOMAIN j.order : j.order[l] \in Seq(Int)

VARIABLES
  job,          \* the inputs
  stage,
  map,          \* the prune map once derived or read
  q3,           \* layer -> experts to be re-encoded
  queue,        \* tensors still to dispatch, None before the tree is open
  consumed,     \* scales taken with their weight
  planned,      \* output name -> [src, action, cls, bytes, rows]
  units, bytes, \* by allocation class
  instance,     \* <<layer, expert>> -> bytes planned for it
  config,       \* config.json as written, None before
  out,          \* output name -> content
  record        \* the candidate record, None before

planVars == <<job, stage, map, q3, queue, consumed, planned, units, bytes, instance,
              config, out, record>>

source == job.source
given == job.given
selection == job.selection
order == job.order
recipe == job.recipe
rows == recipe.rows
ledger == recipe.ledger

\* The last four come once shards are being written.
Refusals == {"bad_selection", "bad_map", "bad_recipe", "bad_order", "bad_source", "bad_tensor",
             "bad_accounting", "bad_packing", "bad_metadata", "bad_config", "bad_record"}
Stages == {"prepare", "load", "validate", "assign", "open", "dispatch", "write", "adapt",
           "verify", "report", "built", "crashed"} \cup Refusals

Classes == {"experts_native", "experts_second_gen", "router", "attention_qkv",
            "attention_qkv_scales", "attention_o_proj", "attention_sinks", "dense_ffn",
            "dense_ffn_scales", "embeddings_lm_head", "norms"}

ASSUME JobsAssumption == None \notin Int \cup Classes /\ \A j \in Jobs : WellFormed(j)

\* The formats of quantize.py.
Affine == [q3_affine_g128 |-> [bits |-> 3, group |-> 128],
           q6_affine_g128 |-> [bits |-> 6, group |-> 128],
           q8_affine_g64  |-> [bits |-> 8, group |-> 64]]
Native == [native_fp8_e4m3 |-> "F8", native_f32 |-> "F32", native_bf16 |-> "BF16"]
Mode(fmt) == CASE fmt \in DOMAIN Affine -> "affine"
               [] fmt \in DOMAIN Native -> "passthrough"
               [] fmt = "mxfp4_native" -> "mxfp4"
               [] fmt = "native_dense_row_sliced" -> "row_slice"
               [] OTHER -> "unknown"

CodeBytes(params, fmt) == (params * Affine[fmt].bits) \div 8
ScaleBytes(params, fmt) == (params \div Affine[fmt].group) * 2
AffineBytes(params, fmt) == CodeBytes(params, fmt) + ScaleBytes(params, fmt)
WholeGroups(params, fmt) ==
  /\ params > 0
  /\ (params * Affine[fmt].bits) % 8 = 0
  /\ params % Affine[fmt].group = 0

Total(f) == SumFunction(f)
Joined(f, g) == [x \in DOMAIN f \cup DOMAIN g |-> IF x \in DOMAIN f THEN f[x] ELSE g[x]]
Put(f, k, v) == Joined([x \in {k} |-> v], f)

-----------------------------------------------------------------------------
(* The map: given, or derived from the selection                           *)

\* An order names the retained experts of every layer, each once.
OrderAccepted(retained) ==
  order # None => /\ DOMAIN order = DOMAIN retained
                  /\ \A l \in DOMAIN order : /\ Len(order[l]) = Len(retained[l])
                                             /\ Elements(order[l]) = Elements(retained[l])

Mixed(r) == 0 < r.q3 /\ r.q3 < r.total

\* main() and _ensure_prune_map: before the builder looks at anything.
Prepare ==
  /\ stage = "prepare"
  /\ LET chosen == Selected(selection)
     IN  \/ /\ Mixed(recipe) /\ order = None
            /\ stage' = "bad_order"
            /\ UNCHANGED map
         \/ /\ Mixed(recipe) => order # None
            /\ given # None
            /\ stage' = "load" /\ map' = given
         \/ /\ Mixed(recipe) => order # None
            /\ given = None
            /\ IF ~SelectionAccepted(selection)
                 THEN stage' = "bad_selection" /\ UNCHANGED map
               ELSE IF ~OrderAccepted(chosen)
                 THEN stage' = "bad_order" /\ UNCHANGED map
               ELSE IF MapRefused(source.tensors, chosen)
                 THEN stage' = "bad_map" /\ UNCHANGED map
               ELSE stage' = "load" /\ map' = PruneMapOf(source.tensors, chosen)
  /\ UNCHANGED <<job, q3, queue, consumed, planned, units, bytes, instance, config, out, record>>

Load ==
  /\ stage = "load"
  /\ stage' = IF MapAccepted(map) /\ map.count = recipe.retained THEN "validate"
              ELSE "bad_map"
  /\ UNCHANGED <<job, map, q3, queue, consumed, planned, units, bytes, instance, config, out,
                 record>>

-----------------------------------------------------------------------------
(* The recipe                                                              *)

\* retained = original - round_half_up(original * percent / 100)
RoundedRetained(percent) == NExperts - (2 * NExperts * percent + 100) \div 200

CountsSound(r) ==
  /\ r.percent \in {25, 30, 35, 40, 45}
  /\ r.retained \in 1 .. NExperts
  /\ r.retained = RoundedRetained(r.percent)
  /\ r.total = r.retained * Cardinality(Layers)
  /\ r.pruned = (NExperts - r.retained) * Cardinality(Layers)

RowSound(row) ==
  /\ Mode(row.format) # "unknown"
  /\ {row.units, row.unit_bytes, row.class_bytes} \subseteq Nat
  /\ row.class_bytes = row.units * row.unit_bytes
  /\ row.second_gen = (Mode(row.format) = "affine")
  /\ row.bit_exact = (Mode(row.format) # "affine")

LedgerSound(r) ==
  \A c \in DOMAIN r.ledger : /\ c \in DOMAIN r.rows
                             /\ r.rows[c].second_gen
                             /\ r.ledger[c].format = r.rows[c].format
                             /\ r.ledger[c].before \in Nat
                             /\ r.ledger[c].after = r.rows[c].class_bytes

DistributionSound(r) ==
  /\ {r.native, r.q3, r.base, r.per_extra} \subseteq Nat
  /\ r.native + r.q3 = r.total
  /\ r.extra \subseteq Layers
  /\ IF r.extra = {} THEN r.per_extra \in {0, r.base} ELSE r.per_extra = r.base + 1
  /\ r.base * Cardinality(Layers) + Cardinality(r.extra) * (r.per_extra - r.base) = r.q3
  /\ r.q3 > 0 => "experts_second_gen" \in DOMAIN r.rows
  /\ r.native > 0 => "experts_native" \in DOMAIN r.rows

RecipeSound(r) ==
  /\ CountsSound(r)
  /\ DOMAIN r.rows # {} /\ DOMAIN r.rows \subseteq Classes
  /\ \A c \in DOMAIN r.rows : RowSound(r.rows[c])
  /\ LedgerSound(r)
  /\ DistributionSound(r)

Validate ==
  /\ stage = "validate"
  /\ stage' = IF RecipeSound(recipe) THEN "assign" ELSE "bad_recipe"
  /\ UNCHANGED <<job, map, q3, queue, consumed, planned, units, bytes, instance, config, out,
                 record>>

-----------------------------------------------------------------------------
(* Precision: the first experts of the order are re-encoded                *)

\* Mutant: the survivors by ascending id, not in the order of the map.
RetainedSorted == [l \in Layers |-> SetToSortSeq(Elements(map.layers[l].retained), <)]
Retained == [l \in Layers |-> map.layers[l].retained]
Share(l) == IF l \in recipe.extra THEN recipe.per_extra ELSE recipe.base
\* Mutant: the last experts of the order are re-encoded.
LastOf(s, n) == {s[i] : i \in Len(s) - n + 1 .. Len(s)}
FirstOf(s, n) == {s[i] : i \in 1 .. n}
Smallest(S, n) == {e \in S : Cardinality({x \in S : x < e}) < n}
\* Without an order, by ascending id: then no layer is split.
First(l) == IF order # None THEN FirstOf(order[l], Share(l))
            ELSE Smallest(Elements(Retained[l]), Share(l))
Count(f) == SumFunction([l \in DOMAIN f |-> Cardinality(f[l])])

Assign ==
  /\ stage = "assign"
  /\ IF \/ ~OrderAccepted(Retained)
        \/ Mixed(recipe) /\ order = None
        \/ \E l \in Layers : Share(l) > Len(Retained[l])
       THEN stage' = "bad_order" /\ UNCHANGED q3
     ELSE LET first == [l \in Layers |-> First(l)]
          IN  IF /\ Count(first) = recipe.q3
                 /\ map.count * Cardinality(Layers) - Count(first) = recipe.native
                THEN stage' = "open" /\ q3' = first
              ELSE stage' = "bad_order" /\ UNCHANGED q3
  /\ UNCHANGED <<job, map, queue, consumed, planned, units, bytes, instance, config, out, record>>

-----------------------------------------------------------------------------
(* The source tree.  Shards in sub-directories are left out of the         *)
(* artifact; every weight at the root must be in the inventory.            *)

WeightOf(n) == ExpertTensor(n.layer, n.expert, n.proj, "weight")
ScaleOf(n) == [n EXCEPT !.part = "scale"]

SourceSound(src) ==
  /\ src.sizes
  /\ ~src.unlisted
  /\ src.sub_recorded \/ \A n \in DOMAIN src.tensors : ~src.tensors[n].sub
  /\ \A n \in DOMAIN src.tensors : src.tensors[n].sub => src.tensors[n].component # "text"

RootTensors == {n \in DOMAIN source.tensors : ~source.tensors[n].sub}

Open ==
  /\ stage = "open"
  /\ IF SourceSound(source)
       THEN stage' = "dispatch" /\ queue' = source.walk
     ELSE stage' = "bad_source" /\ UNCHANGED queue
  /\ UNCHANGED <<job, map, q3, consumed, planned, units, bytes, instance, config, out, record>>

-----------------------------------------------------------------------------
(* Dispatch, one tensor at a time                                          *)

Dispatching == stage = "dispatch" /\ queue # <<>>
Current == Head(queue)
Entry == source.tensors[Current]
OnDisk(n) == n \in DOMAIN source.header
Agrees == OnDisk(Current) /\ source.header[Current].bytes = Entry.bytes
InLedger(c) == c \in DOMAIN ledger

Planned(src, action, cls, nbytes, slice) ==
  [src |-> src, action |-> action, cls |-> cls, bytes |-> nbytes, rows |-> slice]

Free(names) == names \cap DOMAIN planned = {}
\* Mutant: the units are taken from the class.
BumpDown(cls, n, nbytes) ==
  /\ units' = [units EXCEPT ![cls] = @ - n]
  /\ bytes' = [bytes EXCEPT ![cls] = @ + nbytes]
Bump(cls, n, nbytes) ==
  /\ units' = [units EXCEPT ![cls] = @ + n]
  /\ bytes' = [bytes EXCEPT ![cls] = @ + nbytes]

ExpertClass(l, e) == IF e \in q3[l] THEN "experts_second_gen" ELSE "experts_native"
NewId(l, e) == map.layers[l].new[e]
\* Mutant: only one projection is renumbered.
RenamedGate(n) == IF n.proj = "gate" THEN [n EXCEPT !.expert = NewId(n.layer, n.expert)] ELSE n
Renamed(n) == [n EXCEPT !.expert = NewId(n.layer, n.expert)]
InMap(n) == n.layer \in DOMAIN map.layers /\ n.expert \in Experts
Survives(n) == InMap(n) /\ NewId(n.layer, n.expert) # None

Codes(n, name, cls, params, fmt) ==
  [m \in {name, ScaleOf(name)} |->
     IF m = name THEN Planned(n, "codes", cls, CodeBytes(params, fmt), None)
     ELSE Planned(n, "scales", cls, ScaleBytes(params, fmt), None)]

\* A scale travels with its weight, which must be there.
ScaleFits == /\ Current.kind = "expert" /\ Current.part = "scale"
             /\ OnDisk(WeightOf(Current))
DropScale ==
  /\ Dispatching /\ Agrees /\ ScaleFits
  /\ queue' = Tail(queue) /\ consumed' = consumed \cup {Current}
  /\ UNCHANGED <<job, stage, map, q3, planned, units, bytes, instance, config, out, record>>

PrunedFits == /\ Current.kind = "expert" /\ Current.part = "weight"
              /\ Current.layer \in DOMAIN map.layers /\ ~Survives(Current)
DropPruned ==
  /\ Dispatching /\ Agrees /\ PrunedFits
  /\ queue' = Tail(queue)
  /\ UNCHANGED <<job, stage, map, q3, consumed, planned, units, bytes, instance, config, out,
                 record>>

\* Mutant: any class is re-encoded, declared or not.
EncodeUndeclared(cls) == /\ Mode(rows[cls].format) = "affine"
                         /\ WholeGroups(Entry.params, rows[cls].format)
                         /\ Entry.rows * Entry.width = Entry.params
EncodeFits(cls) == /\ Mode(rows[cls].format) = "affine"
                   /\ InLedger(cls)
                   /\ WholeGroups(Entry.params, rows[cls].format)
                   /\ Entry.rows * Entry.width = Entry.params
NativeFits(cls) == /\ Mode(rows[cls].format) = "mxfp4"
                   /\ Entry.quant = "mxfp4"
                   /\ source.header[ScaleOf(Current)].dtype = "U8"

CurrentClass == ExpertClass(Current.layer, Current.expert)
ExpertFits ==
  /\ Current.kind = "expert" /\ Current.part = "weight" /\ Survives(Current)
  /\ CurrentClass \in DOMAIN rows
  /\ OnDisk(ScaleOf(Current))
  /\ NativeFits(CurrentClass) \/ EncodeFits(CurrentClass)
  /\ Free({Renamed(Current), ScaleOf(Renamed(Current))})

\* A surviving expert keeps its bytes or is re-encoded, under its new id.
ExpertOutputs ==
  LET n == Current  name == Renamed(n)
  IN  IF Mode(rows[CurrentClass].format) = "mxfp4"
      THEN [m \in {name, ScaleOf(name)} |->
              LET s == IF m = name THEN n ELSE ScaleOf(n)
              IN Planned(s, "copy", CurrentClass, source.header[s].bytes, None)]
      ELSE Codes(n, name, CurrentClass, Entry.params, rows[CurrentClass].format)
PlaceExpert ==
  /\ Dispatching /\ Agrees /\ ExpertFits
  /\ LET key == <<Current.layer, Current.expert>>
         cost == Total([m \in DOMAIN ExpertOutputs |-> ExpertOutputs[m].bytes])
     IN  /\ Bump(CurrentClass, 0, cost)
         /\ instance' = Put(instance, key,
                            cost + (IF key \in DOMAIN instance THEN instance[key] ELSE 0))
  /\ planned' = Joined(ExpertOutputs, planned)
  /\ queue' = Tail(queue)
  /\ UNCHANGED <<job, stage, map, q3, consumed, config, out, record>>

SlicedBytes == Len(Retained[Current.layer]) * Entry.width * ItemSize(Entry.dtype)
RouterFits == /\ Current.kind = "router" /\ Current.layer \in Layers
              /\ "router" \in DOMAIN rows /\ Mode(rows["router"].format) = "row_slice"
              /\ Entry.quant = None /\ RowUniform(Entry)
              /\ map.layers[Current.layer].router[Current.part] = SlicedBytes
              /\ Free({Current})

\* The rows of the survivors, in the order of their new ids.
SliceRouter ==
  /\ Dispatching /\ Agrees /\ RouterFits
  /\ planned' = Put(planned, Current,
                    Planned(Current, "slice", "router", SlicedBytes, Retained[Current.layer]))
  /\ Bump("router", 0, SlicedBytes)
  /\ queue' = Tail(queue)
  /\ UNCHANGED <<job, stage, map, q3, consumed, instance, config, out, record>>

\* Other components are copied and not budgeted.
\* Mutant: they are left out, like those of the sub-directories.
OtherFits == Current.kind = "text" /\ Entry.component # "text" /\ Free({Current})
DropOther ==
  /\ Dispatching /\ Agrees /\ OtherFits
  /\ queue' = Tail(queue)
  /\ UNCHANGED <<job, stage, map, q3, consumed, planned, units, bytes, instance, config, out, record>>
CopyOther ==
  /\ Dispatching /\ Agrees /\ OtherFits
  /\ planned' = Put(planned, Current, Planned(Current, "copy", None, Entry.bytes, None))
  /\ queue' = Tail(queue)
  /\ UNCHANGED <<job, stage, map, q3, consumed, units, bytes, instance, config, out, record>>

\* The remaining text tensors, whose name gives their class; a _scale has none.
TextClass == Current.proj
TextFits == /\ Current.kind = "text" /\ Current.part = "weight" /\ Entry.component = "text"
            /\ TextClass \in Classes \cap DOMAIN rows
            /\ TextClass \in {"dense_ffn", "dense_ffn_scales"} => Current.layer = 0
CopyFits == /\ TextFits /\ Free({Current})
            /\ Mode(rows[TextClass].format) = "passthrough"
            /\ Entry.dtype = Native[rows[TextClass].format]
TextEncodeFits == /\ TextFits /\ EncodeFits(TextClass)
                  /\ Free({Current, ScaleOf(Current)})
                  /\ IF Entry.quant = "mxfp4" THEN Entry.dtype = "U8" /\ OnDisk(ScaleOf(Current))
                     ELSE Entry.dtype = "BF16"

CopyText ==
  /\ Dispatching /\ Agrees /\ CopyFits
  /\ planned' = Put(planned, Current, Planned(Current, "copy", TextClass, Entry.bytes, None))
  /\ Bump(TextClass, 1, Entry.bytes)
  /\ queue' = Tail(queue)
  /\ UNCHANGED <<job, stage, map, q3, consumed, instance, config, out, record>>

EncodeText ==
  /\ Dispatching /\ Agrees /\ TextEncodeFits
  /\ planned' = Joined(Codes(Current, Current, TextClass, Entry.params, rows[TextClass].format),
                       planned)
  /\ Bump(TextClass, 1, AffineBytes(Entry.params, rows[TextClass].format))
  /\ consumed' = IF Entry.quant = "mxfp4" THEN consumed \cup {ScaleOf(Current)} ELSE consumed
  /\ queue' = Tail(queue)
  /\ UNCHANGED <<job, stage, map, q3, instance, config, out, record>>

\* A router of a layer the map does not know ends in a lookup error.
LookupFails == /\ Agrees /\ Current.kind = "router" /\ Current.layer \notin Layers
               /\ "router" \in DOMAIN rows /\ Mode(rows["router"].format) = "row_slice"

\* Any other tensor that fits nowhere stops the build.
RefuseTensor ==
  /\ Dispatching
  /\ ~(Agrees /\ (\/ ScaleFits \/ PrunedFits \/ ExpertFits \/ RouterFits \/ OtherFits
                  \/ CopyFits \/ TextEncodeFits))
  /\ stage' = IF LookupFails THEN "crashed" ELSE "bad_tensor"
  /\ UNCHANGED <<job, map, q3, queue, consumed, planned, units, bytes, instance, config, out,
                 record>>

-----------------------------------------------------------------------------
(* Closing the plan against the recipe                                     *)

ClassOf(key) == ExpertClass(key[1], key[2])
UnitsOf(c) ==
  CASE rows[c].label = "retained_index" -> map.count
    [] rows[c].label = "expert_instance" ->
         Cardinality({key \in DOMAIN instance : ClassOf(key) = c})
    [] OTHER -> units[c]

ScalesConsumed ==
  \A n \in DOMAIN source.tensors :
    (~source.tensors[n].sub /\ n.kind = "expert" /\ n.part = "scale" /\ n \notin consumed)
      => ~Survives(n)

\* Mutant: units are compared with the recipe, bytes are not.
UnitsClose == \A c \in DOMAIN rows : UnitsOf(c) = rows[c].units
RowsClose == \A c \in DOMAIN rows : /\ UnitsOf(c) = rows[c].units
                                    /\ bytes[c] = rows[c].class_bytes

TextBytes == Total(bytes)

\* Every re-encoded class at the bytes its ledger entry says it had.
FloorKnown == \A c \in DOMAIN rows : rows[c].second_gen => InLedger(c)
Floor == Total([c \in DOMAIN rows |->
                  IF rows[c].second_gen THEN ledger[c].before ELSE rows[c].class_bytes])

InstancesClose ==
  /\ \A key \in DOMAIN instance : instance[key] = rows[ClassOf(key)].unit_bytes
  /\ Cardinality(DOMAIN instance) = recipe.native + recipe.q3
  /\ "experts_native" \in DOMAIN rows =>
       recipe.native_bytes = rows["experts_native"].unit_bytes
  /\ "experts_second_gen" \in DOMAIN rows =>
       recipe.q3_bytes = rows["experts_second_gen"].unit_bytes

Close ==
  /\ stage = "dispatch" /\ queue = <<>>
  /\ stage' = IF ~(ScalesConsumed /\ RowsClose /\ recipe.planned \in {None, TextBytes})
              THEN "bad_accounting"
              ELSE IF ~FloorKnown THEN "crashed"
              ELSE IF recipe.floor \in {None, Floor} /\ InstancesClose THEN "write"
              ELSE "bad_accounting"
  /\ UNCHANGED <<job, map, q3, queue, consumed, planned, units, bytes, instance, config, out,
                 record>>

-----------------------------------------------------------------------------
(* Writing.  A content says which tensor it was made from, and how.        *)

Content(p) == [src |-> p.src, action |-> p.action, rows |-> p.rows]
Encodings == {"codes", "scales"}
Reencoded == {n \in DOMAIN planned : planned[n].action \in Encodings}

\* The rows of a source that is encoded again are read as packed nibbles with a
\* scale for every 32 columns, or as BF16; any other length is refused.
\* Mutant: whatever its length.
DecodesAnyhow(n) == n \in DOMAIN source.tensors
Decodes(n) ==
  LET entry == source.tensors[n]
      row(nbytes) == nbytes \div entry.rows
  IN  IF n.kind = "expert" \/ entry.quant = "mxfp4"
      THEN /\ entry.width % 32 = 0
           /\ row(entry.bytes) = entry.width \div 2
           /\ row(source.header[ScaleOf(n)].bytes) = entry.width \div 32
      ELSE row(entry.bytes) = 2 * entry.width

Write ==
  /\ stage = "write"
  /\ IF \A n \in Reencoded : Decodes(planned[n].src)
       THEN stage' = "adapt" /\ out' = [n \in DOMAIN planned |-> Content(planned[n])]
     ELSE stage' = "bad_packing" /\ UNCHANGED out
  /\ UNCHANGED <<job, map, q3, queue, consumed, planned, units, bytes, instance, config, record>>

\* config.json follows the weights: the kept count, and no claim of a native
\* expert format over re-encoded experts.
\* Mutant: the config keeps the format it names.
AdaptedCount(found) == [found EXCEPT !.routed = map.count]
Adapted(found) ==
  [found EXCEPT !.routed = map.count,
                !.store = IF @ = "mxfp4" /\ \E n \in Reencoded : n.kind = "expert"
                          THEN "second_gen_affine" ELSE @]

Adapt ==
  /\ stage = "adapt"
  /\ IF source.metadata /\ source.config = None
       THEN stage' = "verify" /\ UNCHANGED config
     ELSE IF /\ source.metadata
             /\ source.config.routed # None
             /\ source.config.topK \in {None, TopK}
       THEN stage' = "verify" /\ config' = Adapted(source.config)
     ELSE stage' = "bad_metadata" /\ UNCHANGED config
  /\ UNCHANGED <<job, map, q3, queue, consumed, planned, units, bytes, instance, out, record>>

WrittenIds(l, p) == {n.expert : n \in {m \in DOMAIN planned :
                       m.kind = "expert" /\ m.layer = l /\ m.proj = p /\ m.part = "weight"}}

ConfigAgrees ==
  /\ config.routed = map.count
  /\ config.topK # None => config.topK <= config.routed
  /\ \A n \in DOMAIN planned :
       planned[n].action = "slice" => Len(planned[n].rows) = config.routed
  /\ \A l \in Layers, p \in Projections : WrittenIds(l, p) = 0 .. config.routed - 1

Verify ==
  /\ stage = "verify"
  /\ stage' = IF config = None \/ ConfigAgrees THEN "report" ELSE "bad_config"
  /\ UNCHANGED <<job, map, q3, queue, consumed, planned, units, bytes, instance, config, out,
                 record>>

Near(amount) == amount - Target \in -Tolerance .. Tolerance

Report ==
  /\ stage = "report"
  /\ IF recipe.id
       THEN /\ stage' = "built"
            /\ record' = [resident |-> TextBytes, within |-> Near(TextBytes),
                          floor |-> Floor, floor_within |-> Near(Floor)]
     ELSE stage' = "bad_record" /\ UNCHANGED record
  /\ UNCHANGED <<job, map, q3, queue, consumed, planned, units, bytes, instance, config, out>>

-----------------------------------------------------------------------------
PlanEnded == stage \in {"built", "crashed"} \cup Refusals
PlanRest == PlanEnded /\ UNCHANGED planVars

NoNames == [n \in {} |-> None]
PlanInit ==
  /\ job \in Jobs
  /\ stage = "prepare"
  /\ map = None /\ q3 = None
  /\ queue = None /\ consumed = {}
  /\ planned = NoNames /\ instance = NoNames
  /\ units = [c \in Classes |-> 0] /\ bytes = [c \in Classes |-> 0]
  /\ config = None /\ out = NoNames /\ record = None

Dispatch == DropScale \/ DropPruned \/ PlaceExpert \/ SliceRouter \/ CopyOther \/ CopyText
              \/ EncodeText \/ RefuseTensor
PlanNext == Prepare \/ Load \/ Validate \/ Assign \/ Open \/ Dispatch \/ Close \/ Write
              \/ Adapt \/ Verify \/ Report \/ PlanRest

PlanSpec == PlanInit /\ [][PlanNext]_planVars
-----------------------------------------------------------------------------
(* Properties                                                              *)

Actions == {"copy", "codes", "scales", "slice"}
PlanTypeOK ==
  /\ stage \in Stages
  /\ queue = None \/ Elements(queue) \subseteq RootTensors
  /\ consumed \subseteq DOMAIN source.tensors \cup {ScaleOf(n) : n \in DOMAIN source.tensors}
  /\ \A n \in DOMAIN planned :
       /\ planned[n].action \in Actions
       /\ planned[n].cls \in Classes \cup {None}
       /\ planned[n].bytes \in Nat
  /\ units \in [Classes -> Nat] /\ bytes \in [Classes -> Nat]
  /\ \A key \in DOMAIN instance : instance[key] \in Nat

Writing == stage \in {"write", "adapt", "verify", "report", "built"}
ExpertOutput(n) == n \in DOMAIN planned /\ n.kind = "expert"

\* Row i of both routers of a layer belongs to the original expert whose
\* tensors carry the new id i: experts are renamed one at a time in
\* PlaceExpert, rows are sliced in SliceRouter (candidate.py:958-999, 1126-1178).
RoutersServeExperts ==
  \A r, n \in DOMAIN planned :
    (planned[r].action = "slice" /\ ExpertOutput(n) /\ n.layer = r.layer)
      => /\ n.expert + 1 \in DOMAIN planned[r].rows
         /\ planned[r].rows[n.expert + 1] = planned[n].src.expert

\* No two experts share a new id, and all projections of a new id come from
\* one expert.
OneExpertPerId ==
  \A n, m \in DOMAIN planned :
    (ExpertOutput(n) /\ ExpertOutput(m) /\ n.layer = m.layer)
      => (n.expert = m.expert <=> planned[n].src.expert = planned[m].src.expert)

\* The order decides precision: a re-encoded expert comes before every expert
\* of its layer that keeps its native bytes (candidate.py:729-776).
PrecisionFollowsOrder ==
  \A n, m \in DOMAIN planned :
    (/\ ExpertOutput(n) /\ ExpertOutput(m) /\ n.layer = m.layer
     /\ planned[n].cls = "experts_second_gen" /\ planned[m].cls = "experts_native")
      => /\ order # None
         /\ Position(order[n.layer], planned[n].src.expert)
              < Position(order[n.layer], planned[m].src.expert)

\* Nothing is quantised a second time unless the ledger says so, and no FP8
\* tensor is written re-encoded: the plan refuses those it classifies by name,
\* and an expert stored as FP8 fails to decode (candidate.py:878-889, 1264).
SecondGenDeclared ==
  /\ \A n \in Reencoded : /\ planned[n].cls \in DOMAIN ledger
                           /\ ledger[planned[n].cls].format = rows[planned[n].cls].format
  /\ \A n \in DOMAIN out : out[n].action \in Encodings => source.tensors[out[n].src].dtype # "F8"

\* Before the first byte is written, the outputs of every class add up to its
\* row of the recipe, and the recipe's total is theirs.
OutputsOf(c) == {n \in DOMAIN planned : planned[n].cls = c}
ClassBytes(c) == SumFunctionOnSet([n \in DOMAIN planned |-> planned[n].bytes], OutputsOf(c))
AllBytes == SumFunction([c \in Classes |-> ClassBytes(c)])
BooksBalance ==
  Writing => /\ \A c \in Classes :
                  ClassBytes(c) = IF c \in DOMAIN rows THEN rows[c].class_bytes ELSE 0
             /\ recipe.planned \in {None, AllBytes}
             /\ record # None => record.resident = AllBytes

\* What is written holds every tensor of the root shards, except the pruned
\* experts and the scales of re-encoded weights.
NothingLost ==
  Writing => \A n \in DOMAIN source.tensors :
    \/ source.tensors[n].sub /\ source.tensors[n].component # "text"
    \/ \E m \in DOMAIN planned : planned[m].src = n
    \/ n.kind = "expert" /\ ~Survives(n)
    \/ n.part = "scale" /\ \E m \in Reencoded : planned[m].src = WeightOf(n)

\* The config a built candidate carries describes its weights.
ConfigDescribes ==
  (stage = "built" /\ config # None) =>
    /\ \A l \in Layers, p \in Projections, i \in 0 .. config.routed - 1, t \in Parts :
         \E e \in Elements(Retained[l]) :
           /\ ExpertTensor(l, i, p, t) \in DOMAIN out
           /\ out[ExpertTensor(l, i, p, t)].src.expert = e
    /\ \A n \in DOMAIN out : n.kind = "router" => Len(out[n].rows) = config.routed
    /\ config.topK # None => config.topK <= config.routed
    /\ config.store = "mxfp4" =>
         \A n \in DOMAIN out : n.kind = "expert" => out[n].action = "copy"

\* A map derived from a selection is one the builder accepts, and its candidate
\* block is the selection again (maps.py:486-849, candidate.py:503-596).
DerivedMapAccepted ==
  (stage = "load" /\ given = None) =>
    /\ MapAccepted(map)
    /\ SelectionAccepted(CandidateBlock(map))
    /\ Selected(CandidateBlock(map)) = Selected(selection)

\* The text bytes a map predicts are those of a build that re-encodes nothing.
MapPredictsBuild ==
  (Writing /\ given = None /\ \A n \in DOMAIN planned : n \notin Reencoded)
    => map.text = TextBytes

\* A map the builder read renumbers the survivors of each layer without gaps
\* and drops the rest, whoever wrote it.
MapIsBijection ==
  stage \in {"validate", "assign", "open", "dispatch"} =>
    \A l \in Layers :
      LET new == map.layers[l].new
          kept == {e \in Experts : new[e] # None}
      IN  /\ {new[e] : e \in kept} = 0 .. map.count - 1
          /\ Cardinality(kept) = map.count
          /\ map.layers[l].pruned = Experts \ kept

\* The lookup errors the builder does not turn into a refusal: a router of an
\* unknown layer, or a re-encoded class that no tensor belongs to and the
\* ledger does not name.
CrashesKnown ==
  stage = "crashed" =>
    \/ \E n \in DOMAIN source.tensors : n.kind = "router" /\ n.layer \notin Layers
    \/ \E c \in DOMAIN rows : rows[c].second_gen /\ ~InLedger(c) /\ OutputsOf(c) = {}

\* What is planned for a tensor follows from map, order and ledger: rows and tensors, handled in
\* different branches, end up under the same ids with the declared precision (_plan_build).
PlanFollowsMap ==
  RoutersServeExperts /\ OneExpertPerId /\ PrecisionFollowsOrder /\ SecondGenDeclared

\* The plan is closed: nothing is lost or left uncounted, and nothing but the known lookup errors
\* escapes the refusals (_plan_build and the checks that close it).
PlanClosed == PlanTypeOK /\ BooksBalance /\ NothingLost /\ CrashesKnown

\* The documents describe the weights: the map the selection and the bytes, the config the experts
\* (build_prune_map, _adapt_config).
DescriptionsAgree ==
  ConfigDescribes /\ DerivedMapAccepted /\ MapPredictsBuild /\ MapIsBijection
=============================================================================
