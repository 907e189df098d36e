---------------------------- MODULE AffineCodec ----------------------------
(***************************************************************************)
(* build/quantize.py and the loop of build/candidate.py that feeds it: a   *)
(* tensor is read some rows at a time, decoded, quantised group by group   *)
(* and packed, and what it takes to read it back.  Values are integers and *)
(* count halves, the smallest MXFP4 magnitude at exponent 0; a step of     *)
(* exponent e is 2^e halves.  The range of int8 exponents is narrowed to   *)
(* MinExponent .. MaxExponent, so that products fit TLC's integers.        *)
(***************************************************************************)
EXTENDS Optional, Integers, Sequences, FiniteSets, SequencesExt, FiniteSetsExt

CONSTANTS
  Tensors,                   \* [kind, rows, bits, group, chunk]: rows of [weight, scale]
  Block,                     \* columns that share an E8M0 byte
  MinExponent, MaxExponent,
  MaxZero                    \* the largest zero point in an int8

VARIABLES
  tensor, filled,    \* the source, and how many of its rows are encoded
  codes, scaleZero,  \* the bytes written, the bytes stashed
  error,             \* [max, sum] of the recorded statistics
  filling            \* how the loop ended

codecVars == <<tensor, filled, codes, scaleZero, error, filling>>

AffineBits == {3, 6, 8}
Levels(bits) == 2 ^ bits - 1
Magnitude(v) == IF v < 0 THEN -v ELSE v
Fine == 2 ^ (-MinExponent)    \* errors count 2^MinExponent halves

-----------------------------------------------------------------------------
(* Decoding the source                                                     *)

\* Twice the E2M1 values.
Magnitudes == <<0, 1, 2, 3, 4, 6, 8, 12>>
Nibble(n) == IF n >= 8 THEN -Magnitudes[n - 7] ELSE Magnitudes[n + 1]
\* Mutant: the high nibble is the even column.
HighFirst(byte) == <<Nibble(byte \div 16), Nibble(byte % 16)>>
Columns(byte) == <<Nibble(byte % 16), Nibble(byte \div 16)>>

DecodeMxfp4(row) ==
  LET plain == FlattenSeq([i \in DOMAIN row.weight |-> Columns(row.weight[i])])
  IN  [j \in DOMAIN plain |-> plain[j] * 2 ^ (row.scale[(j - 1) \div Block + 1] - 127)]
Decode(kind, row) == IF kind = "mxfp4" THEN DecodeMxfp4(row) ELSE row.weight

SourceRefused(kind, rows) ==
  kind = "mxfp4" /\ \E i \in DOMAIN rows :
    \/ 2 * Len(rows[i].weight) # Block * Len(rows[i].scale)
    \/ \E b \in DOMAIN rows[i].scale : rows[i].scale[b] = 255

-----------------------------------------------------------------------------
(* Encoding: a group is a sequence of values                               *)

GroupsOf(row, size) == [g \in 1 .. Len(row) \div size |-> SubSeq(row, (g - 1) * size + 1, g * size)]

\* v / 2^e to the nearest integer, halves to the even one.
Rint(v, e) ==
  IF e <= 0 THEN v * 2 ^ (-e)
  ELSE LET q == v \div 2 ^ e
           r == v % 2 ^ e
       IN  IF r < 2 ^ (e - 1) \/ (r = 2 ^ (e - 1) /\ q % 2 = 0) THEN q ELSE q + 1

Least(group) == Min(ToSet(group))
\* A constant group gets a range of its own, so that a step exists.
SafeRange(group) ==
  LET range == Max(ToSet(group)) - Least(group)
  IN  IF range = 0 THEN 2 * Magnitude(Least(group)) ELSE range
Covers(e, bits, range) ==
  IF e >= 0 THEN 2 ^ e * Levels(bits) >= range ELSE Levels(bits) >= range * 2 ^ (-e)
\* The smallest step that covers the range, clipped to the limits.
FirstExponent(group, bits) ==
  LET covering == {e \in MinExponent .. MaxExponent : Covers(e, bits, SafeRange(group))}
  IN  IF covering = {} THEN MaxExponent ELSE Min(covering)

ZeroPoint(group, e) == Rint(-Least(group), e)
Fits(group, e) == Magnitude(ZeroPoint(group, e)) <= MaxZero

\* While one zero point does not fit, every group below the limit takes a larger step.
Raised(first, n) == [g \in DOMAIN first |-> Min({first[g] + n, MaxExponent})]
AllFit(groups, exponents) == \A g \in DOMAIN groups : Fits(groups[g], exponents[g])
\* Mutant: the search gives up when one group has reached the limit.
OneAtLimit(exponents) == \E g \in DOMAIN exponents : exponents[g] = MaxExponent
GivesUp(exponents) == \A g \in DOMAIN exponents : exponents[g] = MaxExponent
Stops(groups, exponents) == AllFit(groups, exponents) \/ GivesUp(exponents)
\* The exponents the search ends with, from those of the groups alone.
Exponents(groups, first) ==
  Raised(first, Min({n \in 0 .. MaxExponent - MinExponent : Stops(groups, Raised(first, n))}))

\* Mutant: the code is not clipped to the levels.
Unclipped(v, e, z, bits) == (Rint(v, e) + z) % 256
Code(v, e, z, bits) ==
  LET raw == Rint(v, e) + z
  IN  IF raw < 0 THEN 0 ELSE IF raw > Levels(bits) THEN Levels(bits) ELSE raw

\* Eight codes of three bits, or four of six, fill three bytes, the first in the lowest bits.
PerTriple(bits) == 24 \div bits
Triple(n) == <<n % 256, (n \div 256) % 256, n \div 65536>>
PackCodes(row, bits) ==
  IF bits = 8 THEN row
  ELSE FlattenSeq([k \in 1 .. Len(row) \div PerTriple(bits) |->
         Triple(MapThenSumSet(LAMBDA i : row[(k - 1) * PerTriple(bits) + i + 1] * 2 ^ (bits * i),
                              0 .. PerTriple(bits) - 1))])

Byte(v) == v % 256
EncodeRefused(row, bits, size) ==
  bits \notin AffineBits \/ Len(row) = 0 \/ Len(row) % size # 0 \/ (Len(row) * bits) % 8 # 0

Coded(group, e, bits) ==
  [j \in DOMAIN group |-> Code(group[j], e, ZeroPoint(group, e), bits)]
\* perRow groups fill a row; each row is packed for itself.
PackedRows(groups, exponents, perRow, bits) ==
  FlattenSeq([i \in 1 .. Len(groups) \div perRow |->
    PackCodes(FlattenSeq([k \in 1 .. perRow |->
      Coded(groups[(i - 1) * perRow + k], exponents[(i - 1) * perRow + k], bits)]), bits)])
PairBytes(groups, exponents) ==
  FlattenSeq([g \in DOMAIN groups |-> <<Byte(exponents[g]), Byte(ZeroPoint(groups[g], exponents[g]))>>])

\* How far the codes are off, with the zero point and the step they were computed with: neither
\* has been packed or cut to a byte yet.  In units of 2^MinExponent halves.
CodeErrors(group, e, bits) ==
  [j \in DOMAIN group |->
    Magnitude((Code(group[j], e, ZeroPoint(group, e), bits) - ZeroPoint(group, e)) * 2 ^ (e - MinExponent)
                - group[j] * Fine)]
ErrorsOf(groups, exponents, bits) ==
  FlattenSeq([g \in DOMAIN groups |-> CodeErrors(groups[g], exponents[g], bits)])

-----------------------------------------------------------------------------
(* Reading back                                                            *)

Int8(byte) == IF byte >= 128 THEN byte - 256 ELSE byte
UnpackCodes(payload, bits) ==
  IF bits = 8 THEN payload
  ELSE FlattenSeq([k \in 1 .. Len(payload) \div 3 |->
         LET n == payload[3 * k - 2] + 256 * payload[3 * k - 1] + 65536 * payload[3 * k]
         IN  [i \in 1 .. PerTriple(bits) |-> (n \div 2 ^ (bits * (i - 1))) % 2 ^ bits]])
ExponentOf(pairs, g) == Int8(pairs[2 * g - 1])
\* In units of 2^MinExponent halves.
Dequant(payload, pairs, bits, size) ==
  LET code == UnpackCodes(payload, bits)
      groupOf(j) == (j - 1) \div size + 1
  IN  [j \in DOMAIN code |-> (code[j] - Int8(pairs[2 * groupOf(j)]))
                               * 2 ^ (ExponentOf(pairs, groupOf(j)) - MinExponent)]

-----------------------------------------------------------------------------
(* The loop                                                                *)

Values(rows) == [i \in DOMAIN rows |-> Decode(tensor.kind, rows[i])]
ErrorSum(errors) == FoldLeft(LAMBDA x, y : x + y, 0, errors)
\* Mutant: the maximum of the last rows stands for all.
LastError(sofar, errors) == [max |-> Max(ToSet(errors)), sum |-> sofar.sum + ErrorSum(errors)]
AddError(sofar, errors) == [max |-> Max(ToSet(errors) \cup {sofar.max}), sum |-> sofar.sum + ErrorSum(errors)]

\* What the plan declares for n values: of the packed codes, and of the scales and zero points,
\* which are a tensor of their own.
CodesPlanned(n) == (n * tensor.bits) \div 8
\* Mutant: a group has one slot.
OneSlot(n) == n \div tensor.group
ScalesPlanned(n) == (n \div tensor.group) * 2
Width == Len(Decode(tensor.kind, tensor.rows[1]))

NextRows == SubSeq(tensor.rows, filled + 1, Min({filled + tensor.chunk, Len(tensor.rows)}))

Refusing(why) == filling' = why /\ UNCHANGED <<filled, codes, scaleZero, error>>
Recording(rows, written, pairs, errors) ==
  /\ codes' = codes \o written
  /\ scaleZero' = scaleZero \o pairs
  /\ error' = AddError(error, errors)
  /\ filled' = filled + Len(rows)
  /\ UNCHANGED filling
\* encode_affine on the decoded rows.
Encoding(rows, groups) ==
  \E e \in {Exponents(groups, [g \in DOMAIN groups |-> FirstExponent(groups[g], tensor.bits)])} :
    IF ~AllFit(groups, e) THEN Refusing("overflow")
    ELSE Recording(rows, PackedRows(groups, e, Len(rows[1]) \div tensor.group, tensor.bits), PairBytes(groups, e),
                   ErrorsOf(groups, e, tensor.bits))

FillChunk ==
  /\ filling = None /\ filled < Len(tensor.rows) /\ UNCHANGED tensor
  /\ IF SourceRefused(tensor.kind, NextRows) THEN Refusing("source")
     ELSE \E rows \in {Values(NextRows)} :
       IF EncodeRefused(rows[1], tensor.bits, tensor.group) THEN Refusing("shape")
       ELSE Encoding(rows, FlattenSeq([i \in DOMAIN rows |-> GroupsOf(rows[i], tensor.group)]))

\* The shard is written on only when both tensors have the bytes the plan declared for them.
FillEnd ==
  /\ filling = None /\ filled = Len(tensor.rows)
  /\ filling' = IF Len(codes) = CodesPlanned(Width * filled) /\ Len(scaleZero) = ScalesPlanned(Width * filled)
                  THEN "filled" ELSE "accounting"
  /\ UNCHANGED <<tensor, filled, codes, scaleZero, error>>

FillRest == filling # None /\ UNCHANGED codecVars
CodecInit ==
  /\ tensor \in Tensors /\ filled = 0 /\ codes = <<>> /\ scaleZero = <<>>
  /\ error = [max |-> 0, sum |-> 0] /\ filling = None
CodecNext == FillChunk \/ FillEnd \/ FillRest
CodecSpec == CodecInit /\ [][CodecNext]_codecVars
-----------------------------------------------------------------------------
(* Properties                                                              *)

Encoded == FlattenSeq(Values(SubSeq(tensor.rows, 1, filled)))
ReadBack == Dequant(codes, scaleZero, tensor.bits, tensor.group)
GroupNumber(j) == (j - 1) \div tensor.group + 1

\* What is read back from the packed bytes lies within half a step of what was decoded, in every
\* group, also where codes are clipped, where the zero point is negative and where the group is
\* constant; a group of zeros comes back exactly (encode_affine, _pack_codes, dequant_affine).
WithinHalfStep ==
  filled > 0 =>
    \A values \in {Encoded}, read \in {ReadBack} : \A j \in DOMAIN values :
      /\ 2 * Magnitude(read[j] - values[j] * Fine) <= 2 ^ (ExponentOf(scaleZero, GroupNumber(j)) - MinExponent)
      /\ (\A i \in DOMAIN values : GroupNumber(i) = GroupNumber(j) => values[i] = 0) => read[j] = 0

\* The decoded values are those the nibbles and the block exponents stand for: the columns of a
\* byte are in order, and none is beyond the largest magnitude of its block (decode_mxfp4).
DecodedInOrder ==
  tensor.kind = "mxfp4" /\ filled > 0 =>
    \A values \in {Encoded} : \A i \in 1 .. filled, j \in 1 .. Width :
      LET row == tensor.rows[i]
          byte == row.weight[(j + 1) \div 2]
          nibble == IF j % 2 = 1 THEN byte % 16 ELSE byte \div 16
          scale == 2 ^ (row.scale[(j - 1) \div Block + 1] - 127)
          value == values[(i - 1) * Width + j]
      IN  /\ Magnitude(value) = Magnitudes[(nibble % 8) + 1] * scale
          /\ IF nibble < 8 THEN value >= 0 ELSE value <= 0

\* Whatever the rows of a chunk, the codes and the scales written have the bytes the plan declared
\* for each, and none is refused for its bytes after it was written; together they are what the
\* recipe counts (affine_expected_bytes).
BytesAsPredicted ==
  /\ filling # "accounting"
  /\ filling # "shape" /\ filled > 0 =>
       /\ Len(codes) = CodesPlanned(Width * filled) /\ Len(scaleZero) = ScalesPlanned(Width * filled)
       /\ \A b \in ToSet(codes) \cup ToSet(scaleZero) : b \in 0 .. 255

\* The error recorded before packing is that of the bytes: what is read back from them is off by
\* as much, in the maximum over all chunks and in the sum.
StatsOfTheBytes ==
  filled > 0 =>
    \A values \in {Encoded}, read \in {ReadBack} :
      \A errors \in {[j \in DOMAIN values |-> Magnitude(read[j] - values[j] * Fine)]} :
        error = [max |-> Max(ToSet(errors)), sum |-> ErrorSum(errors)]

\* A tensor is refused for a zero point only when some group of it fits at no exponent.
OverflowIsReal ==
  filling = "overflow" =>
    \E i \in DOMAIN tensor.rows :
      LET groups == GroupsOf(Decode(tensor.kind, tensor.rows[i]), tensor.group)
      IN  \E g \in DOMAIN groups : \A e \in MinExponent .. MaxExponent : ~Fits(groups[g], e)

\* The docstring of encode_affine: "Per group: e = ceil(log2(range / (2**bits - 1))) ... with e
\* raised until z fits int8".  No group has a larger step than it needs itself.
OwnExponent ==
  filled > 0 =>
    \A values \in {Encoded} : \A g \in 1 .. Len(values) \div tensor.group :
      LET group == SubSeq(values, (g - 1) * tensor.group + 1, g * tensor.group)
          first == FirstExponent(group, tensor.bits)
      IN  ExponentOf(scaleZero, g) = Min({e \in first .. MaxExponent : Fits(group, e)})

\* Encoding and decoding lose at most half a step (encode_affine, decode_mxfp4, dequant_affine).
RoundTrip == WithinHalfStep /\ DecodedInOrder

\* The bytes of a tensor and what is said of them agree, whatever its chunks (_fill_affine).
BytesHonest == BytesAsPredicted /\ StatsOfTheBytes /\ OverflowIsReal

\* What is published of a tensor decodes to it, and is what the ledger says (encode_affine).
CodecHonest == RoundTrip /\ BytesHonest
=============================================================================
