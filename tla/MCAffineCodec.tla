--------------------------- MODULE MCAffineCodec ---------------------------
(* Small tensors for AffineCodec: rows of one or two groups of four values *)
(* that are zero, constant, far from zero, next to a tie, or wider than    *)
(* the largest step covers; packed sources with every sign, two block      *)
(* exponents and the NaN byte; shapes that are refused; every chunking.    *)
EXTENDS AffineCodec

Plain(row) == [weight |-> row, scale |-> <<>>]
Packed(bytes, scale) == [weight |-> bytes, scale |-> scale]
Tensor(kind, rows, bits, group, chunk) ==
  [kind |-> kind, rows |-> rows, bits |-> bits, group |-> group, chunk |-> chunk]

Groups3 == {<<0, 0, 0, 0>>, <<-5, -5, -5, -5>>, <<-3, 0, 2, 5>>, <<-300, -299, -298, -290>>,
            <<1, 15, 3, 4>>, <<400, 0, 1, 2>>, <<2, 3, 3, 9>>}
Groups68 == Groups3 \cup {<<7, 0, -7, 1>>, <<300, 255, 255, 120>>, <<40, 41, 43, 44>>}

PlainTensors ==
  {Tensor("bf16", <<Plain(a \o b), Plain(c \o a)>>, 3, 4, k) : a, b, c \in Groups3, k \in {1, 3}}
    \cup {Tensor("bf16", <<Plain(a), Plain(b), Plain(<<1, 7, -7, 0>>)>>, bits, 4, k) :
            a, b \in Groups68, bits \in {6, 8}, k \in {1, 2}}
PackedTensors ==
  {Tensor("mxfp4", <<Packed(<<a, b, 18, c>>, <<s, t>>), Packed(<<7, 63, a, 113>>, <<127, s>>)>>, bits, 8, k) :
     a, b \in {0, 31, 171}, c \in {8, 240}, s, t \in {127, 129, 255}, bits \in {3, 8}, k \in {1, 2}}
RefusedTensors ==
  {Tensor("bf16", <<Plain(<<1, 2, 3, 4>>)>>, 3, 4, 1), Tensor("bf16", <<Plain(<<1, 2, 3, 4>>)>>, 5, 4, 1),
   Tensor("bf16", <<Plain(<<1, 2, 3, 4>>)>>, 8, 3, 1), Tensor("mxfp4", <<Packed(<<1, 2>>, <<127, 127>>)>>, 8, 4, 1),
   Tensor("bf16", <<Plain(<<-9000, -9000, -9000, -9000>>), Plain(<<1, 2, 3, 4>>)>>, 8, 4, 2)}
AllTensors == PlainTensors \cup PackedTensors \cup RefusedTensors
MCTensors == AllTensors
SmallestExponent == -6
MCMinExponent == SmallestExponent
=============================================================================
