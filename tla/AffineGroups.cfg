SPECIFICATION CodecSpec
CONSTANTS
    Tensors <- MCTensors
    Block = 4
    MinExponent <- MCMinExponent
    MaxExponent = 6
    MaxZero = 127
    None = None
INVARIANT OwnExponent
