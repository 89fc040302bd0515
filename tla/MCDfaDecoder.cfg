SPECIFICATION Spec
CONSTANTS
    Code <- MCCode
    dfa_chunk <- MCChunk
    dfa_accept <- MCAccept
    state_bits <- MCStateBits
    U32 = 80
    MaxLen = 10
    DstLen = 3
    Inputs <- MCInputs
    Parses <- MCParses
    Old = Old
INVARIANTS
    TypeOK ParsedPrefix AcceptedIsPadded AcceptsOnlyEncodings EncodingDecoded RestUntouched
PROPERTIES
    Terminates ImplementsContract
