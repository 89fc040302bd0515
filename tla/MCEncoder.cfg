SPECIFICATION Spec
CONSTANTS
    Code <- MCCode
    U32 = 256
    U64 = 65536
    MaxLen = 8
    Messages <- MCMessages
    Old = Old
INVARIANTS
    TypeOK EncodedSoFar LengthExact WithinLength EmitsCodes DecodesToMessage
PROPERTIES
    Terminates ImplementsContract
