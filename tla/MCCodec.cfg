SPECIFICATION Spec
CONSTANTS
    Code <- MCCode
    MAX_LEN = 4
    U32 = 128
    EncSize = 13
    DecSize = 130
    Messages <- MCMessages
    Caps <- MCCaps
    MaxCalls = 5
    Old = Old
INVARIANTS
    TypeOK RoundTrip ReportsThisCall AnnouncedIsReturned
PROPERTIES
    WholeOrNothing CapacityHonoured
