SPECIFICATION Spec
CONSTANTS
    Entries = 257
    CHUNK = 256
    MaxBits = 32
    Tables <- RfcTables
INVARIANTS
    PrintsShipped ServesDecoder
PROPERTIES
    Terminates
