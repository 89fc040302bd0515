SPECIFICATION Spec
CONSTANTS
    Entries = 17
    CHUNK = 32
    MaxBits = 16
    Tables <- SmallTables
INVARIANTS
    IdsInOrder ClosedAndReached PrintsAutomaton GivesUpWithCause
PROPERTIES
    Terminates
