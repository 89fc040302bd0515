SPECIFICATION Spec
CONSTANTS
    MaxEdits = 1
    MaxFaults = 2
    Missing = Missing
    Partial = Partial
    Slip = Slip
INVARIANTS
    GenerateVerifies
