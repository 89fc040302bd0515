SPECIFICATION Spec
CONSTANTS
    MaxEdits = 2
    MaxFaults = 1
    Missing = Missing
    Partial = Partial
    Slip = Slip
INVARIANTS
    ModulesWhole OneExtraction VendorsCurrentModules VerifiedShipsTable
