SPECIFICATION TransferSpec
CONSTANTS
    B = 2
    Values <- MCValues
    Old = Old
INVARIANTS
    WireOrderEverywhere
