SPECIFICATION TextSpec
CONSTANTS
    Threads = {host, satellite}
    Typed <- MCTyped
    Values <- MCValues
    MaxClients = 2
    MaxKeys = 2
    MaxSets = 1
    NoClient = NoClient
INVARIANTS
    OffsetsAtCharacters
    TextsKeepTheirField
    CopiesAgree
SYMMETRY ThreadSymmetry
CHECK_DEADLOCK FALSE
