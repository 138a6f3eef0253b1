SPECIFICATION Spec
CONSTANTS
    NameLen <- MCNameLen
    MAX_NAMESPACE_ENTRIES = 25
    Items <- MCItems
    Credentials <- PhotoId
    Devices <- MCDevices
    Earlier <- NoEarlier
    Sessions <- AdultSession
    MAX_SIG_STRUCTURE_BYTES <- MCMaxSig
    MAX_CLAIM_BYTES = 176
    Changes <- ApartChanges
CONSTRAINT RegionFollows
INVARIANT
    DateOfRequestedNamespace
CHECK_DEADLOCK FALSE
