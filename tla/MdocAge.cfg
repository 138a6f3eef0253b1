SPECIFICATION Spec
CONSTANTS
    NameLen <- MCNameLen
    MAX_NAMESPACE_ENTRIES = 25
    Items <- LongItems
    Credentials <- LongCredentials
    Devices <- MCDevices
    Earlier <- MCEarlier
    Sessions <- MCSessions
    MAX_SIG_STRUCTURE_BYTES <- MCMaxSig
    MAX_CLAIM_BYTES = 176
    Changes <- MCChanges
CONSTRAINT SmallPairs
INVARIANTS
    AcceptedIsEntitled
    HonestIsAccepted
    NothingLinkable
CHECK_DEADLOCK FALSE
