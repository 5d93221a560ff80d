CONSTANTS
    Timeout = 6
    CheckInterval = 2
    MaxMessages = 4
SPECIFICATION FairSpec
INVARIANTS
    ListenerTypeOK
    NewestValid
    NothingOverlooked
    OneCallPerMessage
    StaleOnlyWhenRejected
    PromptDetection
PROPERTIES
    HungIsRestarted
