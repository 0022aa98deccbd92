SPECIFICATION Spec
CONSTANTS
    Titles <- OneTitle
    MediaType <- MCMediaType
    Target <- MCTarget
    UserDataInputs <- MCUserDataInputs
    Preferences <- MCPreferences
    Playback <- MCPlayback
    RemovedWith <- Simkl
    OutboxLimit = 2
    MaxChanges = 2
    MaxFaults = 1
    MaxWrites = 2
INVARIANTS
    TypeOK
    OutboxBounded
    Mirrored
PROPERTY
    ImplementsFeed
CHECK_DEADLOCK FALSE
