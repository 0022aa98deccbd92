SPECIFICATION Spec
CONSTANTS
    Titles <- MCTitles
    MediaType <- MCMediaType
    Target <- MCTarget
    Playback <- MCPlayback
    UserDataInputs <- MCUserDataInputs
    Preferences <- MCPreferences
    RemovedWith <- Simkl
    OutboxLimit = 2
    MaxChanges = 0
    MaxFaults = 0
    MaxWrites = 2
PROPERTY
    ActivityRestores
CHECK_DEADLOCK FALSE
