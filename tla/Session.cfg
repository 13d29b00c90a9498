SPECIFICATION FairSpec
CONSTANTS
    Setting = {"ViewOnly", "PreferScancodes"}
    None = None
    MaxAttempts = 1
    MaxChained = 1
    MaxTries = 2
    Streaming = TRUE
    Prompting = TRUE
    Redirecting = TRUE
    Sends = {"Disconnect", "ReconnectNow", "Key", "Set", "Agent", "ProvideCredentials", "CancelCredentials"}
    MaxSent = 3
INVARIANTS
    EndIsAnnounced
    DialsAreBounded
    LeavesNothingDown
PROPERTIES
    DisconnectIsObeyed
