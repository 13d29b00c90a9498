SPECIFICATION FairSpec
CONSTANTS
    None = None
    Size = {0, 1, 2}
    Fallbacks = 1
    MaxAttempts = 1
    Capacity = 1
    Sends = {"Input", "ReconnectNow", "Disconnect", "ProvideCredentials", "CancelCredentials", "Exec", "PtyRun", "Resize"}
    MaxSent = 2
INVARIANTS
    IntentsAreAnswered
    TerminalHandedBack
    PtyHasTheSize
PROPERTIES
    DisconnectIsObeyed
