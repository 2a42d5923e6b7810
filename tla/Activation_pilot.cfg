SPECIFICATION Spec
CONSTANTS
    Settings <- MCSettings
    Starts <- MCStarts
    ViewStarts <- MCViews
    Editable <- MCEditable
    Samples <- MCSamples
    MaxSteps = 3
    None = None
INVARIANTS
    TypeOK
    ReadyRuns
    PassedChecksReady
    PagesAgree
    EvidenceBacked
