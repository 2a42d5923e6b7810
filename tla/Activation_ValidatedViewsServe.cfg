SPECIFICATION Spec
CONSTANTS
    Settings <- MCSettings
    Starts <- PhasedStarts
    ViewStarts <- PhasedViews
    Editable <- PhasedEdits
    Samples <- PhasedSamples
    MaxSteps = 3
    None = None
INVARIANT ValidatedViewsServe
