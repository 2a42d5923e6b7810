\* Two taps, two overlapping flushes.
CONSTANTS
    Taps = {t1, t2}
    Flushes = {f1, f2}
    Perishable = {t1, t2}
    MaxBatch = 2
SPECIFICATION Spec
SYMMETRY TapSymmetry
INVARIANT QueuedNeverLost
CHECK_DEADLOCK FALSE
