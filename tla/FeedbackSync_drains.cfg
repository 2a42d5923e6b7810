\* Two taps, one flush at a time, requests of one event, faults that end.
CONSTANTS
    Taps = {t1, t2}
    Flushes = {f1}
    Perishable = {t1}
    MaxBatch = 1
SPECIFICATION FairSpec
PROPERTY QueueDrains
CHECK_DEADLOCK FALSE
