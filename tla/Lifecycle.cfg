SPECIFICATION Spec
CONSTANTS
    Tasks = {t1, t2, t3}
    MaxConns = 2
INVARIANTS
    NoCallCutOff
PROPERTIES
    TakesOnOnlyWhatItCanServe
    SignalEnds
CHECK_DEADLOCK FALSE
