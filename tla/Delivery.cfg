SPECIFICATION Spec
CONSTANTS
    Calls = {c1, c2}
    Mode = "both"
INVARIANTS
    TwiceOnlyAfterLostAnswer
PROPERTIES
    KeepsPromise
CHECK_DEADLOCK FALSE
