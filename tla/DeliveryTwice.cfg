SPECIFICATION Spec
CONSTANTS
    Calls = {c1}
    Mode = "both"
INVARIANTS
    NeverGrantedTwice
CHECK_DEADLOCK FALSE
