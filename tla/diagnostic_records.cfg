SPECIFICATION Spec
CONSTANTS
    Runs = {r1, r2, r3}
    Limit = 1
    Times = {1, 2}
SYMMETRY Symmetry
INVARIANTS BestRecordsStay NoMoreThanLimit
CHECK_DEADLOCK FALSE
