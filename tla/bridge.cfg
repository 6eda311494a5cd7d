SPECIFICATION FairSpec
CONSTANTS
    Jobs = {j1, j2}
    Runners = {r1, r2}
    Versions = {v1, v2}
    None = None
    MaxEdits = 1
    MaxDecays = 1
    Faulty = {j2}
INVARIANTS EntriesMatchTheirKey TasksMatchCheckout DriftLeavesJobUntouched
PROPERTIES PreparesUnlessDrifted
CHECK_DEADLOCK FALSE
