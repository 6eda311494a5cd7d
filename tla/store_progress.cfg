SPECIFICATION FairSpec
CONSTANTS
    Procs = {p1, p2}
    Binaries = {b1}
    Junk = Junk
    None = None
    MaxInvocations = 2
    MaxRecoveries = 2
    MaxDamage = 1
    Faulty = FALSE
INVARIANTS BuiltFailsOnlyToUnusableWinner
PROPERTIES EveryCommandEnds
CHECK_DEADLOCK FALSE
