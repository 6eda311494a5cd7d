SPECIFICATION Spec
CONSTANTS
    Procs = {p1, p2}
    Binaries = {b1, b2}
    Junk = Junk
    None = None
    MaxInvocations = 2
    MaxRecoveries = 2
    MaxDamage = 0
    Faulty = FALSE
SYMMETRY Symmetry
INVARIANTS FailedBinaryNotReused
CHECK_DEADLOCK FALSE
