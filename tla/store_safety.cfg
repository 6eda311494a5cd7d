SPECIFICATION Spec
CONSTANTS
    Procs = {p1, p2}
    Binaries = {b1, b2}
    Junk = Junk
    None = None
    MaxInvocations = 2
    MaxRecoveries = 2
    MaxDamage = 1
    Faulty = TRUE
SYMMETRY Symmetry
INVARIANTS TypeOK ReturnedRuntimeSound RejectedNotReused
PROPERTIES PublishedStays KeepsPromise
CHECK_DEADLOCK FALSE
