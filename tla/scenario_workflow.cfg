SPECIFICATION MCSpec
CONSTANTS
    a = a
    b = b
    c = c
    Jobs = {a, b, c}
    Names = {n}
    Values = {x, y}
    Empty = Empty
    Unset = Unset
    None = None
    MaxInstances = 2
    Flows <- MCFlows
    Supplies <- MCSupplies
INVARIANTS StatusIsOfAllAncestors LastNonemptyValueStands NoFailureIsLost OfferedReferencesResolve ServerFieldsSeeNull CallersStayHidden
CHECK_DEADLOCK FALSE
