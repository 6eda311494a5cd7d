SPECIFICATION MCSpec
CONSTANTS
    a = a
    u = u
    v = v
    workflow = workflow
    action = action
    payload = payload
    Procs = {p, q, r}
    Aliases = {a}
    Urls = {u, v}
    Commands <- MCCommands
    Projects <- MCProjects
    Absent = Absent
    MaxEdits = 1
    Runs = {g, h}
    Workflows = {workflow}
    Actions = {action}
    Payload = {payload}
    Outputs <- MCOutputs
    Descriptions <- MCDescriptions
    Missing = Missing
    MaxSourceEdits = 1
SYMMETRY Symmetry
INVARIANTS InitIsAllOrNothing VerdictsAreTrue
PROPERTIES OthersWorkStays
CHECK_DEADLOCK FALSE
