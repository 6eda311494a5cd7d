SPECIFICATION Spec
CONSTANTS
    Runs = {r1, r2}
    Versions = {v1, v2}
    Commits = {c1, c2}
    None = None
    Requests = {q1, q2}
    Refs = {main}
    Shas = {s1, s2}
    Capacity = 2
    RefTTL = 1
    ImmutableTTL = 3
    Bounds <- Instances
SYMMETRY Symmetry
INVARIANTS DeployedIsPublished TypesMatchTheirUrl RedirectsAreFresh NewestFailuresKept
CHECK_DEADLOCK FALSE
