SPECIFICATION MCSpec
CONSTANTS
    a = a
    task1 = task1
    task2 = task2
    task3 = task3
    task4 = task4
    task5 = task5
    task6 = task6
    task7 = task7
    task8 = task8
    task9 = task9
    cache1 = cache1
    prepare1 = prepare1
    prepare2 = prepare2
    prepare3 = prepare3
    Ids = {a, task1, task2, task3, task4, task5, task6, task7, task8, task9, cache1, prepare1, prepare2, prepare3}
    Anonymous = Anonymous
    DefaultSetup = DefaultSetup
    NoGroup = NoGroup
    CacheNames <- MCCacheNames
    PrepareNames <- MCPrepareNames
    TaskNames <- MCTaskNames
    Shapes <- MCShapes
    Setups <- MCSetups
    MaxCalls = 4
    MaxGroups = 1
    MaxMembers = 2
    b = b
    c = c
    d = d
    p = p
    q = q
    r = r
    s = s
    x = x
    y = y
    os = os
    arch = arch
    extra = extra
    Libraries <- MCLibraries
    NoCallee = NoCallee
    Unset = Unset
    MaxNesting = 3
    MaxReachable = 2
    Matrices <- MCMatrices
    MaxRows = 4
INVARIANTS AuthoredJobsAreAccepted OutputsHiddenUntilJoined PreparedOnceBeforeTasks EntrypointsReachTheirTasks AcceptedProjectsRun GrantsStayWithinCallers MatrixFollowsDefinition
CHECK_DEADLOCK FALSE
