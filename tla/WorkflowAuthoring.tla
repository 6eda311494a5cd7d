-------------------------- MODULE WorkflowAuthoring --------------------------
(***************************************************************************)
(* The typed builder of workflows (workflow, job, reusable, call; src/      *)
(* github_actions/mod.ts), what generation accepts of a project made from   *)
(* them (src/compiler/authoring.ts, validation.ts), and what a scenario     *)
(* then grants the jobs of reusable workflows (src/testing/run.ts).         *)
(*                                                                         *)
(* Every call returns a new immutable state of a workflow.  A call job      *)
(* keeps the state of its callee that it was given, but a scenario, like    *)
(* the workflow it stands for, runs whatever is listed under the callee's   *)
(* path; and a job may need any reference that the author got hold of, of   *)
(* another state or of another workflow.  What makes the graphs of calls    *)
(* and of needs end is the validation of the project.                       *)
(***************************************************************************)
EXTENDS Naturals, Sequences, FiniteSets, SequencesExt, FiniteSetsExt, Functions

CONSTANTS
    Libraries,     \* what an author starts with and may do, see below
    NoCallee,      \* of a job that calls no local workflow
    Unset,         \* a setting that is not declared
    MaxNesting,    \* bound of the code: ten levels of calls
    MaxReachable   \* bound of the code: 50 workflows called from one

ASSUME NestingAssumption == MaxNesting \in Nat /\ MaxReachable \in Nat

VARIABLES
    library,  \* the library, for good, but for its calls
    built     \* the states that calls have returned

workflowVars == <<library, built>>

\* A job that needs and calls nothing, of these settings, and one that does; a
\* workflow without jobs.  The owner stands for the identity of the workflow()
\* call; one input, that a workflow does not declare, declares or requires, for
\* those of a call.
Job(settings) == [id |-> settings.id, needs |-> {}, callee |-> NoCallee,
                  mode |-> settings.mode, token |-> settings.token, gives |-> settings.gives]
Linked(job, needs, callee) == [job EXCEPT !.needs = needs, !.callee = callee]
Begun(start) == [path |-> start.path, owner |-> start.owner, callable |-> start.callable,
                 mode |-> start.mode, token |-> start.token, input |-> start.input,
                 jobs |-> <<>>]
JobsOf(w) == Range(w.jobs)
JobIdsOf(w) == {job.id : job \in JobsOf(w)}
WithJob(w, job) == [w EXCEPT !.jobs = Append(@, job)]

\* A state of a workflow, with jobs of different ids.
CacheModes == {"none", "read", "write-only", "write"}
Declared(settings) ==
    settings.mode \in CacheModes \cup {Unset} /\ settings.token \in 0 .. 2 \cup {Unset}
IsWorkflow(w) ==
    /\ w = [Begun(w) EXCEPT !.jobs = w.jobs] /\ Declared(w)
    /\ w.jobs \in Seq(JobsOf(w))
    /\ \A m, n \in DOMAIN w.jobs : w.jobs[m].id = w.jobs[n].id => m = n
    /\ \A job \in JobsOf(w) : Declared(job)

\* A library has the arguments of the workflow() calls that may be made, the
\* settings a job may get, the states there are already and the number of calls
\* that are left.
ASSUME LibrariesAssumption ==
    /\ Unset \notin CacheModes /\ Unset \notin 0 .. 2
    /\ \A l \in Libraries :
         /\ l = [starts |-> l.starts, settings |-> l.settings, built |-> l.built,
                 calls |-> l.calls]
         /\ l.calls \in Nat
         /\ \A settings \in l.starts \cup l.settings : Declared(settings)
         /\ \A w \in l.built : IsWorkflow(w)

\* Only a workflow with jobs, or with outputs, is a definition that can be
\* called or listed.
Definitions == {w \in built : w.jobs # <<>>}

WorkflowInit == library \in Libraries /\ built = library.built

Made(w) ==
    /\ library.calls > 0
    /\ library' = [library EXCEPT !.calls = @ - 1]
    /\ built' = built \cup {w}

BeginWorkflow == \E start \in library.starts : Made(Begun(start))

\* The job a callback completes: needs takes references, whatever they are of,
\* and is there once the workflow has jobs; call takes a workflow that declares
\* workflow_call.
Completed(w, settings) ==
    LET refs == IF w.jobs = <<>> THEN {} ELSE UNION {JobIdsOf(other) : other \in built}
        callees == {NoCallee} \cup {other \in Definitions : other.callable}
    IN  {Linked(Job(settings), needs, callee) :
            needs \in SUBSET refs, callee \in callees}

\* Or it returns what an earlier callback of the same job completed.
Kept(w, id) == {job \in UNION {JobsOf(other) : other \in {o \in built : o.owner = w.owner}} :
                   job.id = id}

AddJob == \E w \in built, settings \in library.settings :
    /\ settings.id \notin JobIdsOf(w)
    /\ \E job \in Completed(w, settings) \cup Kept(w, settings.id) : Made(WithJob(w, job))

WorkflowNext == BeginWorkflow \/ AddJob
WorkflowSpec == WorkflowInit /\ [][WorkflowNext]_workflowVars

-----------------------------------------------------------------------------
(* Validation of the needs of a workflow.                                   *)

\* What the search for strongly connected components has found, and where it is.
Unsearched(ids) == [next |-> 1, stack |-> <<>>, index |-> [id \in ids |-> 0],
                    low |-> [id \in ids |-> 0], found |-> {}]
Searches(ids) == [next : Nat, stack : Seq(ids), index : [ids -> Nat], low : [ids -> Nat],
                  found : SUBSET SUBSET ids]

Enter(acc, id) ==
    [acc EXCEPT !.next = @ + 1, !.stack = Append(@, id),
                !.index[id] = acc.next, !.low[id] = acc.next]

\* With what the search from a dependency has found, if it was not searched yet.
Follow(acc, found, id, dependency) ==
    IF acc.index[dependency] = 0
    THEN [found EXCEPT !.low[id] = Min({@, found.low[dependency]})]
    ELSE IF dependency \in Range(acc.stack)
    THEN [acc EXCEPT !.low[id] = Min({@, acc.index[dependency]})]
    ELSE acc
FollowEach(acc, id, dependencies, search) ==
    LET order == SetToSeq(dependencies)
        followed[n \in 0 .. Len(order)] ==
            IF n = 0 THEN acc
            ELSE LET before == followed[n - 1]
                 IN  Follow(before, search[before][order[n]], id, order[n])
    IN  followed[Len(order)]

\* A job from which no earlier one of the stack is reached ends a component.
Leave(acc, id) ==
    LET at == CHOOSE n \in DOMAIN acc.stack : acc.stack[n] = id
    IN  IF acc.low[id] # acc.index[id] THEN acc
        ELSE [acc EXCEPT
                !.stack = SubSeq(@, 1, at - 1),
                !.found = @ \cup {Range(SubSeq(acc.stack, at, Len(acc.stack)))}]

\* The search from a job, with the one from those it needs.  One is in another at
\* most as often as there are jobs.
Deeper(needs, search) ==
    [acc \in Searches(DOMAIN needs) |-> [id \in DOMAIN needs |->
        Leave(FollowEach(Enter(acc, id), id, needs[id] \ {id}, search), id)]]
Search(needs) ==
    LET search[depth \in 0 .. Cardinality(DOMAIN needs)] ==
            IF depth = 0 THEN [acc \in Searches(DOMAIN needs) |-> [id \in DOMAIN needs |-> acc]]
            ELSE Deeper(needs, search[depth - 1])
    IN  search[Cardinality(DOMAIN needs)]

Components(needs) ==
    LET order == SetToSeq(DOMAIN needs)
        visited[n \in 0 .. Len(order)] ==
            IF n = 0 THEN Unsearched(DOMAIN needs)
            ELSE LET before == visited[n - 1]
                 IN  IF before.index[order[n]] # 0 THEN before
                     ELSE Search(needs)[before][order[n]]
    IN  visited[Len(order)].found

\* Needs name other jobs of the workflow, and no component has two jobs.
NeedsAccepted(w) ==
    LET job == [id \in JobIdsOf(w) |-> CHOOSE j \in JobsOf(w) : j.id = id]
        needs == [id \in JobIdsOf(w) |-> job[id].needs]
    IN  /\ \A id \in JobIdsOf(w) : needs[id] \subseteq JobIdsOf(w) \ {id}
        /\ \A component \in Components(needs) : Cardinality(component) < 2

-----------------------------------------------------------------------------
(* Validation of the calls of a project, a set of definitions.              *)

Capabilities(mode) == CASE mode = "none" -> {} [] mode = "read" -> {"read"}
    [] mode = "write-only" -> {"write"} [] mode = "write" -> {"read", "write"}
CacheModeWithin(mode, limit) == Capabilities(mode) \subseteq Capabilities(limit)

\* a ?? b
Or(a, b) == IF a = Unset THEN b ELSE a

\* The mode a call demands, which limits its callee.
RequestedOfJob(w, job, limit) == Or(job.mode, limit)
Requested(w, job, limit) == Or(job.mode, Or(w.mode, limit))

ListedByPath(called, project) == \E w \in project : w.path = called.path
Listed(called, project) == called \in project

\* A call gives no input that is not declared and every one that is required.
Contract(job) == /\ job.gives => job.callee.input # "none"
                 /\ job.callee.input = "required" => job.gives

\* The workflows a workflow calls, directly or not.  Those that are called any
\* deeper are too deep anyway.
Callees(w) == {job.callee : job \in JobsOf(w)} \ {NoCallee}
Reachable(w) ==
    LET called[levels \in 0 .. MaxNesting] ==
            IF levels = 0 THEN Callees(w)
            ELSE called[levels - 1] \cup UNION {Callees(c) : c \in called[levels - 1]}
    IN  called[MaxNesting]

\* A workflow under a limit is accepted, if those visits below it are.  No state
\* can call itself, as it was there before what calls it: the test for a cycle
\* among the ancestors never succeeds.
VisitAccepted(w, limit, project, below) ==
    LET Respects(mode) == mode = Unset \/ limit = Unset \/ CacheModeWithin(mode, limit)
    IN  /\ Respects(w.mode)
        /\ \A job \in JobsOf(w) :
            /\ Respects(job.mode)
            /\ job.callee # NoCallee =>
                /\ Listed(job.callee, project)
                /\ Contract(job)
                /\ <<job.callee, Requested(w, job, limit)>> \in below

\* The visits that are accepted with so many levels of calls left.
Visits(project) ==
    LET workflows == project \cup UNION {Reachable(w) : w \in project}
        accepted[levels \in 0 .. MaxNesting] ==
            IF levels = 0 THEN {}
            ELSE LET below == accepted[levels - 1]
                 IN  {visit \in workflows \X (CacheModes \cup {Unset}) :
                        VisitAccepted(visit[1], visit[2], project, below)}
    IN  accepted[MaxNesting]

\* lowerProject throws for any of these: no project, two outputs at one path, a
\* call or needs that are not accepted.
ProjectAccepted(project) ==
    /\ project # {}
    /\ \A v, w \in project : v.path = w.path => v = w
    /\ \A w \in project : Cardinality(Reachable(w)) <= MaxReachable /\ NeedsAccepted(w)
    /\ project \X {Unset} \subseteq Visits(project)

Projects == {project \in SUBSET Definitions : ProjectAccepted(project)}

-----------------------------------------------------------------------------
(* A scenario of an accepted project.                                       *)

\* The workflow that runs for a path, or the first if none is listed there.
Run(project, path) ==
    LET there == {w \in project : w.path = path}
    IN  CHOOSE w \in IF there = {} THEN project ELSE there : TRUE

\* The cache mode a job runs with, unless the trigger decides.
Explicit(w, job, caller) == Or(job.mode, Or(w.mode, caller))

\* The level of the token for one scope: 0 for none, 1 to read, 2 to write.  A
\* caller's level is the default and the ceiling of its callee's jobs, and what
\* exceeds it fails; without a caller the repository has a default, and may
\* take the level to write from every job.
Refused == 3
TokenByDefault(w, job, caller) ==
    LET demand == Or(job.token, Or(w.token, caller.token))
    IN  IF caller.restrict /\ demand = 2 THEN 1 ELSE demand
Token(w, job, caller) ==
    LET demand == Or(job.token, Or(w.token, caller.token))
    IN  IF caller.called /\ demand > caller.token THEN Refused
        ELSE IF caller.restrict /\ demand = 2 THEN 1 ELSE demand

\* A call runs its callee with its own mode and token; what may be assumed of
\* the repository is said of the first workflow only.  History: the explicit
\* modes above, and whether writing was taken away.
Triggered(default, restrict) ==
    [mode |-> Unset, limits |-> {}, token |-> default, called |-> FALSE,
     restrict |-> restrict, restricted |-> restrict]
Call(caller, mode, token) ==
    [caller EXCEPT !.mode = mode, !.limits = @ \cup ({mode} \ {Unset}),
                   !.token = token, !.called = TRUE, !.restrict = FALSE]

-----------------------------------------------------------------------------
(* Properties.                                                              *)

Instances(project) == UNION {{<<w.path, job.id>> : job \in JobsOf(w)} : w \in project}

\* What must end before a job can: the jobs it needs and, by path, the jobs of
\* the workflow it calls.
Before(project, path, id) ==
    LET w == Run(project, path)
        job == CHOOSE j \in JobsOf(w) : j.id = id
    IN  {<<path, other>> : other \in job.needs} \cup
        IF job.callee = NoCallee THEN {}
        ELSE LET called == Run(project, job.callee.path)
             IN  {<<called.path, other>> : other \in JobIdsOf(called)}

\* Every job of an accepted project can run and end, whichever states of its
\* workflows calls were given and whichever references jobs need: the workflow
\* that runs for a call gets what it requires, and no set of jobs waits for
\* itself, neither by needs nor by calls nor by both.
AcceptedProjectsRun == \A project \in Projects :
    /\ \A w \in project : \A job \in JobsOf(w) : job.callee # NoCallee =>
            (Run(project, job.callee.path).input = "required" => job.gives)
    /\ \A loop \in (SUBSET Instances(project)) \ {{}} :
            \E job \in loop : Before(project, job[1], job[2]) \cap loop = {}

\* The workflows that run for the calls of one, each with what its caller grants,
\* and all that run in the scenarios of a project, whatever its repository's
\* default is and takes away.
CalledBy(project, run) ==
    {[workflow |-> Run(project, job.callee.path),
      caller |-> Call(run.caller, Explicit(run.workflow, job, run.caller.mode),
                      Token(run.workflow, job, run.caller))] :
        job \in {job \in JobsOf(run.workflow) :
                    job.callee # NoCallee /\ Token(run.workflow, job, run.caller) # Refused}}
Runs(project) ==
    LET first == {[workflow |-> w, caller |-> Triggered(default, restrict)] :
                     w \in project, default \in 0 .. 2, restrict \in BOOLEAN}
        at[depth \in 0 .. MaxNesting] ==
            IF depth = 0 THEN first
            ELSE LET above == at[depth - 1]
                 IN  above \cup UNION {CalledBy(project, run) : run \in above}
    IN  at[MaxNesting]

\* Every job below a caller, as deep as calls go, gets a cache mode within each
\* explicit mode above it and a token within its caller's, and none can write
\* where the repository takes that from the first.
GrantsStayWithinCallers == \A project \in Projects : \A run \in Runs(project) :
    \A job \in JobsOf(run.workflow) :
        LET mode == Explicit(run.workflow, job, run.caller.mode)
            token == Token(run.workflow, job, run.caller)
        IN  \/ token = Refused
            \/ /\ \A limit \in run.caller.limits : CacheModeWithin(mode, limit)
               /\ run.caller.called => token <= run.caller.token
               /\ run.caller.restricted => token < 2

=============================================================================
