--------------------------- MODULE MCJobAuthoring ---------------------------
(* What an author writes, in three parts that are checked one beside the    *)
(* other: the steps of a job, two that run in the background or in a group  *)
(* and tasks some of whose generated names are taken; the jobs and calls of *)
(* workflows; and the matrix of a job.                                      *)
EXTENDS JobAuthoring, WorkflowAuthoring, Matrix, TLC

CONSTANTS a, task1, task2, cache1, prepare1, prepare2, prepare3, task3, task4,
          task5, task6, task7, task8, task9,
          b, c, d, p, q, r, s, x, y, os, arch, extra

Step(kind, id, background) == [kind |-> kind, id |-> id, background |-> background]

MCShapes == {Step("run", a, "true"), Step("run", prepare1, "unset"),
             Step("task", Anonymous, "unset"), Step("task", task1, "true")}
MCSetups == {DefaultSetup, <<>>, <<Step("run", prepare2, "unset")>>}
MCCacheNames == <<cache1>>
MCPrepareNames == <<prepare1, prepare2, prepare3>>
MCTaskNames == <<task1, task2, task3, task4, task5, task6, task7, task8, task9>>

-----------------------------------------------------------------------------

Workflow(path, owner, callable, mode, token) ==
    [path |-> path, owner |-> owner, callable |-> callable, mode |-> mode, token |-> token,
     input |-> "none"]
Reusable(path, owner) == Workflow(path, owner, TRUE, Unset, Unset)
Plain(path, owner) == Workflow(path, owner, FALSE, Unset, Unset)
JobSettings(id, mode, token) == [id |-> id, mode |-> mode, token |-> token, gives |-> FALSE]
PlainJob(id) == JobSettings(id, Unset, Unset)
Calling(w, called) == WithJob(w, [Job(PlainJob(a)) EXCEPT !.callee = called])
Library(starts, settings, there, calls) ==
    [starts |-> starts, settings |-> settings, built |-> there, calls |-> calls]

\* A reusable workflow with one job, and a chain of three.
Callee(mode, own, token) ==
    WithJob(Begun(Workflow(r, 3, TRUE, mode, token)), Job(JobSettings(a, own, token)))
Chain == LET leaf == Callee(Unset, Unset, Unset)
             mid == Calling(Begun(Reusable(q, 2)), leaf)
         IN  {leaf, mid, Calling(Begun(Reusable(p, 1)), mid)}

\* A workflow with two jobs, one of which needs jobs of another workflow.
Named(w, ids) == FoldSet(LAMBDA id, acc : WithJob(acc, Job(PlainJob(id))), w, ids)
Needing(needs) ==
    {Named(Begun(Plain(q, 2)), {b, c, d}),
     WithJob(Named(Begun(Plain(p, 1)), {a}), [Job(PlainJob(b)) EXCEPT !.needs = needs])}

Modes == {Unset, "read", "write"}

\* Jobs that need any others, one call after the other; calls between two
\* workflows, one of them begun twice; one more call than may be nested; and
\* three workflows in a chain with modes and tokens.
MCLibraries ==
    {Library({}, {PlainJob(c), PlainJob(d)}, Needing(needs), 2) : needs \in SUBSET {c, d}}
    \cup
    {Library({[Reusable(p, 1) EXCEPT !.input = "optional"], Reusable(q, 2),
              [Reusable(p, 3) EXCEPT !.input = "required"]},
             {PlainJob(a), PlainJob(b), [PlainJob(b) EXCEPT !.gives = TRUE]}, {}, 4),
     Library({Plain(s, 4)}, {PlainJob(a)}, Chain, 2)}
    \cup
    {Library({Workflow(q, 2, TRUE, mode, Unset), Workflow(p, 1, FALSE, "read", 1), Plain(p, 1)},
             {JobSettings(a, m, t) : m \in {Unset, "read"}, t \in {Unset, 2}},
             {Callee(mode, own, token)}, 4) :
        mode \in Modes, own \in Modes \cup {"write-only"}, token \in {Unset, 1, 2}}

-----------------------------------------------------------------------------

Axis(key, values) == [key |-> key, values |-> values]
MCAxes == {<<>>, <<Axis(os, <<x>>)>>, <<Axis(os, <<x, y>>)>>, <<Axis(os, <<x, x>>)>>,
           <<Axis(os, <<x, y>>), Axis(arch, <<x>>)>>,
           <<Axis(os, <<x, y>>), Axis(arch, <<x, y>>)>>}
Rows(keys, values) == UNION {[named -> values] : named \in SUBSET keys}
MCMatrices ==
    {[axes |-> axes, exclude |-> exclude, include |-> include] :
        axes \in MCAxes,
        exclude \in BoundedSeq(Rows({os, arch}, {x, y}), 1),
        include \in BoundedSeq(Rows({os, extra}, {x, y}) \cup Rows({arch}, {x, y}), 2)}
AMatrix == [axes |-> <<>>, exclude |-> <<>>, include |-> <<>>]
ALibrary == Library({}, {}, {}, 0)

-----------------------------------------------------------------------------

VARIABLE part   \* "steps", "workflows" or "matrix"

MCInit ==
    /\ Init
    /\ part \in {"steps", "workflows", "matrix"}
    /\ IF part = "workflows" THEN WorkflowInit ELSE library = ALibrary /\ built = {}
    /\ IF part = "matrix" THEN MatrixInit ELSE matrix = AMatrix
MCNext ==
    /\ UNCHANGED <<part, matrix>>
    /\ \/ part = "steps" /\ Next /\ UNCHANGED workflowVars
       \/ part = "workflows" /\ WorkflowNext /\ UNCHANGED vars
MCSpec == MCInit /\ [][MCNext]_<<vars, workflowVars, matrix, part>>

=============================================================================
