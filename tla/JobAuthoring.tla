---------------------------- MODULE JobAuthoring ----------------------------
(***************************************************************************)
(* The typed builder of a job's steps (src/github_actions/mod.ts).  Every  *)
(* call returns a new immutable state of the job and leaves the old ones   *)
(* usable, so that an author, or a helper an author calls, can extend any  *)
(* state, pass a reference from one state to another, and hand states of   *)
(* one parallel group to another.  A call that throws changes nothing.     *)
(*                                                                         *)
(* The types of the builder forbid some of these calls; its code does not  *)
(* rely on them, and neither does this module.                             *)
(***************************************************************************)
EXTENDS Lowering

CONSTANTS
    Shapes,     \* the run and task steps an author appends
    Setups,     \* the cache setups of a project
    NoGroup,    \* origin of a state that no group supplied
    MaxCalls,   \* bound: calls that add a state
    MaxGroups,  \* bound: calls of parallel
    MaxMembers  \* bound: members of a group

ASSUME ConstantsAssumption ==
    /\ Shapes \subseteq Leaf({"run", "task"})
    /\ Setups \subseteq {DefaultSetup} \cup Seq(Leaf({"run"}))
    /\ MaxCalls \in Nat /\ MaxGroups \in Nat /\ MaxMembers \in Nat \ {0}
    /\ NoGroup \notin 1 .. MaxGroups

\* Names are numbered without end: whatever ids the author of a project writes,
\* there is a name left for each step that needs one.
AuthorIds ==
    ({leaf.id : leaf \in Shapes}
     \cup UNION {IdsOf(setup) : setup \in Setups \ {DefaultSetup}}) \ {Anonymous}
ASSUME NamesNeverRunOut ==
    /\ Range(CacheNames) \ AuthorIds # {}
    /\ Range(PrepareNames) \ (AuthorIds \cup Range(CacheNames)) # {}
    /\ Cardinality(Range(TaskNames) \ AuthorIds) >= MaxMembers * MaxCalls

VARIABLES
    states,  \* the states of the job that calls have returned
    open,    \* the groups whose callbacks are running, innermost last
    groups   \* groups so far

vars == <<states, open, groups>>

\* A state has its steps; for every id, whether its own reference to that step
\* lets it read the step's outputs ("ready") or only wait for it ("pending");
\* the group that supplied it; and whether its outputs are mapped.  An open
\* group has the state it began at and the branch its callback was given.

Start == [steps |-> <<>>, refs |-> [id \in Ids |-> "none"],
          origin |-> NoGroup, outputs |-> FALSE]

Init ==
    /\ states = {Start}
    /\ open = <<>>
    /\ groups = 0

Calls == Cardinality(states) - 1
Return(state) ==
    /\ Calls < MaxCalls
    /\ states' = states \cup {state}
    /\ UNCHANGED groups

-----------------------------------------------------------------------------
(* References.                                                              *)

\* pendingReference, for a background step; its outputs are left out.
Reference(leaf) == IF leaf.background = "true" THEN "pending" ELSE "ready"

SynchronizeAll(refs, ids) ==
    [id \in Ids |-> IF refs[id] = "pending" THEN "ready" ELSE refs[id]]
Synchronize(refs, ids) ==
    [id \in Ids |-> IF refs[id] = "pending" /\ id \in ids THEN "ready" ELSE refs[id]]

\* A handle is a reference taken from some state.  Two states have the very
\* same reference object if they share the call that made it: the same steps
\* up to that one.
UpTo(state, id) ==
    SubSeq(state.steps, 1, CHOOSE n \in DOMAIN state.steps :
                               id \in StepIds(state.steps[n]))
Handles == UNION {{[from |-> s, id |-> id] : id \in {id \in Ids : s.refs[id] = "pending"}}
                   : s \in states}

\* assertTarget.
IsTargetByType(state, handle) == TRUE
IsTarget(state, handle) ==
    /\ state.refs[handle.id] = "pending"
    /\ UpTo(state, handle.id) = UpTo(handle.from, handle.id)

-----------------------------------------------------------------------------
(* Calls.                                                                   *)

Duplicated(state, leaf) ==
    leaf.id # Anonymous /\ leaf.id \in TakenIds(state.steps)

\* appendStep, by run, uses or task.
Appended(state, leaf) ==
    [state EXCEPT !.steps = Append(@, leaf),
                  !.refs = IF leaf.id = Anonymous THEN state.refs
                           ELSE [state.refs EXCEPT ![leaf.id] = Reference(leaf)]]

AppendStep == \E state \in states \cup {open[n].branch : n \in DOMAIN open},
                 leaf \in Shapes :
    /\ ~Duplicated(state, leaf)
    /\ Return(Appended(state, leaf))
    /\ UNCHANGED open

\* wait, waitAll and cancel.  Only a state that has a step offers them.
ControlWith(state, kind, handles) ==
    LET targets == [n \in DOMAIN handles |-> handles[n].id]
    IN  /\ state.steps # <<>>
        /\ kind = "wait" => handles # <<>>
        /\ kind = "wait-all" => handles = <<>>
        /\ kind = "cancel" => Len(handles) = 1
        /\ \A n \in DOMAIN handles : IsTarget(state, handles[n])
        /\ IsInjective(targets)
        /\ Return([state EXCEPT
               !.steps = Append(@, [kind |-> kind, targets |-> targets]),
               !.refs = CASE kind = "cancel" -> state.refs
                          [] kind = "wait-all" -> Synchronize(state.refs, Ids)
                          [] OTHER -> Synchronize(state.refs, Range(targets))])

CallControl == \E state \in states, kind \in {"wait", "wait-all", "cancel"},
                  handles \in BoundedSeq(Handles, 2) :
    /\ ControlWith(state, kind, handles)
    /\ UNCHANGED open

\* outputs maps a job's outputs; a state that has them still offers steps.
MapOutputs == \E state \in states :
    /\ state.steps # <<>>
    /\ Return([state EXCEPT !.outputs = TRUE])
    /\ UNCHANGED open

\* parallel calls back with a branch of the state ...
BeginParallel == \E state \in states :
    /\ groups < MaxGroups
    /\ groups' = groups + 1
    /\ open' = Append(open, [base |-> state,
                             branch |-> [state EXCEPT !.origin = groups + 1]])
    /\ UNCHANGED states

\* ... and takes states from its result that add one plain step to it.
IsChildAnyLength(group, child) ==
    /\ child.origin = group.branch.origin
    /\ ~child.outputs
    /\ child.steps[Len(child.steps)].kind \in {"run", "task"}
    /\ child.steps[Len(child.steps)].background = "unset"
IsChild(group, child) ==
    /\ child.origin = group.branch.origin
    /\ Len(child.steps) = Len(group.base.steps) + 1
    /\ ~child.outputs
    /\ child.steps[Len(child.steps)].kind \in {"run", "task"}
    /\ child.steps[Len(child.steps)].background = "unset"

AddedBy(children) ==
    [n \in DOMAIN children |-> children[n].steps[Len(children[n].steps)]]
OwnIds(leaves) == [n \in {n \in DOMAIN leaves : leaves[n].id # Anonymous} |-> leaves[n].id]

\* The group refers to a member as the state did that added it.
GroupReferences(refs, children, named) ==
    [id \in Ids |-> IF id \in Range(named)
                    THEN children[CHOOSE n \in DOMAIN named : named[n] = id].refs[id]
                    ELSE refs[id]]
Grouped(base, children) ==
    LET leaves == AddedBy(children)
    IN  [base EXCEPT
           !.steps = Append(base.steps, [kind |-> "parallel", children |-> leaves]),
           !.refs = GroupReferences(base.refs, children, OwnIds(leaves))]

EndParallel == \E children \in BoundedSeq(states, MaxMembers) :
    LET group == open[Len(open)]
        named == OwnIds(AddedBy(children))
    IN  /\ open # <<>>
        /\ children # <<>>
        /\ \A n \in DOMAIN children : IsChild(group, children[n])
        /\ IsInjective(named)
        /\ \A n \in DOMAIN named : group.base.refs[named[n]] = "none"
        /\ Return(Grouped(group.base, children))
        /\ open' = Front(open)

\* A callback that throws, or a result that is refused.
AbandonParallel ==
    /\ open # <<>>
    /\ open' = Front(open)
    /\ UNCHANGED <<states, groups>>

Next ==
    \/ AppendStep \/ CallControl \/ MapOutputs
    \/ BeginParallel \/ EndParallel \/ AbandonParallel

Spec == Init /\ [][Next]_vars

-----------------------------------------------------------------------------
(* Properties.                                                              *)

\* Whatever states an author combines, validation accepts what the builder
\* returns: controls name earlier background steps of the same job and no id
\* occurs twice.  The generated job is accepted as well, if the project's own
\* cache setup is, is synchronous and takes no id of the author's: no generated
\* id meets one.
AuthoredJobsAreAccepted ==
    \A state \in states : state.steps # <<>> =>
        /\ Accepted(state.steps)
        /\ \A setup \in Setups : LET own == TakenIds(state.steps) IN
             /\ Synchronous(setup)
             /\ \/ setup \in {DefaultSetup, <<>>}
                \/ Accepted(setup) /\ IdsOf(setup) \cap own = {}
             => Accepted(Lower(state.steps, setup))

\* "Outputs are hidden until synchronization": a state lets its author read
\* the outputs of exactly those steps that are not background steps or that
\* a later wait of the same job joins.
OutputsHiddenUntilJoined ==
    \A state \in states, id \in Ids :
        LET at == {n \in DOMAIN state.steps : id \in StepIds(state.steps[n])}
            held(n) == state.steps[n].kind # "parallel"
                       /\ state.steps[n].background = "true"
            joined(n) == \E m \in n + 1 .. Len(state.steps) :
                \/ state.steps[m].kind = "wait-all"
                \/ state.steps[m].kind = "wait" /\ id \in Range(state.steps[m].targets)
        IN  /\ state.refs[id] = "none" <=> at = {}
            /\ state.refs[id] = "ready" <=> \E n \in at : ~held(n) \/ joined(n)

\* "Task cache/prepare completes outside the first parallel group containing
\* tasks": a generated job with tasks prepares exactly once, by a step that is
\* in no group, before any step that calls a task or has one in its group.
PreparedOnceBeforeTasks ==
    \A state \in states, setup \in Setups :
        LET out == Lower(state.steps, setup)
            prepares == {n \in DOMAIN out : out[n].kind = "prepare"}
            calls == {n \in DOMAIN out : OfKind("entry", <<out[n]>>) # <<>>}
        IN  /\ Cardinality(prepares) = IF Tasks(state.steps) = <<>> THEN 0 ELSE 1
            /\ Len(OfKind("prepare", out)) = Cardinality(prepares)
            /\ \A p \in prepares, c \in calls : p < c

\* Every task has an entrypoint of its own, which for a task with an id is
\* that id, and every step that calls an entrypoint stands where the author
\* put that task.
EntrypointsReachTheirTasks ==
    \A state \in states, setup \in Setups :
        LET entries == Entrypoints(state.steps)
            tasks == Tasks(state.steps)
            calls == OfKind("entry", Lower(state.steps, setup))
        IN  /\ IsInjective(entries)
            /\ Len(calls) = Len(tasks)
            /\ \A n \in DOMAIN tasks :
                 /\ calls[n].entry = entries[n]
                 /\ calls[n].id = tasks[n].id
                 /\ tasks[n].id # Anonymous => entries[n] = tasks[n].id

=============================================================================
