------------------------------- MODULE Lowering -------------------------------
(***************************************************************************)
(* How the steps of an authored job become the steps of the generated one  *)
(* (src/compiler/authoring.ts), and what validation accepts of either      *)
(* (src/compiler/github_actions/validation.ts).  These are functions: a    *)
(* generated job depends on the authored job alone.                        *)
(*                                                                         *)
(* A step keeps its kind, id and background setting.  A task becomes a run *)
(* step that calls its entrypoint; an action is a run step here.           *)
(***************************************************************************)
EXTENDS Integers, Sequences, FiniteSets, SequencesExt

CONSTANTS
    Ids,           \* step ids an author may choose
    Anonymous,     \* the id of a step without one
    CacheNames,    \* "tsugiori-task-cache", "tsugiori-task-cache-2", ...
    PrepareNames,  \* "tsugiori-task-prepare", "tsugiori-task-prepare-2", ...
    TaskNames,     \* "task-1", "task-2", ...
    DefaultSetup   \* the project has no cache setup of its own

ASSUME NamesAssumption ==
    /\ CacheNames \in Seq(Ids) /\ PrepareNames \in Seq(Ids) /\ TaskNames \in Seq(Ids)
    /\ \A names \in {CacheNames, PrepareNames, TaskNames} :
         IsInjective(names)
    /\ Anonymous \notin Ids

Settings == {"unset", "true", "false"}
Leaf(kinds) == [kind : kinds, id : Ids \cup {Anonymous}, background : Settings]
Group(kinds) == [kind : {"parallel"}, children : Seq(Leaf(kinds))]
Control == [kind : {"wait", "wait-all", "cancel"}, targets : Seq(Ids)]
Authored == Leaf({"run", "task"}) \cup Group({"run", "task"}) \cup Control

IsControl(step) == step.kind \in {"wait", "wait-all", "cancel"}

\* flattenSteps replaces a group by its members; what it gives of one kind.
Members(step) == IF step.kind = "parallel" THEN step.children ELSE <<step>>
Picked(kind, leaves) ==
    LET picked[n \in 0 .. Len(leaves)] ==
            IF n = 0 THEN <<>>
            ELSE IF leaves[n].kind = kind THEN Append(picked[n - 1], leaves[n])
            ELSE picked[n - 1]
    IN  picked[Len(leaves)]
OfKind(kind, steps) ==
    LET found[n \in 0 .. Len(steps)] ==
            IF n = 0 THEN <<>> ELSE found[n - 1] \o Picked(kind, Members(steps[n]))
    IN  found[Len(steps)]
Tasks(steps) == OfKind("task", steps)
IdsOf(leaves) == {leaves[n].id : n \in DOMAIN leaves} \ {Anonymous}
HasTask(step) == Tasks(<<step>>) # <<>>

\* The ids that a step takes; a group takes those of its members.
StepIds(step) ==
    (IF step.kind = "parallel" THEN {step.children[n].id : n \in DOMAIN step.children}
     ELSE IF IsControl(step) THEN {} ELSE {step.id}) \ {Anonymous}
TakenIds(steps) == UNION {StepIds(steps[n]) : n \in DOMAIN steps}

-----------------------------------------------------------------------------
(* Validation of a job's steps.                                             *)

\* Ids of the background steps before the nth.
BackgroundBefore(steps, n) ==
    {steps[m].id : m \in {m \in 1 .. n - 1 :
        steps[m].kind \notin {"parallel", "wait", "wait-all", "cancel"}
        /\ steps[m].background = "true"}} \ {Anonymous}

ControlAccepted(steps, n) ==
    LET targets == steps[n].targets
    IN  /\ CASE steps[n].kind = "wait-all" -> targets = <<>>
             [] steps[n].kind = "cancel" -> Len(targets) = 1
             [] OTHER -> targets # <<>>
        /\ IsInjective(targets)
        /\ Range(targets) \subseteq BackgroundBefore(steps, n)

\* inspectSteps.
GroupAccepted(children) ==
    /\ children # <<>>
    /\ \A c \in DOMAIN children : children[c].background = "unset"
    /\ \A c, d \in DOMAIN children :
         c # d /\ children[c].id # Anonymous => children[c].id # children[d].id
Accepted(steps) ==
    /\ steps # <<>>
    /\ \A n \in DOMAIN steps :
         /\ IsControl(steps[n]) => ControlAccepted(steps, n)
         /\ steps[n].kind = "parallel" => GroupAccepted(steps[n].children)
    /\ \A m, n \in DOMAIN steps : m # n => StepIds(steps[m]) \cap StepIds(steps[n]) = {}

-----------------------------------------------------------------------------
(* Names.                                                                   *)

First(names, used) == names[CHOOSE n \in DOMAIN names :
    names[n] \notin used /\ \A m \in 1 .. n - 1 : names[m] \in used]

\* taskEntrypointSuffixes: a task without an id gets the next free name.
EntryNames(tasks, used) ==
    LET names[n \in 0 .. Len(tasks)] ==
            IF n = 0 THEN <<>>
            ELSE Append(names[n - 1], IF tasks[n].id # Anonymous THEN tasks[n].id
                                      ELSE First(TaskNames, Range(names[n - 1]) \cup used))
    IN  names[Len(tasks)]
EntrypointsIgnoringIds(steps) == EntryNames(Tasks(steps), {})
Entrypoints(steps) == EntryNames(Tasks(steps), IdsOf(Tasks(steps)))

-----------------------------------------------------------------------------
(* Lowering.                                                                *)

\* The cache setup of a job with tasks: the project's own steps, or one
\* generated step.
Setup(setup, used) ==
    IF setup = DefaultSetup
    THEN <<[kind |-> "run", id |-> First(CacheNames, used), background |-> "unset"]>>
    ELSE setup
Synchronous(setup) ==
    setup = DefaultSetup \/ \A n \in DOMAIN setup : setup[n].background # "true"

PrepareIdIgnoringAuthored(steps, setup) ==
    First(PrepareNames, IdsOf(Setup(setup, TakenIds(steps))))
PrepareId(steps, setup) ==
    LET used == TakenIds(steps)
    IN  First(PrepareNames, used \cup IdsOf(Setup(setup, used)))

\* lowerSteps keeps what it has emitted, how many tasks it has met, and
\* whether the preparation step is among them.
Prepare(acc, id) ==
    IF acc.prepared THEN acc
    ELSE [acc EXCEPT !.out = Append(@, [kind |-> "prepare", id |-> id,
                                        background |-> "unset"]),
                     !.prepared = TRUE]

LowerLeaf(acc, leaf, id, entries) ==
    IF leaf.kind # "task" THEN [acc EXCEPT !.out = Append(@, leaf)]
    ELSE LET ready == Prepare(acc, id)
         IN  [ready EXCEPT
                !.out = Append(@, [kind |-> "entry", id |-> leaf.id,
                                   background |-> leaf.background,
                                   entry |-> entries[acc.tasks + 1]]),
                !.tasks = acc.tasks + 1]

\* The members of a group, into a list of their own.
LowerGroup(acc, children, id, entries) ==
    LET inner[n \in 0 .. Len(children)] ==
            IF n = 0 THEN [acc EXCEPT !.out = <<>>]
            ELSE LowerLeaf(inner[n - 1], children[n], id, entries)
    IN  [inner[Len(children)] EXCEPT
           !.out = Append(acc.out, [kind |-> "parallel", children |-> @])]

LowerStepInside(acc, step, id, entries) ==
    CASE step.kind = "parallel" -> LowerGroup(acc, step.children, id, entries)
      [] IsControl(step) -> [acc EXCEPT !.out = Append(@, step)]
      [] OTHER -> LowerLeaf(acc, step, id, entries)
PrepareFor(acc, step, id) == IF HasTask(step) THEN Prepare(acc, id) ELSE acc
LowerStep(acc, step, id, entries) ==
    CASE step.kind = "parallel" ->
           LowerGroup(PrepareFor(acc, step, id), step.children, id, entries)
      [] IsControl(step) -> [acc EXCEPT !.out = Append(@, step)]
      [] OTHER -> LowerLeaf(acc, step, id, entries)

\* The cache setup goes before the first step that is or has a task.
WithSetup(steps, setup) ==
    LET tasked == {n \in DOMAIN steps : HasTask(steps[n])}
        first == CHOOSE n \in tasked : \A m \in tasked : n <= m
    IN  IF tasked = {} THEN steps
        ELSE SubSeq(steps, 1, first - 1) \o Setup(setup, TakenIds(steps))
             \o SubSeq(steps, first, Len(steps))

Lower(steps, setup) ==
    LET id == IF Tasks(steps) = <<>> THEN Anonymous ELSE PrepareId(steps, setup)
        entries == Entrypoints(steps)
        all == WithSetup(steps, setup)
        lowered[n \in 0 .. Len(all)] ==
            IF n = 0 THEN [out |-> <<>>, tasks |-> 0, prepared |-> FALSE]
            ELSE LowerStep(lowered[n - 1], all[n], id, entries)
    IN  lowered[Len(all)].out

=============================================================================
