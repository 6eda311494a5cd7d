----------------------------- MODULE ScenarioJob -----------------------------
(***************************************************************************)
(* One instance of an execution job, as the scenario interpreter runs it   *)
(* (src/testing/run.ts, runInstance): its steps in order, their conditions *)
(* and fixture outcomes, and what background steps and parallel groups     *)
(* hold back until they are joined.                                        *)
(*                                                                         *)
(* A fixture's outcome, whether a condition holds and what a step writes   *)
(* to the environment are free; a result keeps what later steps can tell   *)
(* apart.  Joined writes agree with one another, so that pending work needs *)
(* no order.                                                               *)
(***************************************************************************)
EXTENDS Integers, Sequences

CONSTANTS
    Ids,       \* step ids
    Keys,      \* environment variables
    Values,    \* what fixtures write to them
    None,      \* no result, no value, no write
    Programs   \* the jobs to interpret: sequences of steps

Conditions == {"", "expression", "always", "success", "failure", "cancelled"}

Exec == [kind : {"exec"}, id : Ids, background : BOOLEAN, cond : Conditions,
         tolerate : BOOLEAN]
Group == [kind : {"parallel"}, children : Seq(Exec)]
Control == [kind : {"wait", "wait-all", "cancel"}, targets : SUBSET Ids]

ExecIds(step) == CASE step.kind = "exec" -> {step.id}
                   [] step.kind = "parallel" ->
                        {step.children[c].id : c \in DOMAIN step.children}
                   [] OTHER -> {}

\* What validation accepts: distinct ids, nonempty groups without background
\* children, and controls that name background steps before them.
Legal(job) ==
    /\ job # <<>>
    /\ \A s, t \in DOMAIN job :
        s # t => ExecIds(job[s]) \cap ExecIds(job[t]) = {}
    /\ \A s \in DOMAIN job : LET step == job[s] IN
        CASE step.kind = "exec" -> step \in Exec
          [] step.kind = "parallel" ->
               /\ step \in Group
               /\ step.children # <<>>
               /\ \A c, d \in DOMAIN step.children :
                    c # d => step.children[c].id # step.children[d].id
               /\ \A c \in DOMAIN step.children : ~step.children[c].background
          [] OTHER ->
               /\ step \in Control
               /\ step.kind = "wait-all" <=> step.targets = {}
               /\ step.kind = "cancel" => \E id \in Ids : step.targets = {id}
               /\ \A id \in step.targets : \E e \in 1 .. s - 1 :
                    /\ job[e].kind = "exec"
                    /\ job[e].id = id /\ job[e].background

\* A result has an outcome and a conclusion, and whether the step was asked to
\* stop; what is pending is the result of a step that ran, with its writes.
Outcomes == {"success", "failure", "cancelled"}
Ran == [outcome : Outcomes, conclusion : Outcomes, requested : BOOLEAN]
Skipped == [outcome : {"skipped"}, conclusion : {"skipped"}, requested : BOOLEAN]
Writes == [Keys -> Values \cup {None}]
Held == [result : Ran, writes : Writes]

ASSUME ConstantsAssumption ==
    /\ None \notin Values \cup Ran \cup Skipped \cup Writes \cup Held
    /\ \A job \in Programs : job \in Seq(Exec \cup Group \cup Control)
                                 /\ Legal(job)

VARIABLES
    program,  \* the job's steps
    initFailed,  \* its containerInitialization fixture is a failure
    pos,      \* the step the interpreter is at
    child,    \* the member of a parallel group it is at; 0 outside one
    before,   \* what was pending when it entered the group
    steps,    \* joined results, by id
    pending,  \* results and writes held back, by id
    env,      \* the environment of later steps
    started,  \* ids in the order their steps started
    state,    \* "running", "finished", or the error: "conflict" or "fixture"
    verdict,  \* the job's result and outcome
    wrote,    \* history: what each step wrote
    entered   \* history: steps and env when it entered the group

vars == <<program, initFailed, pos, child, before, steps, pending, env,
          started, state, verdict, wrote, entered>>

Init ==
    /\ program \in Programs
    /\ initFailed \in BOOLEAN
    /\ pos = 1
    /\ child = 0
    /\ before = {}
    /\ steps = [id \in Ids |-> None]
    /\ pending = [id \in Ids |-> None]
    /\ env = [k \in Keys |-> None]
    /\ started = <<>>
    /\ state = "running"
    /\ verdict = None
    /\ wrote = [id \in Ids |-> None]
    /\ entered = None

-----------------------------------------------------------------------------
(* What the steps are built from.                                           *)

PendingIds == {id \in Ids : pending[id] # None}
Concluded(c) == \E id \in Ids : steps[id] # None /\ steps[id].conclusion = c

\* stepStatus: of the joined results alone.
Failure == initFailed \/ Concluded("failure")
Cancelled == Concluded("cancelled")
Success == ~Failure /\ ~Cancelled

\* condition: without a status function a step needs success.
MayHold(cond, value) ==
    value = CASE cond = "failure" -> Failure
              [] cond = "cancelled" -> Cancelled
              [] cond = "always" -> TRUE
              [] cond = "expression" -> Success /\ value
              [] OTHER -> Success

InGroup == child > 0
Running == state = "running"
At(kind) == Running /\ ~InGroup /\ pos <= Len(program) /\ program[pos].kind = kind
AtExec == \/ At("exec")
          \/ Running /\ InGroup /\ child <= Len(program[pos].children)
Step == IF InGroup THEN program[pos].children[child] ELSE program[pos]

Advance == IF InGroup THEN child' = child + 1 /\ UNCHANGED pos
                      ELSE pos' = pos + 1 /\ UNCHANGED child

Conflict(ids) == \E a, b \in ids, k \in Keys :
    LET wa == pending[a].writes[k]
        wb == pending[b].writes[k]
    IN  wa # None /\ wb # None /\ wa # wb

\* join: all of the writes are compared before anything is published.
Written(ids, k) ==
    LET writers == {id \in ids : pending[id].writes[k] # None}
    IN  IF writers = {} THEN env[k]
        ELSE pending[CHOOSE id \in writers : TRUE].writes[k]

JoinAnyOrder(ids) ==
    LET joined == ids \cap PendingIds IN
    /\ steps' = [id \in Ids |->
                  IF id \in joined THEN pending[id].result ELSE steps[id]]
    /\ pending' = [id \in Ids |-> IF id \in joined THEN None ELSE pending[id]]
    /\ env' = [k \in Keys |-> Written(joined, k)]
    /\ UNCHANGED state
Join(ids) ==
    LET joined == ids \cap PendingIds
    IN  IF Conflict(joined)
        THEN state' = "conflict" /\ UNCHANGED <<steps, pending, env>>
        ELSE /\ steps' = [id \in Ids |->
                  IF id \in joined THEN pending[id].result ELSE steps[id]]
             /\ pending' = [id \in Ids |->
                  IF id \in joined THEN None ELSE pending[id]]
             /\ env' = [k \in Keys |-> Written(joined, k)]
             /\ UNCHANGED state

-----------------------------------------------------------------------------
(* Steps that run, or do not.                                               *)

Skip ==
    /\ AtExec
    /\ MayHold(Step.cond, FALSE)
    /\ steps' = [steps EXCEPT ![Step.id] =
                  [outcome |-> "skipped", conclusion |-> "skipped",
                   requested |-> FALSE]]
    /\ Advance
    /\ UNCHANGED <<program, initFailed, before, pending, env, started, state,
                   verdict, wrote, entered>>

\* A background step or a group's member keeps its result and its writes for
\* a join; any other step publishes them at once.
Execute == \E outcome \in Outcomes, writes \in Writes :
    LET result == [outcome |-> outcome,
                   conclusion |-> IF outcome = "failure" /\ Step.tolerate
                                  THEN "success" ELSE outcome,
                   requested |-> FALSE]
    IN  /\ AtExec
        /\ MayHold(Step.cond, TRUE)
        /\ started' = Append(started, Step.id)
        /\ IF Step.background \/ InGroup
           THEN /\ pending' = [pending EXCEPT ![Step.id] =
                                [result |-> result, writes |-> writes]]
                /\ UNCHANGED <<steps, env>>
           ELSE /\ steps' = [steps EXCEPT ![Step.id] = result]
                /\ env' = [k \in Keys |->
                            IF writes[k] = None THEN env[k] ELSE writes[k]]
                /\ UNCHANGED pending
        /\ wrote' = [wrote EXCEPT ![Step.id] = writes]
        /\ Advance
        /\ UNCHANGED <<program, initFailed, before, state, verdict, entered>>

\* A condition or a setting that does not evaluate, a missing or an invalid
\* fixture.
Throw ==
    /\ AtExec
    /\ state' = "fixture"
    /\ \/ /\ Step.cond # "" /\ (Step.cond = "expression" => Success)
          /\ UNCHANGED started
       \/ /\ MayHold(Step.cond, TRUE)
          /\ started' = Append(started, Step.id)
    /\ UNCHANGED <<program, initFailed, pos, child, before, steps, pending, env,
                   verdict, wrote, entered>>

-----------------------------------------------------------------------------
(* Parallel groups and controls.                                            *)

EnterGroup ==
    /\ At("parallel")
    /\ child' = 1
    /\ before' = PendingIds
    /\ entered' = <<steps, env>>
    /\ UNCHANGED <<program, initFailed, pos, steps, pending, env, started, state,
                   verdict, wrote>>

LeaveGroupJoiningAll ==
    /\ Running /\ InGroup /\ child > Len(program[pos].children)
    /\ Join(PendingIds)
    /\ child' = 0
    /\ pos' = pos + 1
    /\ UNCHANGED <<program, initFailed, before, started, verdict, wrote, entered>>

\* Only what the group itself left pending is joined.
LeaveGroup ==
    /\ Running /\ InGroup /\ child > Len(program[pos].children)
    /\ Join(PendingIds \ before)
    /\ child' = 0
    /\ pos' = pos + 1
    /\ UNCHANGED <<program, initFailed, before, started, verdict, wrote, entered>>

Wait ==
    /\ At("wait") \/ At("wait-all")
    /\ Join(IF At("wait") THEN program[pos].targets ELSE PendingIds)
    /\ pos' = pos + 1
    /\ UNCHANGED <<program, initFailed, child, before, started, verdict, wrote, entered>>

\* cancel only notes the request, on the held-back result or the joined one.
Cancel ==
    LET Request(result) == [result EXCEPT !.requested = TRUE] IN
    /\ At("cancel")
    /\ \E id \in program[pos].targets :
        /\ pending' = IF pending[id] = None THEN pending
                      ELSE [pending EXCEPT ![id].result = Request(@)]
        /\ steps' = IF pending[id] # None \/ steps[id] = None THEN steps
                    ELSE [steps EXCEPT ![id] = Request(@)]
    /\ pos' = pos + 1
    /\ UNCHANGED <<program, initFailed, child, before, env, started, state, verdict, wrote,
                   entered>>

-----------------------------------------------------------------------------
(* Before and after the steps.                                              *)

Finish(outcome, images) ==
    /\ state' = "finished"
    /\ \E tolerate \in BOOLEAN, image \in images :
         verdict' = [outcome |-> outcome,
                     result |-> IF outcome = "failure" /\ tolerate
                                THEN "success" ELSE outcome,
                     image |-> image]
    /\ UNCHANGED <<program, initFailed, pos, child, before, steps, pending,
                   env, started, wrote, entered>>

\* A rejected environment runs no step.
RejectEnvironment ==
    /\ Running
    /\ pos = 1 /\ ~InGroup
    /\ Finish("failure", {FALSE})

AtEnd == Running /\ ~InGroup /\ pos = Len(program) + 1

\* What is still pending is joined before the job concludes.
JoinRest ==
    /\ AtEnd
    /\ PendingIds # {}
    /\ Join(PendingIds)
    /\ UNCHANGED <<program, initFailed, pos, child, before, started, verdict,
                   wrote, entered>>

\* The job may tolerate its failure; an image is requested only if its own
\* outcome is success.
Outcome == IF Failure THEN "failure"
           ELSE IF Cancelled THEN "cancelled" ELSE "success"
ConcludeEarly ==
    AtEnd /\ Finish(Outcome, {FALSE})
Conclude ==
    /\ AtEnd
    /\ PendingIds = {}
    /\ Finish(Outcome, IF Outcome = "success" THEN BOOLEAN ELSE {FALSE})

Next ==
    \/ Skip \/ Execute \/ Throw
    \/ EnterGroup \/ LeaveGroup \/ Wait \/ Cancel
    \/ RejectEnvironment \/ JoinRest \/ Conclude

Spec == Init /\ [][Next]_vars

-----------------------------------------------------------------------------
(* Properties.                                                              *)

Started == {started[n] : n \in DOMAIN started}
StepsOf(s) == ExecIds(program[s])
Position(id) == CHOOSE s \in DOMAIN program : id \in StepsOf(s)
IsBackground(id) ==
    LET step == program[Position(id)] IN step.kind = "exec" /\ step.background
Joins(s, id) == \/ program[s].kind = "wait-all"
                \/ program[s].kind = "wait" /\ id \in program[s].targets

\* Where the program publishes a step's result: at the step or its group, or
\* at the first control after a background step that joins it, or at the end.
PublishedAt(id) ==
    LET s == Position(id)
        joins == {t \in DOMAIN program : t > s /\ Joins(t, id)}
    IN  IF ~IsBackground(id) THEN s
        ELSE IF joins = {} THEN Len(program) + 1
        ELSE CHOOSE t \in joins : \A u \in joins : t <= u

\* No result is lost: a step that started is either held back or joined, and
\* a finished job has joined all of them, so that the failure of a background
\* step nobody waited for still fails the job.
EveryStartedStepCounts ==
    /\ state = "running" => \A id \in Ids : id \in Started <=>
        pending[id] # None \/ (steps[id] # None /\ steps[id].outcome # "skipped")
    /\ state = "finished" =>
        /\ \A id \in Started : pending[id] = None /\ steps[id] # None
        /\ started # <<>> => (verdict.outcome = "failure" <=>
            initFailed \/ \E id \in Started : steps[id].conclusion = "failure")

\* "The interpreter defers background fixture results ... until an explicit
\* join, a parallel group's join or the implicit end-of-job join": nothing
\* but a skipped step is published before the program's place for it, and a
\* group's join does not publish what was pending before the group.
HeldBackUntilJoined ==
    \A id \in Started : steps[id] # None =>
        \/ pos > PublishedAt(id)
        \/ pos = Len(program) + 1 /\ PublishedAt(id) = pos

\* "Sequential or selective joins provide an explicit publication order": the
\* environment holds, for every variable, what the last published writer
\* wrote, and writers published at one place agree.
LastPublishedWriteStands ==
    \A k \in Keys :
        LET writers == {id \in Started : /\ steps[id] # None
                                        /\ wrote[id] # None
                                        /\ wrote[id][k] # None}
        IN  /\ writers = {} => env[k] = None
            /\ \A id \in writers :
                (\A other \in writers : PublishedAt(other) <= PublishedAt(id))
                => env[k] = wrote[id][k]

=============================================================================
