-------------------------- MODULE ScenarioWorkflow --------------------------
(***************************************************************************)
(* A workflow, as the scenario interpreter runs it (src/testing/run.ts,    *)
(* interpretScenario): its jobs in order, the status each inherits from    *)
(* the jobs it needs, its matrix instances, and the merge of what the      *)
(* instances put out.                                                      *)
(*                                                                         *)
(* One instance, of an execution job or of a called workflow, is one step  *)
(* here with a free result; ScenarioJob has the insides of the former.     *)
(***************************************************************************)
EXTENDS Integers, Sequences, FiniteSets, SequencesExt

CONSTANTS
    Jobs,          \* job ids
    Names,         \* names of job outputs
    Values,        \* nonempty output values
    Empty, Unset,  \* the empty string; no such output
    None,          \* not evaluated; no declared completion order
    Flows,         \* the workflows to interpret
    MaxInstances   \* bound: instances of a matrix job

\* Which jobs there are, in order; what each needs; its condition; whether it
\* calls a workflow, and whether it has a matrix.
Flow == [order : Seq(Jobs), needs : [Jobs -> SUBSET Jobs],
         cond : [Jobs -> {"", "expression", "always", "failure", "cancelled"}],
         calls : SUBSET Jobs, matrix : SUBSET Jobs]

Outcomes == {"success", "failure", "cancelled"}
Outputs == [Names -> Values \cup {Empty, Unset}]
Result == [result : Outcomes \cup {"skipped"}, outputs : Outputs]
Status == [success : BOOLEAN, failure : BOOLEAN, cancelled : BOOLEAN]

ASSUME ConstantsAssumption ==
    /\ Empty \notin Values /\ Unset \notin Values \cup {Empty}
    /\ None \notin Result \cup Status
    /\ Flows \subseteq Flow
    /\ \A f \in Flows : \A m, n \in DOMAIN f.order : f.order[m] = f.order[n] => m = n
    /\ MaxInstances \in Nat

VARIABLES
    flow,       \* the workflow
    at,         \* index of the job being interpreted
    phase,      \* "job", "instances", "merge", "finished" or "error"
    total,      \* matrix rows of the current job
    completion, \* its declared completion order
    instances,  \* its instances so far
    merged,     \* how many of them are merged
    outputs,    \* their merged outputs so far
    results,    \* the result of every job evaluated, with its outputs
    status,     \* the status every job evaluated had
    verdict,    \* the workflow's result
    ran         \* history: results of all instances, by job

vars == <<flow, at, phase, total, completion, instances, merged, outputs,
          results, status, verdict, ran>>

Instance == [result : Outcomes, rejected : BOOLEAN,
             outs : [Names -> Values \cup {Empty}],
             withheld : SUBSET Names]  \* suppressedOutputs, or the names that
                                       \* the fixture of an external call lacks
NoOutputs == [name \in Names |-> Unset]
Orders(n) == {o \in [1 .. n -> 1 .. n] : \A a, b \in 1 .. n : a # b => o[a] # o[b]}

Init ==
    /\ flow \in Flows
    /\ at = 1
    /\ phase = "job"
    /\ total = 0
    /\ completion = None
    /\ instances = <<>>
    /\ merged = 0
    /\ outputs = NoOutputs
    /\ results = [j \in Jobs |-> None]
    /\ status = [j \in Jobs |-> None]
    /\ verdict = None
    /\ ran = [j \in Jobs |-> {}]

Job == flow.order[at]
Needs == flow.needs[Job]

-----------------------------------------------------------------------------
(* Whether a job runs.                                                      *)

InheritedDirect ==
    LET Some(r) == \E d \in Needs : results[d].result = r IN
    [success |-> \A d \in Needs : results[d].result = "success",
     failure |-> Some("failure"),
     cancelled |-> Some("cancelled")]

\* The needed jobs' results, and for failure and cancellation also what they
\* inherited themselves.
Inherited ==
    LET Some(r) == \E d \in Needs : results[d].result = r IN
    [success |-> \A d \in Needs : results[d].result = "success",
     failure |-> Some("failure") \/ \E d \in Needs : status[d].failure,
     cancelled |-> Some("cancelled") \/ \E d \in Needs : status[d].cancelled]

MayHold(s, value) ==
    value = CASE flow.cond[Job] = "failure" -> s.failure
              [] flow.cond[Job] = "cancelled" -> s.cancelled
              [] flow.cond[Job] = "always" -> TRUE
              [] flow.cond[Job] = "expression" -> s.success /\ value
              [] OTHER -> s.success

AtJob == phase = "job" /\ at <= Len(flow.order)
Evaluable == \A d \in Needs : results[d] # None

SkipJob ==
    /\ AtJob /\ Evaluable
    /\ MayHold(Inherited, FALSE)
    /\ status' = [status EXCEPT ![Job] = Inherited]
    /\ results' = [results EXCEPT ![Job] =
                    [result |-> "skipped", outputs |-> NoOutputs]]
    /\ at' = at + 1
    /\ UNCHANGED <<flow, phase, total, completion, instances, merged, outputs,
                   verdict, ran>>

\* A matrix may expand to no rows; without a matrix there is one instance.
BeginJob ==
    /\ AtJob /\ Evaluable
    /\ MayHold(Inherited, TRUE)
    /\ status' = [status EXCEPT ![Job] = Inherited]
    /\ total' \in IF Job \in flow.matrix THEN 0 .. MaxInstances ELSE {1}
    /\ completion' \in {None} \cup Orders(total')
    /\ phase' = "instances"
    /\ UNCHANGED <<flow, at, instances, merged, outputs, results, verdict, ran>>

-----------------------------------------------------------------------------
(* Its instances and their outputs.                                         *)

\* A rejected environment has no outputs; a called workflow has no environment.
Possible(i) ==
    /\ i.rejected => /\ i.result \in {"success", "failure"}
                     /\ i.outs = [name \in Names |-> Empty] /\ i.withheld = {}
    /\ Job \in flow.calls => ~i.rejected

RunInstance == \E i \in Instance :
    /\ phase = "instances"
    /\ Len(instances) < total
    /\ Possible(i)
    /\ instances' = Append(instances, i)
    /\ ran' = [ran EXCEPT ![Job] = @ \cup {i.result}]
    /\ phase' = IF Len(instances) + 1 = total THEN "merge" ELSE phase
    /\ UNCHANGED <<flow, at, total, completion, merged, outputs, results,
                   status, verdict>>

NoInstances ==
    /\ phase = "instances" /\ total = 0
    /\ phase' = "merge"
    /\ UNCHANGED <<flow, at, total, completion, instances, merged, outputs,
                   results, status, verdict, ran>>

\* What one instance adds: nothing for a rejected environment, nor for an
\* unsuccessful call of a matrix, and not the names it withholds.
Contributes(i, name) ==
    /\ ~i.rejected
    /\ Job \in flow.calls \cap flow.matrix => i.result = "success"
    /\ name \notin i.withheld
AddOverwriting(outs, i) == [name \in Names |->
    IF Contributes(i, name) THEN i.outs[name] ELSE outs[name]]
Add(outs, i) == [name \in Names |->
    IF Contributes(i, name) /\ (outs[name] = Unset \/ i.outs[name] # Empty)
    THEN i.outs[name] ELSE outs[name]]

ClashesNever(outs, i) == FALSE
Clashes(outs, i) == \E name \in Names :
    /\ Contributes(i, name)
    /\ outs[name] \in Values /\ i.outs[name] \in Values
    /\ outs[name] # i.outs[name]

\* Instances are merged in the declared completion order.  Without one, two
\* values for one name are an error, as nobody knows which came last.
InOrder == IF completion = None THEN instances
           ELSE [n \in 1 .. total |-> instances[completion[n]]]
MergeInstance ==
    LET i == InOrder[merged + 1]
    IN  /\ phase = "merge"
        /\ merged < total
        /\ IF completion = None /\ Clashes(outputs, i)
           THEN phase' = "error" /\ UNCHANGED <<merged, outputs>>
           ELSE /\ merged' = merged + 1
                /\ outputs' = Add(outputs, i)
                /\ UNCHANGED phase
        /\ UNCHANGED <<flow, at, total, completion, instances, results, status,
                       verdict, ran>>

-----------------------------------------------------------------------------
(* Its result, and the workflow's.                                          *)

AggregateLast(is) == IF is = <<>> THEN "skipped" ELSE is[Len(is)].result
Aggregate(is) ==
    LET all == {is[n].result : n \in DOMAIN is}
    IN  IF is = <<>> THEN "skipped"
        ELSE IF "failure" \in all THEN "failure"
        ELSE IF "cancelled" \in all THEN "cancelled" ELSE "success"

EndJob ==
    /\ phase = "merge" /\ merged = total
    /\ results' = [results EXCEPT ![Job] =
                    [result |-> Aggregate(instances), outputs |-> outputs]]
    /\ at' = at + 1
    /\ phase' = "job"
    /\ total' = 0
    /\ completion' = None
    /\ instances' = <<>>
    /\ merged' = 0
    /\ outputs' = NoOutputs
    /\ UNCHANGED <<flow, status, verdict, ran>>

EndWorkflow ==
    LET all == {results[flow.order[n]].result : n \in DOMAIN flow.order}
    IN  /\ phase = "job" /\ at > Len(flow.order)
        /\ verdict' = IF "failure" \in all THEN "failure"
                      ELSE IF "cancelled" \in all THEN "cancelled" ELSE "success"
        /\ phase' = "finished"
        /\ UNCHANGED <<flow, at, total, completion, instances, merged, outputs,
                       results, status, ran>>

\* A needed job that comes later, or an expression or a fixture in error.
Throw ==
    /\ phase \in {"job", "instances", "merge"}
    /\ at <= Len(flow.order)
    /\ phase' = "error"
    /\ UNCHANGED <<flow, at, total, completion, instances, merged, outputs,
                   results, status, verdict, ran>>

Next ==
    \/ SkipJob \/ BeginJob
    \/ RunInstance \/ NoInstances \/ MergeInstance
    \/ EndJob \/ EndWorkflow \/ Throw

Spec == Init /\ [][Next]_vars

-----------------------------------------------------------------------------
(* Properties.                                                              *)

\* The jobs that a chain of needs leads to from j: all that are in any set which
\* has what j needs and what its members need.
Ancestors(j) == {a \in Jobs : \A S \in SUBSET Jobs :
    flow.needs[j] \subseteq S /\ (\A d \in S : flow.needs[d] \subseteq S) => a \in S}

\* The status of a job is that of all the jobs before it in the graph of
\* needs, near and far: a failure is not forgotten because a job in between
\* was skipped, nor because one ran regardless and succeeded.
StatusIsOfAllAncestors ==
    \A j \in Jobs : status[j] # None =>
        /\ status[j].failure <=>
               \E a \in Ancestors(j) : results[a].result = "failure"
        /\ status[j].cancelled <=>
               \E a \in Ancestors(j) : results[a].result = "cancelled"
        /\ status[j].success => \A d \in flow.needs[j] : results[d].result = "success"

\* A name has the last nonempty value among the instances that deliver it, is
\* empty if all of those are, and is unset if there are none: in the declared
\* completion order or, without one, in whatever order they finish.
LastNonemptyValueStands ==
    phase = "merge" /\ merged = total =>
        \A order \in IF completion = None THEN Orders(total) ELSE {completion}, name \in Names :
            LET nth(n) == instances[order[n]]
                giving == {n \in 1 .. total : Contributes(nth(n), name)}
                filled == {n \in giving : nth(n).outs[name] # Empty}
            IN  /\ giving = {} <=> outputs[name] = Unset
                /\ giving # {} /\ filled = {} => outputs[name] = Empty
                /\ filled # {} => outputs[name] = nth(Max(filled)).outs[name]

\* The failure of one instance that its job does not tolerate is the failure
\* of the workflow, and nothing else is.
NoFailureIsLost ==
    phase = "finished" =>
        /\ verdict = "failure" <=> \E j \in Jobs : "failure" \in ran[j]
        /\ verdict = "success" => \A j \in Jobs : ran[j] \subseteq {"success"}

=============================================================================
