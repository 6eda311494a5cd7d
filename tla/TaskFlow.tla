------------------------------- MODULE TaskFlow -------------------------------
(***************************************************************************)
(* Values that pass from one task to another: what the builder promises of *)
(* a reference to a task's output (taskStep, task in                        *)
(* src/github_actions/mod.ts; src/task/mod.ts), and what the dispatched     *)
(* tasks make of it at run time (src/runner/main.ts).                       *)
(*                                                                         *)
(* An author builds conditions call by call and uses them as conditions of *)
(* a consuming job or task. The producing task then runs, or does not, and *)
(* sets its outputs as it likes; the consumer follows in the same job or   *)
(* in a job that needs it, where the producing job's failure may be        *)
(* tolerated. A reference stands for the output of its name as the         *)
(* consumer sees it: steps.p.outputs.o, or needs.a.outputs.o that passes   *)
(* it through.                                                             *)
(***************************************************************************)
EXTENDS Expressions, FiniteSets

CONSTANTS
    Rendered(_), \* the text of a tree
    Evaluated(_, _, _), \* the value of a text in a context and status
    ResultsOf(_), \* what the builder knows of the type of a tree's value
    Unknown(_),  \* whether it takes the value for text without knowing
    Producers,   \* definitions of the producing task
    Consumers,   \* definitions of the consuming task
    RawTexts,    \* conditions an author writes as text
    Unset,       \* no value
    MaxCalls,    \* bound: calls that build or use a condition
    MaxOperators, \* bound: operators in them
    MaxSets      \* bound: calls of outputs.set

\* A native value of a contract that fits it, or one that does not; and what the
\* author says of the producing task and its job, and of the consuming task.
Contracts == {"text", "json"}
Natives == {"v", "w", "misfit"}
Producer == [if : BOOLEAN, continueOnError : {"unset", "false", "true", "expression"},
             required : [Refs -> BOOLEAN], contract : [Refs -> Contracts],
             jobContinueOnError : {"false", "true", "expression"}]
Consumer == [place : {"job", "needs"}, from : Refs, computed : BOOLEAN,
             contract : Contracts \cup {Unset}]

ASSUME TaskFlowAssumption ==
    /\ Producers \subseteq Producer /\ Consumers \subseteq Consumer
    /\ \A text \in RawTexts : text \in Seq(STRING) /\ text # <<>>
    /\ Unset \notin Natives /\ Unset \notin Contracts
    /\ MaxCalls \in Nat /\ MaxOperators \in Nat /\ MaxSets \in Nat

VARIABLES
    producer, consumer,  \* what the author defines
    building,  \* the condition being built, a record of Expressions or text
    calls, operators,    \* calls and operators so far
    when,      \* the condition and the proofs of the consumer's job
    if,        \* those of the consumer itself
    stage,     \* who runs: "authoring", "produce", "body", "between", or how it ended
    wire,      \* what GITHUB_OUTPUT has for each output; Unset reads as empty
    written,   \* outputs set so far in this run of the task
    sets,      \* calls of outputs.set
    status,    \* of the producing job's steps
    tolerated, \* whether that job's failure counts as success
    withheld,  \* outputs that the runner does not deliver to other jobs
    received,  \* the consumer's input
    last       \* history: the native value last set

authored == <<producer, consumer, building, calls, operators, when, if>>
run == <<stage, wire, written, sets, status, tolerated, withheld, received, last>>
flowVars == <<authored, run>>

NoCondition == [text |-> <<>>, proofs |-> {}]
Succeeding == [success |-> TRUE, failure |-> FALSE, cancelled |-> FALSE]
Failing == [success |-> FALSE, failure |-> TRUE, cancelled |-> FALSE]
Statuses == {Succeeding, Failing}

FlowInit ==
    /\ producer \in Producers
    /\ consumer \in Consumers
    /\ building = Unset
    /\ calls = 0 /\ operators = 0
    /\ when = NoCondition /\ if = NoCondition
    /\ stage = "authoring"
    /\ wire = [ref \in Refs |-> Unset]
    /\ written = {} /\ sets = 0
    /\ status = Succeeding
    /\ tolerated = FALSE /\ withheld = {}
    /\ received = Unset
    /\ last = [ref \in Refs |-> Unset]

-----------------------------------------------------------------------------
(* Authoring.                                                               *)

Atoms == {Present(ref) : ref \in Refs} \cup {Plain(Leaf(ref)) : ref \in Refs}
         \cup {Plain(Call("failure", <<>>)), Plain(Leaf("'t'"))}

Called == calls < MaxCalls /\ calls' = calls + 1

\* An expression to begin with.
Take == \E atom \in Atoms :
    /\ stage = "authoring" /\ building = Unset
    /\ Called
    /\ building' = atom
    /\ UNCHANGED <<producer, consumer, operators, when, if, run>>

\* One more operator around what there is.
Operate == \E atom \in Atoms :
    /\ stage = "authoring" /\ building # Unset
    /\ operators < MaxOperators /\ operators' = operators + 1
    /\ Called
    /\ building' \in {And(building, atom), And(atom, building), Or(building, atom),
                      Or(atom, building), Not(building), CaseOf(building, atom, atom)}
                     \cup {Compare(op, building, atom) : op \in Comparisons \cup Orderings}
    /\ UNCHANGED <<producer, consumer, when, if, run>>

\* evaluateCondition: what is built renders, a text is taken as it is.
Condition(e) == [text |-> Rendered(e.node), proofs |-> e.proofs]
Offered == (IF building = Unset THEN {} ELSE {Condition(building)})
           \cup {[text |-> text, proofs |-> {}] : text \in RawTexts}

\* when combines conditions, before the job has steps; if has one.
When == \E condition \in Offered :
    /\ stage = "authoring" /\ consumer.place = "needs" /\ if = NoCondition
    /\ Called
    /\ when' = [text |-> Combine(when.text, condition.text),
                proofs |-> when.proofs \cup condition.proofs]
    /\ building' = Unset
    /\ UNCHANGED <<producer, consumer, operators, if, run>>
If == \E condition \in Offered :
    /\ stage = "authoring" /\ if = NoCondition
    /\ Called
    /\ if' = condition
    /\ building' = Unset
    /\ UNCHANGED <<producer, consumer, operators, when, run>>

\* task: what a reference to an output says of it.
RequiredAsDeclared(ref) == producer.required[ref]
Required(ref) ==
    \/ producer.required[ref] /\ ~producer.if /\ producer.continueOnError = "unset"
    \/ producer.continueOnError = "false"

\* taskStep: an input that may be absent, and the contract it is read by.  A
\* computed expression has neither contract nor presence.
Optional ==
    /\ ~consumer.computed
    /\ ~Required(consumer.from)
    /\ consumer.from \notin when.proofs \cup if.proofs
InputContract ==
    IF consumer.contract # Unset THEN consumer.contract
    ELSE IF consumer.computed THEN "text" ELSE producer.contract[consumer.from]

\* A contract of its own must be the source's.
AcceptedOfAnyContract == TRUE
Accepted == consumer.computed \/ InputContract = producer.contract[consumer.from]

\* EffectiveOutputs: what the type of a reference says of it.
TypedRequired(ref) ==
    producer.required[ref] /\ ~producer.if /\ producer.continueOnError \in {"unset", "false"}

\* Proven and Missing: the type of the input has null.
Nullable ==
    /\ ~consumer.computed
    /\ ~TypedRequired(consumer.from)
    /\ consumer.from \notin when.proofs \cup if.proofs

-----------------------------------------------------------------------------
(* The producer's run.                                                      *)

\* Empty text, null and what JSON cannot carry unchanged fit no contract.
Fits(native) == native # "misfit"

\* Text is written as it is and JSON in its notation.
Serialize(contract, native) ==
    IF Fits(native) THEN [contract |-> contract, native |-> native] ELSE Unset

\* With JSON read whatever the contract.
ParsedAsJson(contract, text) ==
    CASE text = Unset -> Unset
      [] text # Unset /\ text.contract = "json" -> text.native
      [] OTHER -> "misfit"

\* parseWireValue, of what the contract can read: a text is read as written
\* even if it is JSON.
Parsed(contract, text) ==
    CASE text = Unset -> Unset
      [] text # Unset /\ contract = text.contract -> text.native
      [] OTHER -> text

\* The author is done.  The producer's job may have failed before its turn, and
\* then it runs only by a condition of its own, which holds or not.
StartProducer == \E given \in Statuses, tolerates \in BOOLEAN :
    /\ stage = "authoring" /\ building = Unset
    /\ Accepted
    /\ producer.jobContinueOnError = "false" => ~tolerates
    /\ producer.jobContinueOnError = "true" => tolerates
    /\ tolerated' = tolerates
    /\ status' = given
    /\ \/ stage' = "body" /\ (given = Succeeding \/ producer.if)
       \/ stage' = "between" /\ (given = Failing \/ producer.if)
    /\ UNCHANGED <<authored, wire, written, sets, withheld, received, last>>

\* outputs.set appends to GITHUB_OUTPUT, where the last value counts.  A value
\* that is refused throws, which the body may catch.
SetOutput == \E ref \in Refs, native \in Natives :
    LET text == Serialize(producer.contract[ref], native)
    IN  /\ stage = "body"
        /\ sets < MaxSets /\ sets' = sets + 1
        /\ IF text = Unset THEN UNCHANGED <<wire, written, last>>
           ELSE /\ wire' = [wire EXCEPT ![ref] = text]
                /\ written' = written \cup {ref}
                /\ last' = [last EXCEPT ![ref] = native]
        /\ UNCHANGED <<authored, stage, status, tolerated, withheld, received>>

\* A required output that was not set fails the task, which counts unless
\* continueOnError; outputs stay as written.
EndBody == \E returns, continues \in BOOLEAN :
    LET missing == \E ref \in Refs : producer.required[ref] /\ ref \notin written
    IN  /\ stage = "body"
        /\ producer.continueOnError \in {"unset", "false"} => ~continues
        /\ producer.continueOnError = "true" => continues
        /\ status' = IF (returns /\ ~missing) \/ continues THEN status ELSE Failing
        /\ stage' = "between"
        /\ UNCHANGED <<authored, wire, written, sets, tolerated, withheld, received, last>>

\* Another step of the producing job may fail before the consumer's turn.
OtherStepFails ==
    /\ stage = "between" /\ status = Succeeding
    /\ status' = Failing
    /\ UNCHANGED <<authored, stage, wire, written, sets, tolerated, withheld, received, last>>

\* An output of a job, as opposed to one of a step, may be withheld.
Withhold == \E ref \in Refs :
    /\ stage = "between" /\ consumer.place = "needs"
    /\ ref \notin withheld
    /\ withheld' = withheld \cup {ref}
    /\ wire' = [wire EXCEPT ![ref] = Unset]
    /\ UNCHANGED <<authored, stage, written, sets, status, tolerated, received, last>>

-----------------------------------------------------------------------------
(* The consumer's run.                                                      *)

\* A job that needs the other one sees its result, where a failure that its
\* continueOnError tolerates is none; its own steps start afresh.
Context == [ref \in Refs |-> IF wire[ref] = Unset THEN "''" ELSE "'t'"]
Holds(text, context, given) == HoldsWith(text, Evaluated(text, context, given), given)
NeedsStatus == IF tolerated THEN Succeeding ELSE status
Runs ==
    IF consumer.place = "job" THEN Holds(if.text, Context, status)
    ELSE Holds(when.text, Context, NeedsStatus) /\ Holds(if.text, Context, Succeeding)

\* dispatchTask: the input is parsed, and may have to be there.
Dispatch ==
    LET value == Parsed(InputContract, wire[consumer.from])
        invalid == InputContract = "json" /\ wire[consumer.from] # Unset
                   /\ wire[consumer.from].contract # "json"
    IN  /\ stage = "between"
        /\ stage' = CASE ~Runs -> "skipped"
                      [] Runs /\ invalid -> "invalid"
                      [] Runs /\ value = Unset /\ ~Optional -> "absent"
                      [] OTHER -> "ran"
        /\ received' = IF stage' = "ran" THEN value ELSE Unset
        /\ UNCHANGED <<authored, wire, written, sets, status, tolerated, withheld, last>>

\* What rendering, parsing and evaluation amount to: the text of a tree is
\* evaluated clause by clause, a combination of conditions as a conjunction, and
\* types are known clause by clause.  (For trees that are built, texts that parse.)
Contexts == [Refs -> {"''", "'t'"}]
EvaluatedInParts(trees, texts) == \A context \in Contexts, s \in Statuses :
    LET Value(text) == Evaluated(text, context, s) IN
    /\ \A t \in trees :
          Value(Rendered(t)) =
              EvalNode(t, [u \in Operands(t) |-> Value(Rendered(u))], context, s)
    /\ \A previous, next \in texts :
          Value(Combine(previous, next)) = Conjunction(Value(previous), Value(next))
TypedInParts(trees) == \A t \in trees :
    /\ ResultsOf(t) = ResultsNode(t, [u \in Operands(t) |-> ResultsOf(u)])
    /\ Unknown(t) <=> OpaqueNode(t, [u \in Operands(t) |-> Unknown(u)])

FlowNext ==
    \/ Take \/ Operate \/ When \/ If
    \/ StartProducer \/ SetOutput \/ EndBody \/ OtherStepFails
    \/ Withhold \/ Dispatch

FlowSpec == FlowInit /\ [][FlowNext]_flowVars

-----------------------------------------------------------------------------
(* Properties.                                                              *)

\* Action inputs are strings: an expression that the builder lets through gives
\* a string whatever the references and the status are, as far as all of its
\* calls have known results.
StringInputsAreStrings ==
    building # Unset /\ ~Unknown(building.node) /\ ~NonString(ResultsOf(building.node)) =>
        \A context \in Contexts, s \in Statuses :
            IsString(Evaluated(Rendered(building.node), context, s))

\* A task that runs only after success, as it does unless a condition asks for
\* a status, gets what its definition promises: no output that it may rely on,
\* or whose presence its conditions prove, is absent, and none is unreadable.
\* Where it runs in another job, a failure of the producer's that its job
\* tolerates looks like success, and what the runner withholds is not there:
\* references are required all the same, and only a proof of presence helps.
HiddenAbsence ==
    /\ consumer.place = "needs"
    /\ consumer.from \notin when.proofs \cup if.proofs
    /\ consumer.from \in withheld \/ (tolerated /\ status = Failing)
GuardedTasksGetTheirInputs ==
    stage \in {"absent", "invalid"} =>
        \/ consumer.computed
        \/ HasStatusFunction(when.text) \/ HasStatusFunction(if.text)
        \/ stage = "absent" /\ HiddenAbsence

\* Direct references carry values through text: a task receives what the
\* producer has last set, or null if that was nothing or is withheld.
ReceivedIsWhatWasSet ==
    stage = "ran" /\ ~consumer.computed =>
        received = IF consumer.from \in withheld THEN Unset ELSE last[consumer.from]

\* "Conditional or continueOnError task steps expose their outputs as optional
\* to consumers", and "an omitted output is null in the typed model": a task is
\* not failed for the absence of an input whose type has null.
OptionalInputsMayBeAbsent == stage = "absent" => ~Nullable

=============================================================================
