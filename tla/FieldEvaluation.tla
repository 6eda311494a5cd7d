--------------------------- MODULE FieldEvaluation ---------------------------
(***************************************************************************)
(* One field of a workflow, from the callback that its author writes (see  *)
(* FieldScopes) to the value that a scenario finds for it                   *)
(* (src/testing/run.ts): the interpreter builds contexts up and evaluates  *)
(* every field at its place, in a workflow with one job, which may call a  *)
(* workflow with one job.                                                   *)
(***************************************************************************)
EXTENDS FieldScopes, Integers

CONSTANT Supplies  \* sets of fixtures that the scenario's author supplies

\* Fixtures for contexts that a scenario does not compute.
Fixtures == {"github", "token", "vars", "inputs", "secrets", "GITHUB_TOKEN", "runner",
             "jobRuntime", "containerRuntime", "hashFiles"}

ASSUME SuppliesAssumption == Supplies \subseteq SUBSET Fixtures

VARIABLES
    choice,    \* the field, what its callback refers to, and which workflow it is in
    supplied,  \* fixtures of the scenario
    place,     \* what the interpreter evaluates next, or how it ended
    depth,     \* 0 in the workflow, 1 in the one it calls
    contexts,  \* the contexts there are
    answer     \* what the field came to

fieldVars == <<choice, supplied, place, depth, contexts, answer>>

Calls == choice.at = 1 \/ choice.field \in {"with", "secrets"}

\* What f has, and what g has besides.  (@@ of TLC, which the provers do not know.)
f ++ g == [x \in DOMAIN f \cup DOMAIN g |-> IF x \in DOMAIN f THEN f[x] ELSE g[x]]

\* A context is of one of the workflows and has values, or null, for members.
Given(of, members) == [of |-> of, has |-> members]
Valued(members) == [m \in members |-> "value"]
Nothing == Valued({})
Supplied(fixture, members) == Valued(IF fixture \in supplied THEN members ELSE {})

\* serverContext.
Server(cs) ==
    [cs EXCEPT !["github"].has = [m \in {"job", "token"} |-> "null"] ++ @]

\* The contexts of a scenario: secrets exist, vars and inputs only if supplied.
External ==
    LET Known == {"github", "secrets"} \cup (supplied \cap {"vars", "inputs"}) IN
    Server([c \in Known |-> Given(0,
        CASE c = "github" -> Supplied("github", {"sha"})
          [] c = "secrets" -> Supplied("secrets", {"name"})
                              ++ Supplied("GITHUB_TOKEN", {"GITHUB_TOKEN"})
          [] OTHER -> Valued(NamedMembers))])

\* knownMissing: contexts that have all there is.
KnownMissing == {"steps", "needs", "jobs", "inputs", "matrix", "env"}

\* evalNode, of a reference or a call.
Evaluated(cs, reference) ==
    LET context == reference.context
        member == reference.member
        Known(value) == [value |-> value, of |-> cs[context].of]
        Missing == [value |-> "missing", of |-> depth]
    IN  IF context \in StatusFunctions \cup ({"hashFiles"} \cap supplied)
        THEN [value |-> "value", of |-> depth]
        ELSE IF context \notin DOMAIN cs THEN Missing
        ELSE IF member \in DOMAIN cs[context].has THEN Known(cs[context].has[member])
        ELSE IF context \in KnownMissing THEN Known("null") ELSE Missing

\* Settings whose lack of a fixture is kept until a test reads them.
ContainerFields == DOMAIN RenderedContainer
Captured ==
    {"workflowConcurrency", "concurrency", "runsOn", "environment", "timeoutMinutes",
     "defaultsRun", "snapshot", "url"} \cup ContainerFields
\* Settings that are evaluated as on the server.
ServerFieldsButTimeout == {"continueOnError", "runsOn", "environment", "concurrency"}
ServerFields == {"continueOnError", "runsOn", "environment", "concurrency", "timeoutMinutes"}

\* The fields of one place are evaluated and the next one follows.
Evaluate(fields, cs, next) ==
    LET reached == choice.field \in fields /\ choice.at = depth
        found == Evaluated(IF choice.field \in ServerFields THEN Server(cs) ELSE cs,
                           choice.reference)
    IN  /\ answer' = IF reached THEN found ELSE answer
        /\ place' = IF reached /\ choice.field \notin Captured /\ found.value = "missing"
                    THEN "stopped" ELSE next
        /\ UNCHANGED <<choice, supplied>>

FieldInit ==
    /\ supplied \in Supplies
    /\ choice \in {[field |-> field, reference |-> reference, at |-> at] :
                      field \in Fields, at \in 0 .. 1,
                      reference \in UNION {Offered(Declared[f]) : f \in Fields}}
    /\ choice.reference \in Offered(Declared[choice.field])
    /\ choice.field = "inputDefault" => choice.at = 1
    /\ choice.field \in {"with", "secrets"} => choice.at = 0
    /\ place = "authoring"
    /\ depth = 0
    /\ contexts = External
    /\ answer = [value |-> "none", of |-> 0]

\* The author's callback.
Author ==
    /\ place = "authoring"
    /\ place' = IF Throws(choice.field, choice.reference) THEN "threw" ELSE "workflow"
    /\ UNCHANGED <<choice, supplied, depth, contexts, answer>>

EvaluateWorkflow ==
    /\ place = "workflow"
    /\ Evaluate({"workflowConcurrency"}, contexts, "job")
    /\ UNCHANGED <<depth, contexts>>

\* The job's condition, and its matrix if it holds.
EvaluateCondition == \E next \in {"strategy", "result"} :
    /\ place = "job"
    /\ contexts' = [env |-> Given(depth, Nothing),
                    needs |-> Given(depth, Valued(NeedsMembers)),
                    job |-> Given(depth, Valued({"status"}))] ++ contexts
    /\ Evaluate({"when"}, contexts', next)
    /\ UNCHANGED depth
ExpandMatrix ==
    /\ place = "strategy"
    /\ contexts' = [strategy |-> Given(depth, Valued(StrategyMembers)),
                    matrix |-> Given(depth, Valued(NamedMembers))] ++ contexts
    /\ Evaluate({"strategy"}, contexts, IF Calls /\ depth = 0 THEN "call" ELSE "instance")
    /\ UNCHANGED depth

\* A call, and the defaults of inputs that it leaves out.
EvaluateCall ==
    /\ place = "call"
    /\ Evaluate({"concurrency", "with", "secrets"}, contexts, "callee")
    /\ UNCHANGED <<depth, contexts>>
\* What a called workflow gets of its caller: all but the contexts of the
\* caller's job, and inputs and secrets of its own.
CallerContexts == {"env", "needs", "job", "matrix", "runner"}
PassedWithSecrets(inputs, secrets) ==
    [inputs |-> Given(1, Valued(inputs))]
    ++ [c \in DOMAIN contexts \ CallerContexts |-> contexts[c]]
Passed(inputs, secrets) ==
    [inputs |-> Given(1, Valued(inputs)),
     secrets |-> Given(1, Valued(secrets) ++ Supplied("GITHUB_TOKEN", {"GITHUB_TOKEN"}))]
    ++ [c \in DOMAIN contexts \ CallerContexts |-> contexts[c]]
EnterCallee == \E inputs, secrets \in {{}, {"name"}} :
    LET passed == Passed(inputs, secrets)
        default == [c \in DOMAIN passed \cap {"github", "vars", "inputs"} |-> passed[c]]
        reached == choice.field = "inputDefault" /\ inputs = {}
        found == Evaluated(default, choice.reference)
    IN  /\ place = "callee"
        /\ answer' = IF reached THEN found ELSE answer
        /\ place' = IF reached /\ found.value = "missing" THEN "stopped" ELSE "workflow"
        /\ depth' = 1
        /\ contexts' = [Server(passed) EXCEPT !["inputs"].has = Valued(NamedMembers)]
        /\ UNCHANGED <<choice, supplied>>

\* runInstance: the runner's contexts, and the environment of the job.
StartInstance ==
    LET github == Valued({"job"}) ++ Supplied("github", {"sha"})
                  ++ (IF "token" \in supplied \/ "GITHUB_TOKEN" \in DOMAIN contexts["secrets"].has
                      THEN Valued({"token"}) ELSE Nothing)
        started == [github |-> Given(0, github), steps |-> Given(depth, Nothing),
                    runner |-> Given(depth, Supplied("runner", RunnerMembers))] ++ contexts
        runtime == Valued({"status", "services"}) ++ Supplied("jobRuntime", {"check_run_id"})
                   ++ Supplied("containerRuntime", {"container"})
    IN  /\ place = "instance"
        /\ contexts' = [env |-> Given(depth, Valued(NamedMembers)),
                        job |-> Given(depth, runtime)] ++ started
        /\ Evaluate({"workflowEnv", "jobEnv"}, started, "settings")
        /\ UNCHANGED depth

\* A rejected environment ends the job with its settings.
ResolveSettings == \E next \in {"if", "result"} :
    /\ place = "settings"
    /\ Evaluate({"continueOnError", "timeoutMinutes", "runsOn", "environment", "concurrency"}
                \cup ContainerFields, contexts, next)
    /\ UNCHANGED <<depth, contexts>>

\* A step, after one that ran or not; it may be skipped, and tolerated only if
\* it fails.
EvaluateIf == \E next \in {"step", "end"}, earlier \in {{}, StepsMembers} :
    /\ place = "if"
    /\ contexts' = [steps |-> Given(depth, Valued(earlier))] ++ contexts
    /\ Evaluate({"if"}, contexts', next)
    /\ UNCHANGED depth
RunStep == \E failed \in BOOLEAN :
    /\ place = "step"
    /\ Evaluate({"stepEnv", "inputs", "stepWith", "defaultsRun"}
                \cup (IF failed THEN {"stepContinueOnError"} ELSE {}), contexts, "end")
    /\ UNCHANGED <<depth, contexts>>

\* A snapshot is requested by a job that succeeds.
FinishJob == \E succeeds \in BOOLEAN :
    /\ place = "end"
    /\ Evaluate({"url"} \cup (IF succeeds THEN {"snapshot"} ELSE {}), contexts, "outputs")
    /\ UNCHANGED <<depth, contexts>>
EvaluateOutputs ==
    /\ place = "outputs"
    /\ Evaluate({"outputs"}, contexts, "result")
    /\ UNCHANGED <<depth, contexts>>

\* The outputs of the workflow; that of a called one goes back to its caller.
FinishWorkflow ==
    LET own == {"github", "vars", "inputs", "secrets"}
        external == IF depth = 0 THEN External
                    ELSE Server([c \in DOMAIN contexts \cap own |-> contexts[c]])
        cs == [jobs |-> Given(depth, Valued(NeedsMembers))] ++ external
    IN  /\ place = "result"
        /\ Evaluate({"workflowOutputs"}, cs, IF depth = 1 THEN "result" ELSE "done")
        /\ depth' = 0
        /\ UNCHANGED contexts

FieldNext ==
    \/ Author \/ EvaluateWorkflow \/ EvaluateCondition \/ ExpandMatrix
    \/ EvaluateCall \/ EnterCallee \/ StartInstance \/ ResolveSettings
    \/ EvaluateIf \/ RunStep \/ FinishJob \/ EvaluateOutputs \/ FinishWorkflow
FieldSpec == FieldInit /\ [][FieldNext]_fieldVars

-----------------------------------------------------------------------------
(* Properties.                                                              *)

\* Without a fixture a reference may lack its value.  An optional secret that a
\* caller does not pass has none either.
Lacking(reference) ==
    LET context == reference.context
        member == reference.member
    IN  \/ context \in {"vars", "inputs", "runner", "hashFiles"} \ supplied
        \/ context = "github" /\ member = "sha" /\ "github" \notin supplied
        \/ context = "github" /\ member = "token" /\ {"token", "GITHUB_TOKEN"} \cap supplied = {}
        \/ context = "secrets" /\ member = "name"
           /\ (choice.at = 1 \/ "secrets" \notin supplied)
        \/ context = "secrets" /\ member = "GITHUB_TOKEN" /\ member \notin supplied
        \/ context = "job" /\ member = "check_run_id" /\ "jobRuntime" \notin supplied
        \/ context = "job" /\ member = "container" /\ "containerRuntime" \notin supplied

\* What the type of a field's callback offers, its callback gets; and the
\* interpreter knows it where it evaluates the field, or lacks a fixture that
\* the scenario's author can supply.
OfferedReferencesResolve ==
    /\ place # "threw"
    /\ answer.value = "missing" => Lacking(choice.reference)

\* "github.job and github.token are null in server-evaluated fields", and
\* values in the fields of an initialized runner: by the list that the types
\* use, and by the contexts that the interpreter evaluates with.
ServerFieldsSeeNull ==
    choice.reference.context = "github" /\ choice.reference.member \in {"job", "token"}
    /\ answer.value \in {"null", "value"} =>
        (answer.value = "null" <=> Declared[choice.field] \notin RunnerScopes)

\* "Workflow env stays within each workflow": a called workflow sees nothing of
\* its caller's job but the run itself, variables and what the call passes.
CallersStayHidden ==
    choice.at = 1 /\ answer.value = "value" /\ answer.of = 0 =>
        choice.reference.context \in {"github", "vars"}

=============================================================================
