----------------------------- MODULE FieldScopes -----------------------------
(***************************************************************************)
(* What the expressions of a field may refer to.  Three tables of the       *)
(* source speak of it: the types of the builder's methods name the scope    *)
(* that a field's callback gets (src/github_actions/mod.ts, containers.ts); *)
(* the methods themselves name it again when they call the callback; and    *)
(* the catalog lists contexts and functions by scope                        *)
(* (expression_scope.ts).  The types also list the members of contexts      *)
(* (expression.ts).                                                         *)
(***************************************************************************)

\* Tables that have no key in common, as one.
Joined(tables) ==
    [key \in UNION {DOMAIN t : t \in tables} |->
        (CHOOSE t \in tables : key \in DOMAIN t)[key]]

-----------------------------------------------------------------------------
(* The catalog.                                                             *)

JobMatrixContexts == {"github", "needs", "strategy", "matrix", "vars", "inputs"}
StepContexts == JobMatrixContexts \cup {"job", "runner", "env", "secrets", "steps"}

WorkflowScopes ==
    [key \in {"run-name", "concurrency", "on.workflow_call.inputs.<inputs_id>.default",
              "env", "on.workflow_call.outputs.<output_id>.value"} |->
        CASE key = "env" -> {"github", "secrets", "inputs", "vars"}
          [] key = "on.workflow_call.outputs.<output_id>.value" ->
               {"github", "jobs", "vars", "inputs"}
          [] OTHER -> {"github", "inputs", "vars"}]

JobScopes ==
    [key \in {"jobs.<job_id>.concurrency", "jobs.<job_id>.continue-on-error",
              "jobs.<job_id>.environment", "jobs.<job_id>.name", "jobs.<job_id>.runs-on",
              "jobs.<job_id>.timeout-minutes", "jobs.<job_id>.with.<with_id>",
              "jobs.<job_id>.if", "jobs.<job_id>.strategy", "jobs.<job_id>.env",
              "jobs.<job_id>.secrets.<secrets_id>", "jobs.<job_id>.defaults.run",
              "jobs.<job_id>.environment.url", "jobs.<job_id>.snapshot.if",
              "jobs.<job_id>.outputs.<output_id>"} |->
        CASE key \in {"jobs.<job_id>.if", "jobs.<job_id>.strategy"} ->
               {"github", "needs", "vars", "inputs"}
          [] key \in {"jobs.<job_id>.env", "jobs.<job_id>.secrets.<secrets_id>"} ->
               JobMatrixContexts \cup {"secrets"}
          [] key = "jobs.<job_id>.defaults.run" -> JobMatrixContexts \cup {"env"}
          [] key = "jobs.<job_id>.environment.url" -> StepContexts \ {"secrets"}
          [] key = "jobs.<job_id>.snapshot.if" -> {"github"}
          [] key = "jobs.<job_id>.outputs.<output_id>" -> StepContexts
          [] OTHER -> JobMatrixContexts]

ContainerScopes ==
    [key \in {"jobs.<job_id>.container", "jobs.<job_id>.container.image",
              "jobs.<job_id>.services", "jobs.<job_id>.container.credentials",
              "jobs.<job_id>.services.<service_id>.credentials",
              "jobs.<job_id>.container.env.<env_id>",
              "jobs.<job_id>.services.<service_id>.env.<env_id>"} |->
        CASE key \in {"jobs.<job_id>.container.credentials",
                      "jobs.<job_id>.services.<service_id>.credentials"} ->
               JobMatrixContexts \cup {"env", "secrets"}
          [] key \in {"jobs.<job_id>.container.env.<env_id>",
                      "jobs.<job_id>.services.<service_id>.env.<env_id>"} ->
               StepContexts \ {"steps"}
          [] OTHER -> JobMatrixContexts]

StepScopes ==
    [key \in {"jobs.<job_id>.steps.if", "jobs.<job_id>.steps.continue-on-error",
              "jobs.<job_id>.steps.env", "jobs.<job_id>.steps.name",
              "jobs.<job_id>.steps.run", "jobs.<job_id>.steps.timeout-minutes",
              "jobs.<job_id>.steps.with", "jobs.<job_id>.steps.working-directory"} |->
        IF key = "jobs.<job_id>.steps.if" THEN StepContexts \ {"secrets"} ELSE StepContexts]

Contexts == Joined({WorkflowScopes, JobScopes, ContainerScopes, StepScopes})

StatusFunctions == {"always", "cancelled", "success", "failure"}
SpecialFunctions(key) ==
    CASE key = "jobs.<job_id>.if" -> StatusFunctions
      [] key = "jobs.<job_id>.steps.if" -> StatusFunctions \cup {"hashFiles"}
      [] key \in DOMAIN StepScopes \ {"jobs.<job_id>.steps.if"} -> {"hashFiles"}
      [] OTHER -> {}

\* runnerGitHubScopeKeys: where github.job and github.token are strings.
RunnerScopes ==
    {"env", "jobs.<job_id>.env", "jobs.<job_id>.defaults.run",
     "jobs.<job_id>.outputs.<output_id>", "jobs.<job_id>.environment.url",
     "jobs.<job_id>.snapshot.if"}
    \cup DOMAIN ContainerScopes \cup DOMAIN StepScopes

-----------------------------------------------------------------------------
(* The members of contexts.  Where many are alike, one stands for them: sha *)
(* for what a scenario's author tells of a run, check_run_id and os for     *)
(* what the author tells of a job and of a runner, container for a member   *)
(* of job.container, services for that context as a whole.                  *)

GitHubMembers == {"sha", "job", "token"}
NeedsMembers == {"result", "outputs"}
StepsMembers == {"outputs", "outcome", "conclusion"}
StrategyMembers == {"fail-fast", "job-index", "job-total", "max-parallel"}
SecretsMembers == {"name", "GITHUB_TOKEN"}
NamedMembers == {"name"}  \* vars, inputs, env and matrix
JobMembers == {"check_run_id", "status", "container", "services"}
RunnerMembers == {"os"}

Members(context) ==
    CASE context = "github" -> GitHubMembers
      [] context \in {"needs", "jobs"} -> NeedsMembers
      [] context = "steps" -> StepsMembers
      [] context = "strategy" -> StrategyMembers
      [] context = "secrets" -> SecretsMembers
      [] context = "job" -> JobMembers
      [] context = "runner" -> RunnerMembers
      [] OTHER -> NamedMembers

-----------------------------------------------------------------------------
(* What the types of the builder's methods offer a field's callback.        *)

DeclaredWorkflow ==
    [workflowEnv |-> "env", workflowConcurrency |-> "concurrency"]
DeclaredDefault == [inputDefault |-> "on.workflow_call.inputs.<inputs_id>.default"]
DeclaredWorkflowOutputs ==
    [workflowOutputs |-> "on.workflow_call.outputs.<output_id>.value"]
DeclaredValues ==
    [runsOn |-> "jobs.<job_id>.runs-on", environment |-> "jobs.<job_id>.environment",
     url |-> "jobs.<job_id>.environment.url", jobEnv |-> "jobs.<job_id>.env",
     stepEnv |-> "jobs.<job_id>.steps.env"]
DeclaredSettings ==
    [name |-> "jobs.<job_id>.name", defaultsRun |-> "jobs.<job_id>.defaults.run",
     when |-> "jobs.<job_id>.if"]
DeclaredStrategy == [strategy |-> "jobs.<job_id>.strategy"]
DeclaredControls ==
    [continueOnError |-> "jobs.<job_id>.continue-on-error",
     concurrency |-> "jobs.<job_id>.concurrency",
     timeoutMinutes |-> "jobs.<job_id>.timeout-minutes"]
DeclaredSnapshot == [snapshot |-> "jobs.<job_id>.snapshot.if"]
DeclaredOutputs == [outputs |-> "jobs.<job_id>.outputs.<output_id>"]
DeclaredContainer ==
    [container |-> "jobs.<job_id>.container", image |-> "jobs.<job_id>.container.image",
     credentials |-> "jobs.<job_id>.container.credentials",
     containerEnv |-> "jobs.<job_id>.container.env.<env_id>",
     ports |-> "jobs.<job_id>.container"]
DeclaredService ==
    [serviceImage |-> "jobs.<job_id>.services",
     serviceCredentials |-> "jobs.<job_id>.services.<service_id>.credentials",
     serviceEnv |-> "jobs.<job_id>.services.<service_id>.env.<env_id>",
     servicePorts |-> "jobs.<job_id>.services"]
DeclaredCall ==
    [with |-> "jobs.<job_id>.with.<with_id>",
     secrets |-> "jobs.<job_id>.secrets.<secrets_id>"]
DeclaredStep ==
    [if |-> "jobs.<job_id>.steps.if",
     stepContinueOnError |-> "jobs.<job_id>.steps.continue-on-error",
     stepTimeoutMinutes |-> "jobs.<job_id>.steps.timeout-minutes"]
DeclaredTask == [inputs |-> "jobs.<job_id>.steps.env"]
DeclaredUses == [stepWith |-> "jobs.<job_id>.steps.with"]

Declared == Joined({
    DeclaredWorkflow, DeclaredDefault, DeclaredWorkflowOutputs, DeclaredValues,
    DeclaredSettings, DeclaredStrategy, DeclaredControls, DeclaredSnapshot, DeclaredOutputs,
    DeclaredContainer, DeclaredService, DeclaredCall, DeclaredStep, DeclaredTask,
    DeclaredUses})
Fields == DOMAIN Declared

-----------------------------------------------------------------------------
(* What the methods evaluate the callback with.                             *)

\* With one scope for a container and all of its fields.
RenderedContainerAtRoot ==
    Joined({[field \in DOMAIN DeclaredContainer |-> "jobs.<job_id>.container"],
            [field \in DOMAIN DeclaredService |-> "jobs.<job_id>.services"]})
\* renderContainer: the declaration itself, and each of its fields.
RenderedContainer ==
    LET Key(field, service) ==
            CASE field = "image" /\ ~service -> "jobs.<job_id>.container.image"
              [] field = "credentials" ->
                   IF service THEN "jobs.<job_id>.services.<service_id>.credentials"
                              ELSE "jobs.<job_id>.container.credentials"
              [] field = "env" ->
                   IF service THEN "jobs.<job_id>.services.<service_id>.env.<env_id>"
                              ELSE "jobs.<job_id>.container.env.<env_id>"
              [] OTHER -> IF service THEN "jobs.<job_id>.services" ELSE "jobs.<job_id>.container"
    IN  [container |-> "jobs.<job_id>.container", image |-> Key("image", FALSE),
         credentials |-> Key("credentials", FALSE), containerEnv |-> Key("env", FALSE),
         ports |-> Key("ports", FALSE), serviceImage |-> Key("image", TRUE),
         serviceCredentials |-> Key("credentials", TRUE), serviceEnv |-> Key("env", TRUE),
         servicePorts |-> Key("ports", TRUE)]
RenderedWorkflow ==
    [workflowEnv |-> "env", workflowConcurrency |-> "concurrency"]
RenderedDefault == [inputDefault |-> "on.workflow_call.inputs.<inputs_id>.default"]
RenderedWorkflowOutputs ==
    [workflowOutputs |-> "on.workflow_call.outputs.<output_id>.value"]
RenderedValues ==
    [runsOn |-> "jobs.<job_id>.runs-on", environment |-> "jobs.<job_id>.environment",
     url |-> "jobs.<job_id>.environment.url", concurrency |-> "jobs.<job_id>.concurrency",
     strategy |-> "jobs.<job_id>.strategy", snapshot |-> "jobs.<job_id>.snapshot.if"]
RenderedSettings ==
    [name |-> "jobs.<job_id>.name", jobEnv |-> "jobs.<job_id>.env",
     defaultsRun |-> "jobs.<job_id>.defaults.run", when |-> "jobs.<job_id>.if",
     continueOnError |-> "jobs.<job_id>.continue-on-error",
     timeoutMinutes |-> "jobs.<job_id>.timeout-minutes"]
RenderedWith == [stepWith |-> "jobs.<job_id>.steps.with"]
RenderedOutputs == [outputs |-> "jobs.<job_id>.outputs.<output_id>"]
RenderedCall ==
    [with |-> "jobs.<job_id>.with.<with_id>",
     secrets |-> "jobs.<job_id>.secrets.<secrets_id>"]
RenderedStep ==
    [if |-> "jobs.<job_id>.steps.if", stepEnv |-> "jobs.<job_id>.steps.env",
     stepContinueOnError |-> "jobs.<job_id>.steps.continue-on-error",
     stepTimeoutMinutes |-> "jobs.<job_id>.steps.timeout-minutes"]
RenderedTask == [inputs |-> "jobs.<job_id>.steps.env"]

Rendered == Joined({
    RenderedWorkflow, RenderedDefault, RenderedWorkflowOutputs, RenderedValues,
    RenderedSettings, RenderedWith, RenderedOutputs, RenderedContainer, RenderedCall,
    RenderedStep, RenderedTask})

\* References that a callback may use: members of contexts, and calls.
Reference(context, member) == [context |-> context, member |-> member]
Offered(key) ==
    (UNION {{Reference(context, member) : member \in Members(context)} :
               context \in Contexts[key]})
    \cup {Reference(function, "()") : function \in SpecialFunctions(key)}

\* scope, and the callback: what the scope lacks is undefined, and using it throws.
Throws(field, reference) ==
    IF reference.member = "()" THEN reference.context \notin SpecialFunctions(Rendered[field])
    ELSE reference.context \notin Contexts[Rendered[field]]

=============================================================================
