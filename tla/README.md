# Tsugiori: a TLA+ model

Tsugiori lets an author write GitHub Actions workflows as typed TypeScript.  It
generates the YAML, compiles the tasks that the generated jobs call, delivers
the compiled runtime through the Actions cache, and runs scenarios of the
workflows without GitHub.  This directory models the parts of it where
concurrency, failure and order decide whether the program is right.  `src/`
below is the root of the repository.

## The system

| Part | State | Operations | Talks to |
| --- | --- | --- | --- |
| Task-artifact store (`src/task-runtime`) | `runtimes/<key>`, recovery directories, `cache/artifacts/<key>`, rejection markers | `task restore`, `task prepare [--rebuild]` | the file system, shared with other invocations; the Deno compiler |
| Preparation bridge (`actions/task-prepare`) | transport directory, exit statuses, the job's output | restore, Deno selection, prepare | the Actions cache before and after it; the store's two commands |
| Scenario interpreter (`src/testing/run.ts`) | contexts, step results, pending background work, job results, outputs | one step, join, matrix instance, call, merge | fixtures supplied by a test; the expression evaluator |
| Scenario builder (`src/testing/mod.ts`) | rules and fixtures of a test | add a rule | the interpreter, once |
| Expressions (`src/github_actions/expression*.ts`, `src/testing/expression.ts`) | immutable trees, with the presence they prove | build, render; parse, evaluate | the builder; the interpreter |
| Typed builder (`src/github_actions/mod.ts`) | immutable states of workflows and jobs, each with its references | append a step, wait, cancel, parallel, outputs, needs, call, every setting | the author's callbacks, which keep and mix states |
| Matrices, permissions, cache modes (`src/github_actions`) | none | expand, compare, inherit | validation, the interpreter |
| Lowering, validation, emitter (`src/compiler`) | none that outlives a call | built jobs and workflows to generated ones, to YAML | the store (source keys), the interpreter (the lowered jobs) |
| Task contracts and dispatch (`src/task`, `src/runner/main.ts`) | what a task has set | run one task: inputs, outputs | the job's environment and output file |
| Project files (`src/init`, `src/runner/actions.ts`, `src/compiler`) | `deno.json`, `workflows.ts`, the generated files | init, actions add, generate, check | the file system, shared with editors and other commands |
| Invocation diagnostics (`src/task-runtime/diagnostics.ts`) | at most 32 records | finish | the file system |
| Type service (`services/type-service`) | a shared HTTP cache, a diagnostic log per isolate | resolve a reference, serve types | GitHub's API |
| Release (`scripts/release`) | a published package, a deployed service | build, publish or verify, deploy | JSR, Cloudflare |

What is hard here:

* Invocations of the store take no lock.  They race with `rename`, copy
  directories that others replace, die at any point, and find files damaged.
  So do the commands that write a project's own files.
* The bridge decides by exit status alone.  Its jobs share one remote cache
  whose entries are never overwritten, while the source may change under them.
* An author can hand any earlier state or reference of a job or a workflow to
  any later call, and generated steps and ids must fit whatever the author
  chose.
* Background steps, parallel groups and matrix instances let results arrive in
  an order the author did not write down.
* Much is written down two or more times and must agree: the types of the
  builder and what it does, expressions and their text, scopes of fields and
  the contexts a scenario has there, contracts on both sides of a task's output.
* The service and its releases meet a remote cache, a registry and a host that
  may fail after they did what they were asked.

`PROJECT.json` lists the hazards with their lines.

## Modules

| Module | Models | Its state and actions |
| --- | --- | --- |
| `PublishedRuntimes` | the promise of the store | a path gets its content once; a reader is told of it afterwards |
| `ArtifactStore` | `src/task-runtime/prepare.ts`, `cache.ts` | the three shared directories, and for each invocation its next step `pc` and its locals `inv`; one action for every call that touches a shared file |
| `ArtifactStoreProofs` | | theorems about it |
| `PrepareBridge` | `actions/task-prepare/prepare.sh`, the job around it | `remote` (the Actions cache), `stores` and `runtimes` (a build cache and the published runtimes of each runner), and for each job what it has so far |
| `PrepareBridgeProofs` | | theorems about it and about `TaskFlow` |
| `ScenarioJob` | `runInstance` of `src/testing/run.ts` | one job's steps: joined results, pending work, environment |
| `ScenarioJobProofs` | | theorems about it |
| `ScenarioWorkflow` | `interpretScenario` of `src/testing/run.ts` | jobs in order, their inherited status, instances and outputs |
| `ScenarioWorkflowProofs` | | theorems about it and about `FieldEvaluation` |
| `FieldScopes` | scopes of fields: `expression_scope.ts`, `expression.ts`, the types and methods of `mod.ts` and `containers.ts` | no state: tables of the source, side by side |
| `FieldEvaluation` | contexts of fields: `src/testing/run.ts`, `contexts.ts` | one field of a workflow or of one that it calls, and the contexts the interpreter has there; one action for each place where it evaluates fields |
| `Expressions` | `src/github_actions/expression.ts`, conditions and scalars of `src/testing` | no state: values, trees and the presence they prove, the clauses by which a tree is evaluated and typed, conditions |
| `ExpressionText` | `renderNode`, `src/testing/expression.ts`, `expressionResults` | no state: the text of trees, the parser, and the recursion of the evaluator and of result types |
| `TaskFlow` | `taskStep` and `task` of `mod.ts`, `src/task/mod.ts`, `dispatchTask` | a condition under construction; a producing task's run and its consumer's |
| `TaskConditions` | `TaskFlow` with the text of `ExpressionText` | |
| `Lowering` | `lowerProject` for one job, `inspectSteps` of validation | no state: what a job is lowered to, and what validation accepts |
| `JobAuthoring` | the job's facades in `src/github_actions/mod.ts` | every state a call has returned, the groups whose callback runs; one action per kind of call |
| `JobAuthoringProofs` | | theorems about it, `Lowering`, `WorkflowAuthoring` and `Matrix` |
| `WorkflowAuthoring` | the workflow's facades; `lowerProject` and validation of needs and calls; cache modes and tokens of called jobs | every state of every workflow a call has returned |
| `Matrix` | `src/github_actions/matrix.ts` | the matrix that is expanded |
| `ProjectFiles` | `src/init/project.ts`, `src/runner/actions.ts` | the directory's files with identity and text, the steps of each command, an editor |
| `Generation` | `src/compiler/generator.ts`, `write.ts`, `check.ts`, `action_payload.ts` | the source's version, the outputs, the steps of generate and check |
| `ProjectFilesProofs` | | theorems about `ProjectFiles` and `Generation` |
| `DiagnosticRecords` | `src/task-runtime/diagnostics.ts` | the files of the runs, and what each run has listed, read and to remove |
| `DiagnosticRecordsProofs` | | theorems about it |
| `Release` | `scripts/release` | the registry, the deployed Worker, the stage of each release run |
| `TypeService` | `services/type-service` | every ref's commits over time, the shared cache, requests, an isolate and its log |
| `TypeServiceProofs` | | theorems about `Release` and `TypeService` |
| `MC...` | | the instances that TLC checks |

How they fit together:

* `PrepareBridge` takes the commands that `ArtifactStore` has the insides of as
  one step each (two where the checkout may change between them).
* `ScenarioWorkflow` takes an instance of a job, whose insides are
  `ScenarioJob`, as one step with a free result; `FieldEvaluation` follows one
  field through both, whatever the results are.
* `JobAuthoring` extends `Lowering` and lowers every job it builds;
  `TaskFlow` extends `Expressions` and builds conditions with it, whatever their
  text and type is and means (`Rendered`, `Evaluated`, `ResultsOf`); `TaskConditions` has them rendered,
  parsed and evaluated by `ExpressionText`; `FieldEvaluation` extends
  `FieldScopes` and evaluates what that offers.
* `TypeService` extends `Release`: the Worker that answers is the one the last
  release deployed, with its bindings.
* `ArtifactStore` implements `PublishedRuntimes` (`KeepsPromise`).
* Where one run has several parts (`part` in `MCProjectFiles`,
  `MCJobAuthoring`, `MCScenarioWorkflow`), they share no state and TLC checks
  one beside the other: a behaviour belongs to one part for good.

### ArtifactStore

A directory is a record of a manifest's checksum and a binary's content, so
that it is sound when they agree and the content is one the compiler produced;
`Junk` is all other content.  Copies are made one file at a time (`CopyIn`)
and a store evicts and publishes in two steps (`StoreEvict`, `StorePublish`),
as the code does.  Steps that only touch what an invocation owns (its staging
directory, its transport directory) are one action with the step they precede.
`Throw` goes where the code's `catch` clauses go (`Handler`).  `Fault` makes
any call throw, `Crash` ends a process anywhere, `DamageRuntime` and
`DamageCache` decay a file.  Two compiler runs may produce different binaries,
as the code does not assume otherwise.  Only one artifact key is modelled: the
code never mixes two, since every path contains the key and a manifest of
another key is invalid, which is `Junk`.

* `store_safety`: two invocations, two binaries, failing calls, one damaged
  file, two recovery directories.  Every race of the code is between two of
  them: evict against copy, look against rename, rename against rename, mark
  against look.  What a third could add is to meet what two others left behind;
  the proofs, which have no bound, cover it.
* `store_progress`: with weak fairness of a started process (`FairSpec`) and no
  failing calls, every command ends.  The fairness says that the operating
  system schedules a process that runs; nothing restarts a crashed one.
* `store_unreadable`: a documented promise that fails, see below.

### PrepareBridge

A version stands for the tracked source and its key.  An artifact has the
identity embedded in it and the version its code was compiled from, which differ
when the source changes between the plan and the compilation (`raced`).  The
remote cache is best effort: nothing or something damaged may be delivered, an
entry may decay or go, and the post step neither overwrites an entry nor saves
in a job that did not succeed.  A job in `Faulty` may meet failing downloads,
builds and deliveries, and cancellation.  On its runner a job takes the runtime
that is published at its key already, if there is a usable one; otherwise it
publishes its own, there or, where that path is taken by what is damaged or
rejected, beside it (`Materialize`).  A preparation that fails leaves what it has
built in the build cache and may leave it in the transport directory too.  Only
the runtime at the key itself is kept in `runtimes`: the directories beside it
have names nobody looks for again.

* `bridge`: two jobs, on one of two runners or one on each, one of them faulty,
  two versions, one edit, one decay.  The safety properties hold of both jobs; the job that meets no
  faults and reaches the bridge ends with a runtime or has drifted
  (`PreparesUnlessDrifted`).  Fairness: a runner carries on with a job that it
  started; nothing is assumed of edits, decay, faults or cancellation.  A second
  job is what saves, or fails to save, an entry under the first one.

### ScenarioJob and ScenarioWorkflow

The interpreter is sequential; what varies is the program and the fixtures.

* `scenario_job`: `MCPrograms` is every legal sequence of up to three steps from
  seven (a tolerated foreground step, an `always()` cleanup, a background step,
  a parallel group, wait, wait-all, cancel) and five longer ones, for selective
  joins, a group after background work and conflicting writers.  One variable
  with two values tells writers apart.  `Legal` is what validation accepts
  (`inspectSteps`).
* `scenario_workflow`, part "workflow": `MCFlows` has chains, a fork and a join
  of three jobs with conditions below a job that may fail, matrices of up to two
  rows, and calls.  Two rows are enough for two writers, or a value and an empty
  one, to meet; three jobs, for a job between an ancestor and a descendant.
  `Ancestors` is the least set closed under needs, by definition; what the code
  does, one job at a time, is `Inherited`.  An instance may lack names
  (`withheld`): those that the runner withholds from a job's outputs, and those
  that the fixture of an external call leaves out.

A skipped member of a parallel group is put among the step results at once
(src/src/testing/run.ts:938), though docs/ARCHITECTURE.md:269 says that members
see the context before the group.  `ScenarioJob` does as the code does.  Only a
condition that reads a sibling's context could tell, and conditions are free
here, so no property covers it.

### FieldScopes and FieldEvaluation

What a field's expression may refer to is in the source four times: in the types
of callbacks (`Declared...`), in the methods that call them (`Rendered...`), in
the catalog of scopes (`Contexts`, `SpecialFunctions`), and in the contexts that
a scenario has when it evaluates the field.  The model has all four, for every
field that takes expressions.  Where members of a context are alike one stands
for them, as the module says: `sha` for all that a fixture gives of
`github`, `os` for the runner's, and so on.  An answer remembers which workflow
its context is of.

* `scenario_workflow`, part "fields": every field, every reference its type
  offers, in the workflow or in the one it calls, with all fixtures, none, or
  all but one.  Each workflow has one job, since what other jobs add (`needs`,
  `jobs`) is there for one job as well, and the called workflow calls none, since
  a call below does to its contexts what the first call did.  A scenario
  evaluates neither `name` nor a step's `timeout-minutes`; for those only the
  callback is checked.

An optional secret that a caller does not pass is a missing fixture in the
called workflow, though GitHub has an empty string there; `Lacking` names it.  A
comment in `expression.ts` has `strategy.max-parallel` available only if it is
set, and the interpreter supplies a default (src/src/testing/run.ts:1423): the
model follows the interpreter.

### Expressions and TaskFlow

Text is a sequence of tokens, a reference is one token, and the literals are
enough to have every kind of value, truthy and falsy, and strings that are
numbers and are not.  Expressions are built one operator at a time, so that TLC
has each of them as a state: rendering, parsing, result types and proofs of
presence are checked on all of them (`RenderedMeansBuilt`,
`StringInputsAreStrings`), and so is the text of conditions that `when` combines.
The results of `case` are beyond the table of result types (`Opaque`).

The producing task then runs or does not, sets outputs and fails or not; its
consumer, in the same job or the next, is dispatched with what is in the output
file.  The producing job may have failed before the task's turn or fail after it;
its own `continueOnError` (src/src/github_actions/mod.ts:7805) makes a success of
that for a job that needs it (src/src/testing/run.ts:1148, `tolerated`), and the
runner may withhold outputs from other jobs (`withheld`).  `Required` and `Optional` are what the builder tells the dispatcher,
`TypedRequired` and `Nullable` what its types tell the author.

* `task_flow`: three calls to build and use conditions, two operators, two sets.
  Two operators are enough for every pair of levels to nest on either side.
  A condition that asks for a status runs the task after a failure, and then an
  input may well be absent: `GuardedTasksGetTheirInputs` excepts it.  It has two
  more exceptions, `HiddenAbsence`, for a consumer in another job.  If the
  producing job tolerates its failure, or the output is withheld, the consumer
  runs though the output is not there, and since neither makes the reference
  optional (src/src/github_actions/mod.ts:7950-7953 looks at the task's own `if`
  and `continueOnError`, and so do the types), it fails with "is absent"
  (src/src/runner/main.ts:449).  An author can prevent it with a condition on the
  output's presence: the exceptions end where such a condition proves it.  The run
  has producers with each kind of `continueOnError`, of their own and of their
  job, and with either exception taken out TLC finds the property violated.
* `task_flow_omitted`: a documented promise that fails, see below.

### JobAuthoring and Lowering

Each call of the builder returns a new state and every state stays usable, so
the model keeps all of them and lets any call take any: a reference from one
branch, a child of another group, a state with outputs.  Two states hold the
same reference object when their steps agree up to the step it names (`UpTo`),
which stands for the identity the code compares.  A call that throws is a call
that is not enabled.  The types of the builder forbid some of these calls, and
the properties hold without them.  An action step is a run step here, and a
task becomes a run step that calls its entrypoint.

* `job_authoring`, part "steps": all sequences of four calls that return a
  state, one group of up to two children, two step shapes that a group may take,
  one background run and one background task, and three cache setups: the
  default, none, and one whose id the preparation step would take.  `prepare1`
  and `task1` are ids that generated names begin with, so that both collisions
  happen.  The code counts names up without end; there are as many here as four
  calls of two tasks each may need beside the author's own (`NamesNeverRunOut`).  Four calls reach a background step, a group of two children beside it
  and the group's end, or a background step, another, and two controls over
  them.

### WorkflowAuthoring and Matrix

A call keeps the state of its callee that it was given, but a scenario, like
GitHub, runs what is at the callee's path; needs take references of any state of
any workflow.  The model builds all of these and asks of every project that
generation accepts whether it can run and what its jobs may do
(`AcceptedProjectsRun`, `GrantsStayWithinCallers`).  `Components` is the search
of `validateDependencyCycles`, with a function of the depth for its recursion,
and the property counts loops by definition.  `Visits` has level by level what
the code's recursion over calls accepts, and `Runs` all that may run below a
caller, so that one state of a scenario has every chain of calls in it.  A
`uses` string need not be the path of the callee, on purpose
(tests/reusable_workflow_test.ts:230).

* part "workflows" of `job_authoring`: two workflows with jobs that need any
  others; calls between two, one of them begun twice with other inputs; a chain
  of four, one more than `MaxNesting`; and three in a chain with cache modes and
  tokens at each level.  `MaxNesting` 3 and `MaxReachable` 2 stand for 10 and 50:
  each is a comparison with a counter, and the chains here reach both.
* part "matrix": up to two axes with two values, one entry to exclude and two to
  include, a limit of four rows for 256.  Two included entries are enough for one
  to extend what the other did, or to be taken for a row.  An axis may have a value
  twice, and then has two rows for it: the property counts choices of positions,
  not of values.  Keys differ in more than case; the form of entries and dynamic
  axes are left out.

### ProjectFiles and Generation

A file has an identity, which stands for device and inode and is never reused,
and a text, of which the model keeps the mappings of `imports`, the user's
edits, and whether it is whole: init creates its files and then writes them.
One action is one call on a shared file.  The temporary file of `actions add`
is its own and part of the step that reads the configuration again.  An editor
writes into a file (`EditInPlace`) or renames a new one over it (`Replace`).
Any call may fail and any command may die.  Three fields of a command are
history: what it created, whether a call failed that the cleanup depends on
(`slipped`), and whether the file it is about to replace or remove was changed
after it looked for the last time (`raced`).  The properties name these two
exceptions, for which the code has no remedy: `OthersWorkStays` allows a change
to be lost only if it was made between the last look and the rename or removal.
(src/src/init.ts:22 says that a failed init cleans up only files that it
created; init compares the identity of a name and then removes the name, at
project.ts:114.)

In `Generation` a run reads the source three times, and its outputs are replaced
or compared one at a time.  A version of the source is a number; versions may
describe the same YAML under another key, as an edit of a task's body does.
`calm` is history: nobody else changed the source or an output since the run
loaded the project.

* `project_files`, part "files": three commands, one edit, one alias and two
  URLs, in an empty directory or one with a single file.  Two commands race and
  the third, or the editor, meets what they left behind; two aliases would only
  make fewer conflicts.
* part "generation": two runs, an output of each kind, one edit, any outputs
  there at first.  Three runs could mix no more than two do; a later run finds
  any mixture, since a run may end anywhere.

### DiagnosticRecords

A record is named after its run.  Its file is absent, torn while it is written
(and for good when the writer dies), whole, or removed.  A listing of the
directory holds all files of that moment and any number of those that appear
while it lasts.  Files that cannot be parsed are passed over.  Of a removal that
fails only the case is modelled that another run was faster.  Two records that
the comparison of the code does not tell apart come in any order, as the
directory returns them in any.  Times are free: clocks may stand still or step
back.

* `diagnostic_records`: three runs and a limit of one, so that two may remove
  each other's records or the third's; the proof covers every other number.

### Release and TypeService

A release run goes through stages, each of which may fail, with or without its
effect, and is started again.  The registry keeps the first files it gets for a
version.  Archives of two commits differ in the commit stamped into them.  The
registry and the host are external; they are modelled by what the scripts
require of them.

A request has a canonical URL, which is its cache key; what it asks GitHub, and
when, is remembered in its answer (`asked`, `stored`, history).  Refs move with
the clock.  An isolate keeps its bindings when a new Worker is deployed, and may
be torn down at any time with its log.

* `released_service`: two release runs over two versions and commits with two
  faults and one request after them; three requests of which two are in flight,
  a tick and no fault; two requests, two ticks and a fault.  Capacity 2 and three
  requests let the log evict a success, a failure, and the newest record.  A
  redirect lives for one tick and a module for three, longer than the clock runs:
  entries that leave earlier than they must only cost a request.

## Where code and documentation disagree

* `store_unreadable`: docs/ARCHITECTURE.md:460-462 promises that a runtime with
  the failed binary's checksum is not reused.  If the failed binary cannot be
  read its checksum is `unknown`; then a concurrent invocation that publishes
  the same binary after this one looked is accepted as the winner.
* `task_flow_omitted`: docs/ARCHITECTURE.md:154-156 makes outputs of conditional
  steps optional for consumers, and so do the types.  With an explicit
  `continueOnError: false` the builder tells the dispatcher that every output is
  required (src/src/github_actions/mod.ts:7950), and a consumer whose input may
  be null fails when the step was skipped.

## What is proved

`ArtifactStoreProofs` proves for every set of processes and binaries and for
every bound:

* `TypeCorrect`, by one lemma per action.
* `ReturnedSound` and `RejectionHolds`, from one inductive invariant.  They are
  not inductive as they stand: an invocation returns long after it validated.
  The invariant adds what each step knows of its source (after validation, a
  delivered, restored or built copy is sound), that a published path holds a
  sound directory or a damaged one, and that no marker an invocation must
  respect has gone.  The proof has one lemma for each action, one for the
  processes an action leaves alone, and one that says that paths and markers
  only grow.
* `PublishedForever` and `Refinement`, from the same invariant: each step is a
  publication, a report, the end of one, or a stutter of `PublishedRuntimes`.
* `BuildsFailOnlyToWinners`, from `WinnerInv`: recovery names are drawn once, and
  a path that is drawn is free for the one invocation that drew it, so that only
  `runtimes/<key>` can have another winner; and what is unusable stays unusable
  (`UnusableStays`), long after the rename that failed.

`PrepareBridgeProofs` proves, for any number of jobs, runners and versions:

* `EntriesMatch`: an entry is saved under a key by a job that took that key when
  it began.  The invariant says of everything that a job has got hold of, in
  its transport directory before it is prepared and as its runtime after, that
  it is of the job's key and matches its code, and the same of the build caches
  and the runtimes published on the runners; the exception (`raced`) only grows.
* `TasksMatch` and `DriftIsTerminal`, from the same invariant, which has what a
  job knows at each step from the checkout it compared last.

`ScenarioJobProofs` proves, for programs of any length that validation accepts:

* `NoResultLost`, `NothingEarly` and `LastWritesStand`.  What is pending has its
  place of publication ahead and what is published has it behind
  (`StillHeld`, `WasDue`); a step that is neither was not reached
  (`ResultsPassed`); and what is held back is what the step wrote
  (`WritesKept`).  `Publish` takes the first place where a later step may join,
  so the lemmas on top (`PublishedFacts`, `NotDue`, `PassedPlace`) say of the
  least such place that it is neither before nor after what the interpreter does.

`ScenarioWorkflowProofs` proves, for any number of jobs and instances:

* `StatusOfAll`.  A job asks for the status of the jobs it needs, and the property
  is about all that these need in turn.  The invariant adds that every ancestor
  of a job that has a status has a result (`AncestorsDone`), which no later step
  changes (`StatusStays`); `AncestorsStep` unfolds the definition once.
* `LastValues`: what the property says of all instances holds of every prefix of
  them that is merged (`MergedSoFar`), in the order in which they complete.  That
  an order names every instance follows from its being injective on a finite set
  (`OrdersReach`).
* `FailuresKept`, from what a job's result tells of its instances
  (`ResultsReflect`).
* `OfferedResolve`, `ServerSeesNull` and `CallersHidden`, about `FieldEvaluation`,
  for every field and any set of fixtures.  `FieldInv` says for each place of the
  interpreter which contexts it reaches there (`Scope`), that they have all
  members but for want of a fixture (`Complete`), that those of a called workflow
  are its own (`Hidden`), and whether `github` is the server's or a runner's
  (`Nulls`, `Runs`).  That this fits the types is `FieldsOffer`, from the tables of
  scopes, and that no callback throws is `RenderedIsDeclared`, field by field.
  `ReadyIsRight` says once what an answer is where the contexts fit the field, and
  each step then has only to show that they do.

`PrepareBridgeProofs` also proves about `TaskFlow`, for any producers, consumers
and conditions and any number of operators and calls:

* `ReceivedAsSet`, from `WireInv`: what is on the wire for an output is what was
  last set, in the contract of its producer (`Written`), which the builder made
  sure is the one it is read by, or nothing if the runner withholds it.
* `GuardedGetInputs`.  A producer that ran and did not fail has set what it must
  (`Kept`), and a condition that proves a reference present is true only where
  it is there (`ConditionsInv`, one operator and one `when` at a time).  The
  property has three exceptions: conditions that ask for a status, and, for a
  consumer in another job whose conditions do not prove the output present, a
  failure that the producing job tolerates and an output that is withheld
  (`HiddenAbsence`).  The hypothesis `FalseOnlyWhereRequired` is a fourth: it
  leaves out the producers of the finding `task_flow_omitted`.
* `StringInputs`: the value of a tree is within the table's entry for it
  (`Typed`, `Within`), one operator at a time (`AndIsWithin`, `OrIsWithin`,
  `BinaryIsTyped`), unless the table does not know the type of one of its calls.

What the last two need of rendering, parsing and evaluation are hypotheses, about
trees and texts that contain the author's and are closed under what the builder
does: `EvaluatedInParts`, that the text of a tree is evaluated by the clause of its
operator (`EvalNode`) from the texts of its operands, and combined conditions as a
conjunction; and `TypedInParts`, that the table of types goes by such clauses
(`ResultsNode`).  `TypedInParts` is how `ExpressionText` defines the table, and
`EvaluatedInParts` follows from how it defines `Eval` for texts that are parsed to
the tree they were rendered from, and combined ones to the conjunction of what they
combine: that is `RenderedMeansBuilt`, which TLC checks.

`JobAuthoringProofs` proves, for any number of calls on any states, and groups in
any states:

* `OutputsHidden`.  It says of each state alone that its references agree with
  its steps (`Hidden`) and that validation accepts these (`Sound`), whatever
  state a call was given; the lemma `Adding` about one more step is all that the
  calls have in common, and `GroupSound` joins the children of a group.
* `AuthoredAccepted`, `PreparedOnceFirst` and `EntrypointsReached`, about the job
  that a state's steps are lowered to with any setup.  The invariant adds to
  `Sound` that ids are those the author wrote (`WrittenInv`), so that the names
  that are left suffice (`NamesNeverRunOut`).  `Follows` says after how many
  steps what `lowerSteps` has emitted, how many tasks it has called and whether
  it has prepared; that is carried from step to step, in a group and outside.
  `LoweredAs` has the result: the image of each step at its place, one further
  once the job is prepared (`Places`).  Validation accepts it because it accepts
  the authored steps, which the images embed in order (`AcceptedEmbedded`).

About `WorkflowAuthoring`, for any library of workflows and any number of calls,
with `WorkflowsInv`, by which every state is a workflow whose jobs have different
ids and settings of their types:

* `GrantsWithinCallers`: `Granted`, of every run at any depth of calls, says that
  validation accepted its workflow under the mode of its caller, that this mode is
  within each explicit one above it, and that no token to write is left after a
  restriction; and `GrantedJob` that each job of such a run keeps within it.
* `AcceptedRun`.  Of the jobs of a loop take those with the fewest levels of calls
  left (`NoLoop`): none of them calls into the loop, as a callee has fewer
  (`CalleeAccepted`), so that they would wait by needs alone, in one workflow.
  There the search finds them.  Its invariant (`Consistent`, `Searched`) has the
  indices grow along the stack, every job that was searched on the stack or in a
  component, and the jobs in components `Settled` as long as each component is one
  job: they need only each other, and no set of them waits for itself.

About `Matrix`, for any axes, exclusions and inclusions:

* `MatrixFollows`.  The rows and the selections of the axes correspond one to one,
  after each axis and each exclusion (`Lists`), and `Progress` says after each
  inclusion which rows have got which values and which entries stand alone; so
  the rows at the end are those of the definition, as many and each once.

`ProjectFilesProofs` proves, for any number of commands in a directory and any
edits, failures and deaths:

* `AllOrNothing` and `WorkStays`.  Between its look at a name and the removal of
  it, init depends on nobody else having removed its file.  The invariant says
  that no two inits hold a name, that what one holds stays, and that whatever it
  has made and is still there is what it has yet to remove, unless a call
  slipped.
* `VerdictsHold`, about `Generation`, for outputs in any order: a run that nothing
  has disturbed knows that every output before the one it is at is as it said
  (`Aware`), and whether one of them was stale.

`DiagnosticRecordsProofs` proves `TypeCorrect` and, for any number of runs and
any limit:

* `BestStay`.  `BestRecordsStay` is not inductive: a run removes what it chose
  earlier, from what it read earlier still.  The invariant adds that all
  that a run has read was written, and that whatever it has still to remove is
  outranked by as many written records as the limit (`Enough`).  This stays true
  because written records only become more (`EnoughStays`), and is true at first
  because of the sort (`BeyondIsEnough`).
* `WithinLimit`.  The runs that have listed the directory are ranked by when they
  did (`Ranked`).  Whoever lists later sees, or has yet to read, all whole records
  of those before it, and leaves no more than the limit of them; so the last to
  list among those that are done leaves no more of all of theirs (`LastSawAll`).

`TypeCorrect` of `DiagnosticRecords` says that times, files and what the runs
have read stay in their types, on which the others rest; no run checks it.

`TypeServiceProofs` proves about `TypeService`, and so about the releases
beneath it, for any number of runs, requests, versions, commits and refs:

* `DeployedAndPublished`, from `ReleaseInv`.  What is deployed depends on what
  was verified steps before, while other runs publish.  The invariant adds that
  a run past its verification has found its own commit in the registry, where
  nothing that has files ever changes (`FoundStays`), and that one that uploads
  has all its secrets.
* `ServedTypesMatch` and `RedirectsWithinLifetime`, from `ServiceInv`: what the
  cache holds for a URL, and what a request has retrieved but not yet stored,
  fits the URL and the time at which it was asked for, and no redirect in the
  cache has reached the end of its lifetime.  Both speak of the moment an
  answer is given; the invariant carries them from retrieval over the cache to
  it.  Time is appended and never changed (`FreshStays`), and a step changes one
  request at a time (`RequestKeeps`).
* `FailuresStay`, from `LogInv`: every record kept has a place of its own among
  all that were made, in the same order, and a failure that was dropped has as
  many later ones as the log has room for.

The proofs assume the constants' named assumptions, which TLC evaluates too:

* the store: damaged content is not a compiler's, and the bounds are numbers;
* the bridge: `None` is no version, and only jobs are faulty;
* the interpreter: `None`, `Empty` and `Unset` are no values; programs are
  accepted by validation (`Legal`); no job is in a workflow's order twice; and
  fixtures are among those there are;
* `TaskFlow`: texts written by hand are not empty, `Unset` is neither a value
  nor a contract, and a reference is no literal;
* `Lowering` and `JobAuthoring`: generated ids are a sequence without
  repetitions and enough for the calls that are made (the code's have no end), no
  id stands for a step without one, a setup is the default or steps that run
  something, a group has a bounded number of members, and `NoGroup` is no group;
* `WorkflowAuthoring`: libraries hold workflows with jobs of different ids and
  declared modes and tokens, and the limits of nesting and calls are numbers;
* `Matrix`: axes have different keys and at least one value each, as `matrixRows`
  demands;
* `ProjectFiles` and `Generation`: commands and projects are of the types, an
  absent file is no file, a project has at least one output, and a missing one
  is no content;
* `DiagnosticRecords`: the set of runs is finite and the limit is positive;
* `TypeService`: refs, commits and `None` are distinct, a redirect lives for some
  time and less than types do.

Some places of the models are written for the proofs, which TLC alone would not
have asked for:

* Several `CASE` expressions had guards that overlap, where TLC takes the first
  and the logic leaves open which; they say now, with `IF`, which of two tests of
  the code comes first.
* A group's end and a step's ids in `JobAuthoring` and `Lowering` are operators of
  their own, for lemmas to be about.  `FieldScopes` joins its tables, and
  `FieldEvaluation` its contexts, with operators of their own (`Joined`, `++`),
  since the provers do not know those of `TLC`.
* Loops and recursion of the code are recursive functions over numbers in
  `Lowering`, `WorkflowAuthoring` and `Matrix`: of how many steps, members, rows or
  entries have been handled, or how deep a search or a chain of calls is.  What
  such a function computes is proved from its equation, by the least number for
  which a fact would fail (`Stepwise`), since there is no induction to cite.
* `TaskFlow` has the text of conditions, its value and its type as parameters
  (`Rendered`, `Evaluated`, `ResultsOf`, `Unknown`), as they are recursive over
  trees; TLC gives them the values of `ExpressionText`.  The clause for one node,
  given what is known of its operands, is in `Expressions`, for proofs to use.

### What is only model-checked

* `EveryCommandEnds` and `PreparesUnlessDrifted`: liveness under fairness.
* `RenderedMeansBuilt`: rendering and the parser are RECURSIVE over trees of any
  shape, which the prover does not take, and to prove what they compute for every
  tree is an induction over data.  So is that a closed set of trees is evaluated in
  its parts, the hypothesis of two theorems about `TaskFlow`.

Invariants that only say that a variable has its type are left to
`ArtifactStore` and the modules of proofs: elsewhere TLC would stop at an
expression that does not fit.

## Not modelled

* The scenario builder (`src/testing/mod.ts`): it collects rules, any of which
  the models of the interpreter take.
* Trigger filters and the selection of workflows by an event: patterns against
  names, without state.
* Types of events, and the functions `contains`, `format`, `join`, `startsWith`,
  `endsWith` and those on JSON: pure functions of texts.
* Which method of the builder exists in which state, in its types and in the
  objects that are cast to them: a method that is missing shows at its first
  call.  Settings that are stored as given, and checks of single settings.
  `rawNode` takes what its caller asserts.
* How modules are relocated into an action's payload, hashing, calls of Deno:
  versions stand for contents.
* The emitter: layout of YAML, without state.
* In `TaskFlow`, a matrix on the producing job, whose merged outputs
  `ScenarioWorkflow` has, and producing jobs that are skipped or cancelled: a
  job that needs one runs only by a condition that asks for a status.
* Parsing of the command line, and what a diagnostic recorder collects before it
  is written.

There are no liveness properties of the builder, the lowering, the interpreter,
the commands of a project or the service: each is a bounded sequence of steps
without a loop or a lock, and ends if it is scheduled.

## Plan

1. Settings in the checks of validation that depend on each other: containers,
   triggers with filters, environments.
2. Concurrency groups of scenarios, and selection of workflows by an event.
3. That text is evaluated in its parts (`EvaluatedInParts`) from the parser's
   definition, with trees of bounded depth.
