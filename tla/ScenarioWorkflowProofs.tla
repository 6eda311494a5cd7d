------------------------ MODULE ScenarioWorkflowProofs ------------------------
(***************************************************************************)
(* What jobs inherit, what their instances put out and what a workflow     *)
(* concludes, for workflows of any number of jobs and instances; and what  *)
(* the fields of a workflow see, for scenarios with any fixtures.          *)
(***************************************************************************)
EXTENDS ScenarioWorkflow, FieldEvaluation, FiniteSetTheorems, SequenceTheorems,
        WellFoundedInduction, TLAPS

Phases == {"job", "instances", "merge", "finished", "error"}

TypeOK ==
    /\ flow \in Flows
    /\ at \in 1 .. Len(flow.order) + 1
    /\ phase \in Phases
    /\ total \in Nat /\ merged \in Nat
    /\ completion \in {None} \cup Orders(total)
    /\ instances \in Seq(Instance)
    /\ outputs \in Outputs
    /\ results \in [Jobs -> Result \cup {None}]
    /\ status \in [Jobs -> Status \cup {None}]
    /\ ran \in [Jobs -> SUBSET Outcomes]

\* Where the interpreter is: nothing of a job is left when it is done.
Fresh == total = 0 /\ completion = None /\ instances = << >> /\ outputs = NoOutputs
Progress ==
    /\ phase \in {"instances", "merge"} => at <= Len(flow.order)
    /\ phase = "job" => Fresh /\ merged = 0
    /\ phase = "instances" => Len(instances) <= total /\ merged = 0 /\ outputs = NoOutputs
    /\ phase = "merge" => Len(instances) = total /\ merged <= total

\* The jobs before this one have a result and a status, this one may have a status.
Done(j) == \E n \in 1 .. at - 1 : flow.order[n] = j
InTurn ==
    /\ phase \in {"job", "instances", "merge"} =>
         \A j \in Jobs : /\ results[j] # None <=> Done(j)
                         /\ status[j] # None => results[j] # None \/ j = Job
                         /\ status[j] # None => phase # "job" \/ results[j] # None
    /\ \A j \in Jobs : results[j] # None => status[j] # None

\* A job that has begun has a status.
HasStatus == phase \in {"instances", "merge"} => status[Job] # None

\* What a job depends on, near and far, has a result for good.
AncestorsDone == \A j \in Jobs : status[j] # None =>
    \A a \in Ancestors(j) : results[a] # None

\* A result tells of failures and cancellations among the instances.
Reflects(result, rs) ==
    /\ result = "failure" <=> "failure" \in rs
    /\ result = "success" => rs \subseteq {"success"}
    /\ result = "skipped" => rs = {}
ResultsReflect ==
    /\ phase \in {"job", "instances", "merge"} =>
         \A j \in Jobs : results[j] = None =>
           ran[j] = IF phase # "job" /\ j = Job
                    THEN {instances[n].result : n \in DOMAIN instances} ELSE {}
    /\ \A j \in Jobs : results[j] # None => Reflects(results[j].result, ran[j])

\* The instances that deliver a name among the first m to be merged, and those
\* whose value is not empty.
Giving(m, name) == {n \in 1 .. m : Contributes(InOrder[n], name)}
Filled(m, name) == {n \in Giving(m, name) : InOrder[n].outs[name] # Empty}
LastIn(m, name, value) == \E last \in Filled(m, name) :
    /\ \A n \in Filled(m, name) : n <= last
    /\ value = InOrder[last].outs[name]
MergedSoFar == phase = "merge" => \A name \in Names :
    /\ outputs[name] = Unset <=> Giving(merged, name) = {}
    /\ Giving(merged, name) # {} /\ Filled(merged, name) = {} => outputs[name] = Empty
    /\ Filled(merged, name) # {} => LastIn(merged, name, outputs[name])
    /\ completion = None =>
         \A n \in Filled(merged, name) : InOrder[n].outs[name] = outputs[name]

\* The inductive invariant: what is said of the last instance holds of every
\* prefix of them, and what is said of the workflow of every job that is done.
IInv ==
    /\ TypeOK /\ Progress /\ InTurn /\ HasStatus /\ AncestorsDone /\ ResultsReflect
    /\ MergedSoFar /\ StatusIsOfAllAncestors /\ NoFailureIsLost

-----------------------------------------------------------------------------
(* The graph of needs.                                                      *)

\* The jobs are in an order without repetition.
LEMMA FlowFacts ==
    ASSUME TypeOK
    PROVE  /\ flow.order \in Seq(Jobs) /\ Len(flow.order) \in Nat
           /\ \A n \in 1 .. Len(flow.order) : flow.order[n] \in Jobs
           /\ \A m, n \in 1 .. Len(flow.order) : flow.order[m] = flow.order[n] => m = n
           /\ flow.needs \in [Jobs -> SUBSET Jobs]
           /\ at \in Nat \ {0}
<1>1. flow \in Flow /\ \A m, n \in DOMAIN flow.order : flow.order[m] = flow.order[n] => m = n
  BY ConstantsAssumption DEF TypeOK
<1>2. flow.order \in Seq(Jobs) /\ flow.needs \in [Jobs -> SUBSET Jobs]
  BY <1>1 DEF Flow
<1>3. Len(flow.order) \in Nat /\ DOMAIN flow.order = 1 .. Len(flow.order)
      /\ \A n \in 1 .. Len(flow.order) : flow.order[n] \in Jobs
  BY <1>2
<1>4. \A m, n \in 1 .. Len(flow.order) : flow.order[m] = flow.order[n] => m = n
  BY <1>1, <1>3
<1>5. at \in Nat \ {0}
  BY <1>3 DEF TypeOK
<1> QED
  BY <1>2, <1>3, <1>4, <1>5

\* The job at which the interpreter is has not been done.
LEMMA JobFacts ==
    ASSUME TypeOK, at <= Len(flow.order)
    PROVE  /\ Job \in Jobs /\ Needs \in SUBSET Jobs
           /\ ~Done(Job)
           /\ \A j : (\E n \in 1 .. at : flow.order[n] = j) <=> Done(j) \/ j = Job
<1>1. \A n \in 1 .. at : n \in 1 .. at - 1 \/ n = at
  BY FlowFacts
<1>2. at \in 1 .. at /\ \A n \in 1 .. at - 1 : n \in 1 .. at /\ n # at
  BY FlowFacts
<1> QED
  BY <1>1, <1>2, FlowFacts DEF Job, Needs, Done

\* What one need leads to, and the need itself, is all that needs lead to.
LEMMA AncestorsStep ==
    ASSUME TypeOK, NEW j \in Jobs
    PROVE  /\ Ancestors(j) \subseteq Jobs
           /\ Ancestors(j) = flow.needs[j] \cup UNION {Ancestors(d) : d \in flow.needs[j]}
<1>1. \A d \in Jobs : flow.needs[d] \subseteq Jobs
  BY FlowFacts
<1>2. \A a \in Jobs :
        /\ flow.needs[a] \subseteq Ancestors(a)
        /\ \A d \in Ancestors(a) : flow.needs[d] \subseteq Ancestors(a)
  BY <1>1 DEF Ancestors
<1>3. \A d \in flow.needs[j] : Ancestors(d) \subseteq Ancestors(j)
  BY <1>1 DEF Ancestors
<1>4. Ancestors(j) \subseteq flow.needs[j] \cup UNION {Ancestors(d) : d \in flow.needs[j]}
  <2> DEFINE S == flow.needs[j] \cup UNION {Ancestors(d) : d \in flow.needs[j]}
  <2>1. S \in SUBSET Jobs
    BY <1>1 DEF Ancestors
  <2>2. \A d \in S : flow.needs[d] \subseteq S
    BY <1>1, <1>2
  <2> HIDE DEF S
  <2>3. flow.needs[j] \subseteq S
    BY DEF S
  <2> QED
    BY <2>1, <2>2, <2>3 DEF Ancestors, S
<1>5. Ancestors(j) \subseteq Jobs
  BY DEF Ancestors
<1> HIDE DEF Ancestors
<1> QED
  BY <1>2, <1>3, <1>4, <1>5

-----------------------------------------------------------------------------
(* What a status says once it is there.                                     *)

\* The property, of one job.
StatusOf(j) ==
    /\ status[j].failure <=> \E a \in Ancestors(j) : results[a].result = "failure"
    /\ status[j].cancelled <=> \E a \in Ancestors(j) : results[a].result = "cancelled"
    /\ status[j].success => \A d \in flow.needs[j] : results[d].result = "success"

\* A status stays true while no result changes, and while a job gets its own:
\* nothing that has a status yet depends on it.
LEMMA StatusStays ==
    ASSUME IInv, UNCHANGED flow, NEW j \in Jobs, status[j] # None, status'[j] = status[j],
           \A a \in Jobs : results[a] # None => results'[a] = results[a]
    PROVE  StatusOf(j)' /\ \A a \in Ancestors(j)' : results'[a] # None
<1>1. StatusOf(j) /\ \A a \in Ancestors(j) : results[a] # None
  BY DEF IInv, StatusIsOfAllAncestors, StatusOf, AncestorsDone
<1>2. Ancestors(j)' = Ancestors(j)
  BY DEF Ancestors
<1>3. \A a \in Ancestors(j) : a \in Jobs /\ results'[a] = results[a]
  BY <1>1 DEF Ancestors
<1>4. \A d \in flow.needs[j] : d \in Ancestors(j)
  BY AncestorsStep DEF IInv
<1> QED
  BY <1>1, <1>2, <1>3, <1>4 DEF StatusOf

\* What a job inherits from those it needs is what all before it say.
LEMMA InheritedIsTrue ==
    ASSUME IInv, phase = "job", at <= Len(flow.order), Evaluable, UNCHANGED flow,
           status' = [status EXCEPT ![Job] = Inherited],
           \A a \in Jobs : results[a] # None => results'[a] = results[a]
    PROVE  /\ Inherited \in Status
           /\ AncestorsDone' /\ StatusIsOfAllAncestors'
<1>1. Job \in Jobs /\ Needs \in SUBSET Jobs /\ Needs = flow.needs[Job]
  BY JobFacts DEF IInv, Needs
<1>2. \A d \in Needs : results[d] # None /\ status[d] # None /\ results'[d] = results[d]
  BY <1>1 DEF Evaluable, IInv, InTurn
<1>3. \A d \in Needs : results[d] \in Result /\ status[d] \in Status
  BY <1>1, <1>2 DEF IInv, TypeOK
<1>4. Inherited \in Status
  BY <1>1, <1>3 DEF Inherited, Status
<1>5. status'[Job] = Inherited /\ \A j \in Jobs : j # Job => status'[j] = status[j]
  BY <1>1 DEF IInv, TypeOK
<1>6. status[Job] = None
  BY <1>1, JobFacts DEF IInv, InTurn
<1>7. ASSUME NEW j \in Jobs, j # Job, status'[j] # None
      PROVE  StatusOf(j)' /\ \A a \in Ancestors(j)' : results'[a] # None
  BY <1>5, <1>7, StatusStays
<1>8. \A d \in Needs : StatusOf(d) /\ \A a \in Ancestors(d) :
        results[a] # None /\ a \in Jobs /\ results'[a] = results[a]
  <2>1. \A d \in Needs : StatusOf(d)
    BY <1>1, <1>2 DEF IInv, StatusIsOfAllAncestors, StatusOf
  <2>2. \A d \in Needs : \A a \in Ancestors(d) : results[a] # None
    BY <1>1, <1>2 DEF IInv, AncestorsDone
  <2>3. \A d \in Needs : Ancestors(d) \subseteq Jobs
    BY <1>1, AncestorsStep DEF IInv
  <2> QED
    BY <2>1, <2>2, <2>3
<1>9. Ancestors(Job) = Needs \cup UNION {Ancestors(d) : d \in Needs}
  BY <1>1, AncestorsStep DEF IInv
<1>10. PICK j : j = Job
  OBVIOUS
<1>11. Ancestors(j)' = Ancestors(Job) /\ flow'.needs[j] = Needs
  BY <1>1, <1>10 DEF Ancestors
<1>12. \A a \in Ancestors(Job) : results'[a] = results[a] /\ results[a] # None
  BY <1>2, <1>8, <1>9
<1>13. Inherited.failure <=> \E a \in Ancestors(Job) : results[a].result = "failure"
  <2>1. Inherited.failure <=> \/ \E d \in Needs : results[d].result = "failure"
                              \/ \E d \in Needs : status[d].failure
    BY DEF Inherited
  <2>2. \A d \in Needs : status[d].failure <=>
          \E a \in Ancestors(d) : results[a].result = "failure"
    BY <1>8 DEF StatusOf
  <2> QED
    BY <1>9, <2>1, <2>2
<1>14. Inherited.cancelled <=> \E a \in Ancestors(Job) : results[a].result = "cancelled"
  <2>1. Inherited.cancelled <=> \/ \E d \in Needs : results[d].result = "cancelled"
                                \/ \E d \in Needs : status[d].cancelled
    BY DEF Inherited
  <2>2. \A d \in Needs : status[d].cancelled <=>
          \E a \in Ancestors(d) : results[a].result = "cancelled"
    BY <1>8 DEF StatusOf
  <2> QED
    BY <1>9, <2>1, <2>2
<1>15. Inherited.success => \A d \in Needs : results[d].result = "success"
  BY DEF Inherited
<1>16. StatusOf(j)' /\ \A a \in Ancestors(j)' : results'[a] # None
  <2>1. status'[j] = Inherited
    BY <1>5, <1>10
  <2>2. \A a \in Ancestors(j)' : results'[a] = results[a] /\ results'[a] # None
    BY <1>11, <1>12
  <2>3. status'[j].failure <=> \E a \in Ancestors(j)' : results'[a].result = "failure"
    BY <1>11, <1>12, <1>13, <2>1
  <2>4. status'[j].cancelled <=> \E a \in Ancestors(j)' : results'[a].result = "cancelled"
    BY <1>11, <1>12, <1>14, <2>1
  <2>5. status'[j].success => \A d \in flow'.needs[j] : results'[d].result = "success"
    BY <1>2, <1>11, <1>15, <2>1
  <2> QED
    BY <2>2, <2>3, <2>4, <2>5 DEF StatusOf
<1>17. \A k \in Jobs : status'[k] # None =>
         StatusOf(k)' /\ \A a \in Ancestors(k)' : results'[a] # None
  BY <1>7, <1>10, <1>16
<1> QED
  BY <1>4, <1>17 DEF StatusOf, StatusIsOfAllAncestors, AncestorsDone


\* What statuses say stays true in a step that gives none.
LEMMA StatusesStay ==
    ASSUME IInv, UNCHANGED <<flow, status>>,
           \A a \in Jobs : results[a] # None => results'[a] = results[a]
    PROVE  AncestorsDone' /\ StatusIsOfAllAncestors'
<1>1. ASSUME NEW j \in Jobs, status'[j] # None
      PROVE  StatusOf(j)' /\ \A a \in Ancestors(j)' : results'[a] # None
  BY <1>1, StatusStays
<1> QED
  BY <1>1 DEF StatusOf, StatusIsOfAllAncestors, AncestorsDone

-----------------------------------------------------------------------------
(* The actions.                                                             *)

\* A job that is skipped has no instances.
LEMMA SkipJobKeeps == ASSUME IInv, SkipJob PROVE IInv'
<1> DEFINE skipped == [result |-> "skipped", outputs |-> NoOutputs]
<1>1. /\ phase = "job" /\ at <= Len(flow.order) /\ Evaluable
      /\ status' = [status EXCEPT ![Job] = Inherited]
      /\ results' = [results EXCEPT ![Job] = skipped]
      /\ at' = at + 1
      /\ UNCHANGED <<flow, phase, total, completion, instances, merged, outputs, verdict, ran>>
  BY DEF SkipJob, AtJob
<1>2. Job \in Jobs /\ ~Done(Job) /\ results[Job] = None /\ ran[Job] = {}
  BY <1>1, JobFacts DEF IInv, InTurn, ResultsReflect
<1>3. \A j \in Jobs : results'[j] = IF j = Job THEN skipped ELSE results[j]
  BY <1>1, <1>2 DEF IInv, TypeOK
<1>4. Inherited \in Status /\ AncestorsDone' /\ StatusIsOfAllAncestors'
  BY <1>1, <1>2, <1>3, InheritedIsTrue
<1>5. skipped \in Result /\ skipped # None
  BY ConstantsAssumption DEF Result, NoOutputs, Outputs
<1>6. \A j \in Jobs : status'[j] = IF j = Job THEN Inherited ELSE status[j]
  BY <1>1, <1>2 DEF IInv, TypeOK
<1>7. Inherited # None
  BY <1>4, ConstantsAssumption
<1> HIDE DEF skipped
<1>8. TypeOK'
  <2>1. results' \in [Jobs -> Result \cup {None}] /\ status' \in [Jobs -> Status \cup {None}]
    BY <1>1, <1>2, <1>4, <1>5 DEF IInv, TypeOK
  <2>2. at' \in 1 .. Len(flow'.order) + 1
    BY <1>1, FlowFacts DEF IInv
  <2> QED
    BY <1>1, <2>1, <2>2 DEF IInv, TypeOK, Orders
<1>9. Progress'
  BY <1>1 DEF IInv, Progress, Fresh, NoOutputs
<1>10. \A j \in Jobs : Done(j)' <=> Done(j) \/ j = Job
  <2>1. at' - 1 = at
    BY <1>1, FlowFacts DEF IInv
  <2> QED
    BY <1>1, <2>1, JobFacts DEF IInv, Done
<1>11. InTurn'
  BY <1>1, <1>3, <1>5, <1>6, <1>7, <1>10 DEF IInv, InTurn
<1>12. ResultsReflect'
  <2>1. skipped.result = "skipped"
    BY DEF skipped
  <2>2. Reflects(skipped.result, ran[Job])
    BY <1>2, <2>1 DEF Reflects
  <2> QED
    BY <1>1, <1>2, <1>3, <1>5, <2>2 DEF IInv, ResultsReflect, Reflects
<1>13. MergedSoFar' /\ NoFailureIsLost' /\ HasStatus'
  BY <1>1 DEF MergedSoFar, NoFailureIsLost, HasStatus
<1> QED
  BY <1>4, <1>8, <1>9, <1>11, <1>12, <1>13 DEF IInv

\* A job that begins has its status first.
LEMMA BeginJobKeeps == ASSUME IInv, BeginJob PROVE IInv'
<1>1. /\ phase = "job" /\ at <= Len(flow.order) /\ Evaluable
      /\ status' = [status EXCEPT ![Job] = Inherited]
      /\ total' \in Nat /\ completion' \in {None} \cup Orders(total')
      /\ phase' = "instances"
      /\ UNCHANGED <<flow, at, instances, merged, outputs, results, verdict, ran>>
  BY ConstantsAssumption DEF BeginJob, AtJob
<1>2. Job \in Jobs /\ ~Done(Job) /\ results[Job] = None /\ Job' = Job
  BY <1>1, JobFacts DEF IInv, InTurn, Job
<1>3. Inherited \in Status /\ AncestorsDone' /\ StatusIsOfAllAncestors'
  BY <1>1, InheritedIsTrue
<1>4. \A j \in Jobs : status'[j] = IF j = Job THEN Inherited ELSE status[j]
  BY <1>1, <1>2 DEF IInv, TypeOK
<1>5. Inherited # None
  BY <1>3, ConstantsAssumption
<1>6. TypeOK'
  <2>1. status' \in [Jobs -> Status \cup {None}]
    BY <1>1, <1>2, <1>3 DEF IInv, TypeOK
  <2> QED
    BY <1>1, <2>1 DEF IInv, TypeOK, Phases, Orders
<1>7. Progress'
  BY <1>1 DEF IInv, Progress, Fresh, NoOutputs
<1>8. \A j \in Jobs : Done(j)' <=> Done(j)
  BY <1>1 DEF Done
<1>9. InTurn'
  BY <1>1, <1>2, <1>4, <1>5, <1>8 DEF IInv, InTurn
<1>10. ResultsReflect'
  <2>1. instances = << >> /\ {instances'[n].result : n \in DOMAIN instances'} = {}
    BY <1>1 DEF IInv, Progress, Fresh
  <2> QED
    BY <1>1, <2>1 DEF IInv, ResultsReflect, Reflects
<1>11. MergedSoFar' /\ NoFailureIsLost' /\ HasStatus'
  BY <1>1, <1>2, <1>4, <1>5 DEF MergedSoFar, NoFailureIsLost, HasStatus
<1> QED
  BY <1>3, <1>6, <1>7, <1>9, <1>10, <1>11 DEF IInv

\* Nothing is merged yet when all instances have run.
LEMMA NothingMerged ==
    ASSUME merged' = 0, outputs' = NoOutputs
    PROVE  MergedSoFar'
<1>1. \A name \in Names : Giving(0, name)' = {} /\ outputs'[name] = Unset
  BY DEF Giving, NoOutputs
<1> QED
  BY <1>1 DEF MergedSoFar, Giving, Filled

\* An instance that runs is one that its job's results tell of.
LEMMA RunInstanceKeeps == ASSUME IInv, RunInstance PROVE IInv'
<1>1. PICK i \in Instance :
         /\ phase = "instances" /\ Len(instances) < total
         /\ instances' = Append(instances, i)
         /\ ran' = [ran EXCEPT ![Job] = @ \cup {i.result}]
         /\ phase' = IF Len(instances) + 1 = total THEN "merge" ELSE phase
         /\ UNCHANGED <<flow, at, total, completion, merged, outputs, results, status, verdict>>
  BY DEF RunInstance
<1>2. at <= Len(flow.order) /\ Job \in Jobs /\ ~Done(Job) /\ results[Job] = None /\ Job' = Job
  BY <1>1, JobFacts DEF IInv, Progress, InTurn, Job
<1>3. /\ instances \in Seq(Instance) /\ Len(instances) \in Nat
      /\ instances' \in Seq(Instance) /\ Len(instances') = Len(instances) + 1
      /\ DOMAIN instances = 1 .. Len(instances) /\ DOMAIN instances' = 1 .. Len(instances) + 1
      /\ \A n \in 1 .. Len(instances) : instances'[n] = instances[n]
      /\ instances'[Len(instances) + 1] = i
  <2>1. instances \in Seq(Instance)
    BY DEF IInv, TypeOK
  <2> QED
    BY <1>1, <2>1, AppendProperties
<1>4. i.result \in Outcomes
  BY DEF Instance
<1>5. ran' \in [Jobs -> SUBSET Outcomes]
      /\ \A j \in Jobs : ran'[j] = IF j = Job THEN ran[j] \cup {i.result} ELSE ran[j]
  BY <1>1, <1>2, <1>4 DEF IInv, TypeOK
<1>6. TypeOK'
  BY <1>1, <1>3, <1>5 DEF IInv, TypeOK, Phases, Orders
<1>7. total \in Nat /\ merged = 0 /\ outputs = NoOutputs
  BY <1>1 DEF IInv, TypeOK, Progress
<1>8. Progress'
  BY <1>1, <1>2, <1>3, <1>7 DEF Progress, NoOutputs
<1>9. AncestorsDone' /\ StatusIsOfAllAncestors'
  BY <1>1, StatusesStay
<1>10. InTurn' /\ HasStatus'
  BY <1>1, <1>2 DEF IInv, InTurn, Done, HasStatus
<1>11. ResultsReflect'
  <2>1. ran[Job] = {instances[n].result : n \in 1 .. Len(instances)}
    BY <1>1, <1>2, <1>3 DEF IInv, ResultsReflect
  <2>2. {instances'[n].result : n \in DOMAIN instances'} = ran[Job] \cup {i.result}
    <3>1. \A n \in 1 .. Len(instances) + 1 : n \in 1 .. Len(instances) \/ n = Len(instances) + 1
      BY <1>3
    <3>2. \A n \in 1 .. Len(instances) : n \in 1 .. Len(instances) + 1
      BY <1>3
    <3>3. Len(instances) + 1 \in 1 .. Len(instances) + 1
      BY <1>3
    <3> QED
      BY <1>3, <2>1, <3>1, <3>2, <3>3
  <2> QED
    BY <1>1, <1>2, <1>5, <2>2 DEF IInv, ResultsReflect, Reflects
<1>12. MergedSoFar' /\ NoFailureIsLost'
  BY <1>1, <1>7, NothingMerged DEF NoFailureIsLost, NoOutputs
<1> QED
  BY <1>6, <1>8, <1>9, <1>10, <1>11, <1>12 DEF IInv

\* A matrix without rows has nothing to merge.
LEMMA NoInstancesKeeps == ASSUME IInv, NoInstances PROVE IInv'
<1>1. /\ phase = "instances" /\ total = 0 /\ phase' = "merge"
      /\ UNCHANGED <<flow, at, total, completion, instances, merged, outputs, results, status,
                     verdict, ran>>
  BY DEF NoInstances
<1>2. TypeOK'
  BY <1>1 DEF IInv, TypeOK, Phases, Orders
<1>3. instances \in Seq(Instance) /\ Len(instances) \in Nat
  BY DEF IInv, TypeOK
<1>4. Progress'
  BY <1>1, <1>3 DEF IInv, Progress
<1>5. AncestorsDone' /\ StatusIsOfAllAncestors'
  BY <1>1, StatusesStay
<1>6. InTurn' /\ HasStatus'
  BY <1>1 DEF IInv, InTurn, Done, Job, HasStatus
<1>7. ResultsReflect'
  <2>1. Job' = Job /\ phase # "job" /\ phase' # "job"
    BY <1>1 DEF Job
  <2>2. \A j \in Jobs : results'[j] = None =>
          ran'[j] = IF j = Job' THEN {instances'[n].result : n \in DOMAIN instances'} ELSE {}
    BY <1>1, <2>1 DEF IInv, ResultsReflect
  <2> QED
    BY <1>1, <2>1, <2>2 DEF IInv, ResultsReflect, Reflects
<1>8. MergedSoFar' /\ NoFailureIsLost'
  BY <1>1, NothingMerged DEF IInv, Progress, NoFailureIsLost, NoOutputs
<1> QED
  BY <1>2, <1>4, <1>5, <1>6, <1>7, <1>8 DEF IInv

\* A workflow that throws says nothing.
LEMMA ThrowKeeps == ASSUME IInv, Throw PROVE IInv'
<1>1. /\ phase' = "error"
      /\ UNCHANGED <<flow, at, total, completion, instances, merged, outputs, results, status,
                     verdict, ran>>
  BY DEF Throw
<1>2. TypeOK' /\ Progress'
  BY <1>1 DEF IInv, TypeOK, Phases, Orders, Progress
<1>3. AncestorsDone' /\ StatusIsOfAllAncestors'
  BY <1>1, StatusesStay
<1>4. InTurn' /\ ResultsReflect'
  BY <1>1 DEF IInv, InTurn, ResultsReflect, Reflects
<1>5. MergedSoFar' /\ NoFailureIsLost' /\ HasStatus'
  BY <1>1 DEF MergedSoFar, NoFailureIsLost, HasStatus
<1> QED
  BY <1>2, <1>3, <1>4, <1>5 DEF IInv


\* The instances in the order of merging are instances.
LEMMA InOrderFacts ==
    ASSUME IInv, phase = "merge"
    PROVE  /\ total \in Nat /\ merged \in Nat /\ Len(instances) = total /\ merged <= total
           /\ \A n \in 1 .. total : instances[n] \in Instance
           /\ \A n \in 1 .. total : InOrder[n] \in Instance
           /\ completion # None =>
                /\ completion \in Orders(total)
                /\ \A n \in 1 .. total : InOrder[n] = instances[completion[n]]
           /\ completion = None => InOrder = instances
<1>1. /\ total \in Nat /\ merged \in Nat /\ Len(instances) = total /\ merged <= total
      /\ instances \in Seq(Instance)
  BY DEF IInv, TypeOK, Progress
<1>2. \A n \in 1 .. total : instances[n] \in Instance
  BY <1>1
<1>3. CASE completion = None
  BY <1>1, <1>2, <1>3 DEF InOrder
<1>4. CASE completion # None
  <2>1. completion \in Orders(total) /\ completion \in [1 .. total -> 1 .. total]
    BY <1>4 DEF IInv, TypeOK, Orders
  <2>2. \A n \in 1 .. total : InOrder[n] = instances[completion[n]]
    BY <1>4 DEF InOrder
  <2> QED
    BY <1>1, <1>2, <1>4, <2>1, <2>2
<1> QED
  BY <1>3, <1>4

\* One more instance is the last that gives its names.
LEMMA OneMore ==
    ASSUME NEW m \in Nat, NEW name
    PROVE  LET i == InOrder[m + 1] IN
           /\ Contributes(i, name) => Giving(m + 1, name) = Giving(m, name) \cup {m + 1}
           /\ ~Contributes(i, name) => Giving(m + 1, name) = Giving(m, name)
           /\ Contributes(i, name) /\ i.outs[name] # Empty =>
                Filled(m + 1, name) = Filled(m, name) \cup {m + 1}
           /\ ~Contributes(i, name) \/ i.outs[name] = Empty =>
                Filled(m + 1, name) = Filled(m, name)
<1>1. \A n : n \in 1 .. m + 1 <=> n \in 1 .. m \/ n = m + 1
  OBVIOUS
<1>2. Giving(m + 1, name) = {n \in 1 .. m + 1 : Contributes(InOrder[n], name)}
      /\ Giving(m, name) = {n \in 1 .. m : Contributes(InOrder[n], name)}
  BY DEF Giving
<1>3. Filled(m + 1, name) = {n \in Giving(m + 1, name) : InOrder[n].outs[name] # Empty}
      /\ Filled(m, name) = {n \in Giving(m, name) : InOrder[n].outs[name] # Empty}
  BY DEF Filled
<1> QED
  BY <1>1, <1>2, <1>3

\* What is merged stays what the last nonempty value says.
LEMMA MergeInstanceKeeps == ASSUME IInv, MergeInstance PROVE IInv'
<1> DEFINE i == InOrder[merged + 1]
<1>1. /\ phase = "merge" /\ merged < total
      /\ UNCHANGED <<flow, at, total, completion, instances, results, status, verdict, ran>>
  BY DEF MergeInstance
<1>2. Job' = Job /\ InOrder' = InOrder
  BY <1>1 DEF Job, InOrder
<1>3. i \in Instance /\ merged \in Nat /\ total \in Nat /\ Len(instances) = total
  BY <1>1, InOrderFacts
<1>4. AncestorsDone' /\ StatusIsOfAllAncestors'
  BY <1>1, StatusesStay
<1>5. CASE phase' = "error" /\ UNCHANGED <<merged, outputs>>
  <2>1. /\ TypeOK' /\ Progress' /\ InTurn' /\ HasStatus' /\ ResultsReflect'
        /\ MergedSoFar' /\ NoFailureIsLost'
    BY <1>1, <1>5 DEF IInv, TypeOK, Phases, Orders, Progress, InTurn, ResultsReflect,
       Reflects, MergedSoFar, NoFailureIsLost, HasStatus
  <2> QED
    BY <1>4, <2>1 DEF IInv
<1>6. CASE /\ ~(completion = None /\ Clashes(outputs, i))
           /\ merged' = merged + 1 /\ outputs' = Add(outputs, i) /\ UNCHANGED phase
  <2>1. \A name \in Names :
          outputs'[name] = IF Contributes(i, name) /\ (outputs[name] = Unset \/ i.outs[name] # Empty)
                           THEN i.outs[name] ELSE outputs[name]
    BY <1>6 DEF Add
  <2>2. \A name \in Names : i.outs[name] \in Values \cup {Empty}
    BY <1>3 DEF Instance
  <2>3. outputs \in Outputs
    BY DEF IInv, TypeOK
  <2>4. outputs' \in Outputs
    BY <1>6, <2>2, <2>3 DEF Add, Outputs
  <2>5. TypeOK'
    BY <1>1, <1>3, <1>6, <2>4 DEF IInv, TypeOK, Orders
  <2>6. Progress'
    BY <1>1, <1>3, <1>6 DEF IInv, Progress
  <2>7. InTurn' /\ HasStatus'
    BY <1>1, <1>2, <1>6 DEF IInv, InTurn, Done, HasStatus
  <2>8. ResultsReflect'
    BY <1>1, <1>2, <1>6 DEF IInv, ResultsReflect, Reflects
  <2>9. NoFailureIsLost'
    BY <1>1, <1>6 DEF NoFailureIsLost
  <2>10. ASSUME NEW name \in Names
         PROVE  /\ outputs'[name] = Unset <=> Giving(merged + 1, name) = {}
                /\ Giving(merged + 1, name) # {} /\ Filled(merged + 1, name) = {} =>
                     outputs'[name] = Empty
                /\ Filled(merged + 1, name) # {} => LastIn(merged + 1, name, outputs'[name])
                /\ completion = None => \A n \in Filled(merged + 1, name) :
                     InOrder[n].outs[name] = outputs'[name]
    <3>1. /\ outputs[name] = Unset <=> Giving(merged, name) = {}
          /\ Giving(merged, name) # {} /\ Filled(merged, name) = {} => outputs[name] = Empty
          /\ Filled(merged, name) # {} => LastIn(merged, name, outputs[name])
          /\ completion = None =>
               \A n \in Filled(merged, name) : InOrder[n].outs[name] = outputs[name]
      BY <1>1 DEF IInv, MergedSoFar
    <3>2. /\ \A n \in Giving(merged, name) : n < merged + 1 /\ n \in Nat
          /\ Filled(merged, name) \subseteq Giving(merged, name)
      BY <1>3 DEF Giving, Filled
    <3>3. /\ Unset # Empty /\ Unset \notin Values /\ Empty \notin Values
          /\ i.outs[name] \in Values \cup {Empty}
          /\ outputs[name] \in Values \cup {Empty, Unset}
      BY <2>2, <2>3, ConstantsAssumption DEF Outputs
    <3>4. CASE ~Contributes(i, name)
      <4>1. Giving(merged + 1, name) = Giving(merged, name)
            /\ Filled(merged + 1, name) = Filled(merged, name)
        BY <1>3, <3>4, OneMore
      <4>2. outputs'[name] = outputs[name]
        BY <2>1, <3>4
      <4> QED
        BY <3>1, <4>1, <4>2 DEF LastIn
    <3>5. CASE Contributes(i, name) /\ i.outs[name] # Empty
      <4>1. Giving(merged + 1, name) = Giving(merged, name) \cup {merged + 1}
            /\ Filled(merged + 1, name) = Filled(merged, name) \cup {merged + 1}
        BY <1>3, <3>5, OneMore
      <4>2. outputs'[name] = i.outs[name]
        BY <2>1, <3>5
      <4>3. LastIn(merged + 1, name, outputs'[name])
        BY <1>3, <3>2, <4>1, <4>2 DEF LastIn
      <4>4. ASSUME completion = None, NEW n \in Filled(merged, name)
            PROVE  InOrder[n].outs[name] = outputs'[name]
        <5>1. InOrder[n].outs[name] = outputs[name] /\ outputs[name] # Empty
          BY <3>1, <4>4 DEF Filled
        <5>2. outputs[name] # Unset
          BY <3>1, <3>2, <4>4
        <5>3. outputs[name] \in Values /\ i.outs[name] \in Values
          BY <3>3, <3>5, <5>1, <5>2
        <5>4. outputs[name] = i.outs[name]
          BY <1>6, <3>5, <4>4, <5>3 DEF Clashes
        <5> QED
          BY <4>2, <5>1, <5>4
      <4> QED
        BY <3>3, <4>1, <4>2, <4>3, <4>4
    <3>6. CASE Contributes(i, name) /\ i.outs[name] = Empty
      <4>1. Giving(merged + 1, name) = Giving(merged, name) \cup {merged + 1}
            /\ Filled(merged + 1, name) = Filled(merged, name)
        BY <1>3, <3>6, OneMore
      <4>2. CASE outputs[name] = Unset
        <5>1. outputs'[name] = Empty /\ Filled(merged + 1, name) = {}
          BY <2>1, <3>1, <3>2, <3>6, <4>1, <4>2
        <5> QED
          BY <3>3, <4>1, <5>1
      <4>3. CASE outputs[name] # Unset
        <5>1. outputs'[name] = outputs[name]
          BY <2>1, <3>6, <4>3
        <5> QED
          BY <3>1, <4>1, <4>3, <5>1 DEF LastIn
      <4> QED
        BY <4>2, <4>3
    <3> QED
      BY <3>4, <3>5, <3>6
  <2>11. MergedSoFar'
    <3>1. \A m, name : Giving(m, name)' = Giving(m, name) /\ Filled(m, name)' = Filled(m, name)
      BY <1>1, <1>2 DEF Giving, Filled, Contributes
    <3>2. \A m, name, value : LastIn(m, name, value)' = LastIn(m, name, value)
      BY <1>2, <3>1 DEF LastIn
    <3>3. PICK m : m = merged + 1
      OBVIOUS
    <3>4. ASSUME NEW name \in Names
          PROVE  /\ outputs'[name] = Unset <=> Giving(merged, name)' = {}
                 /\ Giving(merged, name)' # {} /\ Filled(merged, name)' = {} =>
                      outputs'[name] = Empty
                 /\ Filled(merged, name)' # {} => LastIn(merged, name, outputs[name])'
                 /\ completion' = None => \A n \in Filled(merged, name)' :
                      InOrder'[n].outs[name] = outputs'[name]
      <4>1. PICK value : value = outputs'[name]
        OBVIOUS
      <4>2. /\ Giving(merged, name)' = Giving(m, name)' /\ Filled(merged, name)' = Filled(m, name)'
            /\ LastIn(merged, name, outputs[name])' <=> LastIn(m, name, value)'
        BY <1>6, <3>3, <4>1 DEF Giving, Filled, LastIn
      <4> HIDE DEF Giving, Filled, LastIn, InOrder
      <4> QED
        BY <1>1, <1>2, <2>10, <3>1, <3>2, <3>3, <4>1, <4>2
    <3> QED
      BY <3>4 DEF MergedSoFar
  <2> QED
    BY <1>4, <2>5, <2>6, <2>7, <2>8, <2>9, <2>11 DEF IInv
<1> QED
  BY <1>5, <1>6 DEF MergeInstance


\* What the aggregate of the instances is, it is of their results.
LEMMA AggregateReflects ==
    ASSUME NEW is \in Seq(Instance), NEW rs, rs = {is[n].result : n \in DOMAIN is}
    PROVE  Aggregate(is) \in Outcomes \cup {"skipped"} /\ Reflects(Aggregate(is), rs)
<1>1. rs \subseteq Outcomes
  <2>1. \A n \in DOMAIN is : is[n] \in Instance
    OBVIOUS
  <2>2. \A i \in Instance : i.result \in Outcomes
    BY DEF Instance
  <2> QED
    BY <2>1, <2>2
<1>2. Aggregate(is) = IF is = << >> THEN "skipped"
                      ELSE IF "failure" \in rs THEN "failure"
                      ELSE IF "cancelled" \in rs THEN "cancelled" ELSE "success"
  BY DEF Aggregate
<1>3. is = << >> => rs = {}
  OBVIOUS
<1> QED
  BY <1>1, <1>2, <1>3 DEF Reflects, Outcomes

\* The result of a job is that of its instances.
LEMMA EndJobKeeps == ASSUME IInv, EndJob PROVE IInv'
<1> DEFINE r == [result |-> Aggregate(instances), outputs |-> outputs]
<1>1. /\ phase = "merge" /\ results' = [results EXCEPT ![Job] = r] /\ at' = at + 1
      /\ phase' = "job" /\ total' = 0 /\ completion' = None /\ instances' = << >>
      /\ merged' = 0 /\ outputs' = NoOutputs
      /\ UNCHANGED <<flow, status, verdict, ran>>
  BY DEF EndJob
<1>2. /\ at <= Len(flow.order) /\ Job \in Jobs /\ ~Done(Job) /\ results[Job] = None
  BY <1>1, JobFacts DEF IInv, Progress, InTurn
<1>3. ran[Job] = {instances[n].result : n \in DOMAIN instances}
  BY <1>1, <1>2 DEF IInv, ResultsReflect
<1>4. Aggregate(instances) \in Outcomes \cup {"skipped"}
      /\ Reflects(Aggregate(instances), ran[Job])
  BY <1>3, AggregateReflects DEF IInv, TypeOK
<1>5. r \in Result /\ r # None /\ r.result = Aggregate(instances)
  BY <1>4, ConstantsAssumption DEF Result, IInv, TypeOK
<1> HIDE DEF r
<1>6. \A j \in Jobs : results'[j] = IF j = Job THEN r ELSE results[j]
  BY <1>1, <1>2 DEF IInv, TypeOK
<1>7. TypeOK'
  <2>1. results' \in [Jobs -> Result \cup {None}]
    BY <1>1, <1>2, <1>5 DEF IInv, TypeOK
  <2>2. at' \in 1 .. Len(flow'.order) + 1
    BY <1>1, <1>2, FlowFacts DEF IInv
  <2>3. << >> \in Seq(Instance) /\ NoOutputs \in Outputs
    BY DEF NoOutputs, Outputs
  <2> QED
    BY <1>1, <2>1, <2>2, <2>3 DEF IInv, TypeOK, Phases, NoOutputs
<1>8. Progress'
  BY <1>1 DEF Progress, Fresh, NoOutputs
<1>9. AncestorsDone' /\ StatusIsOfAllAncestors'
  BY <1>1, <1>2, <1>6, StatusesStay
<1>10. \A j \in Jobs : Done(j)' <=> Done(j) \/ j = Job
  <2>1. at' - 1 = at
    BY <1>1, FlowFacts DEF IInv
  <2> QED
    BY <1>1, <1>2, <2>1, JobFacts DEF IInv, Done
<1>11. status[Job] # None
  BY <1>1, <1>2 DEF IInv, HasStatus
<1>12. InTurn'
  BY <1>1, <1>2, <1>5, <1>6, <1>10, <1>11 DEF IInv, InTurn
<1>13. ResultsReflect'
  BY <1>1, <1>2, <1>4, <1>5, <1>6 DEF IInv, ResultsReflect, Reflects
<1>14. MergedSoFar' /\ NoFailureIsLost' /\ HasStatus'
  BY <1>1 DEF MergedSoFar, NoFailureIsLost, HasStatus
<1> QED
  BY <1>7, <1>8, <1>9, <1>12, <1>13, <1>14 DEF IInv

\* When all jobs are done, their results tell of all instances.
LEMMA EndWorkflowKeeps == ASSUME IInv, EndWorkflow PROVE IInv'
<1> DEFINE all == {results[flow.order[n]].result : n \in DOMAIN flow.order}
<1>1. /\ phase = "job" /\ at > Len(flow.order) /\ phase' = "finished"
      /\ verdict' = IF "failure" \in all THEN "failure"
                    ELSE IF "cancelled" \in all THEN "cancelled" ELSE "success"
      /\ UNCHANGED <<flow, at, total, completion, instances, merged, outputs, results, status,
                     ran>>
  BY DEF EndWorkflow
<1>2. /\ at - 1 = Len(flow.order) /\ DOMAIN flow.order = 1 .. Len(flow.order)
      /\ \A n \in 1 .. Len(flow.order) : flow.order[n] \in Jobs
  BY <1>1, FlowFacts DEF IInv, TypeOK
<1>3. \A j \in Jobs : Done(j) <=> \E n \in DOMAIN flow.order : flow.order[n] = j
  BY <1>2 DEF Done
<1>4. \A j \in Jobs : results[j] = None => ran[j] = {}
  BY <1>1 DEF IInv, ResultsReflect
<1>5. \A j \in Jobs : Done(j) => results[j] \in Result /\ Reflects(results[j].result, ran[j])
  BY <1>1 DEF IInv, TypeOK, InTurn, ResultsReflect
<1>6. "failure" \in all <=> \E j \in Jobs : "failure" \in ran[j]
  <2>1. ASSUME "failure" \in all PROVE \E j \in Jobs : "failure" \in ran[j]
    BY <1>2, <1>3, <1>5, <2>1 DEF Reflects
  <2>2. ASSUME NEW j \in Jobs, "failure" \in ran[j] PROVE "failure" \in all
    <3>1. results[j] # None
      BY <1>4, <2>2
    <3>2. Done(j)
      BY <1>1, <3>1 DEF IInv, InTurn
    <3> QED
      BY <1>3, <1>5, <2>2, <3>2 DEF Reflects
  <2> QED
    BY <2>1, <2>2
<1>7. "failure" \notin all /\ "cancelled" \notin all => \A j \in Jobs : ran[j] \subseteq {"success"}
  <2> SUFFICES ASSUME "failure" \notin all, "cancelled" \notin all, NEW j \in Jobs
               PROVE  ran[j] \subseteq {"success"}
    OBVIOUS
  <2>1. CASE results[j] = None
    BY <1>4, <2>1
  <2>2. CASE results[j] # None
    <3>1. Done(j)
      BY <1>1, <2>2 DEF IInv, InTurn
    <3>2. results[j].result \in {"success", "skipped"}
      BY <1>3, <1>5, <3>1 DEF Result, Outcomes
    <3> QED
      BY <1>5, <3>1, <3>2 DEF Reflects
  <2> QED
    BY <2>1, <2>2
<1>8. NoFailureIsLost'
  <2> HIDE DEF all
  <2> QED
    BY <1>1, <1>6, <1>7 DEF NoFailureIsLost
<1>9. TypeOK' /\ Progress' /\ MergedSoFar' /\ HasStatus'
  BY <1>1 DEF IInv, TypeOK, Phases, Orders, Progress, MergedSoFar, HasStatus
<1>10. AncestorsDone' /\ StatusIsOfAllAncestors'
  BY <1>1, StatusesStay
<1>11. InTurn' /\ ResultsReflect'
  BY <1>1 DEF IInv, InTurn, ResultsReflect, Reflects
<1> QED
  BY <1>8, <1>9, <1>10, <1>11 DEF IInv

-----------------------------------------------------------------------------
(* The theorems.                                                            *)

\* The invariant holds of every state of the interpreter.
LEMMA Invariance == Spec => []IInv
<1>1. Init => IInv
  <2> SUFFICES ASSUME Init PROVE IInv
    OBVIOUS
  <2>1. flow \in Flows /\ flow \in Flow /\ Len(flow.order) \in Nat
    <3>1. flow \in Flows /\ flow \in Flow
      BY ConstantsAssumption DEF Init
    <3>2. flow.order \in Seq(Jobs)
      BY <3>1 DEF Flow
    <3> QED
      BY <3>1, <3>2
  <2>2. << >> \in Seq(Instance) /\ NoOutputs \in Outputs
    BY DEF NoOutputs, Outputs
  <2>3. TypeOK
    <3>1. results \in [Jobs -> Result \cup {None}] /\ status \in [Jobs -> Status \cup {None}]
          /\ ran \in [Jobs -> SUBSET Outcomes]
      BY DEF Init
    <3>2. at \in 1 .. Len(flow.order) + 1
      BY <2>1 DEF Init
    <3> QED
      BY <2>1, <2>2, <3>1, <3>2 DEF Init, TypeOK, Phases
  <2>4. Progress /\ MergedSoFar /\ NoFailureIsLost
    BY DEF Init, Progress, Fresh, MergedSoFar, NoFailureIsLost
  <2>5. InTurn /\ HasStatus /\ AncestorsDone /\ ResultsReflect /\ StatusIsOfAllAncestors
    BY DEF Init, InTurn, Done, HasStatus, AncestorsDone, ResultsReflect,
       StatusIsOfAllAncestors
  <2> QED
    BY <2>3, <2>4, <2>5 DEF IInv
<1>2. IInv /\ [Next]_vars => IInv'
  <2> SUFFICES ASSUME IInv, [Next]_vars PROVE IInv'
    OBVIOUS
  <2>1. CASE UNCHANGED vars
    <3>1. TypeOK' /\ Progress' /\ InTurn' /\ HasStatus'
      BY <2>1 DEF vars, IInv, TypeOK, Orders, Progress, Fresh, NoOutputs, InTurn, Done, Job,
         HasStatus
    <3>2. AncestorsDone' /\ StatusIsOfAllAncestors'
      BY <2>1, StatusesStay DEF vars
    <3>3. ResultsReflect' /\ NoFailureIsLost'
      BY <2>1 DEF vars, IInv, ResultsReflect, Reflects, Job, NoFailureIsLost
    <3>4. MergedSoFar'
      <4>1. Job' = Job /\ InOrder' = InOrder
        BY <2>1 DEF vars, Job, InOrder
      <4>2. \A m, name : Giving(m, name)' = Giving(m, name) /\ Filled(m, name)' = Filled(m, name)
        BY <2>1, <4>1 DEF vars, Giving, Filled, Contributes
      <4>3. \A m, name, value : LastIn(m, name, value)' = LastIn(m, name, value)
        BY <4>1, <4>2 DEF LastIn
      <4> HIDE DEF Giving, Filled, LastIn, InOrder
      <4>4. ASSUME NEW name \in Names, phase' = "merge"
            PROVE  /\ outputs'[name] = Unset <=> Giving(merged, name)' = {}
                   /\ Giving(merged, name)' # {} /\ Filled(merged, name)' = {} =>
                        outputs'[name] = Empty
                   /\ Filled(merged, name)' # {} => LastIn(merged, name, outputs[name])'
                   /\ completion' = None => \A n \in Filled(merged, name)' :
                        InOrder'[n].outs[name] = outputs'[name]
        <5>1. Giving(merged, name)' = Giving(merged, name)
              /\ Filled(merged, name)' = Filled(merged, name)
              /\ LastIn(merged, name, outputs[name])' = LastIn(merged, name, outputs[name])
          BY <2>1, <4>1 DEF vars, Giving, Filled, LastIn, Contributes
        <5> QED
          BY <2>1, <4>1, <4>4, <5>1 DEF vars, IInv, MergedSoFar
      <4> QED
        BY <4>4 DEF MergedSoFar
    <3> QED
      BY <3>1, <3>2, <3>3, <3>4 DEF IInv
  <2> QED
    BY <2>1, SkipJobKeeps, BeginJobKeeps, RunInstanceKeeps, NoInstancesKeeps,
       MergeInstanceKeeps, EndJobKeeps, EndWorkflowKeeps, ThrowKeeps DEF Next
<1> QED
  BY <1>1, <1>2, PTL DEF Spec

\* The largest of some numbers up to n is one of them.
LEMMA MaxOf ==
    ASSUME NEW n \in Nat, NEW S \in SUBSET (1 .. n), S # {}
    PROVE  Max(S) \in S /\ \A x \in S : Max(S) >= x
<1> DEFINE T == {n - x : x \in S}
<1>1. \A x \in S : x \in Nat /\ n - x \in Nat
  OBVIOUS
<1>2. PICK t \in T : \A u \in T : ~(<<u, t>> \in OpToRel(<, Nat))
  <2>1. T \subseteq Nat /\ T # {}
    BY <1>1
  <2> HIDE DEF T
  <2> QED
    BY <2>1, NatLessThanWellFounded, WFMin
<1>3. PICK m \in S : t = n - m
  BY <1>2
<1>4. ASSUME NEW x \in S PROVE m >= x
  <2>1. n - x \in T /\ n - x \in Nat /\ n - m \in Nat /\ x \in Nat /\ m \in Nat
    BY <1>1
  <2>2. ~(n - x < n - m)
    BY <1>2, <1>3, <2>1 DEF OpToRel
  <2> QED
    BY <2>1, <2>2
<1> QED
  BY <1>3, <1>4 DEF Max

\* An order reaches every instance.
LEMMA OrdersReach ==
    ASSUME NEW n \in Nat, NEW order \in Orders(n)
    PROVE  order \in [1 .. n -> 1 .. n] /\ \A k \in 1 .. n : \E m \in 1 .. n : order[m] = k
<1>1. order \in Injection(1 .. n, 1 .. n)
  BY DEF Orders, Injection, IsInjective
<1>2. IsFiniteSet(1 .. n)
  BY FS_Interval
<1>3. order \in Surjection(1 .. n, 1 .. n)
  BY <1>1, <1>2, FS_Injection
<1> QED
  BY <1>3 DEF Surjection

\* When all is merged, every name has the last value in any order there may be.
LEMMA LastStands == IInv => LastNonemptyValueStands
<1> SUFFICES ASSUME IInv, phase = "merge", merged = total,
                    NEW order \in IF completion = None THEN Orders(total) ELSE {completion},
                    NEW name \in Names
             PROVE  LET nth(n) == instances[order[n]]
                        giving == {n \in 1 .. total : Contributes(nth(n), name)}
                        filled == {n \in giving : nth(n).outs[name] # Empty}
                    IN  /\ giving = {} <=> outputs[name] = Unset
                        /\ giving # {} /\ filled = {} => outputs[name] = Empty
                        /\ filled # {} => outputs[name] = nth(Max(filled)).outs[name]
  BY DEF LastNonemptyValueStands
<1> DEFINE nth(n) == instances[order[n]]
           giving == {n \in 1 .. total : Contributes(nth(n), name)}
           filled == {n \in giving : nth(n).outs[name] # Empty}
<1>1. /\ total \in Nat
      /\ completion # None => /\ completion \in Orders(total)
                              /\ \A n \in 1 .. total : InOrder[n] = instances[completion[n]]
      /\ completion = None => InOrder = instances
  BY InOrderFacts
<1>2. /\ outputs[name] = Unset <=> Giving(total, name) = {}
      /\ Giving(total, name) # {} /\ Filled(total, name) = {} => outputs[name] = Empty
      /\ Filled(total, name) # {} => LastIn(total, name, outputs[name])
      /\ completion = None => \A n \in Filled(total, name) : InOrder[n].outs[name] = outputs[name]
  BY DEF IInv, MergedSoFar
<1>3. filled # {} => Max(filled) \in filled /\ \A n \in filled : Max(filled) >= n
  BY <1>1, MaxOf
<1>4. \A n : /\ n \in Giving(total, name) <=> n \in 1 .. total /\ Contributes(InOrder[n], name)
             /\ n \in Filled(total, name) <=>
                  n \in Giving(total, name) /\ InOrder[n].outs[name] # Empty
  BY DEF Giving, Filled
<1>5. \A n : /\ n \in giving <=> n \in 1 .. total /\ Contributes(nth(n), name)
             /\ n \in filled <=> n \in giving /\ nth(n).outs[name] # Empty
  OBVIOUS
<1>6. CASE completion # None
  <2>1. \A n \in 1 .. total : nth(n) = InOrder[n]
    BY <1>1, <1>6
  <2>2. giving = Giving(total, name) /\ filled = Filled(total, name)
    BY <1>4, <1>5, <2>1
  <2>3. ASSUME filled # {} PROVE outputs[name] = nth(Max(filled)).outs[name]
    <3>1. PICK last \in filled :
            (\A n \in filled : n <= last) /\ outputs[name] = InOrder[last].outs[name]
      BY <1>2, <2>2, <2>3 DEF LastIn
    <3>2. Max(filled) \in 1 .. total /\ last \in 1 .. total
      BY <1>3, <2>3, <3>1
    <3>3. Max(filled) <= last /\ last <= Max(filled)
      BY <1>3, <2>3, <3>1, <3>2
    <3>4. Max(filled) = last
      BY <1>1, <3>2, <3>3
    <3> QED
      BY <2>1, <3>1, <3>2, <3>4
  <2> HIDE DEF giving, filled
  <2>4. /\ giving = {} <=> outputs[name] = Unset
        /\ giving # {} /\ filled = {} => outputs[name] = Empty
    BY <1>2, <2>2
  <2> QED
    BY <2>3, <2>4 DEF giving, filled
<1>7. CASE completion = None
  <2>1. order \in [1 .. total -> 1 .. total]
        /\ \A k \in 1 .. total : \E m \in 1 .. total : order[m] = k
    BY <1>1, <1>7, OrdersReach
  <2>2. \A n \in 1 .. total : order[n] \in 1 .. total /\ nth(n) = InOrder[order[n]]
    BY <1>1, <1>7, <2>1
  <2>3. \A n \in giving : order[n] \in Giving(total, name)
    BY <1>4, <1>5, <2>2
  <2>4. \A n \in filled : order[n] \in Filled(total, name)
    BY <1>4, <1>5, <2>2, <2>3
  <2>5. \A k \in Giving(total, name) : \E n \in giving : order[n] = k
    BY <1>4, <1>5, <2>1, <2>2
  <2>6. \A k \in Filled(total, name) : \E n \in filled : order[n] = k
    <3>1. ASSUME NEW k \in Filled(total, name) PROVE \E n \in filled : order[n] = k
      <4>1. PICK n \in giving : order[n] = k
        BY <1>4, <2>5
      <4>2. nth(n) = InOrder[k] /\ InOrder[k].outs[name] # Empty
        BY <1>4, <1>5, <2>2, <4>1
      <4> QED
        BY <1>5, <4>1, <4>2
    <3> QED
      BY <3>1
  <2>7. \A n \in filled : nth(n).outs[name] = outputs[name]
    BY <1>2, <1>5, <1>7, <2>2, <2>4
  <2> HIDE DEF giving, filled
  <2>8. /\ giving = {} <=> outputs[name] = Unset
        /\ giving # {} /\ filled = {} => outputs[name] = Empty
    BY <1>2, <2>3, <2>4, <2>5, <2>6
  <2>9. filled # {} => outputs[name] = nth(Max(filled)).outs[name]
    BY <1>3, <2>7
  <2> QED
    BY <2>8, <2>9 DEF giving, filled
<1> QED
  BY <1>6, <1>7

\* The status a job inherits tells of every job before it in the graph of
\* needs, however the jobs in between ended.
THEOREM StatusOfAll == Spec => []StatusIsOfAllAncestors
<1>1. IInv => StatusIsOfAllAncestors
  BY DEF IInv
<1> QED
  BY <1>1, Invariance, PTL

\* The outputs of a job are the last nonempty ones of its instances.
THEOREM LastValues == Spec => []LastNonemptyValueStands
<1> QED
  BY LastStands, Invariance, PTL

\* The workflow fails if and only if an instance did.
THEOREM FailuresKept == Spec => []NoFailureIsLost
<1>1. IInv => NoFailureIsLost
  BY DEF IInv
<1> QED
  BY <1>1, Invariance, PTL

-----------------------------------------------------------------------------
(* Fields.  From here on FieldEvaluation, for every set of fixtures: first  *)
(* its tables, then what the contexts reach at each place.                  *)

\* Tables that have no key in common are joined without a loss.
Apart(tables) == \A t, u \in tables : \A key \in DOMAIN t : key \in DOMAIN u => t = u

\* Joined has every key of the tables, with the value it has there.
LEMMA JoinedParts ==
    ASSUME NEW tables, Apart(tables)
    PROVE  /\ DOMAIN Joined(tables) = UNION {DOMAIN t : t \in tables}
           /\ \A t \in tables : \A key \in DOMAIN t : Joined(tables)[key] = t[key]
<1>1. DOMAIN Joined(tables) = UNION {DOMAIN t : t \in tables}
  BY DEF Joined
<1>2. ASSUME NEW t \in tables, NEW key \in DOMAIN t PROVE Joined(tables)[key] = t[key]
  <2>1. (CHOOSE u \in tables : key \in DOMAIN u) = t
    BY DEF Apart
  <2> QED
    BY <2>1 DEF Joined
<1> QED
  BY <1>1, <1>2

\* The tables of what the types of the builder's methods name; a field is in one.
DeclaredTables ==
    {DeclaredWorkflow, DeclaredDefault, DeclaredWorkflowOutputs, DeclaredValues,
     DeclaredSettings, DeclaredStrategy, DeclaredControls, DeclaredSnapshot,
     DeclaredOutputs, DeclaredContainer, DeclaredService, DeclaredCall, DeclaredStep,
     DeclaredTask, DeclaredUses}

\* They are what Declared joins.
LEMMA DeclaredIsJoined == Declared = Joined(DeclaredTables)
  BY DEF Declared, DeclaredTables

\* No field is in two of them.
LEMMA DeclaredTablesApart == Apart(DeclaredTables)
<1>1. /\ DOMAIN DeclaredWorkflow = {"workflowEnv", "workflowConcurrency"}
      /\ DOMAIN DeclaredDefault = {"inputDefault"}
      /\ DOMAIN DeclaredWorkflowOutputs = {"workflowOutputs"}
      /\ DOMAIN DeclaredValues = {"runsOn", "environment", "url", "jobEnv", "stepEnv"}
      /\ DOMAIN DeclaredSettings = {"name", "defaultsRun", "when"}
      /\ DOMAIN DeclaredStrategy = {"strategy"}
      /\ DOMAIN DeclaredControls = {"continueOnError", "concurrency", "timeoutMinutes"}
      /\ DOMAIN DeclaredSnapshot = {"snapshot"}
      /\ DOMAIN DeclaredOutputs = {"outputs"}
      /\ DOMAIN DeclaredContainer = {"container", "image", "credentials", "containerEnv", "ports"}
      /\ DOMAIN DeclaredService = {"serviceImage", "serviceCredentials", "serviceEnv", "servicePorts"}
      /\ DOMAIN DeclaredCall = {"with", "secrets"}
      /\ DOMAIN DeclaredStep = {"if", "stepContinueOnError", "stepTimeoutMinutes"}
      /\ DOMAIN DeclaredTask = {"inputs"}
      /\ DOMAIN DeclaredUses = {"stepWith"}
  BY DEF DeclaredWorkflow, DeclaredDefault, DeclaredWorkflowOutputs, DeclaredValues,
       DeclaredSettings, DeclaredStrategy, DeclaredControls, DeclaredSnapshot,
       DeclaredOutputs, DeclaredContainer, DeclaredService, DeclaredCall, DeclaredStep,
       DeclaredTask, DeclaredUses
<1>2. ASSUME NEW t \in DeclaredTables, NEW u \in DeclaredTables, NEW f \in DOMAIN t,
             f \in DOMAIN u
      PROVE  t = u
  BY <1>1, <1>2 DEF DeclaredTables
<1> QED
  BY ONLY <1>2 DEF Apart

\* The tables of what the methods themselves name; a field is in one.
RenderedTables ==
    {RenderedWorkflow, RenderedDefault, RenderedWorkflowOutputs, RenderedValues,
     RenderedSettings, RenderedWith, RenderedOutputs, RenderedContainer, RenderedCall,
     RenderedStep, RenderedTask}

\* They are what Rendered joins.
LEMMA RenderedIsJoined == Rendered = Joined(RenderedTables)
  BY DEF Rendered, RenderedTables

\* No field is in two of them.
LEMMA RenderedTablesApart == Apart(RenderedTables)
<1>1. /\ DOMAIN RenderedWorkflow = {"workflowEnv", "workflowConcurrency"}
      /\ DOMAIN RenderedDefault = {"inputDefault"}
      /\ DOMAIN RenderedWorkflowOutputs = {"workflowOutputs"}
      /\ DOMAIN RenderedValues = {"runsOn", "environment", "url", "concurrency", "strategy",
                                "snapshot"}
      /\ DOMAIN RenderedSettings = {"name", "jobEnv", "defaultsRun", "when", "continueOnError",
                                  "timeoutMinutes"}
      /\ DOMAIN RenderedWith = {"stepWith"}
      /\ DOMAIN RenderedOutputs = {"outputs"}
      /\ DOMAIN RenderedContainer = {"container", "image", "credentials", "containerEnv", "ports",
                                   "serviceImage", "serviceCredentials", "serviceEnv",
                                   "servicePorts"}
      /\ DOMAIN RenderedCall = {"with", "secrets"}
      /\ DOMAIN RenderedStep = {"if", "stepEnv", "stepContinueOnError", "stepTimeoutMinutes"}
      /\ DOMAIN RenderedTask = {"inputs"}
  BY DEF RenderedWorkflow, RenderedDefault, RenderedWorkflowOutputs, RenderedValues,
       RenderedSettings, RenderedWith, RenderedOutputs, RenderedContainer, RenderedCall,
       RenderedStep, RenderedTask
<1>2. ASSUME NEW t \in RenderedTables, NEW u \in RenderedTables, NEW f \in DOMAIN t,
             f \in DOMAIN u
      PROVE  t = u
  BY <1>1, <1>2 DEF RenderedTables
<1> QED
  BY ONLY <1>2 DEF Apart

\* The tables of the catalog.
ScopeTables == {WorkflowScopes, JobScopes, ContainerScopes, StepScopes}

\* No key is in two of them, so that the catalog has each scope as it was written.
LEMMA ScopeTablesApart ==
    /\ Apart(ScopeTables)
    /\ \A t \in ScopeTables : \A key \in DOMAIN t : Contexts[key] = t[key]
<1>1. /\ DOMAIN WorkflowScopes =
           {"run-name", "concurrency", "on.workflow_call.inputs.<inputs_id>.default", "env",
            "on.workflow_call.outputs.<output_id>.value"}
      /\ DOMAIN JobScopes =
           {"jobs.<job_id>.concurrency", "jobs.<job_id>.continue-on-error",
            "jobs.<job_id>.environment", "jobs.<job_id>.name", "jobs.<job_id>.runs-on",
            "jobs.<job_id>.timeout-minutes", "jobs.<job_id>.with.<with_id>",
            "jobs.<job_id>.if", "jobs.<job_id>.strategy", "jobs.<job_id>.env",
            "jobs.<job_id>.secrets.<secrets_id>", "jobs.<job_id>.defaults.run",
            "jobs.<job_id>.environment.url", "jobs.<job_id>.snapshot.if",
            "jobs.<job_id>.outputs.<output_id>"}
      /\ DOMAIN ContainerScopes =
           {"jobs.<job_id>.container", "jobs.<job_id>.container.image",
            "jobs.<job_id>.services", "jobs.<job_id>.container.credentials",
            "jobs.<job_id>.services.<service_id>.credentials",
            "jobs.<job_id>.container.env.<env_id>",
            "jobs.<job_id>.services.<service_id>.env.<env_id>"}
      /\ DOMAIN StepScopes =
           {"jobs.<job_id>.steps.if", "jobs.<job_id>.steps.continue-on-error",
            "jobs.<job_id>.steps.env", "jobs.<job_id>.steps.name",
            "jobs.<job_id>.steps.run", "jobs.<job_id>.steps.timeout-minutes",
            "jobs.<job_id>.steps.with", "jobs.<job_id>.steps.working-directory"}
  BY DEF WorkflowScopes, JobScopes, ContainerScopes, StepScopes
<1>2. ASSUME NEW t \in ScopeTables, NEW u \in ScopeTables, NEW key \in DOMAIN t,
             key \in DOMAIN u
      PROVE  t = u
  BY <1>1, <1>2 DEF ScopeTables
<1>3. Apart(ScopeTables)
  BY ONLY <1>2 DEF Apart
<1> QED
  BY <1>3, JoinedParts DEF Contexts, ScopeTables

\* What the catalog lists for the scopes of fields that a scenario evaluates.
LEMMA ContextsOfScopes ==
    /\ \A key \in {"concurrency", "on.workflow_call.inputs.<inputs_id>.default"} :
         Contexts[key] = {"github", "inputs", "vars"}
    /\ Contexts["env"] = {"github", "secrets", "inputs", "vars"}
    /\ Contexts["on.workflow_call.outputs.<output_id>.value"] =
         {"github", "jobs", "vars", "inputs"}
    /\ \A key \in {"jobs.<job_id>.if", "jobs.<job_id>.strategy"} :
         Contexts[key] = {"github", "needs", "vars", "inputs"}
    /\ \A key \in {"jobs.<job_id>.concurrency", "jobs.<job_id>.continue-on-error",
              "jobs.<job_id>.environment", "jobs.<job_id>.runs-on",
              "jobs.<job_id>.timeout-minutes", "jobs.<job_id>.with.<with_id>"} :
         Contexts[key] = JobMatrixContexts
    /\ \A key \in {"jobs.<job_id>.env", "jobs.<job_id>.secrets.<secrets_id>"} :
         Contexts[key] = JobMatrixContexts \cup {"secrets"}
    /\ \A key \in DOMAIN ContainerScopes : Contexts[key] \subseteq StepContexts \ {"steps"}
    /\ \A key \in DOMAIN StepScopes \cup
              {"jobs.<job_id>.defaults.run", "jobs.<job_id>.environment.url",
               "jobs.<job_id>.snapshot.if", "jobs.<job_id>.outputs.<output_id>"} :
         Contexts[key] \subseteq StepContexts
<1>1. /\ \A key \in DOMAIN WorkflowScopes : Contexts[key] = WorkflowScopes[key]
      /\ \A key \in DOMAIN JobScopes : Contexts[key] = JobScopes[key]
      /\ \A key \in DOMAIN ContainerScopes : Contexts[key] = ContainerScopes[key]
      /\ \A key \in DOMAIN StepScopes : Contexts[key] = StepScopes[key]
  BY ScopeTablesApart DEF ScopeTables
<1>2. \A key \in DOMAIN ContainerScopes : Contexts[key] \subseteq StepContexts \ {"steps"}
  <2>1. JobMatrixContexts \cup {"env", "secrets"} \subseteq StepContexts \ {"steps"}
    BY DEF StepContexts, JobMatrixContexts
  <2>2. ASSUME NEW key \in DOMAIN ContainerScopes
        PROVE  ContainerScopes[key] \in
                 {JobMatrixContexts, JobMatrixContexts \cup {"env", "secrets"},
                  StepContexts \ {"steps"}}
    BY DEF ContainerScopes
  <2> QED
    BY <1>1, <2>1, <2>2
<1>3. \A key \in DOMAIN StepScopes : Contexts[key] \subseteq StepContexts
  BY <1>1 DEF StepScopes
<1>4. /\ \A key \in {"concurrency", "on.workflow_call.inputs.<inputs_id>.default"} :
           Contexts[key] = {"github", "inputs", "vars"}
      /\ Contexts["env"] = {"github", "secrets", "inputs", "vars"}
      /\ Contexts["on.workflow_call.outputs.<output_id>.value"] =
           {"github", "jobs", "vars", "inputs"}
  BY <1>1 DEF WorkflowScopes
<1>5. /\ \A key \in {"jobs.<job_id>.if", "jobs.<job_id>.strategy"} :
           Contexts[key] = {"github", "needs", "vars", "inputs"}
      /\ \A key \in {"jobs.<job_id>.concurrency", "jobs.<job_id>.continue-on-error",
                "jobs.<job_id>.environment", "jobs.<job_id>.runs-on",
                "jobs.<job_id>.timeout-minutes", "jobs.<job_id>.with.<with_id>"} :
           Contexts[key] = JobMatrixContexts
      /\ \A key \in {"jobs.<job_id>.env", "jobs.<job_id>.secrets.<secrets_id>"} :
           Contexts[key] = JobMatrixContexts \cup {"secrets"}
  BY <1>1 DEF JobScopes
<1>6. \A key \in {"jobs.<job_id>.defaults.run", "jobs.<job_id>.environment.url",
               "jobs.<job_id>.snapshot.if", "jobs.<job_id>.outputs.<output_id>"} :
        Contexts[key] \subseteq StepContexts
  BY <1>1 DEF JobScopes, StepContexts, JobMatrixContexts
<1> QED
  BY ONLY <1>2, <1>3, <1>4, <1>5, <1>6

\* The fields that are evaluated together are offered the same contexts, and on
\* the server or in a runner.
Offers(field) == Contexts[Declared[field]]
LEMMA FieldsOffer ==
    /\ \A f \in {"workflowConcurrency", "inputDefault"} :
         Offers(f) = {"github", "inputs", "vars"} /\ Declared[f] \notin RunnerScopes
    /\ Declared["inputDefault"] = "on.workflow_call.inputs.<inputs_id>.default"
    /\ Offers("workflowEnv") = {"github", "secrets", "inputs", "vars"}
    /\ Declared["workflowEnv"] \in RunnerScopes
    /\ Offers("workflowOutputs") = {"github", "jobs", "vars", "inputs"}
    /\ Declared["workflowOutputs"] \notin RunnerScopes
    /\ \A f \in {"when", "strategy"} :
         Offers(f) = {"github", "needs", "vars", "inputs"} /\ Declared[f] \notin RunnerScopes
    /\ \A f \in ServerFields \cup {"with"} :
         Offers(f) = JobMatrixContexts /\ Declared[f] \notin RunnerScopes
    /\ Offers("secrets") = JobMatrixContexts \cup {"secrets"}
    /\ Declared["secrets"] \notin RunnerScopes
    /\ Offers("jobEnv") = JobMatrixContexts \cup {"secrets"}
    /\ Declared["jobEnv"] \in RunnerScopes
    /\ \A f \in ContainerFields :
         Offers(f) \subseteq StepContexts \ {"steps"} /\ Declared[f] \in RunnerScopes
    /\ \A f \in {"if", "stepEnv", "inputs", "stepWith", "defaultsRun", "stepContinueOnError",
                 "url", "snapshot", "outputs"} :
         Offers(f) \subseteq StepContexts /\ Declared[f] \in RunnerScopes
<1>1. /\ DOMAIN ContainerScopes =
           {"jobs.<job_id>.container", "jobs.<job_id>.container.image",
            "jobs.<job_id>.services", "jobs.<job_id>.container.credentials",
            "jobs.<job_id>.services.<service_id>.credentials",
            "jobs.<job_id>.container.env.<env_id>",
            "jobs.<job_id>.services.<service_id>.env.<env_id>"}
      /\ DOMAIN StepScopes =
           {"jobs.<job_id>.steps.if", "jobs.<job_id>.steps.continue-on-error",
            "jobs.<job_id>.steps.env", "jobs.<job_id>.steps.name",
            "jobs.<job_id>.steps.run", "jobs.<job_id>.steps.timeout-minutes",
            "jobs.<job_id>.steps.with", "jobs.<job_id>.steps.working-directory"}
  BY DEF ContainerScopes, StepScopes
<1>2. \A t \in DeclaredTables : \A f \in DOMAIN t : Declared[f] = t[f]
  BY DeclaredTablesApart, DeclaredIsJoined, JoinedParts
<1>3. /\ Declared["workflowEnv"] = "env" /\ Declared["workflowConcurrency"] = "concurrency"
      /\ Declared["inputDefault"] = "on.workflow_call.inputs.<inputs_id>.default"
      /\ Declared["workflowOutputs"] = "on.workflow_call.outputs.<output_id>.value"
  BY <1>2 DEF DeclaredTables, DeclaredWorkflow, DeclaredDefault, DeclaredWorkflowOutputs
<1>4. /\ Declared["runsOn"] = "jobs.<job_id>.runs-on"
      /\ Declared["environment"] = "jobs.<job_id>.environment"
      /\ Declared["url"] = "jobs.<job_id>.environment.url"
      /\ Declared["jobEnv"] = "jobs.<job_id>.env"
      /\ Declared["stepEnv"] = "jobs.<job_id>.steps.env"
  BY <1>2 DEF DeclaredTables, DeclaredValues
<1>5. /\ Declared["defaultsRun"] = "jobs.<job_id>.defaults.run"
      /\ Declared["when"] = "jobs.<job_id>.if"
      /\ Declared["strategy"] = "jobs.<job_id>.strategy"
  BY <1>2 DEF DeclaredTables, DeclaredSettings, DeclaredStrategy
<1>6. /\ Declared["continueOnError"] = "jobs.<job_id>.continue-on-error"
      /\ Declared["concurrency"] = "jobs.<job_id>.concurrency"
      /\ Declared["timeoutMinutes"] = "jobs.<job_id>.timeout-minutes"
      /\ Declared["snapshot"] = "jobs.<job_id>.snapshot.if"
      /\ Declared["outputs"] = "jobs.<job_id>.outputs.<output_id>"
  BY <1>2 DEF DeclaredTables, DeclaredControls, DeclaredSnapshot, DeclaredOutputs
<1>7. /\ Declared["with"] = "jobs.<job_id>.with.<with_id>"
      /\ Declared["secrets"] = "jobs.<job_id>.secrets.<secrets_id>"
      /\ Declared["if"] = "jobs.<job_id>.steps.if"
      /\ Declared["stepContinueOnError"] = "jobs.<job_id>.steps.continue-on-error"
      /\ Declared["inputs"] = "jobs.<job_id>.steps.env"
      /\ Declared["stepWith"] = "jobs.<job_id>.steps.with"
  BY <1>2 DEF DeclaredTables, DeclaredCall, DeclaredStep, DeclaredTask, DeclaredUses
<1>8. \A f \in ContainerFields : Declared[f] \in DOMAIN ContainerScopes
  <2>1. ContainerFields = DOMAIN DeclaredContainer \cup DOMAIN DeclaredService
    BY DEF ContainerFields, RenderedContainer, DeclaredContainer, DeclaredService
  <2>2. /\ \A f \in DOMAIN DeclaredContainer : DeclaredContainer[f] \in DOMAIN ContainerScopes
        /\ \A f \in DOMAIN DeclaredService : DeclaredService[f] \in DOMAIN ContainerScopes
    BY <1>1 DEF DeclaredContainer, DeclaredService
  <2> QED
    BY <1>2, <2>1, <2>2 DEF DeclaredTables
<1>9. \A f \in {"workflowConcurrency", "inputDefault", "workflowOutputs", "when", "strategy",
               "with", "secrets"} \cup ServerFields : Declared[f] \notin RunnerScopes
  BY <1>1, <1>3, <1>4, <1>5, <1>6, <1>7 DEF RunnerScopes, ServerFields
<1>10. \A f \in {"workflowEnv", "jobEnv", "if", "stepEnv", "inputs", "stepWith", "defaultsRun",
                "stepContinueOnError", "url", "snapshot", "outputs"} :
         Declared[f] \in RunnerScopes
  BY <1>1, <1>3, <1>4, <1>5, <1>6, <1>7 DEF RunnerScopes
<1>11. \A f \in ContainerFields :
         Offers(f) \subseteq StepContexts \ {"steps"} /\ Declared[f] \in RunnerScopes
  BY <1>8, ContextsOfScopes DEF RunnerScopes, Offers
<1>12. \A f \in {"if", "stepEnv", "inputs", "stepWith", "defaultsRun", "stepContinueOnError",
                "url", "snapshot", "outputs"} : Offers(f) \subseteq StepContexts
  BY <1>1, <1>4, <1>5, <1>6, <1>7, ContextsOfScopes DEF Offers
<1>13. \A f \in ServerFields \cup {"with"} : Offers(f) = JobMatrixContexts
  BY <1>4, <1>6, <1>7, ContextsOfScopes DEF Offers, ServerFields
<1>14. /\ \A f \in {"workflowConcurrency", "inputDefault"} :
            Offers(f) = {"github", "inputs", "vars"}
       /\ Offers("workflowEnv") = {"github", "secrets", "inputs", "vars"}
       /\ Offers("workflowOutputs") = {"github", "jobs", "vars", "inputs"}
       /\ \A f \in {"when", "strategy"} : Offers(f) = {"github", "needs", "vars", "inputs"}
       /\ Offers("secrets") = JobMatrixContexts \cup {"secrets"}
       /\ Offers("jobEnv") = JobMatrixContexts \cup {"secrets"}
  BY <1>3, <1>4, <1>5, <1>7, ContextsOfScopes DEF Offers
<1> QED
  BY <1>3, <1>9, <1>10, <1>11, <1>12, <1>13, <1>14

\* What a field is declared to offer, its method offers.
LEMMA RenderedIsDeclared == \A f \in Fields : Rendered[f] = Declared[f]
<1>1. \A t \in DeclaredTables : \A f \in DOMAIN t : Declared[f] = t[f]
  BY DeclaredTablesApart, DeclaredIsJoined, JoinedParts
<1>2. Fields = UNION {DOMAIN t : t \in DeclaredTables}
  BY DeclaredTablesApart, DeclaredIsJoined, JoinedParts DEF Fields
<1>3. \A t \in RenderedTables : \A f \in DOMAIN t : Rendered[f] = t[f]
  BY RenderedTablesApart, RenderedIsJoined, JoinedParts
<1>4. ASSUME NEW f \in DOMAIN DeclaredWorkflow \cup DOMAIN DeclaredDefault
                        \cup DOMAIN DeclaredWorkflowOutputs
      PROVE  Rendered[f] = Declared[f]
  BY <1>1, <1>3 DEF DeclaredTables, RenderedTables, DeclaredWorkflow, DeclaredDefault,
     DeclaredWorkflowOutputs, RenderedWorkflow, RenderedDefault, RenderedWorkflowOutputs
<1>5. ASSUME NEW f \in DOMAIN DeclaredValues PROVE Rendered[f] = Declared[f]
  BY <1>1, <1>3 DEF DeclaredTables, RenderedTables, DeclaredValues,
     RenderedValues, RenderedSettings, RenderedStep
<1>6. ASSUME NEW f \in DOMAIN DeclaredSettings \cup DOMAIN DeclaredStrategy
                        \cup DOMAIN DeclaredSnapshot \cup DOMAIN DeclaredOutputs
      PROVE  Rendered[f] = Declared[f]
  BY <1>1, <1>3 DEF DeclaredTables, RenderedTables, DeclaredSettings, DeclaredStrategy,
     DeclaredSnapshot, DeclaredOutputs, RenderedValues, RenderedSettings, RenderedOutputs
<1>7. ASSUME NEW f \in DOMAIN DeclaredControls PROVE Rendered[f] = Declared[f]
  BY <1>1, <1>3 DEF DeclaredTables, RenderedTables, DeclaredControls,
     RenderedValues, RenderedSettings
<1>8. ASSUME NEW f \in DOMAIN DeclaredContainer \cup DOMAIN DeclaredService
      PROVE  Rendered[f] = Declared[f]
  BY <1>1, <1>3 DEF DeclaredTables, RenderedTables, DeclaredContainer, DeclaredService,
     RenderedContainer
<1>9. ASSUME NEW f \in DOMAIN DeclaredCall \cup DOMAIN DeclaredStep \cup DOMAIN DeclaredTask
                        \cup DOMAIN DeclaredUses
      PROVE  Rendered[f] = Declared[f]
  BY <1>1, <1>3 DEF DeclaredTables, RenderedTables, DeclaredCall, DeclaredStep, DeclaredTask,
     DeclaredUses, RenderedCall, RenderedStep, RenderedTask, RenderedWith
<1> QED
  BY <1>2, <1>4, <1>5, <1>6, <1>7, <1>8, <1>9 DEF DeclaredTables
-----------------------------------------------------------------------------
(* Contexts.                                                                *)

\* A context of one of the workflows, with values or null for its members.
IsContext(r) ==
    /\ r = [of |-> r.of, has |-> r.has]
    /\ r.of \in 0 .. 1
    /\ \A m \in DOMAIN r.has : r.has[m] \in {"value", "null"}
Well(cs) ==
    /\ cs = [c \in DOMAIN cs |-> cs[c]]
    /\ "github" \in DOMAIN cs /\ DOMAIN cs \subseteq StepContexts \cup {"jobs"}
    /\ \A c \in DOMAIN cs : IsContext(cs[c])

\* There is nothing that a context lacks but for want of a fixture.
Complete(c, r) ==
    c \in KnownMissing \/ \A m \in Members(c) : m \in DOMAIN r.has \/ Lacking(Reference(c, m))
Reach(cs, names) ==
    \A c \in names : \/ c \in {"vars", "inputs"} \ supplied
                     \/ c \in DOMAIN cs /\ Complete(c, cs[c])
Secrets(cs, d) ==
    /\ "secrets" \in DOMAIN cs
    /\ "GITHUB_TOKEN" \in supplied => "GITHUB_TOKEN" \in DOMAIN cs["secrets"].has
    /\ d = 0 /\ "secrets" \in supplied => "name" \in DOMAIN cs["secrets"].has

\* github.job and github.token of the server and of a runner.
Nulls(cs) ==
    \A m \in {"job", "token"} \cap DOMAIN cs["github"].has : cs["github"].has[m] = "null"
Runs(cs) ==
    \A m \in {"job", "token"} \cap DOMAIN cs["github"].has : cs["github"].has[m] = "value"

\* Only the run itself and variables are of the caller.
Hidden(cs, names) == \A c \in DOMAIN cs \cap names : cs[c].of = 0 => c \in {"github", "vars"}

\* What the interpreter has where it evaluates: before and within a runner.
Before == {"authoring", "workflow", "job", "strategy", "call", "callee"}
Within == {"settings", "if", "step", "end", "outputs"}
Scope(where) ==
    IF where \in Within THEN StepContexts \ {"secrets"}
    ELSE IF where \in {"call", "instance"} THEN JobMatrixContexts
    ELSE IF where = "strategy" THEN {"github", "vars", "inputs", "needs"}
    ELSE {"github", "vars", "inputs"}
Situated(cs, where, d) ==
    /\ Well(cs)
    /\ Reach(cs, Scope(where))
    /\ where # "result" => Secrets(cs, d)
    /\ where \in {"authoring", "call", "callee"} => d = 0
    /\ where \in Before /\ d = 0 =>
         DOMAIN cs \subseteq JobMatrixContexts \cup {"secrets", "env", "job"}
    /\ d = 1 => Hidden(cs, IF where \in {"workflow", "job", "strategy", "result"}
                           THEN DOMAIN cs \ {"strategy"} ELSE DOMAIN cs)
    /\ where \in Before \cup {"instance"} => Nulls(cs)
    /\ where \in Within => Runs(cs)

Chosen ==
    /\ supplied \subseteq Fixtures
    /\ choice.field \in Fields
    /\ choice.reference \in Offered(Declared[choice.field])
    /\ choice.at \in 0 .. 1
    /\ choice.field = "inputDefault" => choice.at = 1
    /\ choice.field \in {"with", "secrets"} => choice.at = 0

\* The inductive invariant: at each place the contexts are there that the fields
\* evaluated there are offered, of the workflow that the field is in.
FieldInv ==
    /\ Chosen
    /\ depth \in 0 .. 1
    /\ place \in Before \cup Within \cup {"instance", "result"} =>
         Situated(contexts, place, depth)
    /\ OfferedReferencesResolve /\ ServerFieldsSeeNull /\ CallersStayHidden

\* Contexts are made of values.
LEMMA ValuesAre ==
    /\ \A members : DOMAIN Valued(members) = members
                    /\ \A m \in members : Valued(members)[m] = "value"
    /\ \A fixture, members :
         /\ DOMAIN Supplied(fixture, members) = IF fixture \in supplied THEN members ELSE {}
         /\ \A m \in DOMAIN Supplied(fixture, members) : Supplied(fixture, members)[m] = "value"
  BY DEF Valued, Supplied

\* Given makes a context.
LEMMA GivenIsContext ==
    ASSUME NEW of \in 0 .. 1, NEW members,
           \A m \in DOMAIN members : members[m] \in {"value", "null"}
    PROVE  /\ IsContext(Given(of, members))
           /\ Given(of, members).of = of /\ Given(of, members).has = members
  BY DEF IsContext, Given

\* f ++ g has what f has, and what g has besides.
LEMMA Merge ==
    ASSUME NEW f, NEW g
    PROVE  /\ DOMAIN (f ++ g) = DOMAIN f \cup DOMAIN g
           /\ \A x \in DOMAIN f : (f ++ g)[x] = f[x]
           /\ \A x \in DOMAIN g : x \notin DOMAIN f => (f ++ g)[x] = g[x]
  BY DEF ++

\* The same, for a name to be given to it.
LEMMA Merged ==
    \A f, g : \E h :
      /\ h = (f ++ g)
      /\ DOMAIN h = DOMAIN f \cup DOMAIN g
      /\ \A x \in DOMAIN f : h[x] = f[x]
      /\ \A x \in DOMAIN g : x \notin DOMAIN f => h[x] = g[x]
<1> TAKE f, g
<1> PICK h : h = (f ++ g)
  OBVIOUS
<1>1. /\ DOMAIN (f ++ g) = DOMAIN f \cup DOMAIN g
      /\ \A x \in DOMAIN f : (f ++ g)[x] = f[x]
      /\ \A x \in DOMAIN g : x \notin DOMAIN f => (f ++ g)[x] = g[x]
  BY ONLY Merge
<1> QED
  BY <1>1

\* More contexts, some of which may take the place of others.
LEMMA Layered ==
    ASSUME NEW cs, Well(cs), NEW top, DOMAIN top \subseteq StepContexts \cup {"jobs"},
           \A c \in DOMAIN top : IsContext(top[c])
    PROVE  Well(top ++ cs)
<1>0. /\ DOMAIN (top ++ cs) = DOMAIN top \cup DOMAIN cs
      /\ \A x \in DOMAIN top : (top ++ cs)[x] = top[x]
      /\ \A x \in DOMAIN cs : x \notin DOMAIN top => (top ++ cs)[x] = cs[x]
  BY Merge
<1>1. (top ++ cs) = [c \in DOMAIN (top ++ cs) |-> (top ++ cs)[c]]
  BY DEF ++
<1>2. ASSUME NEW c \in DOMAIN (top ++ cs) PROVE IsContext((top ++ cs)[c])
  <2>1. CASE c \in DOMAIN top
    BY <1>0, <2>1
  <2>2. CASE c \in DOMAIN cs /\ c \notin DOMAIN top
    BY <1>0, <2>2 DEF Well
  <2> QED
    BY <1>0, <2>1, <2>2
<1> QED
  BY <1>0, <1>1, <1>2 DEF Well

\* They reach what they reached, and what is on top.
LEMMA ReachLayered ==
    ASSUME NEW cs, NEW top, NEW names, NEW more, Reach(cs, names),
           \A c \in DOMAIN top : Complete(c, top[c]), more \subseteq names \cup DOMAIN top
    PROVE  Reach(top ++ cs, more)
<1>0. /\ DOMAIN (top ++ cs) = DOMAIN top \cup DOMAIN cs
      /\ \A x \in DOMAIN top : (top ++ cs)[x] = top[x]
      /\ \A x \in DOMAIN cs : x \notin DOMAIN top => (top ++ cs)[x] = cs[x]
  BY Merge
<1> SUFFICES ASSUME NEW c \in more
             PROVE  \/ c \in {"vars", "inputs"} \ supplied
                    \/ c \in DOMAIN (top ++ cs) /\ Complete(c, (top ++ cs)[c])
  BY DEF Reach
<1>1. CASE c \in DOMAIN top
  BY <1>0, <1>1
<1>2. CASE c \notin DOMAIN top /\ c \in DOMAIN cs
  BY <1>0, <1>2 DEF Reach
<1> QED
  BY <1>1, <1>2 DEF Reach

\* On the server the contexts are the same but for two members of github.
LEMMA Serving ==
    ASSUME NEW cs, Well(cs)
    PROVE  /\ Well(Server(cs)) /\ DOMAIN Server(cs) = DOMAIN cs
           /\ \A c \in DOMAIN cs : Server(cs)[c].of = cs[c].of
           /\ \A c \in DOMAIN cs \ {"github"} : Server(cs)[c] = cs[c]
           /\ DOMAIN Server(cs)["github"].has = DOMAIN cs["github"].has \cup {"job", "token"}
           /\ Nulls(Server(cs))
<1> PICK nulls : nulls = [m \in {"job", "token"} |-> "null"]
  OBVIOUS
<1> PICK old : old = cs["github"].has
  OBVIOUS
<1> PICK has : has = (nulls ++ old)
  OBVIOUS
<1>1. /\ DOMAIN has = {"job", "token"} \cup DOMAIN old
      /\ \A m \in {"job", "token"} : has[m] = "null"
      /\ \A m \in DOMAIN old : m \notin {"job", "token"} => has[m] = old[m]
  <2>1. DOMAIN nulls = {"job", "token"} /\ \A m \in {"job", "token"} : nulls[m] = "null"
    OBVIOUS
  <2>2. /\ DOMAIN (nulls ++ old) = DOMAIN nulls \cup DOMAIN old
        /\ \A x \in DOMAIN nulls : (nulls ++ old)[x] = nulls[x]
        /\ \A x \in DOMAIN old : x \notin DOMAIN nulls => (nulls ++ old)[x] = old[x]
    BY ONLY Merge
  <2> QED
    BY <2>1, <2>2
<1>2. \A m \in DOMAIN has : has[m] \in {"value", "null"}
  BY <1>1 DEF Well, IsContext
<1>3. Server(cs) = [cs EXCEPT !["github"].has = has]
  BY DEF Server
<1>4. cs["github"] = [of |-> cs["github"].of, has |-> cs["github"].has]
  BY DEF Well, IsContext
<1> PICK github : github = [cs["github"] EXCEPT !.has = has]
  OBVIOUS
<1>5. github = [of |-> cs["github"].of, has |-> has]
  BY <1>4
<1>6. /\ DOMAIN Server(cs) = DOMAIN cs
      /\ Server(cs) = [c \in DOMAIN Server(cs) |-> Server(cs)[c]]
      /\ \A c \in DOMAIN cs \ {"github"} : Server(cs)[c] = cs[c]
      /\ Server(cs)["github"] = github
  BY <1>3 DEF Well
<1>7. IsContext(github) /\ github.of = cs["github"].of /\ github.has = has
  BY <1>2, <1>5 DEF IsContext, Well
<1>8. Well(Server(cs))
  BY <1>6, <1>7 DEF Well
<1>9. Nulls(Server(cs))
  BY <1>1, <1>6, <1>7 DEF Nulls
<1> QED
  BY <1>1, <1>6, <1>7, <1>8, <1>9

\* So they reach the same there.
LEMMA ReachServing ==
    ASSUME NEW cs, Well(cs), NEW names, Reach(cs, names)
    PROVE  Reach(Server(cs), names)
  BY Serving DEF Reach, Complete

-----------------------------------------------------------------------------
(* Evaluation.                                                              *)

\* What a reference refers to: a member of a context, or a function.
LEMMA OfferedMeans ==
    ASSUME NEW key, NEW r \in Offered(key)
    PROVE  /\ r = Reference(r.context, r.member)
           /\ \/ r.context \in Contexts[key] /\ r.member \in Members(r.context)
              \/ r.context \in SpecialFunctions(key) /\ r.member = "()"
<1>0. \/ r \in UNION {{Reference(context, member) : member \in Members(context)} :
                         context \in Contexts[key]}
      \/ r \in {Reference(function, "()") : function \in SpecialFunctions(key)}
  BY Zenon DEF Offered
<1>1. CASE r \in UNION {{Reference(context, member) : member \in Members(context)} :
                           context \in Contexts[key]}
  <2> PICK context \in Contexts[key] :
        r \in {Reference(context, member) : member \in Members(context)}
    BY <1>1
  <2> PICK member \in Members(context) : r = Reference(context, member)
    OBVIOUS
  <2> QED
    BY DEF Reference
<1>2. CASE r \in {Reference(function, "()") : function \in SpecialFunctions(key)}
  <2> PICK function \in SpecialFunctions(key) : r = Reference(function, "()")
    BY <1>2
  <2> QED
    BY DEF Reference
<1> QED
  BY <1>0, <1>1, <1>2

\* The functions there are; a default gets none.
LEMMA SpecialMeans ==
    /\ \A key : SpecialFunctions(key) \subseteq StatusFunctions \cup {"hashFiles"}
    /\ SpecialFunctions("on.workflow_call.inputs.<inputs_id>.default") = {}
  BY DEF SpecialFunctions, StepScopes

\* No member is a call.
LEMMA MembersAreNoCalls == \A context : "()" \notin Members(context)
  BY DEF Members, GitHubMembers, NeedsMembers, StepsMembers, StrategyMembers, SecretsMembers,
     JobMembers, RunnerMembers, NamedMembers

\* The callback gets what it is offered.
LEMMA NothingThrows ==
    ASSUME Chosen
    PROVE  ~Throws(choice.field, choice.reference)
<1>1. Rendered[choice.field] = Declared[choice.field]
  BY RenderedIsDeclared DEF Chosen
<1> QED
  BY <1>1, OfferedMeans, MembersAreNoCalls DEF Chosen, Throws

\* What the chosen field's reference comes to in contexts that reach what the
\* field is offered.
LEMMA Evaluating ==
    ASSUME Chosen, NEW cs, Well(cs), Reach(cs, Offers(choice.field)),
           NEW found, found = Evaluated(cs, choice.reference)
    PROVE  /\ found.value \in {"value", "null", "missing"}
           /\ found.value = "missing" => Lacking(choice.reference)
           /\ found.value = "value" =>
                \/ /\ choice.reference.context \in DOMAIN cs \cap Offers(choice.field)
                   /\ found.of = cs[choice.reference.context].of
                \/ /\ choice.reference.context \in SpecialFunctions(Declared[choice.field])
                   /\ found.of = depth
           /\ choice.reference.context = "github" /\ found.value \in {"value", "null"} =>
                /\ choice.reference.member \in DOMAIN cs["github"].has
                /\ found.value = cs["github"].has[choice.reference.member]
<1> PICK r : r = choice.reference
  OBVIOUS
<1> PICK context, member : context = r.context /\ member = r.member
  OBVIOUS
<1>1. /\ r = Reference(context, member)
      /\ \/ context \in Offers(choice.field) /\ member \in Members(context)
         \/ context \in SpecialFunctions(Declared[choice.field]) /\ member = "()"
  BY OfferedMeans DEF Chosen, Offers
<1>2. SpecialFunctions(Declared[choice.field]) \subseteq StatusFunctions \cup {"hashFiles"}
  BY SpecialMeans
<1>3. "github" \notin KnownMissing \cup StatusFunctions \cup {"hashFiles"}
  BY DEF StatusFunctions, KnownMissing
<1>4. /\ context \notin DOMAIN cs => context \notin Offers(choice.field)
                                     \/ context \in {"vars", "inputs"} \ supplied
      /\ context \in DOMAIN cs => IsContext(cs[context])
      /\ DOMAIN cs \subseteq StepContexts \cup {"jobs"}
  BY DEF Reach, Well
<1>5. (StatusFunctions \cup {"hashFiles"}) \cap (StepContexts \cup {"jobs"}) = {}
  BY DEF StatusFunctions, StepContexts, JobMatrixContexts
<1>6. CASE context \in StatusFunctions \cup ({"hashFiles"} \cap supplied)
  <2>1. found = [value |-> "value", of |-> depth]
    BY <1>6 DEF Evaluated
  <2>2. context \notin Offers(choice.field)
    <3>1. {"vars", "inputs"} \subseteq StepContexts
      BY DEF StepContexts, JobMatrixContexts
    <3> QED
      BY <1>4, <1>5, <1>6, <3>1 DEF Reach
  <2> QED
    BY <1>1, <1>3, <1>6, <2>1, <2>2
<1>7. CASE context \notin StatusFunctions \cup ({"hashFiles"} \cap supplied)
          /\ context \notin DOMAIN cs
  <2>1. found = [value |-> "missing", of |-> depth]
    BY <1>7 DEF Evaluated
  <2>2. context \in {"vars", "inputs", "hashFiles"} \ supplied
    BY <1>1, <1>2, <1>4, <1>7
  <2>3. Lacking(r)
    BY <2>2 DEF Lacking
  <2> QED
    BY <2>1, <2>3, <1>3
<1>8. CASE context \notin StatusFunctions \cup ({"hashFiles"} \cap supplied)
          /\ context \in DOMAIN cs
  <2>0. context \notin StatusFunctions \cup {"hashFiles"}
    BY <1>4, <1>5, <1>8
  <2>1. context \in Offers(choice.field) /\ member \in Members(context)
    BY <1>1, <1>2, <2>0
  <2>2. CASE member \in DOMAIN cs[context].has
    <3>1. found = [value |-> cs[context].has[member], of |-> cs[context].of]
      BY <1>8, <2>2 DEF Evaluated
    <3>2. cs[context].has[member] \in {"value", "null"}
      BY <1>4, <1>8, <2>2 DEF IsContext
    <3> QED
      BY <1>8, <2>1, <2>2, <3>1, <3>2
  <2>3. CASE member \notin DOMAIN cs[context].has /\ context \in KnownMissing
    <3>1. found = [value |-> "null", of |-> cs[context].of]
      BY <1>8, <2>3 DEF Evaluated
    <3> QED
      BY <1>3, <2>3, <3>1
  <2>4. CASE member \notin DOMAIN cs[context].has /\ context \notin KnownMissing
    <3>1. found = [value |-> "missing", of |-> depth]
      BY <1>8, <2>4 DEF Evaluated
    <3>2. Lacking(Reference(context, member))
      <4>1. context \in {"vars", "inputs"} \ supplied \/ Complete(context, cs[context])
        BY <2>1 DEF Reach
      <4>2. CASE context \in {"vars", "inputs"} \ supplied
        BY <4>2 DEF Lacking, Reference
      <4>3. CASE Complete(context, cs[context])
        BY <4>3, <2>1, <2>4 DEF Complete
      <4> QED
        BY <4>1, <4>2, <4>3
    <3> QED
      BY <1>1, <3>1, <3>2
  <2> QED
    BY <2>2, <2>3, <2>4
<1> QED
  BY <1>6, <1>7, <1>8
-----------------------------------------------------------------------------
(* What an answer has to be.                                                *)

\* The three properties, of one answer.
Right(a) ==
    /\ a.value = "missing" => Lacking(choice.reference)
    /\ choice.reference.context = "github" /\ choice.reference.member \in {"job", "token"}
       /\ a.value \in {"null", "value"} =>
         (a.value = "null" <=> Declared[choice.field] \notin RunnerScopes)
    /\ choice.at = 1 /\ a.value = "value" /\ a.of = 0 =>
         choice.reference.context \in {"github", "vars"}

\* It is all that they say, but for the callback that throws.
LEMMA RightIsAll ==
    OfferedReferencesResolve /\ ServerFieldsSeeNull /\ CallersStayHidden
    <=> place # "threw" /\ Right(answer)
  BY DEF OfferedReferencesResolve, ServerFieldsSeeNull, CallersStayHidden, Right

\* Contexts that a field can be evaluated in.
Ready(field, cs) ==
    /\ Well(cs) /\ Reach(cs, Offers(field))
    /\ choice.at = 1 => Hidden(cs, Offers(field))
    /\ Declared[field] \in RunnerScopes => Runs(cs)
    /\ Declared[field] \notin RunnerScopes => Nulls(cs)

\* It comes to the right answer there.
LEMMA ReadyIsRight ==
    ASSUME Chosen, NEW cs, Ready(choice.field, cs),
           choice.at = depth \/ SpecialFunctions(Declared[choice.field]) = {}
    PROVE  Right(Evaluated(cs, choice.reference))
<1> PICK found : found = Evaluated(cs, choice.reference)
  OBVIOUS
<1>1. /\ found.value = "missing" => Lacking(choice.reference)
      /\ found.value = "value" =>
           \/ /\ choice.reference.context \in DOMAIN cs \cap Offers(choice.field)
              /\ found.of = cs[choice.reference.context].of
           \/ /\ choice.reference.context \in SpecialFunctions(Declared[choice.field])
              /\ found.of = depth
      /\ choice.reference.context = "github" /\ found.value \in {"value", "null"} =>
           /\ choice.reference.member \in DOMAIN cs["github"].has
           /\ found.value = cs["github"].has[choice.reference.member]
  BY Evaluating DEF Ready
<1>2. choice.reference.context = "github" /\ choice.reference.member \in {"job", "token"}
      /\ found.value \in {"null", "value"} =>
        (found.value = "null" <=> Declared[choice.field] \notin RunnerScopes)
  BY <1>1 DEF Ready, Nulls, Runs
<1>3. choice.at = 1 /\ found.value = "value" /\ found.of = 0 =>
        choice.reference.context \in {"github", "vars"}
  BY <1>1 DEF Ready, Hidden
<1> QED
  BY <1>1, <1>2, <1>3 DEF Right

\* Fields of the server need not have contexts of the server.
LEMMA ReadyOnServer ==
    ASSUME NEW cs, NEW field \in ServerFields, Well(cs), Reach(cs, Offers(field)),
           choice.at = 1 => Hidden(cs, Offers(field))
    PROVE  Ready(field, Server(cs))
<1>1. Declared[field] \notin RunnerScopes
  BY FieldsOffer
<1>2. Reach(Server(cs), Offers(field))
  BY ReachServing
<1>3. choice.at = 1 => Hidden(Server(cs), Offers(field))
  BY Serving DEF Hidden
<1> QED
  BY <1>1, <1>2, <1>3, Serving DEF Ready

\* An evaluation gives the right answer, or none.
LEMMA EvaluateIsRight ==
    ASSUME FieldInv, NEW fields, NEW cs, NEW next, Evaluate(fields, cs, next),
           choice.field \in fields /\ choice.at = depth =>
             IF choice.field \in ServerFields
             THEN /\ Well(cs) /\ Reach(cs, Offers(choice.field))
                  /\ choice.at = 1 => Hidden(cs, Offers(choice.field))
             ELSE Ready(choice.field, cs)
    PROVE  /\ UNCHANGED <<choice, supplied>>
           /\ place' \in {next, "stopped"}
           /\ Right(answer')
<1>1. UNCHANGED <<choice, supplied>> /\ place' \in {next, "stopped"}
  BY DEF Evaluate
<1> PICK used : used = IF choice.field \in ServerFields THEN Server(cs) ELSE cs
  OBVIOUS
<1>2. CASE choice.field \in fields /\ choice.at = depth
  <2>1. Ready(choice.field, used)
    BY <1>2, ReadyOnServer
  <2>2. answer' = Evaluated(used, choice.reference)
    BY <1>2 DEF Evaluate
  <2>3. Right(Evaluated(used, choice.reference))
    BY <2>1, <1>2, ReadyIsRight DEF FieldInv
  <2> QED
    BY <1>1, <2>2, <2>3
<1>3. CASE ~(choice.field \in fields /\ choice.at = depth)
  <2>1. answer' = answer
    BY <1>3 DEF Evaluate
  <2> QED
    BY <1>1, <2>1, RightIsAll DEF FieldInv
<1> QED
  BY <1>2, <1>3

\* What is left to show of a step.
LEMMA InvFollows ==
    ASSUME FieldInv, UNCHANGED <<choice, supplied>>, depth' \in 0 .. 1, place' # "threw",
           Right(answer'),
           place' \in Before \cup Within \cup {"instance", "result"} =>
             Situated(contexts', place', depth')
    PROVE  FieldInv'
<1>1. Chosen'
  BY DEF FieldInv, Chosen
<1>2. Right(answer)'
  BY DEF Right, Lacking
<1>3. (place \in Before \cup Within \cup {"instance", "result"} =>
         Situated(contexts, place, depth))'
  BY DEF Situated, Reach, Complete, Lacking, Secrets
<1>4. (OfferedReferencesResolve /\ ServerFieldsSeeNull /\ CallersStayHidden)'
  BY <1>2 DEF OfferedReferencesResolve, ServerFieldsSeeNull, CallersStayHidden, Right
<1> QED
  BY <1>1, <1>3, <1>4 DEF FieldInv

\* Names that contexts reach, taken together.
LEMMA ReachBoth ==
    ASSUME NEW cs, NEW a, NEW b, Reach(cs, a), Reach(cs, b), NEW names, names \subseteq a \cup b
    PROVE  Reach(cs, names)
  BY DEF Reach

\* The secrets there are are those that the workflow may lack none of.
LEMMA ReachSecrets ==
    ASSUME Chosen, NEW cs, Secrets(cs, choice.at)
    PROVE  Reach(cs, {"secrets"})
  BY DEF Reach, Secrets, Complete, Lacking, Members, SecretsMembers, Reference,
     KnownMissing, Chosen
-----------------------------------------------------------------------------
(* The steps.                                                               *)

\* What the types offer, the method offers, so that no callback throws.
LEMMA AuthorKeeps == FieldInv /\ Author => FieldInv'
<1> SUFFICES ASSUME FieldInv, Author PROVE FieldInv'
  OBVIOUS
<1>1. place' = "workflow" /\ UNCHANGED <<choice, supplied, depth, contexts, answer>>
  BY NothingThrows DEF Author, FieldInv
<1>2. depth = 0 /\ Situated(contexts, "authoring", 0)
  BY DEF FieldInv, Author, Situated, Before
<1>3. Situated(contexts, "workflow", 0)
  BY <1>2 DEF Situated, Scope, Before, Within
<1>4. Right(answer')
  BY <1>1, RightIsAll DEF FieldInv
<1> QED
  BY <1>1, <1>2, <1>3, <1>4, InvFollows DEF FieldInv

\* A workflow sees its own contexts before it has a job.
LEMMA EvaluateWorkflowKeeps == FieldInv /\ EvaluateWorkflow => FieldInv'
<1> SUFFICES ASSUME FieldInv, EvaluateWorkflow PROVE FieldInv'
  OBVIOUS
<1>1. /\ Evaluate({"workflowConcurrency"}, contexts, "job")
      /\ UNCHANGED <<depth, contexts>>
      /\ place = "workflow" /\ Situated(contexts, "workflow", depth)
  BY DEF EvaluateWorkflow, FieldInv, Before
<1>2. ASSUME choice.field = "workflowConcurrency", choice.at = depth
      PROVE  Ready(choice.field, contexts)
  <2>1. Offers(choice.field) = {"github", "inputs", "vars"}
        /\ Declared[choice.field] \notin RunnerScopes
    BY <1>2, FieldsOffer
  <2> QED
    BY <1>1, <1>2, <2>1 DEF Ready, Situated, Scope, Before, Within, Hidden, Reach
<1>3. "workflowConcurrency" \notin ServerFields
  BY DEF ServerFields
<1>4. UNCHANGED <<choice, supplied>> /\ place' \in {"job", "stopped"} /\ Right(answer')
  BY <1>1, <1>2, <1>3, EvaluateIsRight
<1>5. Situated(contexts, "job", depth)
  BY <1>1 DEF Situated, Scope, Before, Within
<1> QED
  BY <1>1, <1>4, <1>5, InvFollows DEF FieldInv, Before, Within

\* A condition sees needs, of its own workflow.
LEMMA EvaluateConditionKeeps == FieldInv /\ EvaluateCondition => FieldInv'
<1> SUFFICES ASSUME FieldInv, EvaluateCondition PROVE FieldInv'
  OBVIOUS
<1> PICK top : top = [env |-> Given(depth, Nothing),
                      needs |-> Given(depth, Valued(NeedsMembers)),
                      job |-> Given(depth, Valued({"status"}))]
  OBVIOUS
<1> PICK cs :
      /\ cs = (top ++ contexts)
      /\ DOMAIN cs = DOMAIN top \cup DOMAIN contexts
      /\ \A x \in DOMAIN top : cs[x] = top[x]
      /\ \A x \in DOMAIN contexts : x \notin DOMAIN top => cs[x] = contexts[x]
  BY ONLY Merged, Zenon
<1>1. PICK next \in {"strategy", "result"} :
        /\ contexts' = cs /\ Evaluate({"when"}, cs, next) /\ UNCHANGED depth
        /\ place = "job" /\ Situated(contexts, "job", depth) /\ depth \in 0 .. 1
  BY DEF EvaluateCondition, FieldInv, Before
<1>2. /\ DOMAIN top = {"env", "needs", "job"}
      /\ \A c \in DOMAIN top : IsContext(top[c]) /\ top[c].of = depth
      /\ Complete("env", top["env"]) /\ Complete("needs", top["needs"])
  BY <1>1, ValuesAre, GivenIsContext DEF Nothing, Complete, KnownMissing
<1>4. Well(cs)
  BY <1>1, <1>2, Layered DEF Situated, StepContexts, JobMatrixContexts
<1>5. Reach(cs, {"github", "vars", "inputs", "needs"})
  <2>1. Reach(contexts, {"github", "vars", "inputs"})
    BY <1>1 DEF Situated, Scope, Within
  <2> QED
    BY <1>2, <2>1 DEF Reach
<1>6. depth = 1 => Hidden(cs, DOMAIN cs \ {"strategy"})
  BY <1>1, <1>2 DEF Situated, Hidden
<1>7. /\ cs["github"] = contexts["github"]
      /\ depth = 0 => DOMAIN cs \subseteq JobMatrixContexts \cup {"secrets", "env", "job"}
      /\ "secrets" \in DOMAIN cs /\ cs["secrets"] = contexts["secrets"]
  BY <1>1, <1>2 DEF Situated, Well, Before, JobMatrixContexts, Secrets
<1>8. Nulls(cs) /\ Secrets(cs, depth)
  BY <1>1, <1>7 DEF Nulls, Situated, Before, Secrets
<1>9. Situated(cs, "strategy", depth) /\ Situated(cs, "result", depth)
  BY <1>4, <1>5, <1>6, <1>7, <1>8 DEF Situated, Scope, Before, Within, Reach
<1>10. ASSUME choice.field = "when", choice.at = depth PROVE Ready(choice.field, cs)
  <2>1. Offers(choice.field) = {"github", "needs", "vars", "inputs"}
        /\ Declared[choice.field] \notin RunnerScopes
    BY <1>10, FieldsOffer
  <2> QED
    BY <1>10, <1>4, <1>5, <1>6, <1>8, <2>1 DEF Ready, Hidden, Reach
<1>11. "when" \notin ServerFields
  BY DEF ServerFields
<1>12. UNCHANGED <<choice, supplied>> /\ place' \in {next, "stopped"} /\ Right(answer')
  BY <1>1, <1>10, <1>11, EvaluateIsRight
<1> QED
  BY <1>1, <1>9, <1>12, InvFollows DEF FieldInv, Before, Within

\* After the matrix there is all that the job's settings are offered.
LEMMA ExpandMatrixKeeps == FieldInv /\ ExpandMatrix => FieldInv'
<1> SUFFICES ASSUME FieldInv, ExpandMatrix PROVE FieldInv'
  OBVIOUS
<1> PICK top : top = [strategy |-> Given(depth, Valued(StrategyMembers)),
                      matrix |-> Given(depth, Valued(NamedMembers))]
  OBVIOUS
<1> PICK cs :
      /\ cs = (top ++ contexts)
      /\ DOMAIN cs = DOMAIN top \cup DOMAIN contexts
      /\ \A x \in DOMAIN top : cs[x] = top[x]
      /\ \A x \in DOMAIN contexts : x \notin DOMAIN top => cs[x] = contexts[x]
  BY ONLY Merged, Zenon
<1> PICK next : next = IF Calls /\ depth = 0 THEN "call" ELSE "instance"
  OBVIOUS
<1>1. /\ contexts' = cs /\ Evaluate({"strategy"}, contexts, next) /\ UNCHANGED depth
      /\ place = "strategy" /\ Situated(contexts, "strategy", depth) /\ depth \in 0 .. 1
  BY DEF ExpandMatrix, FieldInv, Before
<1>2. /\ DOMAIN top = {"strategy", "matrix"}
      /\ \A c \in DOMAIN top : IsContext(top[c]) /\ top[c].of = depth
      /\ Complete("strategy", top["strategy"]) /\ Complete("matrix", top["matrix"])
  BY <1>1, ValuesAre, GivenIsContext DEF Complete, KnownMissing, Members
<1>4. Well(cs)
  BY <1>1, <1>2, Layered DEF Situated, StepContexts, JobMatrixContexts
<1>5. Reach(cs, JobMatrixContexts)
  <2>1. Reach(contexts, {"github", "vars", "inputs", "needs"})
    BY <1>1 DEF Situated, Scope, Within
  <2> QED
    BY <1>2, <2>1 DEF Reach, JobMatrixContexts
<1>6. depth = 1 => Hidden(cs, DOMAIN cs)
  BY <1>1, <1>2 DEF Situated, Hidden
<1>7. /\ cs["github"] = contexts["github"]
      /\ depth = 0 => DOMAIN cs \subseteq JobMatrixContexts \cup {"secrets", "env", "job"}
      /\ "secrets" \in DOMAIN cs /\ cs["secrets"] = contexts["secrets"]
  BY <1>1, <1>2 DEF Situated, Well, Before, JobMatrixContexts, Secrets
<1>8. Nulls(cs) /\ Secrets(cs, depth)
  BY <1>1, <1>7 DEF Nulls, Situated, Before, Secrets
<1>9. Situated(cs, next, depth)
  <2>1. next \in {"call", "instance"} /\ (next = "call" => depth = 0)
    OBVIOUS
  <2> QED
    BY <1>4, <1>5, <1>6, <1>7, <1>8, <2>1 DEF Situated, Scope, Before, Within
<1>10. ASSUME choice.field = "strategy", choice.at = depth PROVE Ready(choice.field, contexts)
  <2>1. Offers(choice.field) = {"github", "needs", "vars", "inputs"}
        /\ Declared[choice.field] \notin RunnerScopes
    BY <1>10, FieldsOffer
  <2> QED
    BY <1>10, <1>1, <2>1 DEF Ready, Hidden, Reach, Situated, Scope, Before, Within
<1>11. "strategy" \notin ServerFields
  BY DEF ServerFields
<1>12. UNCHANGED <<choice, supplied>> /\ place' \in {next, "stopped"} /\ Right(answer')
  BY <1>1, <1>10, <1>11, EvaluateIsRight
<1> QED
  BY <1>1, <1>9, <1>12, InvFollows DEF FieldInv, Before, Within

\* A call sees the contexts of the job, and the secrets of its workflow.
LEMMA EvaluateCallKeeps == FieldInv /\ EvaluateCall => FieldInv'
<1> SUFFICES ASSUME FieldInv, EvaluateCall PROVE FieldInv'
  OBVIOUS
<1>1. /\ Evaluate({"concurrency", "with", "secrets"}, contexts, "callee")
      /\ UNCHANGED <<depth, contexts>> /\ place = "call" /\ Situated(contexts, "call", 0)
      /\ depth = 0 /\ Chosen
  BY DEF EvaluateCall, FieldInv, Before, Situated
<1>2. /\ Well(contexts) /\ Reach(contexts, JobMatrixContexts)
      /\ Nulls(contexts) /\ Secrets(contexts, 0)
  BY <1>1 DEF Situated, Scope, Before, Within
<1>3. ASSUME choice.field \in {"concurrency", "with", "secrets"}, choice.at = depth
      PROVE  IF choice.field \in ServerFields
             THEN /\ Well(contexts) /\ Reach(contexts, Offers(choice.field))
                  /\ choice.at = 1 => Hidden(contexts, Offers(choice.field))
             ELSE Ready(choice.field, contexts)
  <2>1. CASE choice.field = "secrets"
    <3>1. /\ Offers(choice.field) = JobMatrixContexts \cup {"secrets"}
          /\ Declared[choice.field] \notin RunnerScopes /\ choice.field \notin ServerFields
      BY <2>1, FieldsOffer DEF ServerFields
    <3>2. Reach(contexts, {"secrets"})
      BY <1>1, <1>2, <1>3, ReachSecrets
    <3>3. Reach(contexts, Offers(choice.field))
      BY <1>2, <3>1, <3>2 DEF Reach
    <3> QED
      BY <1>1, <1>2, <1>3, <3>1, <3>3 DEF Ready
  <2>2. CASE choice.field \in {"concurrency", "with"}
    <3>1. Offers(choice.field) = JobMatrixContexts /\ Declared[choice.field] \notin RunnerScopes
      BY <2>2, FieldsOffer DEF ServerFields
    <3> QED
      BY <1>1, <1>2, <1>3, <3>1 DEF Ready
  <2> QED
    BY <1>3, <2>1, <2>2
<1>4. UNCHANGED <<choice, supplied>> /\ place' \in {"callee", "stopped"} /\ Right(answer')
  BY <1>1, <1>3, EvaluateIsRight
<1>5. Situated(contexts, "callee", 0)
  BY <1>1, <1>2 DEF Situated, Scope, Before, Within, Reach, JobMatrixContexts
<1> QED
  BY <1>1, <1>4, <1>5, InvFollows DEF FieldInv, Before, Within

\* What a runner knows of the run and of its job.
LEMMA RunnerKnows ==
    ASSUME Chosen, NEW cs, Secrets(cs, 0) \/ Secrets(cs, 1), NEW github,
           github = Valued({"job"}) ++ Supplied("github", {"sha"})
                    ++ (IF "token" \in supplied \/ "GITHUB_TOKEN" \in DOMAIN cs["secrets"].has
                        THEN Valued({"token"}) ELSE Nothing),
           NEW runtime,
           runtime = Valued({"status", "services"}) ++ Supplied("jobRuntime", {"check_run_id"})
                     ++ Supplied("containerRuntime", {"container"})
    PROVE  /\ \A m \in DOMAIN github : github[m] = "value"
           /\ Complete("github", Given(0, github))
           /\ \A m \in DOMAIN runtime : runtime[m] = "value"
           /\ \A n : Complete("job", Given(n, runtime))
<1> PICK own, told, tokens :
      /\ own = Valued({"job"}) /\ told = Supplied("github", {"sha"})
      /\ tokens = IF "token" \in supplied \/ "GITHUB_TOKEN" \in DOMAIN cs["secrets"].has
             THEN Valued({"token"}) ELSE Nothing
  OBVIOUS
<1> PICK named :
      /\ named = (own ++ told)
      /\ DOMAIN named = DOMAIN own \cup DOMAIN told
      /\ \A x \in DOMAIN own : named[x] = own[x]
      /\ \A x \in DOMAIN told : x \notin DOMAIN own => named[x] = told[x]
  BY ONLY Merged, Zenon
<1> PICK all :
      /\ all = (named ++ tokens)
      /\ DOMAIN all = DOMAIN named \cup DOMAIN tokens
      /\ \A x \in DOMAIN named : all[x] = named[x]
      /\ \A x \in DOMAIN tokens : x \notin DOMAIN named => all[x] = tokens[x]
  BY ONLY Merged, Zenon
<1>1. github = all
  BY Zenon
<1>2. \A m \in DOMAIN own \cup DOMAIN told \cup DOMAIN tokens :
        /\ m \in DOMAIN own => own[m] = "value"
        /\ m \in DOMAIN told => told[m] = "value"
        /\ m \in DOMAIN tokens => tokens[m] = "value"
  BY ValuesAre DEF Nothing
<1>3. /\ DOMAIN own = {"job"} /\ DOMAIN told = IF "github" \in supplied THEN {"sha"} ELSE {}
      /\ "token" \in supplied \/ "GITHUB_TOKEN" \in DOMAIN cs["secrets"].has =>
           DOMAIN tokens = {"token"}
  BY ValuesAre
<1>4. \A m \in DOMAIN github : github[m] = "value"
  BY <1>1, <1>2
<1>5. Complete("github", Given(0, github))
  BY <1>1, <1>3 DEF Complete, Given, Lacking, Members, GitHubMembers, Reference, Secrets
<1> PICK always, runs, contained :
      /\ always = Valued({"status", "services"})
      /\ runs = Supplied("jobRuntime", {"check_run_id"})
      /\ contained = Supplied("containerRuntime", {"container"})
  OBVIOUS
<1> PICK known :
      /\ known = (always ++ runs)
      /\ DOMAIN known = DOMAIN always \cup DOMAIN runs
      /\ \A x \in DOMAIN always : known[x] = always[x]
      /\ \A x \in DOMAIN runs : x \notin DOMAIN always => known[x] = runs[x]
  BY ONLY Merged, Zenon
<1> PICK whole :
      /\ whole = (known ++ contained)
      /\ DOMAIN whole = DOMAIN known \cup DOMAIN contained
      /\ \A x \in DOMAIN known : whole[x] = known[x]
      /\ \A x \in DOMAIN contained : x \notin DOMAIN known => whole[x] = contained[x]
  BY ONLY Merged, Zenon
<1>6. runtime = whole
  BY Zenon
<1>7. \A m \in DOMAIN always \cup DOMAIN runs \cup DOMAIN contained :
        /\ m \in DOMAIN always => always[m] = "value"
        /\ m \in DOMAIN runs => runs[m] = "value"
        /\ m \in DOMAIN contained => contained[m] = "value"
  BY ValuesAre
<1>8. /\ DOMAIN always = {"status", "services"}
      /\ DOMAIN runs = IF "jobRuntime" \in supplied THEN {"check_run_id"} ELSE {}
      /\ DOMAIN contained = IF "containerRuntime" \in supplied THEN {"container"} ELSE {}
  BY ValuesAre
<1>9. \A m \in DOMAIN runtime : runtime[m] = "value"
  BY <1>6, <1>7
<1>10. ASSUME NEW n PROVE Complete("job", Given(n, runtime))
  BY <1>6, <1>8 DEF Complete, Given, Lacking, Members, JobMembers, Reference
<1> QED
  BY <1>4, <1>5, <1>9, <1>10

\* A runner takes the place of the server, and the job has an environment.
LEMMA StartInstanceKeeps == FieldInv /\ StartInstance => FieldInv'
<1> SUFFICES ASSUME FieldInv, StartInstance PROVE FieldInv'
  OBVIOUS
<1>0. /\ place = "instance" /\ Situated(contexts, "instance", depth)
      /\ depth \in 0 .. 1 /\ Chosen
  BY DEF StartInstance, FieldInv
<1> PICK github : github =
      Valued({"job"}) ++ Supplied("github", {"sha"})
      ++ (IF "token" \in supplied \/ "GITHUB_TOKEN" \in DOMAIN contexts["secrets"].has
          THEN Valued({"token"}) ELSE Nothing)
  OBVIOUS
<1> PICK runtime : runtime =
      Valued({"status", "services"}) ++ Supplied("jobRuntime", {"check_run_id"})
      ++ Supplied("containerRuntime", {"container"})
  OBVIOUS
<1> PICK first : first =
      [github |-> Given(0, github), steps |-> Given(depth, Nothing),
       runner |-> Given(depth, Supplied("runner", RunnerMembers))]
  OBVIOUS
<1> PICK second : second =
      [env |-> Given(depth, Valued(NamedMembers)), job |-> Given(depth, runtime)]
  OBVIOUS
<1> PICK started :
      /\ started = (first ++ contexts)
      /\ DOMAIN started = DOMAIN first \cup DOMAIN contexts
      /\ \A x \in DOMAIN first : started[x] = first[x]
      /\ \A x \in DOMAIN contexts : x \notin DOMAIN first => started[x] = contexts[x]
  BY ONLY Merged, Zenon
<1> PICK cs :
      /\ cs = (second ++ started)
      /\ DOMAIN cs = DOMAIN second \cup DOMAIN started
      /\ \A x \in DOMAIN second : cs[x] = second[x]
      /\ \A x \in DOMAIN started : x \notin DOMAIN second => cs[x] = started[x]
  BY ONLY Merged, Zenon
<1>1. /\ contexts' = cs /\ Evaluate({"workflowEnv", "jobEnv"}, started, "settings")
      /\ UNCHANGED depth
  BY Zenon DEF StartInstance
<1>2. /\ Well(contexts) /\ Reach(contexts, JobMatrixContexts) /\ Secrets(contexts, depth)
      /\ depth = 1 => Hidden(contexts, DOMAIN contexts)
  BY <1>0 DEF Situated, Scope, Before, Within
<1>3. Secrets(contexts, 0) \/ Secrets(contexts, 1)
  BY <1>0, <1>2
<1>4. /\ \A m \in DOMAIN github : github[m] = "value"
      /\ Complete("github", Given(0, github))
      /\ \A m \in DOMAIN runtime : runtime[m] = "value"
      /\ \A d : Complete("job", Given(d, runtime))
  BY <1>0, <1>3, RunnerKnows
<1>5. /\ DOMAIN first = {"github", "steps", "runner"}
      /\ \A c \in DOMAIN first : IsContext(first[c]) /\ Complete(c, first[c])
      /\ first["github"].of = 0 /\ first["steps"].of = depth /\ first["runner"].of = depth
      /\ first["github"].has = github
  <2>1. IsContext(first["github"]) /\ first["github"].of = 0 /\ first["github"].has = github
    BY <1>4, GivenIsContext
  <2>2. IsContext(first["steps"]) /\ first["steps"].of = depth
    BY <1>0, ValuesAre, GivenIsContext DEF Nothing
  <2>3. IsContext(first["runner"]) /\ first["runner"].of = depth
        /\ Complete("runner", first["runner"])
    <3> PICK has : has = Supplied("runner", RunnerMembers)
      OBVIOUS
    <3>1. /\ DOMAIN has = IF "runner" \in supplied THEN RunnerMembers ELSE {}
          /\ \A m \in DOMAIN has : has[m] = "value"
      BY ValuesAre
    <3>2. first["runner"] = Given(depth, has)
      OBVIOUS
    <3>3. IsContext(first["runner"]) /\ first["runner"].of = depth /\ first["runner"].has = has
      BY <1>0, <3>1, <3>2, GivenIsContext
    <3> QED
      BY <3>1, <3>3 DEF Complete, Members, Lacking, Reference
  <2>4. Complete("github", first["github"]) /\ Complete("steps", first["steps"])
    BY <1>4 DEF Complete, KnownMissing
  <2> QED
    BY <2>1, <2>2, <2>3, <2>4
<1>6. /\ DOMAIN second = {"env", "job"}
      /\ \A c \in DOMAIN second : IsContext(second[c]) /\ Complete(c, second[c])
                                  /\ second[c].of = depth
  <2>1. IsContext(second["env"]) /\ second["env"].of = depth
    BY <1>0, ValuesAre, GivenIsContext
  <2>2. IsContext(second["job"]) /\ second["job"].of = depth
    BY <1>0, <1>4, GivenIsContext
  <2>3. Complete("job", second["job"]) /\ Complete("env", second["env"])
    BY <1>4 DEF Complete, KnownMissing
  <2> QED
    BY <2>1, <2>2, <2>3
<1>7. Well(started)
  BY <1>2, <1>5, Layered DEF StepContexts, JobMatrixContexts
<1>8. Well(cs)
  BY <1>7, <1>6, Layered DEF StepContexts, JobMatrixContexts
<1>9. Reach(started, JobMatrixContexts \cup {"steps", "runner"})
  BY <1>2, <1>5, ReachLayered
<1>10. Reach(cs, StepContexts \ {"secrets"})
  <2>1. StepContexts \ {"secrets"}
          \subseteq JobMatrixContexts \cup {"steps", "runner"} \cup {"env", "job"}
    BY DEF StepContexts
  <2> QED
    BY <1>6, <1>9, <2>1, ReachLayered
<1>11. depth = 1 => Hidden(started, DOMAIN started) /\ Hidden(cs, DOMAIN cs)
  BY <1>2, <1>5, <1>6 DEF Hidden
<1>12. started["github"] = first["github"] /\ cs["github"] = first["github"]
  BY <1>5, <1>6
<1>13. Runs(started) /\ Runs(cs)
  BY <1>4, <1>5, <1>12 DEF Runs
<1>14. "secrets" \in DOMAIN started /\ started["secrets"] = contexts["secrets"]
       /\ "secrets" \in DOMAIN cs /\ cs["secrets"] = contexts["secrets"]
  BY <1>2, <1>5, <1>6 DEF Secrets
<1>15. Secrets(started, depth) /\ Secrets(cs, depth)
  BY <1>2, <1>14 DEF Secrets
<1>16. ASSUME choice.field \in {"workflowEnv", "jobEnv"}, choice.at = depth
       PROVE  Ready(choice.field, started)
  <2>1. Offers(choice.field) \subseteq JobMatrixContexts \cup {"secrets"}
        /\ Declared[choice.field] \in RunnerScopes
    BY <1>16, FieldsOffer DEF JobMatrixContexts
  <2>2. Reach(started, {"secrets"})
    BY <1>0, <1>15, <1>16, ReachSecrets
  <2>3. Reach(started, Offers(choice.field))
    BY <1>9, <2>1, <2>2 DEF Reach
  <2> QED
    BY <1>7, <1>11, <1>13, <1>16, <2>1, <2>3 DEF Ready, Hidden
<1>17. {"workflowEnv", "jobEnv"} \cap ServerFields = {}
  BY DEF ServerFields
<1>18. UNCHANGED <<choice, supplied>> /\ place' \in {"settings", "stopped"} /\ Right(answer')
  BY <1>1, <1>16, <1>17, EvaluateIsRight
<1>19. Situated(cs, "settings", depth)
  BY <1>8, <1>10, <1>11, <1>13, <1>15 DEF Situated, Scope, Before, Within
<1> QED
  BY <1>0, <1>1, <1>18, <1>19, InvFollows DEF Before, Within

\* In a runner.
LEMMA WithinReady ==
    ASSUME Chosen, NEW cs, NEW where \in Within, Situated(cs, where, choice.at),
           Offers(choice.field) \subseteq StepContexts
    PROVE  /\ Well(cs) /\ Reach(cs, Offers(choice.field))
           /\ choice.at = 1 => Hidden(cs, Offers(choice.field))
           /\ Declared[choice.field] \in RunnerScopes => Ready(choice.field, cs)
<1>1. /\ Well(cs) /\ Reach(cs, StepContexts \ {"secrets"}) /\ Runs(cs) /\ Secrets(cs, choice.at)
      /\ choice.at = 1 => Hidden(cs, DOMAIN cs)
  BY DEF Situated, Scope, Before, Within
<1>2. Reach(cs, {"secrets"})
  BY <1>1, ReachSecrets
<1>3. Reach(cs, Offers(choice.field))
  BY <1>1, <1>2, ReachBoth
<1>4. choice.at = 1 => Hidden(cs, Offers(choice.field))
  BY <1>1 DEF Hidden
<1> QED
  BY <1>1, <1>3, <1>4 DEF Ready

\* The settings of a job see its contexts, those of the server nulls.
LEMMA ResolveSettingsKeeps == FieldInv /\ ResolveSettings => FieldInv'
<1> SUFFICES ASSUME FieldInv, ResolveSettings PROVE FieldInv'
  OBVIOUS
<1> PICK fields : fields =
      {"continueOnError", "timeoutMinutes", "runsOn", "environment", "concurrency"}
      \cup ContainerFields
  OBVIOUS
<1>1. PICK next \in {"if", "result"} :
        /\ Evaluate(fields, contexts, next) /\ UNCHANGED <<depth, contexts>>
        /\ Situated(contexts, "settings", depth) /\ depth \in 0 .. 1 /\ Chosen
  BY DEF ResolveSettings, FieldInv, Within
<1>2. ASSUME choice.field \in fields /\ choice.at = depth
      PROVE  IF choice.field \in ServerFields
             THEN /\ Well(contexts) /\ Reach(contexts, Offers(choice.field))
                  /\ choice.at = 1 => Hidden(contexts, Offers(choice.field))
             ELSE Ready(choice.field, contexts)
  <2>1. Offers(choice.field) \subseteq StepContexts
        /\ (choice.field \notin ServerFields => Declared[choice.field] \in RunnerScopes)
    BY <1>2, FieldsOffer DEF ServerFields, StepContexts
  <2> QED
    BY <1>1, <1>2, <2>1, WithinReady DEF Within
<1>3. UNCHANGED <<choice, supplied>> /\ place' \in {next, "stopped"} /\ Right(answer')
  BY <1>1, <1>2, EvaluateIsRight
<1>4. Situated(contexts, "if", depth) /\ Situated(contexts, "result", depth)
  BY <1>1 DEF Situated, Scope, Before, Within, Hidden, Reach, StepContexts, JobMatrixContexts
<1> QED
  BY <1>1, <1>3, <1>4, InvFollows DEF Before, Within

\* A step sees the steps before it.
LEMMA EvaluateIfKeeps == FieldInv /\ EvaluateIf => FieldInv'
<1> SUFFICES ASSUME FieldInv, EvaluateIf PROVE FieldInv'
  OBVIOUS
<1>0. PICK next \in {"step", "end"}, earlier \in {{}, StepsMembers} :
        /\ contexts' = [steps |-> Given(depth, Valued(earlier))] ++ contexts
        /\ Evaluate({"if"}, contexts', next) /\ UNCHANGED depth
        /\ Situated(contexts, "if", depth) /\ depth \in 0 .. 1 /\ Chosen
  BY DEF EvaluateIf, FieldInv, Within
<1> PICK top : top = [steps |-> Given(depth, Valued(earlier))]
  OBVIOUS
<1> PICK cs :
      /\ cs = (top ++ contexts)
      /\ DOMAIN cs = DOMAIN top \cup DOMAIN contexts
      /\ \A x \in DOMAIN top : cs[x] = top[x]
      /\ \A x \in DOMAIN contexts : x \notin DOMAIN top => cs[x] = contexts[x]
  BY ONLY Merged, Zenon
<1>1. contexts' = cs /\ Evaluate({"if"}, cs, next)
  BY <1>0
<1>2. /\ DOMAIN top = {"steps"} /\ IsContext(top["steps"]) /\ top["steps"].of = depth
      /\ Complete("steps", top["steps"])
  BY <1>0, ValuesAre, GivenIsContext DEF Complete, KnownMissing
<1>3. Well(cs)
  BY <1>0, <1>2, Layered DEF Situated, StepContexts, JobMatrixContexts
<1>4. Reach(cs, StepContexts \ {"secrets"})
  <2>1. Reach(contexts, StepContexts \ {"secrets"})
    BY <1>0 DEF Situated, Scope, Within
  <2> QED
    BY <1>2, <2>1, ReachLayered
<1>5. depth = 1 => Hidden(cs, DOMAIN cs)
  BY <1>0, <1>2 DEF Situated, Hidden
<1>6. /\ cs["github"] = contexts["github"]
      /\ "secrets" \in DOMAIN cs /\ cs["secrets"] = contexts["secrets"]
  BY <1>0, <1>2 DEF Situated, Well, Secrets
<1>7. Runs(cs) /\ Secrets(cs, depth)
  BY <1>0, <1>6 DEF Runs, Secrets, Situated, Within
<1>8. \A where \in Within : Situated(cs, where, depth)
  BY <1>3, <1>4, <1>5, <1>7 DEF Situated, Scope, Before, Within
<1>9. ASSUME choice.field = "if", choice.at = depth PROVE Ready(choice.field, cs)
  BY <1>0, <1>8, <1>9, WithinReady, FieldsOffer DEF Within
<1>10. "if" \notin ServerFields
  BY DEF ServerFields
<1>11. UNCHANGED <<choice, supplied>> /\ place' \in {next, "stopped"} /\ Right(answer')
  BY <1>1, <1>9, <1>10, EvaluateIsRight
<1> QED
  BY <1>0, <1>1, <1>8, <1>11, InvFollows DEF Before, Within

\* Fields of the runner that leave the contexts as they are.
LEMMA WithinKeeps ==
    ASSUME FieldInv, place \in Within, NEW fields,
           fields \subseteq {"stepEnv", "inputs", "stepWith", "defaultsRun", "stepContinueOnError",
                             "url", "snapshot", "outputs"},
           NEW next \in {"end", "outputs", "result"}, Evaluate(fields, contexts, next),
           UNCHANGED <<depth, contexts>>
    PROVE  FieldInv'
<1>1. Situated(contexts, place, depth) /\ depth \in 0 .. 1 /\ Chosen
  BY DEF FieldInv
<1>2. ASSUME choice.field \in fields, choice.at = depth PROVE Ready(choice.field, contexts)
  BY <1>1, <1>2, WithinReady, FieldsOffer
<1>3. fields \cap ServerFields = {}
  BY DEF ServerFields
<1>4. UNCHANGED <<choice, supplied>> /\ place' \in {next, "stopped"} /\ Right(answer')
  BY <1>2, <1>3, EvaluateIsRight
<1>5. /\ Situated(contexts, "end", depth) /\ Situated(contexts, "outputs", depth)
      /\ Situated(contexts, "result", depth)
  BY <1>1 DEF Situated, Scope, Before, Within, Hidden, Reach, StepContexts, JobMatrixContexts
<1> QED
  BY <1>1, <1>4, <1>5, InvFollows DEF Before, Within

\* A step, the url and the outputs of a job.
LEMMA RunnerFieldsKeep == FieldInv /\ (RunStep \/ FinishJob \/ EvaluateOutputs) => FieldInv'
<1>1. ASSUME FieldInv, RunStep PROVE FieldInv'
  <2> PICK failed, fields :
        /\ fields = {"stepEnv", "inputs", "stepWith", "defaultsRun"}
                    \cup (IF failed THEN {"stepContinueOnError"} ELSE {})
        /\ Evaluate(fields, contexts, "end")
    BY <1>1 DEF RunStep
  <2> QED
    BY <1>1, WithinKeeps DEF RunStep, Within
<1>2. ASSUME FieldInv, FinishJob PROVE FieldInv'
  <2> PICK succeeds, fields :
        /\ fields = {"url"} \cup (IF succeeds THEN {"snapshot"} ELSE {})
        /\ Evaluate(fields, contexts, "outputs")
    BY <1>2 DEF FinishJob
  <2> QED
    BY <1>2, WithinKeeps DEF FinishJob, Within
<1>3. ASSUME FieldInv, EvaluateOutputs PROVE FieldInv'
  BY <1>3, WithinKeeps DEF EvaluateOutputs, Within
<1> QED
  BY <1>1, <1>2, <1>3

\* The contexts of a scenario.
LEMMA ExternalIsSituated ==
    ASSUME supplied \subseteq Fixtures, choice.at \in 0 .. 1
    PROVE  /\ Situated(External, "authoring", 0)
           /\ Reach(External, {"github", "vars", "inputs"}) /\ Nulls(External)
<1> PICK names : names = {"github", "secrets"} \cup (supplied \cap {"vars", "inputs"})
  OBVIOUS
<1> PICK named, token, github :
      /\ named = Supplied("secrets", {"name"})
      /\ token = Supplied("GITHUB_TOKEN", {"GITHUB_TOKEN"})
      /\ github = Supplied("github", {"sha"})
  OBVIOUS
<1> PICK secrets :
      /\ secrets = (named ++ token)
      /\ DOMAIN secrets = DOMAIN named \cup DOMAIN token
      /\ \A x \in DOMAIN named : secrets[x] = named[x]
      /\ \A x \in DOMAIN token : x \notin DOMAIN named => secrets[x] = token[x]
  BY ONLY Merged, Zenon
<1> PICK cs : cs = [c \in names |-> Given(0, CASE c = "github" -> github
                                               [] c = "secrets" -> secrets
                                               [] OTHER -> Valued(NamedMembers))]
  OBVIOUS
<1>1. External = Server(cs)
  BY DEF External
<1>2. /\ \A m \in DOMAIN github : github[m] = "value"
      /\ DOMAIN github = IF "github" \in supplied THEN {"sha"} ELSE {}
      /\ \A m \in DOMAIN secrets : secrets[m] = "value"
      /\ DOMAIN secrets = (IF "secrets" \in supplied THEN {"name"} ELSE {})
                          \cup (IF "GITHUB_TOKEN" \in supplied THEN {"GITHUB_TOKEN"} ELSE {})
      /\ \A m \in DOMAIN Valued(NamedMembers) : Valued(NamedMembers)[m] = "value"
      /\ DOMAIN Valued(NamedMembers) = NamedMembers
  <2>1. /\ DOMAIN named = IF "secrets" \in supplied THEN {"name"} ELSE {}
        /\ \A m \in DOMAIN named : named[m] = "value"
        /\ DOMAIN token = IF "GITHUB_TOKEN" \in supplied THEN {"GITHUB_TOKEN"} ELSE {}
        /\ \A m \in DOMAIN token : token[m] = "value"
        /\ DOMAIN github = IF "github" \in supplied THEN {"sha"} ELSE {}
        /\ \A m \in DOMAIN github : github[m] = "value"
    BY ValuesAre
  <2>2. /\ \A m \in DOMAIN Valued(NamedMembers) : Valued(NamedMembers)[m] = "value"
        /\ DOMAIN Valued(NamedMembers) = NamedMembers
    BY ValuesAre
  <2> QED
    BY <2>1, <2>2
<1>3. /\ DOMAIN cs = names
      /\ cs["github"] = Given(0, github) /\ cs["secrets"] = Given(0, secrets)
      /\ \A c \in {"vars", "inputs"} \cap supplied : cs[c] = Given(0, Valued(NamedMembers))
  OBVIOUS
<1>4. \A c \in names : IsContext(cs[c]) /\ cs[c].of = 0
  BY <1>2, <1>3, GivenIsContext
<1>5. cs["github"].has = github /\ cs["secrets"].has = secrets
      /\ \A c \in {"vars", "inputs"} \cap supplied : cs[c].has = Valued(NamedMembers)
  BY <1>3 DEF Given
<1>6. Well(cs)
  <2>1. names \subseteq StepContexts /\ "github" \in names
    BY DEF StepContexts, JobMatrixContexts
  <2> QED
    BY <1>3, <1>4, <2>1 DEF Well
<1>7. Reach(Server(cs), {"github", "vars", "inputs"})
  <2>1. Complete("github", Server(cs)["github"])
    <3>1. DOMAIN Server(cs)["github"].has = DOMAIN github \cup {"job", "token"}
      BY <1>5, <1>6, Serving
    <3> QED
      BY <1>2, <3>1 DEF Complete, Members, GitHubMembers, Lacking, Reference
  <2>2. \A c \in {"vars", "inputs"} \cap supplied :
          c \in DOMAIN Server(cs) /\ Server(cs)[c] = cs[c]
    BY <1>3, <1>6, Serving
  <2>3. \A c \in {"vars", "inputs"} \cap supplied : Complete(c, Server(cs)[c])
    BY <1>2, <1>5, <2>2 DEF Complete, Members
  <2>4. "github" \in DOMAIN Server(cs)
    BY <1>6, Serving DEF Well
  <2> QED
    BY <2>1, <2>2, <2>3, <2>4 DEF Reach
<1>8. Secrets(Server(cs), 0)
  <2>1. "secrets" \in DOMAIN Server(cs) /\ Server(cs)["secrets"] = cs["secrets"]
    BY <1>3, <1>6, Serving
  <2> QED
    BY <1>2, <1>5, <2>1 DEF Secrets
<1>9. DOMAIN Server(cs) \subseteq JobMatrixContexts \cup {"secrets", "env", "job"}
  BY <1>3, <1>6, Serving DEF JobMatrixContexts
<1>10. Well(Server(cs)) /\ Nulls(Server(cs))
  BY <1>6, Serving
<1>11. Situated(Server(cs), "authoring", 0)
  BY ONLY <1>7, <1>8, <1>9, <1>10 DEF Situated, Scope, Before, Within
<1> QED
  BY <1>1, <1>7, <1>10, <1>11

\* The outputs of a called workflow see its own contexts, not the job's that calls it.
LEMMA FinishWorkflowKeeps == FieldInv /\ FinishWorkflow => FieldInv'
<1> SUFFICES ASSUME FieldInv, FinishWorkflow PROVE FieldInv'
  OBVIOUS
<1> PICK own : own = {"github", "vars", "inputs", "secrets"}
  OBVIOUS
<1> PICK mine : mine = [c \in DOMAIN contexts \cap own |-> contexts[c]]
  OBVIOUS
<1> PICK external : external = IF depth = 0 THEN External ELSE Server(mine)
  OBVIOUS
<1> PICK next : next = IF depth = 1 THEN "result" ELSE "done"
  OBVIOUS
<1> PICK top : top = [jobs |-> Given(depth, Valued(NeedsMembers))]
  OBVIOUS
<1> PICK cs :
      /\ cs = (top ++ external)
      /\ DOMAIN cs = DOMAIN top \cup DOMAIN external
      /\ \A x \in DOMAIN top : cs[x] = top[x]
      /\ \A x \in DOMAIN external : x \notin DOMAIN top => cs[x] = external[x]
  BY ONLY Merged, Zenon
<1>1. /\ Evaluate({"workflowOutputs"}, cs, next) /\ depth' = 0 /\ UNCHANGED contexts
      /\ Situated(contexts, "result", depth) /\ depth \in 0 .. 1 /\ Chosen
  BY DEF FinishWorkflow, FieldInv
<1>2. /\ Well(contexts) /\ Reach(contexts, {"github", "vars", "inputs"})
      /\ depth = 1 => Hidden(contexts, DOMAIN contexts \ {"strategy"})
  BY <1>1 DEF Situated, Scope, Before, Within
<1>3. /\ DOMAIN top = {"jobs"} /\ IsContext(top["jobs"]) /\ top["jobs"].of = depth
      /\ Complete("jobs", top["jobs"])
  BY <1>1, ValuesAre, GivenIsContext DEF Complete, KnownMissing
<1>4. /\ Well(external) /\ Reach(external, {"github", "vars", "inputs"}) /\ Nulls(external)
      /\ depth = 1 => Hidden(external, DOMAIN external)
  <2>1. CASE depth = 0
    BY <1>1, <2>1, ExternalIsSituated DEF Situated, Chosen
  <2>2. CASE depth = 1
    <3>1. Well(mine) /\ Hidden(mine, DOMAIN mine)
      BY <1>2, <2>2 DEF Well, Hidden
    <3>2. Reach(mine, {"github", "vars", "inputs"})
      BY <1>2 DEF Reach
    <3>3. Reach(Server(mine), {"github", "vars", "inputs"})
      BY <3>1, <3>2, ReachServing
    <3>4. Hidden(Server(mine), DOMAIN Server(mine))
      <4>1. /\ DOMAIN Server(mine) = DOMAIN mine
            /\ \A c \in DOMAIN mine : Server(mine)[c].of = mine[c].of
        BY <3>1, Serving
      <4> QED
        BY <3>1, <4>1 DEF Hidden
    <3> QED
      BY <2>2, <3>1, <3>3, <3>4, Serving
  <2> QED
    BY <1>1, <2>1, <2>2
<1>5. Well(cs)
  BY <1>3, <1>4, Layered
<1>6. Reach(cs, {"github", "jobs", "vars", "inputs"})
  BY <1>3, <1>4, ReachLayered
<1>7. depth = 1 => Hidden(cs, DOMAIN cs)
  BY <1>3, <1>4 DEF Hidden
<1>8. Nulls(cs)
  <2>1. cs["github"] = external["github"]
    BY <1>3, <1>4 DEF Well
  <2> QED
    BY <1>4, <2>1 DEF Nulls
<1>9. ASSUME choice.field = "workflowOutputs", choice.at = depth PROVE Ready(choice.field, cs)
  <2>1. Offers(choice.field) = {"github", "jobs", "vars", "inputs"}
        /\ Declared[choice.field] \notin RunnerScopes
    BY <1>9, FieldsOffer
  <2> QED
    BY <1>5, <1>6, <1>7, <1>8, <1>9, <2>1 DEF Ready, Hidden
<1>10. "workflowOutputs" \notin ServerFields
  BY DEF ServerFields
<1>11. UNCHANGED <<choice, supplied>> /\ place' \in {next, "stopped"} /\ Right(answer')
  BY <1>1, <1>9, <1>10, EvaluateIsRight
<1>12. Situated(contexts, "result", 0)
  BY <1>1 DEF Situated, Scope, Before, Within
<1> QED
  BY <1>1, <1>11, <1>12, InvFollows DEF Before, Within

\* A called workflow gets no context of the job that calls it but strategy, and inputs
\* and secrets of its own.
LEMMA EnterCalleeKeeps == FieldInv /\ EnterCallee => FieldInv'
<1> SUFFICES ASSUME FieldInv, EnterCallee PROVE FieldInv'
  OBVIOUS
<1>1. /\ place = "callee" /\ depth = 0 /\ Situated(contexts, "callee", 0) /\ Chosen
      /\ UNCHANGED <<choice, supplied>> /\ depth' = 1
  BY DEF EnterCallee, FieldInv, Situated, Before
<1>a. PICK inputs \in {{}, {"name"}}, secrets \in {{}, {"name"}} :
      \E passed, default :
        /\ passed = Passed(inputs, secrets)
        /\ default = [c \in DOMAIN passed \cap {"github", "vars", "inputs"} |-> passed[c]]
        /\ answer' = IF choice.field = "inputDefault" /\ inputs = {}
                     THEN Evaluated(default, choice.reference) ELSE answer
        /\ place' \in {"workflow", "stopped"}
        /\ contexts' = [Server(passed) EXCEPT !["inputs"].has = Valued(NamedMembers)]
  BY DEF EnterCallee
<1>b. PICK passed, default :
      /\ passed = Passed(inputs, secrets)
      /\ default = [c \in DOMAIN passed \cap {"github", "vars", "inputs"} |-> passed[c]]
      /\ answer' = IF choice.field = "inputDefault" /\ inputs = {}
                   THEN Evaluated(default, choice.reference) ELSE answer
      /\ place' \in {"workflow", "stopped"}
      /\ contexts' = [Server(passed) EXCEPT !["inputs"].has = Valued(NamedMembers)]
  BY <1>a, Zenon
<1> PICK given, token :
      given = Valued(secrets) /\ token = Supplied("GITHUB_TOKEN", {"GITHUB_TOKEN"})
  OBVIOUS
<1> PICK all :
      /\ all = (given ++ token)
      /\ DOMAIN all = DOMAIN given \cup DOMAIN token
      /\ \A x \in DOMAIN given : all[x] = given[x]
      /\ \A x \in DOMAIN token : x \notin DOMAIN given => all[x] = token[x]
  BY ONLY Merged, Zenon
<1> PICK top : top = [inputs |-> Given(1, Valued(inputs)), secrets |-> Given(1, all)]
  OBVIOUS
<1> PICK rest : rest = [c \in DOMAIN contexts \ CallerContexts |-> contexts[c]]
  OBVIOUS
<1> PICK cs :
      /\ cs = (top ++ rest)
      /\ DOMAIN cs = DOMAIN top \cup DOMAIN rest
      /\ \A x \in DOMAIN top : cs[x] = top[x]
      /\ \A x \in DOMAIN rest : x \notin DOMAIN top => cs[x] = rest[x]
  BY ONLY Merged, Zenon
<1>2. passed = cs
  BY <1>b, Zenon DEF Passed
<1>3. /\ Well(contexts) /\ Reach(contexts, {"github", "vars", "inputs"}) /\ Nulls(contexts)
      /\ DOMAIN contexts \subseteq JobMatrixContexts \cup {"secrets", "env", "job"}
  BY <1>1 DEF Situated, Scope, Before, Within
<1>4. /\ DOMAIN all = secrets
                      \cup (IF "GITHUB_TOKEN" \in supplied THEN {"GITHUB_TOKEN"} ELSE {})
      /\ \A m \in DOMAIN all : all[m] = "value"
  <2>1. /\ DOMAIN given = secrets /\ \A m \in DOMAIN given : given[m] = "value"
        /\ DOMAIN token = IF "GITHUB_TOKEN" \in supplied THEN {"GITHUB_TOKEN"} ELSE {}
        /\ \A m \in DOMAIN token : token[m] = "value"
    BY ValuesAre
  <2> QED
    BY <2>1
<1>5. /\ DOMAIN top = {"inputs", "secrets"}
      /\ \A c \in DOMAIN top : IsContext(top[c]) /\ top[c].of = 1
      /\ top["secrets"].has = all
      /\ Complete("inputs", top["inputs"])
  <2>1. IsContext(top["inputs"]) /\ top["inputs"].of = 1
    BY ValuesAre, GivenIsContext
  <2>2. IsContext(top["secrets"]) /\ top["secrets"].of = 1 /\ top["secrets"].has = all
    BY <1>4, GivenIsContext
  <2> QED
    BY <2>1, <2>2 DEF Complete, KnownMissing
<1>6. /\ Well(rest) /\ Reach(rest, {"github", "vars"}) /\ Nulls(rest)
      /\ DOMAIN rest \subseteq {"github", "vars", "inputs", "secrets", "strategy"}
  BY <1>3 DEF Well, Reach, Nulls, CallerContexts, JobMatrixContexts
<1>7. Well(cs)
  BY <1>5, <1>6, Layered DEF StepContexts, JobMatrixContexts
<1>8. /\ DOMAIN cs \subseteq {"github", "vars", "inputs", "secrets", "strategy"}
      /\ {"github", "inputs", "secrets"} \subseteq DOMAIN cs
      /\ cs["github"] = contexts["github"] /\ cs["inputs"] = top["inputs"]
      /\ cs["secrets"] = top["secrets"]
  <2>1. "github" \in DOMAIN rest /\ rest["github"] = contexts["github"]
    BY <1>6 DEF Well
  <2>2. cs["github"] = rest["github"]
    BY <1>5, <2>1
  <2> QED
    BY <1>5, <1>6, <2>1, <2>2
<1>9. Reach(cs, {"github", "vars", "inputs"})
  BY <1>5, <1>6 DEF Reach
<1>10. Nulls(cs) /\ Hidden(cs, {"github", "vars", "inputs", "secrets"})
  BY <1>3, <1>5, <1>8 DEF Nulls, Hidden
<1>11. Right(answer')
  <2>1. CASE choice.field = "inputDefault" /\ inputs = {}
    <3>1. /\ Offers(choice.field) = {"github", "inputs", "vars"}
          /\ Declared[choice.field] \notin RunnerScopes
          /\ SpecialFunctions(Declared[choice.field]) = {}
      <4>1. Declared["inputDefault"] = "on.workflow_call.inputs.<inputs_id>.default"
        BY FieldsOffer
      <4> QED
        BY <2>1, <4>1, FieldsOffer, SpecialMeans
    <3>0. /\ default = [c \in DOMAIN default |-> default[c]]
          /\ DOMAIN default = DOMAIN cs \cap {"github", "vars", "inputs"}
          /\ \A c \in DOMAIN default : default[c] = cs[c]
      BY <1>b, <1>2
    <3>2. Well(default) /\ Nulls(default)
      <4>1. "github" \in DOMAIN default /\ \A c \in DOMAIN default : IsContext(cs[c])
        BY <1>7, <1>8, <3>0 DEF Well
      <4>2. DOMAIN default \subseteq StepContexts \cup {"jobs"}
        BY <1>7, <3>0 DEF Well
      <4> QED
        BY ONLY <1>10, <3>0, <4>1, <4>2 DEF Well, Nulls
    <3>3. Reach(default, {"github", "vars", "inputs"})
      BY <1>9, <3>0 DEF Reach
    <3>4. Hidden(default, {"github", "vars", "inputs"})
      BY <1>10, <3>0 DEF Hidden
    <3>5. Ready(choice.field, default)
      BY <3>1, <3>2, <3>3, <3>4 DEF Ready, Reach, Hidden
    <3> QED
      BY <1>b, <1>1, <2>1, <3>1, <3>5, ReadyIsRight
  <2>2. CASE ~(choice.field = "inputDefault" /\ inputs = {})
    BY <1>b, <2>2, RightIsAll DEF FieldInv
  <2> QED
    BY <2>1, <2>2
<1> PICK server : server = Server(cs)
  OBVIOUS
<1>12. /\ Well(server) /\ Nulls(server) /\ Reach(server, {"github", "vars", "inputs"})
       /\ DOMAIN server = DOMAIN cs
       /\ \A c \in DOMAIN cs : server[c].of = cs[c].of
       /\ server["secrets"] = cs["secrets"] /\ server["inputs"] = cs["inputs"]
  BY <1>7, <1>8, <1>9, Serving, ReachServing
<1> PICK own : own = [server["inputs"] EXCEPT !.has = Valued(NamedMembers)]
  OBVIOUS
<1>13. own = [of |-> 1, has |-> Valued(NamedMembers)]
  <2>1. server["inputs"] = [of |-> 1, has |-> server["inputs"].has]
    <3>1. server["inputs"] = top["inputs"] /\ IsContext(top["inputs"]) /\ top["inputs"].of = 1
      BY <1>5, <1>8, <1>12
    <3> QED
      BY ONLY <3>1 DEF IsContext
  <2> QED
    BY ONLY <2>1, own = [server["inputs"] EXCEPT !.has = Valued(NamedMembers)]
<1>14. /\ contexts' = [server EXCEPT !["inputs"] = own]
       /\ DOMAIN contexts' = DOMAIN server /\ contexts'["inputs"] = own
       /\ \A c \in DOMAIN server \ {"inputs"} : contexts'[c] = server[c]
       /\ contexts' = [c \in DOMAIN contexts' |-> contexts'[c]]
  BY <1>b, <1>2, <1>8, <1>12 DEF Well
<1>15. IsContext(own) /\ own.of = 1 /\ Complete("inputs", own)
  <2>1. \A m \in DOMAIN Valued(NamedMembers) : Valued(NamedMembers)[m] = "value"
    BY ValuesAre
  <2> QED
    BY ONLY <1>13, <2>1 DEF IsContext, Complete, KnownMissing
<1>16. Well(contexts')
  BY <1>8, <1>12, <1>14, <1>15 DEF Well
<1>17. Reach(contexts', {"github", "vars", "inputs"})
  BY <1>8, <1>12, <1>14, <1>15 DEF Reach
<1>18. Nulls(contexts') /\ Secrets(contexts', 1)
  <2>1. /\ contexts'["github"] = server["github"] /\ "secrets" \in DOMAIN contexts'
        /\ contexts'["secrets"] = top["secrets"]
    BY <1>8, <1>12, <1>14
  <2> QED
    BY ONLY <1>4, <1>5, <1>12, <2>1 DEF Nulls, Secrets
<1>19. Hidden(contexts', DOMAIN contexts' \ {"strategy"})
  BY ONLY <1>8, <1>10, <1>12, <1>14, <1>15 DEF Hidden
<1>20. Situated(contexts', "workflow", 1)
  BY <1>16, <1>17, <1>18, <1>19 DEF Situated, Scope, Before, Within
<1> QED
  BY <1>b, <1>1, <1>11, <1>20, InvFollows DEF Before, Within

-----------------------------------------------------------------------------
(* The theorems.                                                            *)

\* The contexts that a scenario begins with.
LEMMA FieldInvInit == FieldInit => FieldInv
<1> SUFFICES ASSUME FieldInit PROVE FieldInv
  OBVIOUS
<1>1. Chosen
  BY SuppliesAssumption DEF FieldInit, Chosen
<1>2. Situated(contexts, "authoring", 0)
  BY <1>1, ExternalIsSituated DEF FieldInit, Chosen
<1>3. OfferedReferencesResolve /\ ServerFieldsSeeNull /\ CallersStayHidden
  BY DEF FieldInit, OfferedReferencesResolve, ServerFieldsSeeNull, CallersStayHidden
<1> QED
  BY <1>1, <1>2, <1>3 DEF FieldInv, FieldInit

\* Every step keeps what is known of the contexts.
LEMMA FieldInvStep == FieldInv /\ [FieldNext]_fieldVars => FieldInv'
<1>1. FieldInv /\ FieldNext => FieldInv'
  BY AuthorKeeps, EvaluateWorkflowKeeps, EvaluateConditionKeeps, ExpandMatrixKeeps,
     EvaluateCallKeeps, EnterCalleeKeeps, StartInstanceKeeps, ResolveSettingsKeeps,
     EvaluateIfKeeps, RunnerFieldsKeep, FinishWorkflowKeeps DEF FieldNext
<1>2. FieldInv /\ UNCHANGED fieldVars => FieldInv'
  <2> SUFFICES ASSUME FieldInv, UNCHANGED fieldVars PROVE FieldInv'
    OBVIOUS
  <2>1. UNCHANGED <<choice, supplied, place, depth, contexts, answer>>
    BY DEF fieldVars
  <2> QED
    BY <2>1, InvFollows, RightIsAll DEF FieldInv
<1> QED
  BY <1>1, <1>2

\* Wherever a field is evaluated, the contexts reach what its scope offers.
THEOREM FieldInvariant == FieldSpec => []FieldInv
  BY FieldInvInit, FieldInvStep, PTL DEF FieldSpec

\* What the type of a field's callback offers never makes the callback throw, and has
\* a value or null where the interpreter evaluates the field, but for want of a fixture.
THEOREM OfferedResolve == FieldSpec => []OfferedReferencesResolve
<1>1. FieldInv => OfferedReferencesResolve
  BY DEF FieldInv
<1> QED
  BY <1>1, FieldInvariant, PTL

\* github.job and github.token are null in exactly the fields that the types say are
\* evaluated on the server.
THEOREM ServerSeesNull == FieldSpec => []ServerFieldsSeeNull
<1>1. FieldInv => ServerFieldsSeeNull
  BY DEF FieldInv
<1> QED
  BY <1>1, FieldInvariant, PTL

\* No field of a called workflow sees a value of its caller but the run and variables.
THEOREM CallersHidden == FieldSpec => []CallersStayHidden
<1>1. FieldInv => CallersStayHidden
  BY DEF FieldInv
<1> QED
  BY <1>1, FieldInvariant, PTL

=============================================================================
