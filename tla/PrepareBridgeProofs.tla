------------------------- MODULE PrepareBridgeProofs -------------------------
(***************************************************************************)
(* What jobs leave for each other and what their tasks run, for any number *)
(* of jobs, runners and versions, and for any edits, decays and faults; and *)
(* what the tasks of a run pass to each other, for any outputs, producers,  *)
(* consumers and conditions.                                                *)
(***************************************************************************)
EXTENDS PrepareBridge, TaskFlow, TLAPS

Labels == {"queued"} \cup Running \cup Ended
Artifacts == [id : Versions, code : Versions]
Directories == [art : Artifacts, health : Healths]
JobState ==
    [runner : Runners, key : Versions, checkout : Versions, exact : BOOLEAN,
     delivered : Directories \cup {None}, transport : Directories \cup {None},
     rebuild : BOOLEAN, deno : {"none", "path", "downloaded"},
     checked : Versions \cup {None}, planned : Versions \cup {None},
     runtime : Artifacts \cup {None}]

TypeOK ==
    /\ remote \in [Versions -> Directories \cup {None}]
    /\ stores \in [Runners -> SUBSET Artifacts]
    /\ runtimes \in [Runners -> [Versions -> Directories \cup {None}]]
    /\ pc \in [Jobs -> Labels]
    /\ job \in [Jobs -> JobState \cup {None}]
    /\ \A j \in Jobs : pc[j] # "queued" => job[j] \in JobState

\* Only a change of the source during a compilation lets them differ.
Matching(a) == a.id = a.code \/ a \in raced
MatchingNext(a) == a.id = a.code \/ a \in raced'

\* What a job that is at some label has and knows.
JobSafe(s, label) ==
    /\ s.transport # None => s.transport.art.id = s.key /\ Matching(s.transport.art)
    /\ label \in {"cache", "bridge", "deno", "plan"} =>
         s.transport = s.delivered /\ s.runtime = None
    /\ label \notin {"failed", "cancelled"} => s.checked \in {None, s.key}
    /\ label \in {"obtain", "compile"} => s.checked = s.key /\ s.planned = s.key
    /\ label \in {"prepared", "succeeded", "saved"} =>
         s.checked = s.key /\ s.runtime.id = s.key /\ Matching(s.runtime)
    /\ s.checked \notin {None, s.key} => s.transport = s.delivered /\ s.runtime = None

\* The inductive invariant: the entries agree with their keys because all that a
\* job has got hold of does, before it is prepared and after.
IInv ==
    /\ TypeOK
    /\ EntriesMatchTheirKey
    /\ \A j \in Jobs : pc[j] # "queued" => JobSafe(job[j], pc[j])

-----------------------------------------------------------------------------
(* How a step may change a job.                                             *)

\* The raced artifacts only become more, so that what matches stays so.
LEMMA SafeStays ==
    ASSUME NEW s, NEW label, JobSafe(s, label), raced \subseteq raced'
    PROVE  JobSafe(s, label)'
BY DEF JobSafe, Matching, MatchingNext

\* One job moves on to a state that is safe where it now is.
LEMMA JobMoves ==
    ASSUME IInv, NEW j \in Jobs, NEW s \in JobState, NEW label \in Labels \ {"queued"},
           job' = [job EXCEPT ![j] = s], pc' = [pc EXCEPT ![j] = label],
           JobSafe(s, label)', raced \subseteq raced',
           remote' \in [Versions -> Directories \cup {None}],
           stores' \in [Runners -> SUBSET Artifacts],
           runtimes' \in [Runners -> [Versions -> Directories \cup {None}]],
           EntriesMatchTheirKey'
    PROVE  IInv'
<1>1. TypeOK'
  BY DEF IInv, TypeOK
<1>2. ASSUME NEW i \in Jobs, pc'[i] # "queued" PROVE JobSafe(job[i], pc[i])'
  <2>1. CASE i = j
    <3>1. job'[i] = s /\ pc'[i] = label
      BY <2>1 DEF IInv, TypeOK
    <3> QED
      BY <3>1 DEF JobSafe, Matching, MatchingNext
  <2>2. CASE i # j
    <3>1. job'[i] = job[i] /\ pc'[i] = pc[i] /\ JobSafe(job[i], pc[i])
      BY <1>2, <2>2 DEF IInv, TypeOK
    <3> QED
      BY <3>1 DEF JobSafe, Matching, MatchingNext
  <2> QED
    BY <2>1, <2>2
<1> QED
  BY <1>1, <1>2 DEF IInv

\* The same while nothing that is shared changes.
LEMMA JobMovesAlone ==
    ASSUME IInv, NEW j \in Jobs, NEW s \in JobState, NEW label \in Labels \ {"queued"},
           job' = [job EXCEPT ![j] = s], pc' = [pc EXCEPT ![j] = label],
           JobSafe(s, label), UNCHANGED <<remote, stores, runtimes, raced>>
    PROVE  IInv'
<1>1. JobSafe(s, label)'
  BY SafeStays
<1>2. EntriesMatchTheirKey'
  BY DEF IInv, EntriesMatchTheirKey
<1> QED
  BY <1>1, <1>2, JobMoves DEF IInv, TypeOK

\* A job that only goes to another label, and has what is needed there.
LEMMA JobGoes ==
    ASSUME IInv, NEW j \in Jobs, NEW label \in Labels \ {"queued"}, pc[j] # "queued",
           Goto(j, label), JobSafe(job[j], label),
           UNCHANGED <<remote, stores, runtimes, job, raced>>
    PROVE  IInv'
<1>1. job[j] \in JobState /\ job' = [job EXCEPT ![j] = job[j]]
  BY DEF IInv, TypeOK
<1> QED
  BY <1>1, JobMovesAlone DEF Goto

\* What is published stays as it is, or fits its key.
LEMMA PublishKeeps ==
    ASSUME IInv, NEW r \in Runners, NEW art \in Artifacts, NEW rejects,
           Publish(r, art, rejects), MatchingNext(art), raced \subseteq raced'
    PROVE  /\ runtimes' \in [Runners -> [Versions -> Directories \cup {None}]]
           /\ \A q \in Runners, k \in Versions : runtimes'[q][k] # None =>
                 runtimes'[q][k].art.id = k /\ MatchingNext(runtimes'[q][k].art)
<1> DEFINE there == runtimes[r][art.id]
           d == IF there = None THEN Sound(art)
                ELSE IF rejects THEN [there EXCEPT !.health = "invalid"] ELSE there
<1>1. art.id \in Versions /\ there \in Directories \cup {None}
  BY DEF IInv, TypeOK, Artifacts
<1>2. /\ d \in Directories /\ d.art.id = art.id /\ MatchingNext(d.art)
  <2>1. CASE there = None
    BY <2>1 DEF Sound, Directories, Healths
  <2>2. CASE there # None
    <3>1. there \in Directories /\ there.art.id = art.id /\ Matching(there.art)
      BY <1>1, <2>2 DEF IInv, EntriesMatchTheirKey, Matching, MatchingNext
    <3>2. d \in {[there EXCEPT !.health = "invalid"], there}
      BY <2>2
    <3>3. d \in Directories /\ d.art = there.art
      BY <3>1, <3>2 DEF Directories, Healths
    <3> QED
      BY <3>1, <3>3 DEF Matching, MatchingNext
  <2> QED
    BY <2>1, <2>2
<1>3. runtimes' = [runtimes EXCEPT ![r][art.id] = d]
  BY DEF Publish
<1> HIDE DEF d
<1>4. runtimes' \in [Runners -> [Versions -> Directories \cup {None}]]
  BY <1>1, <1>2, <1>3 DEF IInv, TypeOK
<1>5. ASSUME NEW q \in Runners, NEW k \in Versions, runtimes'[q][k] # None
      PROVE  runtimes'[q][k].art.id = k /\ MatchingNext(runtimes'[q][k].art)
  <2>1. CASE q = r /\ k = art.id
    <3>1. runtimes'[q][k] = d
      BY <1>1, <1>3, <2>1 DEF IInv, TypeOK
    <3> QED
      BY <1>2, <2>1, <3>1 DEF Matching, MatchingNext
  <2>2. CASE ~(q = r /\ k = art.id)
    <3>1. runtimes'[q][k] = runtimes[q][k]
      BY <1>1, <1>3, <2>2 DEF IInv, TypeOK
    <3> QED
      BY <1>5, <3>1 DEF IInv, EntriesMatchTheirKey, Matching, MatchingNext
  <2> QED
    BY <2>1, <2>2
<1> QED
  BY <1>4, <1>5

\* A job gets the runtime that it has or, usable and under the same key, the one
\* that is published.
LEMMA MaterializeKeeps ==
    ASSUME IInv, NEW j \in Jobs, NEW state \in JobState, NEW art \in Artifacts,
           Materialize(j, state, art), MatchingNext(art), art.id = state.key,
           state.checked = state.key, state.transport = Sound(art),
           raced \subseteq raced', UNCHANGED remote,
           stores' \in [Runners -> SUBSET Artifacts],
           \A r \in Runners : \A a \in stores'[r] : MatchingNext(a)
    PROVE  IInv'
<1> DEFINE there == runtimes[state.runner][art.id]
<1>1. state.runner \in Runners /\ art.id \in Versions
  BY DEF JobState, Artifacts
<1>2. /\ runtimes' \in [Runners -> [Versions -> Directories \cup {None}]]
      /\ \A q \in Runners, k \in Versions : runtimes'[q][k] # None =>
            runtimes'[q][k].art.id = k /\ MatchingNext(runtimes'[q][k].art)
  <2>1. CASE Publish(state.runner, art, state.rebuild)
    BY <1>1, <2>1, PublishKeeps
  <2>2. CASE UNCHANGED runtimes
    BY <2>2 DEF IInv, TypeOK, EntriesMatchTheirKey, Matching, MatchingNext
  <2> QED
    BY <2>1, <2>2 DEF Materialize
<1>3. EntriesMatchTheirKey'
  BY <1>2 DEF IInv, EntriesMatchTheirKey, Matching, MatchingNext
<1>4. PICK runtime \in Artifacts :
        /\ Update(j, [state EXCEPT !.runtime = runtime])
        /\ runtime.id = art.id /\ MatchingNext(runtime)
  <2>1. CASE Update(j, [state EXCEPT !.runtime = art])
    BY <2>1
  <2>2. CASE Usable(there) /\ Update(j, [state EXCEPT !.runtime = there.art])
    <3>1. there \in Directories /\ there.art.id = art.id /\ Matching(there.art)
      BY <1>1, <2>2 DEF Usable, IInv, TypeOK, EntriesMatchTheirKey, Matching, MatchingNext
    <3>2. there.art \in Artifacts /\ MatchingNext(there.art)
      BY <3>1 DEF Directories, Matching, MatchingNext
    <3> QED
      BY <2>2, <3>1, <3>2
  <2> QED
    BY <2>1, <2>2 DEF Materialize
<1>0. PICK s : s = [state EXCEPT !.runtime = runtime]
  OBVIOUS
<1>5. s \in JobState
  BY <1>0 DEF JobState
<1>6. /\ s.key = state.key /\ s.checked = state.key /\ s.runtime = runtime
      /\ s.transport = Sound(art)
  BY <1>0 DEF JobState
<1>7. Sound(art).art = art
  BY DEF Sound
<1>8. JobSafe(s, "prepared")'
  BY <1>4, <1>6, <1>7 DEF JobSafe, Matching, MatchingNext
<1>9. job' = [job EXCEPT ![j] = s] /\ pc' = [pc EXCEPT ![j] = "prepared"]
  BY <1>0, <1>4 DEF Materialize, Update, Goto
<1>10. remote' \in [Versions -> Directories \cup {None}]
  BY DEF IInv, TypeOK
<1> QED
  BY <1>2, <1>3, <1>5, <1>8, <1>9, <1>10, JobMoves DEF Labels, Running

-----------------------------------------------------------------------------
(* The actions.                                                             *)

\* A job starts with nothing.
LEMMA StartJobKeeps == ASSUME IInv, NEW j \in Jobs, StartJob(j) PROVE IInv'
<1>1. PICK r \in Runners, k \in Versions, c \in Versions :
         Update(j, [runner |-> r, key |-> k, checkout |-> c, exact |-> FALSE,
                    delivered |-> None, transport |-> None, rebuild |-> FALSE,
                    deno |-> "none", checked |-> None, planned |-> None,
                    runtime |-> None])
  BY DEF StartJob
<1> DEFINE s == [runner |-> r, key |-> k, checkout |-> c, exact |-> FALSE,
                 delivered |-> None, transport |-> None, rebuild |-> FALSE,
                 deno |-> "none", checked |-> None, planned |-> None, runtime |-> None]
<1>2. s \in JobState
  BY DEF JobState
<1>3. JobSafe(s, "cache")
  BY DEF JobSafe
<1>4. pc' = [pc EXCEPT ![j] = "cache"] /\ UNCHANGED <<remote, stores, runtimes, raced>>
  BY DEF StartJob, Goto
<1>5. job' = [job EXCEPT ![j] = s]
  BY <1>1 DEF Update
<1> HIDE DEF s
<1> QED
  BY <1>2, <1>3, <1>4, <1>5, JobMovesAlone DEF Labels, Running

\* What the cache step delivers, if anything, is the entry of the job's key.
LEMMA CacheStepKeeps == ASSUME IInv, NEW j \in Jobs, CacheStep(j) PROVE IInv'
<1> DEFINE entry == remote[job[j].key]
<1>1. pc[j] = "cache" /\ job[j] \in JobState /\ JobSafe(job[j], "cache")
  BY DEF CacheStep, IInv, TypeOK
<1>2. PICK d :
         /\ \/ d \in {entry, None}
            \/ entry # None /\ \E h \in Healths : d = [entry EXCEPT !.health = h]
         /\ Update(j, [job[j] EXCEPT !.exact = entry # None /\ d # None,
                                     !.delivered = d, !.transport = d])
         /\ Goto(j, "bridge")
  BY DEF CacheStep
<1>3. entry \in Directories \cup {None} /\ job[j].key \in Versions
  BY <1>1 DEF IInv, TypeOK, JobState
<1>4. entry # None => entry.art.id = job[j].key /\ Matching(entry.art)
  BY <1>3 DEF IInv, EntriesMatchTheirKey, Matching, MatchingNext
<1>5. /\ d \in Directories \cup {None}
      /\ d # None => d.art.id = job[j].key /\ Matching(d.art)
  <2>1. CASE d \in {entry, None}
    BY <1>3, <1>4, <2>1
  <2>2. ASSUME entry # None, NEW h \in Healths, d = [entry EXCEPT !.health = h]
        PROVE  d \in Directories /\ d.art = entry.art
    BY <1>3, <2>2 DEF Directories
  <2> QED
    BY <1>2, <1>4, <2>1, <2>2
<1> DEFINE hit == entry # None /\ d # None
           s == [job[j] EXCEPT !.exact = hit, !.delivered = d, !.transport = d]
<1>6. s \in JobState
  BY <1>1, <1>5 DEF JobState
<1>7. /\ s.transport = d /\ s.delivered = d /\ s.key = job[j].key
      /\ s.checked = job[j].checked /\ s.runtime = job[j].runtime
  BY <1>1 DEF JobState
<1>8. job' = [job EXCEPT ![j] = s] /\ pc' = [pc EXCEPT ![j] = "bridge"]
  BY <1>2 DEF Update, Goto
<1> HIDE DEF s
<1>9. JobSafe(s, "bridge")
  BY <1>1, <1>5, <1>7 DEF JobSafe
<1> QED
  BY <1>6, <1>8, <1>9, JobMovesAlone DEF CacheStep, Labels, Running

\* The restored binary's verdict leaves the job with a runtime of its key, with
\* the drift it found, or with nothing new.
LEMMA TryRestoreKeeps == ASSUME IInv, NEW j \in Jobs, TryRestore(j) PROVE IInv'
<1>1. /\ pc[j] = "bridge" /\ job[j] \in JobState /\ JobSafe(job[j], "bridge")
      /\ UNCHANGED <<remote, stores, raced>>
  BY DEF TryRestore, IInv, TypeOK
<1>2. CASE job[j].transport = None
  <2>1. Goto(j, "deno") /\ UNCHANGED <<job, runtimes>>
    BY <1>2 DEF TryRestore
  <2> QED
    BY <1>1, <2>1, JobGoes DEF JobSafe, Labels, Running
<1>3. CASE job[j].transport # None
  <2> DEFINE outcome == RestoreStatus(j)
             compared == IF outcome \in {0, 3} THEN job[j].checkout ELSE job[j].checked
  <2>1. /\ job[j].transport.art \in Artifacts
        /\ job[j].transport.art.id = job[j].key /\ Matching(job[j].transport.art)
        /\ job[j].checkout \in Versions
    BY <1>1, <1>3 DEF JobState, JobSafe, Directories
  <2>2. compared \in Versions \cup {None}
    BY <1>1 DEF JobState
  <2>3. outcome = 0 => job[j].checkout = job[j].key
    BY <2>1 DEF RestoreStatus
  <2>4. CASE outcome = 0 /\ Materialize(j, [job[j] EXCEPT !.checked = compared],
                                        job[j].transport.art)
    <3>0. PICK s : s = [job[j] EXCEPT !.checked = compared]
      OBVIOUS
    <3>1. s \in JobState
      BY <1>1, <2>2, <3>0 DEF JobState
    <3>2. job[j].transport = Sound(job[j].transport.art)
      <4>1. job[j].transport.health \notin {"invalid", "unstartable"}
        BY <2>4 DEF RestoreStatus
      <4> QED
        BY <1>1, <1>3, <4>1 DEF JobState, Directories, Healths, Sound
    <3>3. /\ s.key = job[j].key /\ s.checked = job[j].key
          /\ s.transport = Sound(job[j].transport.art)
      BY <1>1, <2>3, <2>4, <3>0, <3>2 DEF JobState
    <3>4. /\ MatchingNext(job[j].transport.art) /\ raced \subseteq raced'
          /\ \A r \in Runners : \A a \in stores'[r] : MatchingNext(a)
          /\ stores' \in [Runners -> SUBSET Artifacts]
      BY <1>1, <2>1 DEF Matching, MatchingNext, IInv, TypeOK, EntriesMatchTheirKey
    <3> QED
      BY <1>1, <2>1, <2>4, <3>0, <3>1, <3>3, <3>4, MaterializeKeeps
  <2>5. CASE outcome = 3 /\ Update(j, [job[j] EXCEPT !.checked = compared]) /\ Goto(j, "failed")
             /\ UNCHANGED runtimes
    <3> DEFINE s == [job[j] EXCEPT !.checked = compared]
    <3>1. s \in JobState
      BY <1>1, <2>2 DEF JobState
    <3>2. /\ s.key = job[j].key /\ s.runtime = job[j].runtime
          /\ s.transport = job[j].transport /\ s.delivered = job[j].delivered
      BY <1>1 DEF JobState
    <3>3. JobSafe(s, "failed")
      BY <1>1, <3>2 DEF JobSafe
    <3>4. job' = [job EXCEPT ![j] = s] /\ pc' = [pc EXCEPT ![j] = "failed"]
      BY <2>5 DEF Update, Goto
    <3> HIDE DEF s
    <3> QED
      BY <1>1, <2>5, <3>1, <3>3, <3>4, JobMovesAlone DEF Labels, Ended
  <2>6. CASE outcome \notin {3} /\ Update(j, [job[j] EXCEPT !.rebuild = outcome = 1,
                                                          !.checked = compared])
             /\ Goto(j, "deno") /\ UNCHANGED runtimes
    <3> DEFINE failed == outcome = 1
               s == [job[j] EXCEPT !.rebuild = failed, !.checked = compared]
    <3>1. s \in JobState
      BY <1>1, <2>2 DEF JobState
    <3>2. /\ s.key = job[j].key /\ s.runtime = job[j].runtime /\ s.checked = compared
          /\ s.transport = job[j].transport /\ s.delivered = job[j].delivered
      BY <1>1 DEF JobState
    <3>3. compared \in {None, job[j].key}
      BY <1>1, <2>3, <2>6 DEF JobSafe
    <3>4. JobSafe(s, "deno")
      BY <1>1, <3>2, <3>3 DEF JobSafe
    <3>5. job' = [job EXCEPT ![j] = s] /\ pc' = [pc EXCEPT ![j] = "deno"]
      BY <2>6 DEF Update, Goto
    <3> HIDE DEF s
    <3> QED
      BY <1>1, <2>6, <3>1, <3>4, <3>5, JobMovesAlone DEF Labels, Running
  <2> QED
    BY <1>3, <2>4, <2>5, <2>6 DEF TryRestore
<1> QED
  BY <1>2, <1>3

\* A Deno is found or not.
LEMMA SelectDenoKeeps == ASSUME IInv, NEW j \in Jobs, SelectDeno(j) PROVE IInv'
<1>1. /\ pc[j] = "deno" /\ job[j] \in JobState /\ JobSafe(job[j], "deno")
      /\ UNCHANGED <<remote, stores, runtimes, raced>>
  BY DEF SelectDeno, IInv, TypeOK
<1>2. ASSUME NEW deno \in {"path", "downloaded"},
             Update(j, [job[j] EXCEPT !.deno = deno]), Goto(j, "plan")
      PROVE  IInv'
  <2> DEFINE s == [job[j] EXCEPT !.deno = deno]
  <2>1. s \in JobState
    BY <1>1 DEF JobState
  <2>2. /\ s.key = job[j].key /\ s.runtime = job[j].runtime /\ s.checked = job[j].checked
        /\ s.transport = job[j].transport /\ s.delivered = job[j].delivered
    BY <1>1 DEF JobState
  <2>3. JobSafe(s, "plan")
    BY <1>1, <2>2 DEF JobSafe
  <2>4. job' = [job EXCEPT ![j] = s] /\ pc' = [pc EXCEPT ![j] = "plan"]
    BY <1>2 DEF Update, Goto
  <2> HIDE DEF s
  <2> QED
    BY <1>1, <2>1, <2>3, <2>4, JobMovesAlone DEF Labels, Running
<1>3. CASE Goto(j, "failed") /\ UNCHANGED job
  BY <1>1, <1>3, JobGoes DEF JobSafe, Labels, Ended
<1> QED
  BY <1>2, <1>3 DEF SelectDeno

\* Only a job whose source is that of its key goes on.
LEMMA PlanKeeps == ASSUME IInv, NEW j \in Jobs, Plan(j) PROVE IInv'
<1>1. /\ pc[j] = "plan" /\ job[j] \in JobState /\ JobSafe(job[j], "plan")
      /\ UNCHANGED <<remote, stores, runtimes, raced>>
  BY DEF Plan, IInv, TypeOK
<1>2. job[j].checkout \in Versions
  BY <1>1 DEF JobState
<1>3. CASE job[j].checkout = job[j].key
  <2> DEFINE s == [job[j] EXCEPT !.checked = job[j].checkout, !.planned = job[j].checkout]
  <2>1. s \in JobState
    BY <1>1, <1>2 DEF JobState
  <2>2. /\ s.key = job[j].key /\ s.runtime = job[j].runtime
        /\ s.checked = job[j].key /\ s.planned = job[j].key
        /\ s.transport = job[j].transport /\ s.delivered = job[j].delivered
    BY <1>1, <1>3 DEF JobState
  <2>3. JobSafe(s, "obtain")
    BY <1>1, <2>2 DEF JobSafe
  <2>4. job' = [job EXCEPT ![j] = s] /\ pc' = [pc EXCEPT ![j] = "obtain"]
    BY <1>3 DEF Plan, Update, Goto
  <2> HIDE DEF s
  <2> QED
    BY <1>1, <2>1, <2>3, <2>4, JobMovesAlone DEF Labels, Running
<1>4. CASE job[j].checkout # job[j].key
  <2> DEFINE s == [job[j] EXCEPT !.checked = job[j].checkout]
  <2>1. s \in JobState
    BY <1>1, <1>2 DEF JobState
  <2>2. /\ s.key = job[j].key /\ s.runtime = job[j].runtime
        /\ s.transport = job[j].transport /\ s.delivered = job[j].delivered
    BY <1>1 DEF JobState
  <2>3. JobSafe(s, "failed")
    BY <1>1, <2>2 DEF JobSafe
  <2>4. job' = [job EXCEPT ![j] = s] /\ pc' = [pc EXCEPT ![j] = "failed"]
    BY <1>4 DEF Plan, Update, Goto
  <2> HIDE DEF s
  <2> QED
    BY <1>1, <2>1, <2>3, <2>4, JobMovesAlone DEF Labels, Ended
<1> QED
  BY <1>3, <1>4

\* An artifact with the identity the job compared with its key is supplied.
LEMMA SupplyKeeps ==
    ASSUME IInv, NEW j \in Jobs, NEW art \in Artifacts, Supply(j, art),
           pc[j] \in {"obtain", "compile"}, art.id = job[j].planned, MatchingNext(art),
           raced \subseteq raced', UNCHANGED remote,
           stores' \in [Runners -> SUBSET Artifacts],
           \A r \in Runners : \A a \in stores'[r] : MatchingNext(a)
    PROVE  IInv'
<1>1. job[j] \in JobState /\ job[j].checked = job[j].key /\ job[j].planned = job[j].key
  BY DEF IInv, TypeOK, JobSafe
<1>0. PICK s : s = [job[j] EXCEPT !.transport = Sound(art)]
  OBVIOUS
<1>2. Sound(art) \in Directories
  BY DEF Sound, Directories, Healths
<1>3. s \in JobState
  BY <1>0, <1>1, <1>2 DEF JobState
<1>4. /\ s.key = job[j].key /\ s.checked = job[j].key /\ art.id = job[j].key
      /\ s.transport = Sound(art)
  BY <1>0, <1>1 DEF JobState
<1>5. Materialize(j, s, art)
  BY <1>0 DEF Supply
<1> QED
  BY <1>3, <1>4, <1>5, MaterializeKeeps

\* What the runner's build cache has of that identity.
LEMMA ReuseKeeps == ASSUME IInv, NEW j \in Jobs, Reuse(j) PROVE IInv'
<1>1. /\ pc[j] = "obtain" /\ job[j] \in JobState /\ JobSafe(job[j], "obtain")
      /\ UNCHANGED <<remote, stores, raced>>
  BY DEF Reuse, IInv, TypeOK
<1>2. job[j].runner \in Runners
  BY <1>1 DEF JobState
<1>3. PICK art \in stores[job[j].runner] :
         /\ art.id = job[j].planned
         /\ \/ Supply(j, art)
            \/ /\ Publish(job[j].runner, art, FALSE) \/ UNCHANGED runtimes
               /\ Goto(j, "compile") /\ UNCHANGED job
  BY DEF Reuse
<1>4. art \in Artifacts /\ Matching(art)
  BY <1>2 DEF IInv, TypeOK, EntriesMatchTheirKey, Matching, MatchingNext
<1>5. \A r \in Runners : \A a \in stores'[r] : MatchingNext(a)
  BY <1>1 DEF IInv, EntriesMatchTheirKey, Matching, MatchingNext
<1>6. stores' \in [Runners -> SUBSET Artifacts] /\ MatchingNext(art) /\ raced \subseteq raced'
  BY <1>1, <1>4 DEF IInv, TypeOK, Matching, MatchingNext
<1>7. CASE Supply(j, art)
  BY <1>1, <1>3, <1>4, <1>5, <1>6, <1>7, SupplyKeeps
<1>8. CASE /\ Publish(job[j].runner, art, FALSE) \/ UNCHANGED runtimes
           /\ Goto(j, "compile") /\ UNCHANGED job
  <2>1. /\ runtimes' \in [Runners -> [Versions -> Directories \cup {None}]]
        /\ \A q \in Runners, k \in Versions : runtimes'[q][k] # None =>
              runtimes'[q][k].art.id = k /\ MatchingNext(runtimes'[q][k].art)
    <3>1. CASE Publish(job[j].runner, art, FALSE)
      BY <1>2, <1>4, <1>6, <3>1, PublishKeeps
    <3>2. CASE UNCHANGED runtimes
      BY <1>1, <3>2 DEF IInv, TypeOK, EntriesMatchTheirKey, Matching, MatchingNext
    <3> QED
      BY <1>8, <3>1, <3>2
  <2>2. EntriesMatchTheirKey'
    BY <1>1, <2>1 DEF IInv, EntriesMatchTheirKey, Matching, MatchingNext
  <2>3. ASSUME NEW s, s = job[j] PROVE JobSafe(s, "compile")'
    BY <1>1, <2>3 DEF JobSafe, Matching, MatchingNext
  <2>4. job' = [job EXCEPT ![j] = job[j]] /\ pc' = [pc EXCEPT ![j] = "compile"]
    BY <1>8 DEF IInv, TypeOK, Goto
  <2>5. remote' \in [Versions -> Directories \cup {None}]
    BY <1>1 DEF IInv, TypeOK
  <2> QED
    BY <1>1, <1>6, <2>1, <2>2, <2>3, <2>4, <2>5, JobMoves DEF Labels, Running
<1> QED
  BY <1>3, <1>7, <1>8

\* What is compiled matches, or its source changed meanwhile.
LEMMA BuildMatches ==
    ASSUME IInv, NEW j \in Jobs, Build(j)
    PROVE  /\ pc[j] \in {"obtain", "compile"}
           /\ job[j] \in JobState /\ job[j].checked = job[j].key
           /\ Built(j) \in Artifacts /\ Built(j).id = job[j].planned
           /\ job[j].planned = job[j].key
           /\ raced \subseteq raced' /\ MatchingNext(Built(j))
           /\ stores' \in [Runners -> SUBSET Artifacts]
           /\ \A r \in Runners : \A a \in stores'[r] : MatchingNext(a)
<1>1. /\ pc[j] \in {"obtain", "compile"} /\ job[j] \in JobState
      /\ job[j].checked = job[j].key /\ job[j].planned = job[j].key
  BY DEF Build, IInv, TypeOK, JobSafe
<1>0. PICK art : art = Built(j)
  OBVIOUS
<1> DEFINE others == {a \in stores[job[j].runner] : a.id # job[j].planned}
<1>2. /\ job[j].runner \in Runners /\ art \in Artifacts
      /\ art.id = job[j].planned /\ art.code = job[j].checkout
  BY <1>0, <1>1 DEF Built, JobState, Artifacts
<1>3. raced' = IF job[j].planned = job[j].checkout THEN raced ELSE raced \cup {art}
  BY <1>0 DEF Build
<1>4. raced \subseteq raced' /\ (art.id = art.code \/ art \in raced')
  BY <1>2, <1>3
<1>5. PICK kept \in {others, others \cup {art}} :
            stores' = [stores EXCEPT ![job[j].runner] = kept]
  BY <1>0 DEF Build
<1>6. kept \in SUBSET Artifacts /\ \A a \in kept : MatchingNext(a)
  BY <1>2, <1>4 DEF IInv, TypeOK, EntriesMatchTheirKey, Matching, MatchingNext
<1>7. stores' \in [Runners -> SUBSET Artifacts]
  BY <1>5, <1>6 DEF IInv, TypeOK
<1>8. \A r \in Runners : \A a \in stores'[r] : MatchingNext(a)
  BY <1>4, <1>5, <1>6 DEF IInv, TypeOK, EntriesMatchTheirKey, Matching, MatchingNext
<1> QED
  BY <1>0, <1>1, <1>2, <1>4, <1>7, <1>8 DEF Matching, MatchingNext

LEMMA CompileKeeps == ASSUME IInv, NEW j \in Jobs, Compile(j) PROVE IInv'
<1>0. Build(j) /\ Supply(j, Built(j)) /\ UNCHANGED remote
  BY DEF Compile
<1>1. PICK art : art = Built(j)
  OBVIOUS
<1>2. /\ pc[j] \in {"obtain", "compile"} /\ art \in Artifacts
      /\ art.id = job[j].planned /\ raced \subseteq raced'
      /\ stores' \in [Runners -> SUBSET Artifacts]
      /\ \A r \in Runners : \A a \in stores'[r] : MatchingNext(a)
      /\ Supply(j, art)
  BY <1>0, <1>1, BuildMatches
<1>3. MatchingNext(art)
  BY <1>0, <1>1, BuildMatches DEF Matching, MatchingNext
<1> QED
  BY <1>0, <1>2, <1>3, SupplyKeeps

\* A preparation that fails leaves at most what it has built.
LEMMA PrepareFailsKeeps == ASSUME IInv, NEW j \in Jobs, PrepareFails(j) PROVE IInv'
<1>1. PICK end \in {"failed", "cancelled"} :
         /\ \/ pc[j] \in {"obtain", "compile"} /\ UNCHANGED <<stores, job, raced>>
            \/ /\ Build(j)
               /\ \E d \in {job[j].transport, None, Sound(Built(j))} :
                     Update(j, [job[j] EXCEPT !.transport = d])
         /\ Goto(j, end) /\ UNCHANGED <<remote, runtimes>>
  BY DEF PrepareFails
<1>2. end \in Labels \ {"queued"}
  BY DEF Labels, Ended
<1>3. CASE pc[j] \in {"obtain", "compile"} /\ UNCHANGED <<stores, job, raced>>
  <2>1. JobSafe(job[j], end)
    BY <1>3 DEF IInv, JobSafe
  <2> QED
    BY <1>1, <1>2, <1>3, <2>1, JobGoes
<1>4. ASSUME Build(j), NEW d \in {job[j].transport, None, Sound(Built(j))},
             Update(j, [job[j] EXCEPT !.transport = d])
      PROVE  IInv'
  <2>0. PICK s : s = [job[j] EXCEPT !.transport = d]
    OBVIOUS
  <2>1. /\ job[j] \in JobState /\ job[j].checked = job[j].key
        /\ Built(j) \in Artifacts /\ Built(j).id = job[j].key
        /\ raced \subseteq raced' /\ JobSafe(job[j], pc[j])
        /\ stores' \in [Runners -> SUBSET Artifacts]
        /\ \A r \in Runners : \A a \in stores'[r] : MatchingNext(a)
    BY <1>4, BuildMatches DEF IInv
  <2>2. Built(j).id = Built(j).code \/ Built(j) \in raced'
    BY <1>4 DEF Build, Built
  <2>3. /\ d \in Directories \cup {None}
        /\ d # None => d.art.id = job[j].key /\ (d.art.id = d.art.code \/ d.art \in raced')
    BY <1>4, <2>1, <2>2 DEF JobState, JobSafe, Matching, MatchingNext, Sound, Directories, Healths
  <2>4. s \in JobState /\ s.transport = d /\ s.key = job[j].key /\ s.checked = job[j].key
    BY <2>0, <2>1, <2>3 DEF JobState
  <2>5. JobSafe(s, end)'
    BY <2>1, <2>3, <2>4 DEF JobSafe, Matching, MatchingNext
  <2>6. EntriesMatchTheirKey'
    BY <1>1, <2>1 DEF IInv, EntriesMatchTheirKey, Matching, MatchingNext
  <2>7. job' = [job EXCEPT ![j] = s] /\ pc' = [pc EXCEPT ![j] = end]
    BY <1>1, <1>4, <2>0 DEF Update, Goto
  <2>8. /\ remote' \in [Versions -> Directories \cup {None}]
        /\ runtimes' \in [Runners -> [Versions -> Directories \cup {None}]]
    BY <1>1 DEF IInv, TypeOK
  <2> QED
    BY <1>2, <2>1, <2>4, <2>5, <2>6, <2>7, <2>8, JobMoves
<1> QED
  BY <1>1, <1>3, <1>4

\* The tasks run, or a job is cancelled.
LEMMA LabelStepsKeep ==
    ASSUME IInv, NEW j \in Jobs, RunTasks(j) \/ Cancel(j)
    PROVE  IInv'
<1>1. /\ pc[j] # "queued" /\ JobSafe(job[j], pc[j])
      /\ UNCHANGED <<remote, stores, runtimes, job, raced>>
  BY DEF IInv, RunTasks, Cancel, Running
<1>2. CASE Goto(j, "failed") /\ pc[j] = "prepared"
  BY <1>1, <1>2, JobGoes DEF JobSafe, Labels, Ended
<1>3. CASE Goto(j, "succeeded") /\ pc[j] = "prepared"
  BY <1>1, <1>3, JobGoes DEF JobSafe, Labels, Running
<1>4. CASE Goto(j, "cancelled")
  <2>1. JobSafe(job[j], "cancelled")
    BY <1>1 DEF JobSafe
  <2> QED
    BY <1>1, <1>4, <2>1, JobGoes DEF Labels, Ended
<1> QED
  BY <1>2, <1>3, <1>4 DEF RunTasks, Cancel

\* A job that succeeded saves what its tasks ran, under the key it compared.
LEMMA SaveKeeps == ASSUME IInv, NEW j \in Jobs, Save(j) PROVE IInv'
<1>1. /\ pc[j] = "succeeded" /\ job[j] \in JobState /\ JobSafe(job[j], "succeeded")
      /\ UNCHANGED <<stores, runtimes, job, raced>> /\ pc' = [pc EXCEPT ![j] = "saved"]
  BY DEF Save, IInv, TypeOK, Goto
<1>2. job[j].key \in Versions /\ job[j].transport \in Directories \cup {None}
  BY <1>1 DEF JobState
<1>3. remote' \in {remote, [remote EXCEPT ![job[j].key] = job[j].transport]}
  BY DEF Save
<1>4. remote' \in [Versions -> Directories \cup {None}]
  BY <1>2, <1>3 DEF IInv, TypeOK
<1>5. EntriesMatchTheirKey'
  BY <1>1, <1>2, <1>3 DEF IInv, TypeOK, EntriesMatchTheirKey, JobSafe, Matching, MatchingNext
<1>6. JobSafe(job[j], "saved")'
  BY <1>1 DEF JobSafe, Matching, MatchingNext
<1>7. /\ job' = [job EXCEPT ![j] = job[j]] /\ stores' \in [Runners -> SUBSET Artifacts]
      /\ runtimes' \in [Runners -> [Versions -> Directories \cup {None}]]
  BY <1>1 DEF IInv, TypeOK
<1>8. ASSUME NEW s, s = job[j] PROVE JobSafe(s, "saved")'
  BY <1>1, <1>8 DEF JobSafe, Matching, MatchingNext
<1> QED
  BY <1>1, <1>4, <1>5, <1>7, <1>8, JobMoves DEF Labels, Ended

\* Nothing that was compared depends on the checkout as it is now.
LEMMA EditKeeps == ASSUME IInv, NEW j \in Jobs, Edit(j) PROVE IInv'
<1>1. /\ pc[j] # "queued" /\ job[j] \in JobState /\ JobSafe(job[j], pc[j])
      /\ UNCHANGED <<remote, stores, runtimes, pc, raced>>
  BY DEF Edit, IInv, TypeOK, Running
<1>2. PICK v \in Versions : Update(j, [job[j] EXCEPT !.checkout = v])
  BY DEF Edit
<1> DEFINE s == [job[j] EXCEPT !.checkout = v]
<1>3. s \in JobState
  BY <1>1 DEF JobState
<1>4. /\ s.key = job[j].key /\ s.checked = job[j].checked /\ s.planned = job[j].planned
      /\ s.runtime = job[j].runtime
      /\ s.transport = job[j].transport /\ s.delivered = job[j].delivered
  BY <1>1 DEF JobState
<1>5. JobSafe(s, pc[j])
  BY <1>1, <1>4 DEF JobSafe
<1>6. job' = [job EXCEPT ![j] = s] /\ pc' = [pc EXCEPT ![j] = pc[j]] /\ pc[j] \in Labels
  BY <1>1, <1>2 DEF Update, IInv, TypeOK
<1> HIDE DEF s
<1> QED
  BY <1>1, <1>3, <1>5, <1>6, JobMovesAlone

\* An entry that decays keeps its artifact or goes.
LEMMA DecayKeeps == ASSUME IInv, NEW k \in Versions, Decay(k) PROVE IInv'
<1>1. remote[k] \in Directories /\ UNCHANGED <<stores, runtimes, pc, job, raced>>
  BY DEF Decay, IInv, TypeOK
<1>2. PICK entry \in Directories \cup {None} :
        /\ remote' = [remote EXCEPT ![k] = entry]
        /\ entry # None => entry.art = remote[k].art
  <2>1. CASE remote' = [remote EXCEPT ![k] = None]
    BY <2>1
  <2>2. ASSUME NEW h \in Healths \ {"sound"}, remote' = [remote EXCEPT ![k].health = h]
        PROVE  /\ [remote[k] EXCEPT !.health = h] \in Directories
               /\ [remote[k] EXCEPT !.health = h].art = remote[k].art
               /\ remote' = [remote EXCEPT ![k] = [remote[k] EXCEPT !.health = h]]
    BY <1>1, <2>2 DEF Directories
  <2> QED
    BY <2>1, <2>2 DEF Decay
<1>3. remote' \in [Versions -> Directories \cup {None}]
  BY <1>2 DEF IInv, TypeOK
<1>4. EntriesMatchTheirKey'
  BY <1>1, <1>2, remote[k] # None DEF Decay, IInv, TypeOK, EntriesMatchTheirKey
<1> QED
  BY <1>1, <1>3, <1>4 DEF IInv, TypeOK, JobSafe, Matching, MatchingNext

-----------------------------------------------------------------------------
(* The theorems.                                                            *)

\* The invariant holds in every state.
LEMMA Invariance == Spec => []IInv
<1>1. Init => IInv
  BY DEF Init, IInv, TypeOK, EntriesMatchTheirKey, Labels
<1>2. IInv /\ [Next]_vars => IInv'
  <2> SUFFICES ASSUME IInv, [Next]_vars PROVE IInv'
    OBVIOUS
  <2>1. ASSUME NEW j \in Jobs, StartJob(j) \/ Step(j) \/ Edit(j) \/ Cancel(j) PROVE IInv'
    BY <2>1, StartJobKeeps, CacheStepKeeps, TryRestoreKeeps, SelectDenoKeeps, PlanKeeps,
       ReuseKeeps, CompileKeeps, PrepareFailsKeeps, LabelStepsKeep, SaveKeeps, EditKeeps DEF Step
  <2>2. CASE UNCHANGED vars
    BY <2>2 DEF vars, IInv, TypeOK, EntriesMatchTheirKey, JobSafe, Matching, MatchingNext
  <2> QED
    BY <2>1, <2>2, DecayKeeps DEF Next
<1> QED
  BY <1>1, <1>2, PTL DEF Spec

\* No job ever leaves an artifact under the key of another source, in the remote
\* cache or a runner's, unless the source changed while it was compiled.
THEOREM EntriesMatch == Spec => []EntriesMatchTheirKey
<1>1. IInv => EntriesMatchTheirKey
  BY DEF IInv
<1> QED
  BY <1>1, Invariance, PTL

\* Tasks run the source that the key in the YAML stands for, wherever their
\* runtime came from.
THEOREM TasksMatch == Spec => []TasksMatchCheckout
<1>1. IInv => TasksMatchCheckout
  BY DEF IInv, TasksMatchCheckout, JobSafe, Matching, MatchingNext
<1> QED
  BY <1>1, Invariance, PTL

\* A job that finds drift ends, with its transport directory as delivered.
THEOREM DriftIsTerminal == Spec => []DriftLeavesJobUntouched
<1>1. IInv => DriftLeavesJobUntouched
  BY DEF IInv, DriftLeavesJobUntouched, JobSafe
<1> QED
  BY <1>1, Invariance, PTL

-----------------------------------------------------------------------------
(* Values that pass from one task to another (TaskFlow).                    *)

\* Trees and texts that contain what authors begin with and are closed under
\* what the builder does, and that are evaluated as the builder counts on.
Closed(trees, texts) ==
    /\ \A atom \in Atoms : atom.node \in trees
    /\ \A t, u \in trees :
         /\ Unary(t) \in trees
         /\ \A op \in {"&&", "||"} \cup Comparisons \cup Orderings : Binary(op, t, u) \in trees
         /\ \A v \in trees : Call("case", <<t, u, v>>) \in trees
    /\ RawTexts \subseteq texts
    /\ \A t \in trees : Rendered(t) \in texts
    /\ \A previous, next \in texts : Combine(previous, next) \in texts
    /\ <<>> \notin texts
    /\ Leaf("''") \in trees

\* Where continueOnError: false is said, a reference is as its type has it.
FalseOnlyWhereRequired == \A p \in Producers :
    p.continueOnError = "false" => ~p.if /\ \A ref \in Refs : p.required[ref]

-----------------------------------------------------------------------------
(* Proofs of presence.                                                      *)

\* Whenever a text is true, the references are there.
Proves(text, refs) == \A ref \in refs, context \in Contexts, s \in Statuses :
    Truthy(Evaluated(text, context, s)) => context[ref] # "''"
Backed(e, trees) ==
    e.node \in trees /\ e.proofs \subseteq Refs /\ Proves(Rendered(e.node), e.proofs)
BackedCondition(c, texts) ==
    \/ c = NoCondition
    \/ c.text \in texts /\ c.proofs \subseteq Refs /\ Proves(c.text, c.proofs)

ConditionsInv(trees, texts) ==
    /\ building # Unset => Backed(building, trees)
    /\ BackedCondition(when, texts)
    /\ BackedCondition(if, texts)

\* The value of a tree's text.
ValueOf(t, context, s) == Evaluated(Rendered(t), context, s)

LEMMA BinaryValue ==
    ASSUME NEW trees, NEW texts, EvaluatedInParts(trees, texts), NEW op, NEW t, NEW u,
           Binary(op, t, u) \in trees, NEW context \in Contexts, NEW s \in Statuses
    PROVE  ValueOf(Binary(op, t, u), context, s) =
               EvalBinary(op, ValueOf(t, context, s), ValueOf(u, context, s))
<1> DEFINE n == Binary(op, t, u)
           value == [o \in Operands(n) |-> ValueOf(o, context, s)]
<1>1. n.kind = "binary" /\ n.op = op /\ n.left = t /\ n.right = u
  BY DEF Binary
<1>2. t \in Operands(n) /\ u \in Operands(n)
  BY <1>1 DEF Operands
<1>3. value[t] = ValueOf(t, context, s) /\ value[u] = ValueOf(u, context, s)
  BY <1>2
<1>4. ValueOf(n, context, s) = EvalNode(n, value, context, s)
  BY DEF EvaluatedInParts, ValueOf
<1> HIDE DEF n, value
<1>5. EvalNode(n, value, context, s) = EvalBinary(op, value[t], value[u])
  BY <1>1 DEF EvalNode
<1> QED
  BY <1>3, <1>4, <1>5 DEF n

LEMMA LeafValue ==
    ASSUME NEW trees, NEW texts, EvaluatedInParts(trees, texts), NEW text,
           Leaf(text) \in trees, NEW context \in Contexts, NEW s \in Statuses
    PROVE  ValueOf(Leaf(text), context, s) = IF text \in Literals THEN text ELSE context[text]
<1> DEFINE n == Leaf(text)
           value == [o \in Operands(n) |-> ValueOf(o, context, s)]
<1>1. n.kind = "leaf" /\ n.text = text
  BY DEF Leaf
<1>2. ValueOf(n, context, s) = EvalNode(n, value, context, s)
  BY DEF EvaluatedInParts, ValueOf
<1> HIDE DEF n, value
<1>3. EvalNode(n, value, context, s) = IF text \in Literals THEN text ELSE context[text]
  BY <1>1 DEF EvalNode
<1> QED
  BY <1>2, <1>3 DEF n

\* A conjunction is true only if its parts are.
LEMMA BothAreTrue ==
    ASSUME NEW left, NEW right, Truthy(Conjunction(left, right))
    PROVE  Truthy(left) /\ Truthy(right)
BY DEF Conjunction

LEMMA AtomsAreBacked ==
    ASSUME NEW trees, NEW texts, Closed(trees, texts), EvaluatedInParts(trees, texts),
           NEW atom \in Atoms
    PROVE  Backed(atom, trees)
<1>1. atom.node \in trees
  BY DEF Closed
<1>2. CASE \E ref \in Refs : atom = Present(ref)
  <2>1. PICK ref \in Refs : atom = Present(ref)
    BY <1>2
  <2>2. atom.proofs = {ref}
    BY <2>1 DEF Present
  <2>3. ASSUME NEW context \in Contexts, NEW s \in Statuses,
               Truthy(Evaluated(Rendered(atom.node), context, s))
        PROVE  context[ref] # "''"
    <3>1. /\ Leaf(ref) \in trees /\ Leaf("''") \in trees
          /\ Binary("!=", Leaf(ref), Leaf("''")) \in trees
      <4>1. Plain(Leaf(ref)) \in Atoms /\ Plain(Leaf(ref)).node = Leaf(ref)
        BY DEF Atoms, Plain
      <4> QED
        BY <1>1, <2>1, <4>1 DEF Closed, Present
    <3>2. /\ ValueOf(Leaf(ref), context, s) = context[ref]
          /\ ValueOf(Leaf("''"), context, s) = "''"
      <4>1. ref \notin Literals /\ "''" \in Literals
        BY RefsAssumption DEF Literals
      <4> QED
        BY <3>1, <4>1, LeafValue
    <3>3. ValueOf(atom.node, context, s) = EvalBinary("!=", context[ref], "''")
      BY <2>1, <3>1, <3>2, BinaryValue DEF Present
    <3>4. EvalBinary("!=", context[ref], "''") = Bool(~Equal(context[ref], "''"))
      BY DEF EvalBinary
    <3>5. ~Truthy(Bool(~Equal("''", "''")))
      BY DEF Equal, IsString, Bool, Truthy
    <3> QED
      BY <2>3, <3>3, <3>4, <3>5 DEF ValueOf
  <2> QED
    BY <1>1, <2>2, <2>3 DEF Backed, Proves
<1>3. CASE atom.proofs = {}
  BY <1>1, <1>3 DEF Backed, Proves
<1> QED
  BY <1>2, <1>3 DEF Atoms, Plain

LEMMA OperatedIsBacked ==
    ASSUME NEW trees, NEW texts, Closed(trees, texts), EvaluatedInParts(trees, texts),
           NEW e, NEW f, Backed(e, trees), Backed(f, trees)
    PROVE  /\ Backed(And(e, f), trees)
           /\ Backed(Or(e, f), trees)
           /\ Backed(Not(e), trees)
           /\ Backed(CaseOf(e, f, f), trees)
           /\ \A op \in Comparisons \cup Orderings : Backed(Compare(op, e, f), trees)
<1>1. \A n \in trees : Backed(Plain(n), trees)
  BY DEF Backed, Plain, Proves
<1>2. e.node \in trees /\ f.node \in trees
  BY DEF Backed
<1>3. Backed(Or(e, f), trees)
  <2>1. Binary("||", e.node, f.node) \in trees
    BY <1>2 DEF Closed
  <2> QED
    BY <1>1, <2>1 DEF Or
<1>4. Backed(Not(e), trees)
  <2>1. Unary(e.node) \in trees
    BY <1>2 DEF Closed
  <2> QED
    BY <1>1, <2>1 DEF Not
<1>5. Backed(CaseOf(e, f, f), trees)
  <2>1. Call("case", <<e.node, f.node, f.node>>) \in trees
    BY <1>2 DEF Closed
  <2> QED
    BY <1>1, <2>1 DEF CaseOf
<1>6. ASSUME NEW op \in Comparisons \cup Orderings
      PROVE  Backed(Compare(op, e, f), trees)
  <2>1. Binary(op, e.node, f.node) \in trees
    BY <1>2 DEF Closed
  <2> QED
    BY <1>1, <2>1 DEF Compare
<1>7. Backed(And(e, f), trees)
  <2> DEFINE n == Binary("&&", e.node, f.node)
  <2>1. n \in trees
    BY <1>2 DEF Closed
  <2>2. And(e, f).node = n /\ And(e, f).proofs = e.proofs \cup f.proofs
    BY DEF And
  <2>3. ASSUME NEW context \in Contexts, NEW s \in Statuses,
               Truthy(Evaluated(Rendered(n), context, s))
        PROVE  /\ Truthy(Evaluated(Rendered(e.node), context, s))
               /\ Truthy(Evaluated(Rendered(f.node), context, s))
    <3>1. ValueOf(n, context, s) = Conjunction(ValueOf(e.node, context, s),
                                               ValueOf(f.node, context, s))
      <4>1. ValueOf(n, context, s) = EvalBinary("&&", ValueOf(e.node, context, s),
                                                ValueOf(f.node, context, s))
        BY <2>1, BinaryValue
      <4> QED
        BY <4>1 DEF EvalBinary
    <3> QED
      BY <2>3, <3>1, BothAreTrue DEF ValueOf
  <2> HIDE DEF n
  <2>4. Proves(Rendered(n), e.proofs \cup f.proofs)
    BY <2>3 DEF Backed, Proves
  <2> QED
    BY <2>1, <2>2, <2>4 DEF Backed
<1> QED
  BY <1>3, <1>4, <1>5, <1>6, <1>7

LEMMA CombinedIsBacked ==
    ASSUME NEW trees, NEW texts, Closed(trees, texts), EvaluatedInParts(trees, texts),
           NEW c, NEW d, BackedCondition(c, texts),
           d.text \in texts, d.proofs \subseteq Refs, Proves(d.text, d.proofs)
    PROVE  BackedCondition([text |-> Combine(c.text, d.text),
                           proofs |-> c.proofs \cup d.proofs], texts)
<1>1. CASE c = NoCondition
  <2>1. c.text = <<>> /\ c.proofs = {}
    BY <1>1 DEF NoCondition
  <2>2. Combine(c.text, d.text) = d.text /\ c.proofs \cup d.proofs = d.proofs
    BY <2>1 DEF Combine
  <2> QED
    BY <2>2 DEF BackedCondition
<1>2. CASE c # NoCondition
  <2>1. c.text \in texts /\ c.proofs \subseteq Refs /\ Proves(c.text, c.proofs)
    BY <1>2 DEF BackedCondition
  <2> DEFINE t == Combine(c.text, d.text)
  <2>2. t \in texts
    BY <2>1 DEF Closed
  <2>3. ASSUME NEW context \in Contexts, NEW s \in Statuses,
               Truthy(Evaluated(t, context, s))
        PROVE  Truthy(Evaluated(c.text, context, s)) /\ Truthy(Evaluated(d.text, context, s))
    <3>1. Evaluated(t, context, s) = Conjunction(Evaluated(c.text, context, s),
                                                 Evaluated(d.text, context, s))
      BY <2>1 DEF EvaluatedInParts
    <3> QED
      BY <2>3, <3>1, BothAreTrue
  <2> HIDE DEF t
  <2>4. Proves(t, c.proofs \cup d.proofs)
    BY <2>1, <2>3 DEF Proves
  <2> QED
    BY <2>1, <2>2, <2>4 DEF BackedCondition, t
<1> QED
  BY <1>1, <1>2

LEMMA OfferedIsBacked ==
    ASSUME NEW trees, NEW texts, Closed(trees, texts), ConditionsInv(trees, texts),
           NEW c \in Offered
    PROVE  c.text \in texts /\ c.proofs \subseteq Refs /\ Proves(c.text, c.proofs)
<1>1. CASE building # Unset /\ c = Condition(building)
  BY <1>1 DEF ConditionsInv, Backed, Condition, Closed
<1>2. CASE \E text \in RawTexts : c = [text |-> text, proofs |-> {}]
  BY <1>2 DEF Closed, Proves
<1> QED
  BY <1>1, <1>2 DEF Offered

LEMMA ConditionsStart ==
    ASSUME NEW trees, NEW texts, FlowInit
    PROVE  ConditionsInv(trees, texts)
BY DEF FlowInit, ConditionsInv, BackedCondition

LEMMA ConditionsStay ==
    ASSUME NEW trees, NEW texts, Closed(trees, texts), EvaluatedInParts(trees, texts),
           ConditionsInv(trees, texts), [FlowNext]_flowVars
    PROVE  ConditionsInv(trees, texts)'
<1>1. CASE UNCHANGED <<building, when, if>>
  BY <1>1 DEF ConditionsInv, Backed, BackedCondition, Proves
<1>2. CASE Take
  <2>1. PICK atom \in Atoms : building' = atom
    BY <1>2 DEF Take
  <2>2. Backed(atom, trees)
    BY AtomsAreBacked
  <2>3. UNCHANGED <<when, if>>
    BY <1>2 DEF Take
  <2> QED
    BY <2>1, <2>2, <2>3 DEF ConditionsInv, Backed, BackedCondition, Proves
<1>3. CASE Operate
  <2>1. PICK atom \in Atoms :
          building' \in {And(building, atom), And(atom, building), Or(building, atom),
                         Or(atom, building), Not(building), CaseOf(building, atom, atom)}
                        \cup {Compare(op, building, atom) : op \in Comparisons \cup Orderings}
    BY <1>3 DEF Operate
  <2>2. Backed(atom, trees)
    BY AtomsAreBacked
  <2>3. Backed(building, trees)
    BY <1>3 DEF Operate, ConditionsInv
  <2>4. Backed(building', trees)
    <3>1. /\ Backed(And(building, atom), trees)
          /\ Backed(Or(building, atom), trees)
          /\ Backed(Not(building), trees)
          /\ Backed(CaseOf(building, atom, atom), trees)
          /\ \A op \in Comparisons \cup Orderings : Backed(Compare(op, building, atom), trees)
      BY <2>2, <2>3, OperatedIsBacked
    <3>2. Backed(And(atom, building), trees) /\ Backed(Or(atom, building), trees)
      BY <2>2, <2>3, OperatedIsBacked
    <3> QED
      BY ONLY <2>1, <3>1, <3>2
  <2>5. UNCHANGED <<when, if>>
    BY <1>3 DEF Operate
  <2> QED
    BY <2>4, <2>5 DEF ConditionsInv, Backed, BackedCondition, Proves
<1>4. CASE When
  <2>1. PICK c \in Offered :
          /\ when' = [text |-> Combine(when.text, c.text), proofs |-> when.proofs \cup c.proofs]
          /\ building' = Unset /\ if' = if
    BY <1>4 DEF When
  <2>2. c.text \in texts /\ c.proofs \subseteq Refs /\ Proves(c.text, c.proofs)
    BY OfferedIsBacked
  <2>3. BackedCondition(when', texts)
    BY <2>1, <2>2, CombinedIsBacked DEF ConditionsInv
  <2> QED
    BY <2>1, <2>3 DEF ConditionsInv, BackedCondition, Proves
<1>5. CASE If
  <2>1. PICK c \in Offered : if' = c /\ building' = Unset /\ when' = when
    BY <1>5 DEF If
  <2>2. c.text \in texts /\ c.proofs \subseteq Refs /\ Proves(c.text, c.proofs)
    BY OfferedIsBacked
  <2> QED
    BY <2>1, <2>2 DEF ConditionsInv, BackedCondition, Proves
<1>6. CASE StartProducer \/ SetOutput \/ EndBody \/ OtherStepFails \/ Withhold
          \/ Dispatch
  BY <1>1, <1>6 DEF StartProducer, SetOutput, EndBody, OtherStepFails, Withhold, Dispatch, authored
<1> QED
  BY <1>1, <1>2, <1>3, <1>4, <1>5, <1>6 DEF FlowNext, flowVars, authored

-----------------------------------------------------------------------------
(* Types of results.                                                        *)

\* A value is of a type that is known.
Within(v, r) ==
    /\ IF Truthy(v) THEN r.truthy ELSE r.falsy
    /\ ~IsString(v) => IF Truthy(v) THEN r.truthyNon ELSE r.falsyNon
Typed(t) == \A context \in Contexts, s \in Statuses :
    Unknown(t) \/ Within(ValueOf(t, context, s), ResultsOf(t))

TypesInv == building # Unset => Typed(building.node)

LEMMA WithinResults ==
    ASSUME NEW f \in BOOLEAN, NEW t \in BOOLEAN, NEW fn \in BOOLEAN, NEW tn \in BOOLEAN,
           NEW v, IF Truthy(v) THEN t ELSE f,
           ~IsString(v) => IF Truthy(v) THEN tn ELSE fn
    PROVE  Within(v, Results(f, t, fn, tn))
<1>1. /\ Results(f, t, fn, tn).falsy <=> f
      /\ Results(f, t, fn, tn).truthy <=> t
      /\ Results(f, t, fn, tn).falsyNon <=> fn
      /\ Results(f, t, fn, tn).truthyNon <=> tn
  BY DEF Results
<1> QED
  BY <1>1 DEF Within

LEMMA BooleanIsWithin == ASSUME NEW v PROVE Within(v, BooleanResult)
BY WithinResults DEF BooleanResult

\* The table's lines for && and ||.
LEMMA AndIsWithin ==
    ASSUME NEW v, NEW w, NEW l, NEW r, Within(v, l), Within(w, r)
    PROVE  Within(IF Truthy(v) THEN w ELSE v,
                  Results(l.falsy \/ (l.truthy /\ r.falsy), l.truthy /\ r.truthy,
                          l.falsyNon \/ (l.truthy /\ r.falsyNon), l.truthy /\ r.truthyNon))
<1> DEFINE f == l.falsy \/ (l.truthy /\ r.falsy)
           t == l.truthy /\ r.truthy
           fn == l.falsyNon \/ (l.truthy /\ r.falsyNon)
           tn == l.truthy /\ r.truthyNon
           x == IF Truthy(v) THEN w ELSE v
<1>1. f \in BOOLEAN /\ t \in BOOLEAN /\ fn \in BOOLEAN /\ tn \in BOOLEAN
  OBVIOUS
<1>2. /\ IF Truthy(x) THEN t ELSE f
      /\ ~IsString(x) => IF Truthy(x) THEN tn ELSE fn
  <2>1. CASE Truthy(v)
    BY <2>1 DEF Within
  <2>2. CASE ~Truthy(v)
    BY <2>2 DEF Within
  <2> QED
    BY <2>1, <2>2
<1> HIDE DEF f, t, fn, tn, x
<1>3. Within(x, Results(f, t, fn, tn))
  BY <1>1, <1>2, WithinResults
<1> QED
  BY <1>3 DEF f, t, fn, tn, x

LEMMA OrIsWithin ==
    ASSUME NEW v, NEW w, NEW l, NEW r, Within(v, l), Within(w, r)
    PROVE  Within(IF Truthy(v) THEN v ELSE w,
                  Results(l.falsy /\ r.falsy, l.truthy \/ (l.falsy /\ r.truthy),
                          l.falsy /\ r.falsyNon, l.truthyNon \/ (l.falsy /\ r.truthyNon)))
<1> DEFINE f == l.falsy /\ r.falsy
           t == l.truthy \/ (l.falsy /\ r.truthy)
           fn == l.falsy /\ r.falsyNon
           tn == l.truthyNon \/ (l.falsy /\ r.truthyNon)
           x == IF Truthy(v) THEN v ELSE w
<1>1. f \in BOOLEAN /\ t \in BOOLEAN /\ fn \in BOOLEAN /\ tn \in BOOLEAN
  OBVIOUS
<1>2. /\ IF Truthy(x) THEN t ELSE f
      /\ ~IsString(x) => IF Truthy(x) THEN tn ELSE fn
  <2>1. CASE Truthy(v)
    BY <2>1 DEF Within
  <2>2. CASE ~Truthy(v)
    BY <2>2 DEF Within
  <2> QED
    BY <2>1, <2>2
<1> HIDE DEF f, t, fn, tn, x
<1>3. Within(x, Results(f, t, fn, tn))
  BY <1>1, <1>2, WithinResults
<1> QED
  BY <1>3 DEF f, t, fn, tn, x

LEMMA AnyIsTyped ==
    ASSUME NEW t, Unknown(t) \/ ResultsOf(t) = BooleanResult
    PROVE  Typed(t)
BY BooleanIsWithin DEF Typed

LEMMA LeafIsTyped ==
    ASSUME NEW trees, NEW texts, EvaluatedInParts(trees, texts), TypedInParts(trees),
           NEW text \in Refs \cup Literals, Leaf(text) \in trees
    PROVE  Typed(Leaf(text))
<1> DEFINE n == Leaf(text)
           r == ResultsNode(n, [o \in Operands(n) |-> ResultsOf(o)])
<1>1. n.kind = "leaf" /\ n.text = text
  BY DEF Leaf
<1>2. ResultsOf(n) = r
  BY DEF TypedInParts
<1> SUFFICES ASSUME NEW context \in Contexts, NEW s \in Statuses
             PROVE  Within(ValueOf(n, context, s), r)
  BY <1>2 DEF Typed
<1>3. ValueOf(n, context, s) = IF text \in Literals THEN text ELSE context[text]
  BY LeafValue
<1>4. CASE text \in Literals
  <2> DEFINE truthy == Truthy(text)
             non == ~IsString(text)
  <2>1. truthy \in BOOLEAN /\ non \in BOOLEAN
    BY DEF Truthy, IsString
  <2>2. r = Results(~truthy, truthy, ~truthy /\ non, truthy /\ non)
    <3>1. text \notin Refs
      BY <1>4, RefsAssumption
    <3> HIDE DEF n
    <3> QED
      BY <1>1, <1>4, <3>1 DEF ResultsNode
  <2>3. ValueOf(n, context, s) = text
    BY <1>3, <1>4
  <2> HIDE DEF n, r
  <2>4. Within(text, Results(~truthy, truthy, ~truthy /\ non, truthy /\ non))
    BY <2>1, WithinResults
  <2> QED
    BY <2>2, <2>3, <2>4
<1>5. CASE text \in Refs
  <2>1. text \notin Literals
    BY <1>5, RefsAssumption
  <2>2. r = Results(TRUE, TRUE, FALSE, FALSE)
    BY <1>1, <1>5, <2>1 DEF ResultsNode, UnknownResult
  <2>3. IsString(ValueOf(n, context, s))
    BY <1>3, <1>5, <2>1 DEF Contexts, IsString
  <2> HIDE DEF n, r
  <2> QED
    BY <2>2, <2>3, WithinResults
<1> QED
  BY <1>4, <1>5

LEMMA BinaryIsTyped ==
    ASSUME NEW trees, NEW texts, EvaluatedInParts(trees, texts), TypedInParts(trees),
           NEW op \in {"&&", "||"} \cup Comparisons \cup Orderings, NEW t, NEW u,
           Binary(op, t, u) \in trees, Typed(t), Typed(u)
    PROVE  Typed(Binary(op, t, u))
<1> DEFINE n == Binary(op, t, u)
           known == [o \in Operands(n) |-> ResultsOf(o)]
           unknown == [o \in Operands(n) |-> Unknown(o)]
<1>1. n.kind = "binary" /\ n.op = op /\ n.left = t /\ n.right = u
  BY DEF Binary
<1>2. Operands(n) = {t, u}
  BY <1>1 DEF Operands
<1>3. ResultsOf(n) = ResultsNode(n, known) /\ (Unknown(n) <=> OpaqueNode(n, unknown))
  BY DEF TypedInParts
<1>4. known[t] = ResultsOf(t) /\ known[u] = ResultsOf(u)
  BY <1>2
<1>5. (Unknown(t) => unknown[t]) /\ (Unknown(u) => unknown[u])
  BY <1>2
<1>n. \A context \in Contexts, s \in Statuses :
        ValueOf(n, context, s) = EvalBinary(op, ValueOf(t, context, s), ValueOf(u, context, s))
  BY BinaryValue
<1> HIDE DEF n, known, unknown
<1>6. CASE Unknown(t) \/ Unknown(u)
  <2>1. OpaqueNode(n, unknown)
    BY <1>1, <1>2, <1>5, <1>6 DEF OpaqueNode
  <2> QED
    BY <1>3, <2>1, AnyIsTyped DEF n
<1>7. CASE op = "&&" /\ ~Unknown(t) /\ ~Unknown(u)
  <2> DEFINE l == ResultsOf(t)
             r == ResultsOf(u)
  <2>1. ResultsOf(n) = Results(l.falsy \/ (l.truthy /\ r.falsy), l.truthy /\ r.truthy,
                               l.falsyNon \/ (l.truthy /\ r.falsyNon),
                               l.truthy /\ r.truthyNon)
    BY <1>1, <1>3, <1>4, <1>7 DEF ResultsNode
  <2>2. ASSUME NEW context \in Contexts, NEW s \in Statuses
        PROVE  Within(ValueOf(n, context, s), ResultsOf(n))
    <3> DEFINE v == ValueOf(t, context, s)
               w == ValueOf(u, context, s)
    <3>1. Within(v, l) /\ Within(w, r)
      BY <1>7 DEF Typed
    <3>2. ValueOf(n, context, s) = IF Truthy(v) THEN w ELSE v
      BY <1>7, <1>n DEF EvalBinary, Conjunction
    <3> HIDE DEF v, w, l, r
    <3> QED
      BY <2>1, <3>1, <3>2, AndIsWithin
  <2> QED
    BY <2>2 DEF Typed, n
<1>8. CASE op = "||" /\ ~Unknown(t) /\ ~Unknown(u)
  <2> DEFINE l == ResultsOf(t)
             r == ResultsOf(u)
  <2>1. ResultsOf(n) = Results(l.falsy /\ r.falsy, l.truthy \/ (l.falsy /\ r.truthy),
                               l.falsy /\ r.falsyNon,
                               l.truthyNon \/ (l.falsy /\ r.truthyNon))
    BY <1>1, <1>3, <1>4, <1>8 DEF ResultsNode
  <2>2. ASSUME NEW context \in Contexts, NEW s \in Statuses
        PROVE  Within(ValueOf(n, context, s), ResultsOf(n))
    <3> DEFINE v == ValueOf(t, context, s)
               w == ValueOf(u, context, s)
    <3>1. Within(v, l) /\ Within(w, r)
      BY <1>8 DEF Typed
    <3>2. ValueOf(n, context, s) = IF Truthy(v) THEN v ELSE w
      BY <1>8, <1>n DEF EvalBinary
    <3> HIDE DEF v, w, l, r
    <3> QED
      BY <2>1, <3>1, <3>2, OrIsWithin
  <2> QED
    BY <2>2 DEF Typed, n
<1>9. CASE op \notin {"&&", "||"}
  <2>1. ResultsOf(n) = BooleanResult
    BY <1>1, <1>3, <1>9 DEF ResultsNode
  <2> QED
    BY <2>1, AnyIsTyped DEF n
<1> QED
  BY <1>6, <1>7, <1>8, <1>9

LEMMA OtherIsTyped ==
    ASSUME NEW trees, TypedInParts(trees), NEW t \in trees,
           \/ t.kind = "unary"
           \/ t.kind = "call" /\ t.name \in StatusFunctions
           \/ t.kind = "call" /\ t.name = "case"
    PROVE  Typed(t)
<1>1. /\ ResultsOf(t) = ResultsNode(t, [u \in Operands(t) |-> ResultsOf(u)])
      /\ Unknown(t) <=> OpaqueNode(t, [u \in Operands(t) |-> Unknown(u)])
  BY DEF TypedInParts
<1>2. CASE t.kind = "call" /\ t.name = "case"
  BY <1>1, <1>2, AnyIsTyped DEF OpaqueNode
<1>3. CASE t.kind = "unary" \/ (t.kind = "call" /\ t.name \in StatusFunctions)
  <2>1. ResultsOf(t) = BooleanResult
    BY <1>1, <1>3 DEF ResultsNode
  <2> QED
    BY <2>1, AnyIsTyped
<1> QED
  BY <1>2, <1>3

LEMMA AtomsAreTyped ==
    ASSUME NEW trees, NEW texts, Closed(trees, texts), EvaluatedInParts(trees, texts),
           TypedInParts(trees), NEW atom \in Atoms
    PROVE  Typed(atom.node)
<1>1. atom.node \in trees /\ Leaf("''") \in trees
  BY DEF Closed
<1>2. \A ref \in Refs : Leaf(ref) \in trees
  <2>1. \A ref \in Refs : Plain(Leaf(ref)) \in Atoms /\ Plain(Leaf(ref)).node = Leaf(ref)
    BY DEF Atoms, Plain
  <2> QED
    BY <2>1 DEF Closed
<1>3. "''" \in Literals /\ "'t'" \in Literals /\ "failure" \in StatusFunctions
  BY DEF Literals, StatusFunctions
<1>4. CASE \E ref \in Refs : atom = Present(ref)
  <2>1. PICK ref \in Refs : atom = Present(ref)
    BY <1>4
  <2>2. atom.node = Binary("!=", Leaf(ref), Leaf("''"))
    BY <2>1 DEF Present
  <2>3. Typed(Leaf(ref)) /\ Typed(Leaf("''"))
    BY <1>1, <1>2, <1>3, LeafIsTyped
  <2>4. "!=" \in {"&&", "||"} \cup Comparisons \cup Orderings
    BY DEF Comparisons
  <2>5. Binary("!=", Leaf(ref), Leaf("''")) \in trees
    BY <1>1, <2>2
  <2>6. Typed(Binary("!=", Leaf(ref), Leaf("''")))
    BY <2>3, <2>4, <2>5, BinaryIsTyped
  <2> QED
    BY <2>2, <2>6
<1>5. CASE \E ref \in Refs : atom = Plain(Leaf(ref))
  <2>1. PICK ref \in Refs : atom.node = Leaf(ref)
    BY <1>5 DEF Plain
  <2>2. Typed(Leaf(ref))
    BY <1>2, LeafIsTyped
  <2> QED
    BY <2>1, <2>2
<1>6. CASE atom = Plain(Call("failure", <<>>))
  <2>1. atom.node.kind = "call" /\ atom.node.name = "failure"
    BY <1>6 DEF Plain, Call
  <2> QED
    BY <1>1, <1>3, <2>1, OtherIsTyped
<1>7. CASE atom = Plain(Leaf("'t'"))
  <2>1. atom.node = Leaf("'t'")
    BY <1>7 DEF Plain
  <2>2. Typed(Leaf("'t'"))
    BY <1>1, <1>3, <2>1, LeafIsTyped
  <2> QED
    BY <2>1, <2>2
<1> QED
  BY <1>4, <1>5, <1>6, <1>7 DEF Atoms

LEMMA OperatedIsTyped ==
    ASSUME NEW trees, NEW texts, Closed(trees, texts), EvaluatedInParts(trees, texts),
           TypedInParts(trees), NEW e, NEW f, e.node \in trees, f.node \in trees,
           Typed(e.node), Typed(f.node)
    PROVE  /\ Typed(And(e, f).node)
           /\ Typed(Or(e, f).node)
           /\ Typed(Not(e).node)
           /\ Typed(CaseOf(e, f, f).node)
           /\ \A op \in Comparisons \cup Orderings : Typed(Compare(op, e, f).node)
<1>1. ASSUME NEW op \in {"&&", "||"} \cup Comparisons \cup Orderings
      PROVE  Typed(Binary(op, e.node, f.node))
  <2>1. Binary(op, e.node, f.node) \in trees
    BY DEF Closed
  <2> QED
    BY <2>1, BinaryIsTyped
<1>2. Typed(Unary(e.node))
  <2>1. Unary(e.node) \in trees /\ Unary(e.node).kind = "unary"
    BY DEF Closed, Unary
  <2> QED
    BY <2>1, OtherIsTyped
<1>3. Typed(Call("case", <<e.node, f.node, f.node>>))
  <2> DEFINE n == Call("case", <<e.node, f.node, f.node>>)
  <2>1. n \in trees
    BY DEF Closed
  <2>2. n.kind = "call" /\ n.name = "case"
    BY DEF Call
  <2> HIDE DEF n
  <2>3. Typed(n)
    BY <2>1, <2>2, OtherIsTyped
  <2> QED
    BY <2>3 DEF n
<1>4. And(e, f).node = Binary("&&", e.node, f.node) /\ Or(e, f).node = Binary("||", e.node, f.node)
  BY DEF And, Or, Plain
<1>5. Not(e).node = Unary(e.node) /\ CaseOf(e, f, f).node = Call("case", <<e.node, f.node, f.node>>)
  BY DEF Not, CaseOf, Plain
<1>6. \A op : Compare(op, e, f).node = Binary(op, e.node, f.node)
  BY DEF Compare, Plain
<1> QED
  BY <1>1, <1>2, <1>3, <1>4, <1>5, <1>6

LEMMA TypesStay ==
    ASSUME NEW trees, NEW texts, Closed(trees, texts), EvaluatedInParts(trees, texts),
           TypedInParts(trees), ConditionsInv(trees, texts), TypesInv, [FlowNext]_flowVars
    PROVE  TypesInv'
<1>1. CASE building' = building \/ building' = Unset
  BY <1>1 DEF TypesInv, Typed
<1>2. CASE Take
  <2>1. PICK atom \in Atoms : building' = atom
    BY <1>2 DEF Take
  <2>2. Typed(atom.node)
    BY AtomsAreTyped
  <2> QED
    BY <2>1, <2>2 DEF TypesInv, Typed
<1>3. CASE Operate
  <2>1. PICK atom \in Atoms :
          building' \in {And(building, atom), And(atom, building), Or(building, atom),
                         Or(atom, building), Not(building), CaseOf(building, atom, atom)}
                        \cup {Compare(op, building, atom) : op \in Comparisons \cup Orderings}
    BY <1>3 DEF Operate
  <2>2. Typed(atom.node) /\ atom.node \in trees
    BY AtomsAreTyped DEF Closed
  <2>3. Typed(building.node) /\ building.node \in trees
    BY <1>3 DEF Operate, TypesInv, ConditionsInv, Backed
  <2>4. /\ Typed(And(building, atom).node)
        /\ Typed(Or(building, atom).node)
        /\ Typed(Not(building).node)
        /\ Typed(CaseOf(building, atom, atom).node)
        /\ \A op \in Comparisons \cup Orderings : Typed(Compare(op, building, atom).node)
    BY <2>2, <2>3, OperatedIsTyped
  <2>5. Typed(And(atom, building).node) /\ Typed(Or(atom, building).node)
    BY <2>2, <2>3, OperatedIsTyped
  <2>6. Typed((building').node)
    BY ONLY <2>1, <2>4, <2>5
  <2> QED
    BY <2>6 DEF TypesInv, Typed
<1> QED
  BY <1>1, <1>2, <1>3 DEF FlowNext, When, If, StartProducer, SetOutput, EndBody, OtherStepFails,
       Withhold, Dispatch, flowVars, authored

-----------------------------------------------------------------------------
(* What the producer leaves on the wire.                                    *)

Written(ref) ==
    IF wire[ref] = Unset THEN ref \in withheld \/ (last[ref] = Unset /\ ref \notin written)
    ELSE /\ ref \notin withheld
         /\ last[ref] \in Natives /\ last[ref] # "misfit" /\ ref \in written
         /\ wire[ref] = [contract |-> producer.contract[ref], native |-> last[ref]]

\* A producer that ran and did not fail has set what it must.
Kept ==
    stage \notin {"authoring", "body"} /\ status = Succeeding /\ ~producer.if
    /\ producer.continueOnError \in {"unset", "false"} =>
        \A ref \in Refs : producer.required[ref] => ref \in written

WireInv ==
    /\ producer \in Producers /\ consumer \in Consumers
    /\ wire \in [Refs -> {Unset} \cup [contract : Contracts, native : Natives]]
    /\ last \in [Refs -> {Unset} \cup Natives]
    /\ \A ref \in Refs : Written(ref)
    /\ Kept
    /\ status \in Statuses
    /\ stage # "authoring" => Accepted
    /\ stage \in {"authoring", "body"} => withheld = {}
    /\ consumer.place = "job" => when = NoCondition /\ withheld = {}

LEMMA WireStarts == FlowInit => WireInv
<1> SUFFICES ASSUME FlowInit
             PROVE  WireInv
  OBVIOUS
<1>1. \A ref \in Refs : Written(ref)
  BY DEF FlowInit, Written
<1>2. stage = "authoring"
  BY DEF FlowInit
<1>3. Kept
  BY <1>2 DEF Kept
<1> QED
  BY <1>1, <1>2, <1>3 DEF FlowInit, WireInv, Statuses

\* The author does not touch the run, nor change who runs.
LEMMA WireAuthored ==
    ASSUME WireInv, UNCHANGED <<producer, consumer, run>>, stage = "authoring",
           when' = when \/ consumer.place = "needs"
    PROVE  WireInv'
<1>1. UNCHANGED <<producer, consumer, stage, wire, written, status, withheld, last>>
  BY DEF run
<1>2. \A ref \in Refs : Written(ref)'
  BY <1>1 DEF WireInv, Written
<1>3. Kept'
  BY <1>1 DEF Kept
<1>4. consumer'.place = "job" => when' = NoCondition /\ withheld' = {}
  BY <1>1 DEF WireInv
<1> QED
  BY <1>1, <1>2, <1>3, <1>4 DEF WireInv

LEMMA WireStays ==
    ASSUME WireInv, [FlowNext]_flowVars
    PROVE  WireInv'
<1> USE TaskFlowAssumption
<1> DEFINE A == consumer.computed \/ InputContract = producer.contract[consumer.from]
<1>a. ASSUME authored' = authored
      PROVE  /\ UNCHANGED <<producer, consumer, when>>
             /\ Accepted' = Accepted
  BY <1>a DEF authored, Accepted, InputContract
<1>1. CASE UNCHANGED flowVars
  <2>1. UNCHANGED <<authored, stage, wire, written, status, withheld, last>>
    BY <1>1 DEF flowVars, run
  <2>2. \A ref \in Refs : Written(ref)'
    BY <1>a, <2>1 DEF WireInv, Written
  <2>3. Kept'
    BY <1>a, <2>1 DEF WireInv, Kept
  <2> QED
    BY <1>a, <2>1, <2>2, <2>3 DEF WireInv
<1>2. CASE Take \/ Operate \/ If
  BY <1>2, WireAuthored DEF Take, Operate, If
<1>3. CASE When
  BY <1>3, WireAuthored DEF When
<1>4. CASE StartProducer
  <2>1. UNCHANGED <<authored, wire, written, withheld, last>> /\ Accepted
    BY <1>4 DEF StartProducer
  <2>5. status' \in Statuses /\ withheld = {}
    BY <1>4 DEF StartProducer, WireInv
  <2>2. \A ref \in Refs : Written(ref)'
    BY <1>a, <2>1 DEF WireInv, Written
  <2>3. stage' = "body" \/ status' = Failing \/ producer'.if
    BY <1>4, <1>a, <2>1 DEF StartProducer
  <2>6. Succeeding # Failing
    BY DEF Succeeding, Failing
  <2>4. Kept'
    BY <2>3, <2>6 DEF Kept
  <2> QED
    BY <1>a, <2>1, <2>2, <2>4, <2>5 DEF WireInv
<1>5. CASE SetOutput
  <2>1. PICK ref \in Refs, native \in Natives :
          LET text == Serialize(producer.contract[ref], native)
          IN  IF text = Unset THEN UNCHANGED <<wire, written, last>>
              ELSE /\ wire' = [wire EXCEPT ![ref] = text]
                   /\ written' = written \cup {ref}
                   /\ last' = [last EXCEPT ![ref] = native]
    BY <1>5 DEF SetOutput
  <2>2. UNCHANGED <<authored, stage, status, withheld>> /\ stage = "body" /\ withheld = {}
    BY <1>5 DEF SetOutput, WireInv
  <2>3. Kept'
    BY <2>2 DEF Kept
  <2>4. CASE Serialize(producer.contract[ref], native) = Unset
    <3>1. UNCHANGED <<wire, written, last>>
      BY <2>1, <2>4
    <3>2. \A r \in Refs : Written(r)'
      BY <1>a, <2>2, <3>1 DEF WireInv, Written
    <3> QED
      BY <1>a, <2>2, <2>3, <3>1, <3>2 DEF WireInv
  <2>5. CASE Serialize(producer.contract[ref], native) # Unset
    <3> DEFINE text == [contract |-> producer.contract[ref], native |-> native]
    <3>1. /\ native # "misfit" /\ text # Unset
          /\ Serialize(producer.contract[ref], native) = text
      BY <2>5 DEF Serialize, Fits
    <3>2. /\ wire' = [wire EXCEPT ![ref] = text]
          /\ written' = written \cup {ref}
          /\ last' = [last EXCEPT ![ref] = native]
      BY <2>1, <2>5, <3>1
    <3>3. producer.contract[ref] \in Contracts
      BY DEF WireInv, Producer
    <3>4. text \in [contract : Contracts, native : Natives]
      BY <3>3
    <3>5. producer'.contract = producer.contract
      BY <1>a, <2>2
    <3>6. Written(ref)'
      <4>1. wire'[ref] = text /\ last'[ref] = native /\ ref \in written'
        BY <3>2 DEF WireInv
      <4> QED
        BY <2>2, <3>1, <3>5, <4>1 DEF Written
    <3> HIDE DEF text
    <3>7. ASSUME NEW r \in Refs, r # ref
          PROVE  Written(r)'
      <4>1. wire'[r] = wire[r] /\ last'[r] = last[r] /\ (r \in written' <=> r \in written)
        BY <3>2, <3>7 DEF WireInv
      <4>2. Written(r)
        BY DEF WireInv
      <4> QED
        BY <2>2, <3>5, <4>1, <4>2 DEF Written
    <3>8. /\ wire' \in [Refs -> {Unset} \cup [contract : Contracts, native : Natives]]
          /\ last' \in [Refs -> {Unset} \cup Natives]
      BY <3>2, <3>4 DEF WireInv
    <3> QED
      BY <1>a, <2>2, <2>3, <3>6, <3>7, <3>8 DEF WireInv
  <2> QED
    BY <2>4, <2>5
<1>6. CASE EndBody
  <2>1. PICK returns, continues \in BOOLEAN :
          LET missing == \E ref \in Refs : producer.required[ref] /\ ref \notin written
          IN  /\ producer.continueOnError \in {"unset", "false"} => ~continues
              /\ status' = IF (returns /\ ~missing) \/ continues THEN status ELSE Failing
    BY <1>6 DEF EndBody
  <2>2. UNCHANGED <<authored, wire, written, withheld, last>> /\ stage = "body"
    BY <1>6 DEF EndBody
  <2>3. \A ref \in Refs : Written(ref)'
    BY <1>a, <2>2 DEF WireInv, Written
  <2>4. status' \in Statuses
    BY <2>1 DEF WireInv, Statuses
  <2>5. Succeeding # Failing
    BY DEF Succeeding, Failing
  <2>6. Kept'
    <3> SUFFICES ASSUME status' = Succeeding, producer.continueOnError \in {"unset", "false"},
                        NEW ref \in Refs, producer.required[ref]
                 PROVE  ref \in written
      BY <1>a, <2>2 DEF Kept
    <3> QED
      BY <2>1, <2>5
  <2>7. Accepted
    BY <2>2 DEF WireInv
  <2> QED
    BY <1>a, <2>2, <2>3, <2>4, <2>6, <2>7 DEF WireInv
<1>7. CASE OtherStepFails
  <2>1. UNCHANGED <<authored, stage, wire, written, withheld, last>> /\ status' = Failing /\ stage = "between"
    BY <1>7 DEF OtherStepFails
  <2>2. \A ref \in Refs : Written(ref)'
    BY <1>a, <2>1 DEF WireInv, Written
  <2>3. Succeeding # Failing
    BY DEF Succeeding, Failing
  <2>4. Kept'
    BY <2>1, <2>3 DEF Kept
  <2> QED
    BY <1>a, <2>1, <2>2, <2>4 DEF WireInv, Statuses
<1>8. CASE Dispatch
  <2>1. UNCHANGED <<authored, wire, written, status, withheld, last>> /\ stage = "between"
    BY <1>8 DEF Dispatch
  <2>2. \A ref \in Refs : Written(ref)'
    BY <1>a, <2>1 DEF WireInv, Written
  <2>3. Kept'
    BY <1>a, <2>1 DEF WireInv, Kept
  <2>4. Accepted
    BY <2>1 DEF WireInv
  <2>5. stage' \notin {"authoring", "body"}
    BY <1>8 DEF Dispatch
  <2> QED
    BY <1>a, <2>1, <2>2, <2>3, <2>4, <2>5 DEF WireInv
<1>9. CASE Withhold
  <2>1. PICK ref \in Refs : /\ withheld' = withheld \cup {ref}
                           /\ wire' = [wire EXCEPT ![ref] = Unset]
    BY <1>9 DEF Withhold
  <2>2. /\ UNCHANGED <<authored, stage, written, status, last>>
        /\ stage = "between" /\ consumer.place = "needs"
    BY <1>9 DEF Withhold
  <2>3. producer'.contract = producer.contract
    BY <1>a, <2>2
  <2>4. ASSUME NEW r \in Refs
        PROVE  Written(r)'
    <3>1. Written(r) /\ wire'[r] = IF r = ref THEN Unset ELSE wire[r]
      BY <2>1 DEF WireInv
    <3> QED
      BY <2>1, <2>2, <2>3, <3>1 DEF Written
  <2>5. Kept'
    BY <1>a, <2>2 DEF WireInv, Kept
  <2>6. wire' \in [Refs -> {Unset} \cup [contract : Contracts, native : Natives]]
    BY <2>1 DEF WireInv
  <2>7. Accepted
    BY <2>2 DEF WireInv
  <2>8. stage' \notin {"authoring", "body"} /\ consumer'.place # "job"
    BY <1>a, <2>2
  <2> QED
    BY <1>a, <2>2, <2>4, <2>5, <2>6, <2>7, <2>8 DEF WireInv
<1> QED
  BY <1>1, <1>2, <1>3, <1>4, <1>5, <1>6, <1>7, <1>8, <1>9 DEF FlowNext

-----------------------------------------------------------------------------
(* What the consumer gets.                                                  *)

\* An input that is read is what was last set, and is there if anything was,
\* unless it is withheld.
LEMMA ParsedIsLast ==
    ASSUME WireInv, ~consumer.computed, Accepted
    PROVE  /\ Parsed(InputContract, wire[consumer.from]) =
                  IF consumer.from \in withheld THEN Unset ELSE last[consumer.from]
           /\ Parsed(InputContract, wire[consumer.from]) = Unset
                  <=> wire[consumer.from] = Unset
           /\ wire[consumer.from] = Unset \/ wire[consumer.from].contract = InputContract
<1> USE TaskFlowAssumption
<1> DEFINE ref == consumer.from
<1>1. ref \in Refs
  BY DEF WireInv, Consumer
<1>2. Written(ref)
  BY <1>1 DEF WireInv
<1>3. InputContract = producer.contract[ref]
  BY DEF Accepted
<1>4. CASE wire[ref] = Unset
  BY <1>2, <1>4 DEF Written, Parsed
<1>5. CASE wire[ref] # Unset
  <2>1. /\ wire[ref].contract = InputContract /\ wire[ref].native = last[ref]
        /\ last[ref] # Unset /\ ref \notin withheld
    BY <1>2, <1>3, <1>5 DEF Written
  <2> QED
    BY <1>5, <2>1 DEF Parsed
<1> QED
  BY <1>4, <1>5

\* A consumer without a status function that runs finds what it may count on.
LEMMA RunsFindsInput ==
    ASSUME NEW trees, NEW texts, Closed(trees, texts), FalseOnlyWhereRequired,
           ConditionsInv(trees, texts), WireInv, stage = "between", Runs,
           ~HasStatusFunction(when.text), ~HasStatusFunction(if.text),
           ~consumer.computed, ~Optional, ~HiddenAbsence
    PROVE  wire[consumer.from] # Unset
<1> DEFINE ref == consumer.from
<1>1. ref \in Refs
  BY TaskFlowAssumption DEF WireInv, Consumer
<1>2. ASSUME ref \notin when.proofs \cup if.proofs
      PROVE  status = Succeeding /\ ref \notin withheld
  <2>1. status \in Statuses /\ ~Failing.success
    BY DEF WireInv, Failing
  <2>2. CASE consumer.place = "job"
    BY <2>1, <2>2 DEF Runs, Holds, HoldsWith, Statuses, WireInv
  <2>3. CASE consumer.place # "job"
    <3>1. NeedsStatus.success /\ consumer.place = "needs"
      BY <2>3, TaskFlowAssumption DEF Runs, Holds, HoldsWith, WireInv, Consumer
    <3>2. ref \notin withheld /\ ~(tolerated /\ status = Failing)
      BY <1>2, <3>1 DEF HiddenAbsence
    <3> QED
      BY <2>1, <3>1, <3>2 DEF NeedsStatus, Statuses
  <2> QED
    BY <2>2, <2>3
<1>3. CASE ref \notin when.proofs \cup if.proofs
  <2>1. producer.required[ref] /\ ~producer.if
        /\ producer.continueOnError \in {"unset", "false"}
    BY <1>1, <1>3 DEF Optional, Required, FalseOnlyWhereRequired, WireInv
  <2>2. ref \in written
    BY <1>1, <1>2, <1>3, <2>1 DEF WireInv, Kept
  <2>3. Written(ref)
    BY <1>1 DEF WireInv
  <2> QED
    BY <1>2, <1>3, <2>2, <2>3 DEF Written
<1>4. Context \in Contexts /\ (Context[ref] # "''" => wire[ref] # Unset)
  BY <1>1 DEF Context, Contexts
<1>5. ASSUME NEW c, NEW s \in Statuses, BackedCondition(c, texts), ref \in c.proofs,
             Holds(c.text, Context, s)
      PROVE  wire[ref] # Unset
  <2>1. c # NoCondition
    BY <1>5 DEF NoCondition
  <2>2. c.text # <<>> /\ Proves(c.text, c.proofs)
    BY <1>5, <2>1 DEF BackedCondition, Closed
  <2>3. Truthy(Evaluated(c.text, Context, s))
    BY <1>5, <2>2 DEF Holds, HoldsWith
  <2> QED
    BY <1>4, <1>5, <2>2, <2>3 DEF Proves
<1>6. CASE ref \in if.proofs
  <2>1. \E s \in Statuses : Holds(if.text, Context, s)
    BY DEF Runs, Statuses, WireInv
  <2> QED
    BY <1>5, <1>6, <2>1 DEF ConditionsInv
<1>7. CASE ref \in when.proofs
  <2>1. consumer.place # "job"
    BY <1>7 DEF WireInv, NoCondition
  <2>2. Holds(when.text, Context, NeedsStatus) /\ NeedsStatus \in Statuses
    BY <2>1 DEF Runs, NeedsStatus, Statuses, WireInv
  <2> QED
    BY <1>5, <1>7, <2>2 DEF ConditionsInv
<1> QED
  BY <1>3, <1>6, <1>7

\* A dispatched consumer stays as it is, whatever else happens.
LEMMA DispatchedStays ==
    ASSUME stage \in {"ran", "absent", "invalid"}, [FlowNext]_flowVars
    PROVE  UNCHANGED flowVars
BY DEF FlowNext, Take, Operate, When, If, StartProducer, SetOutput, EndBody, OtherStepFails,
       Withhold, Dispatch

LEMMA ReceivedStays ==
    ASSUME WireInv, ReceivedIsWhatWasSet, [FlowNext]_flowVars
    PROVE  ReceivedIsWhatWasSet'
<1> SUFFICES ASSUME stage' = "ran", ~consumer'.computed
             PROVE  received' = IF consumer'.from \in withheld' THEN Unset
                                ELSE last'[consumer'.from]
  BY DEF ReceivedIsWhatWasSet
<1>1. CASE Dispatch
  <2>1. /\ received' = Parsed(InputContract, wire[consumer.from])
        /\ UNCHANGED <<authored, withheld, last>> /\ stage = "between"
    BY <1>1 DEF Dispatch
  <2>2. consumer' = consumer
    BY <2>1 DEF authored
  <2>3. Accepted
    BY <2>1 DEF WireInv
  <2> QED
    BY <2>1, <2>2, <2>3, ParsedIsLast
<1>2. CASE stage = "ran"
  <2>1. UNCHANGED flowVars
    BY <1>2, DispatchedStays
  <2> QED
    BY <1>2, <2>1 DEF flowVars, run, authored, ReceivedIsWhatWasSet
<1> QED
  BY <1>1, <1>2 DEF FlowNext, Take, Operate, When, If, StartProducer, SetOutput, EndBody,
       OtherStepFails, Withhold, flowVars, run

LEMMA GuardedStays ==
    ASSUME NEW trees, NEW texts, Closed(trees, texts), FalseOnlyWhereRequired,
           ConditionsInv(trees, texts), WireInv, GuardedTasksGetTheirInputs,
           [FlowNext]_flowVars
    PROVE  GuardedTasksGetTheirInputs'
<1> SUFFICES ASSUME stage' \in {"absent", "invalid"}, ~consumer'.computed,
                    ~HasStatusFunction(when'.text), ~HasStatusFunction(if'.text),
                    stage' = "invalid" \/ ~HiddenAbsence'
             PROVE  FALSE
  BY DEF GuardedTasksGetTheirInputs
<1>1. CASE Dispatch
  <2>1. UNCHANGED <<consumer, when, if, status, tolerated, withheld>> /\ stage = "between"
    BY <1>1 DEF Dispatch, authored
  <2>2. Accepted
    BY <2>1 DEF WireInv
  <2>3. /\ Parsed(InputContract, wire[consumer.from]) = Unset
              <=> wire[consumer.from] = Unset
        /\ wire[consumer.from] = Unset \/ wire[consumer.from].contract = InputContract
    BY <2>1, <2>2, ParsedIsLast
  <2>4. /\ stage' = "invalid" => /\ InputContract = "json" /\ wire[consumer.from] # Unset
                                 /\ wire[consumer.from].contract # "json"
        /\ stage' = "absent" => /\ Runs /\ ~Optional
                                /\ Parsed(InputContract, wire[consumer.from]) = Unset
    BY <1>1 DEF Dispatch
  <2>5. CASE stage' = "invalid"
    BY <2>3, <2>4, <2>5
  <2>6. CASE stage' = "absent"
    <3>1. Runs /\ ~Optional /\ wire[consumer.from] = Unset
      BY <2>3, <2>4, <2>6
    <3>2. ~HiddenAbsence
      BY <2>1, <2>6 DEF HiddenAbsence
    <3> QED
      BY <2>1, <3>1, <3>2, RunsFindsInput
  <2> QED
    BY <2>5, <2>6
<1>2. CASE stage \in {"absent", "invalid"}
  <2>1. UNCHANGED flowVars
    BY <1>2, DispatchedStays
  <2> QED
    BY <1>2, <2>1 DEF flowVars, run, authored, HiddenAbsence, GuardedTasksGetTheirInputs
<1> QED
  BY <1>1, <1>2 DEF FlowNext, Take, Operate, When, If, StartProducer, SetOutput, EndBody,
       OtherStepFails, Withhold, flowVars, run

\* A task receives what its producer has last set, through any conditions, any
\* calls of outputs.set and any failures.
THEOREM ReceivedAsSet == FlowSpec => []ReceivedIsWhatWasSet
<1>1. FlowInit => WireInv /\ ReceivedIsWhatWasSet
  BY WireStarts DEF FlowInit, ReceivedIsWhatWasSet
<1>2. WireInv /\ ReceivedIsWhatWasSet /\ [FlowNext]_flowVars => (WireInv /\ ReceivedIsWhatWasSet)'
  BY WireStays, ReceivedStays
<1> QED
  BY <1>1, <1>2, PTL DEF FlowSpec

\* A task that asks for no status gets what the builder has it count on, for any
\* trees and texts that are evaluated in their parts.
THEOREM GuardedGetInputs ==
    ASSUME NEW CONSTANT trees, NEW CONSTANT texts, Closed(trees, texts),
           EvaluatedInParts(trees, texts), FalseOnlyWhereRequired
    PROVE  FlowSpec => []GuardedTasksGetTheirInputs
<1> DEFINE Inv == ConditionsInv(trees, texts) /\ WireInv /\ GuardedTasksGetTheirInputs
<1>1. FlowInit => Inv
  BY ConditionsStart, WireStarts DEF FlowInit, GuardedTasksGetTheirInputs
<1>2. Inv /\ [FlowNext]_flowVars => Inv'
  BY ConditionsStay, WireStays, GuardedStays
<1>3. Inv => GuardedTasksGetTheirInputs
  OBVIOUS
<1> QED
  BY <1>1, <1>2, <1>3, PTL DEF FlowSpec

\* What the table of types lets through as an action's input is a string, for any
\* number of operators, and trees that are evaluated and typed in their parts.
THEOREM StringInputs ==
    ASSUME NEW CONSTANT trees, NEW CONSTANT texts, Closed(trees, texts),
           EvaluatedInParts(trees, texts), TypedInParts(trees)
    PROVE  FlowSpec => []StringInputsAreStrings
<1> DEFINE Inv == ConditionsInv(trees, texts) /\ TypesInv
<1>1. FlowInit => Inv
  BY ConditionsStart DEF FlowInit, TypesInv
<1>2. Inv /\ [FlowNext]_flowVars => Inv'
  BY ConditionsStay, TypesStay
<1>3. Inv => StringInputsAreStrings
  BY DEF TypesInv, Typed, Within, NonString, ValueOf, StringInputsAreStrings
<1> QED
  BY <1>1, <1>2, <1>3, PTL DEF FlowSpec

=============================================================================
