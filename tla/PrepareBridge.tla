---------------------------- MODULE PrepareBridge ----------------------------
(***************************************************************************)
(* The preparation bridge of a generated job (actions/task-prepare): what  *)
(* one job does between its cache step and its tasks, and what the jobs of *)
(* several runs leave for each other under a transport key of the remote   *)
(* cache.  The commands the shell runs, task restore and task prepare, are *)
(* taken here as one step each, or two where the checkout may change in    *)
(* between; ArtifactStore has their insides.                               *)
(*                                                                         *)
(* A version stands for the tracked source of a checkout and for the       *)
(* source key generated from it.  An artifact has the identity embedded in *)
(* it and the version its code was compiled from.                          *)
(***************************************************************************)
EXTENDS Integers, FiniteSets

CONSTANTS
    Jobs,        \* jobs of all workflow runs
    Runners,     \* machines, each with a build cache and runtimes of its own
    Versions,    \* versions of the tracked source
    None,        \* no version, no directory, no entry
    MaxEdits,    \* bound: changes to a checkout while its job runs
    MaxDecays,   \* bound: damaged or evicted remote entries
    Faulty       \* the jobs whose downloads, builds and deliveries may fail

ASSUME ConstantsAssumption ==
    /\ None \notin Versions
    /\ MaxEdits \in Nat
    /\ MaxDecays \in Nat
    /\ Faulty \subseteq Jobs

VARIABLES
    remote,   \* the cache entry of every transport key
    stores,   \* the artifacts in every runner's build cache
    runtimes, \* on every runner, the directory published at each key
    pc,       \* how far each job is
    job,      \* what each job has
    edits, decays,  \* bounded events so far
    raced     \* history: artifacts whose source changed while they were built

vars == <<remote, stores, runtimes, pc, job, edits, decays, raced>>

\* An artifact has the version it is identified by, id, and that of its code.
\* A directory with one is sound; or has a binary that starts but a manifest it
\* does not satisfy; or one that does not start or is not executable.
Healths == {"sound", "invalid", "unstartable"}
Sound(a) == [art |-> a, health |-> "sound"]

\* What a job has:
\*     runner    : of Runners,
\*     key       : of Versions,              the key in the generated YAML
\*     checkout  : of Versions,              the tracked source, now
\*     exact     : BOOLEAN,                  the cache step had an exact hit
\*     delivered : a directory or None,      what the cache step delivered
\*     transport : a directory or None,      the transport directory, now
\*     rebuild   : BOOLEAN,
\*     deno      : {"none", "path", "downloaded"},
\*     checked   : a version or None,        the source last compared to key
\*     planned   : a version or None,        the identity of the build
\*     runtime   : an artifact or None       the runtime the tasks run

Ended == {"saved", "failed", "cancelled"}
Running == {"cache", "bridge", "deno", "plan", "obtain", "compile",
            "prepared", "succeeded"}

Init ==
    /\ remote = [k \in Versions |-> None]
    /\ stores = [r \in Runners |-> {}]
    /\ runtimes = [r \in Runners |-> [k \in Versions |-> None]]
    /\ pc = [j \in Jobs |-> "queued"]
    /\ job = [j \in Jobs |-> None]
    /\ edits = 0
    /\ decays = 0
    /\ raced = {}

Goto(j, label) == pc' = [pc EXCEPT ![j] = label]
Update(j, state) == job' = [job EXCEPT ![j] = state]

\* materializeArtifact: a runtime that is published at the key already is taken,
\* if it is usable.  One that cannot be validated stays, as does the binary that
\* failed, which is rejected for good; the runtime is then a directory beside it.
Usable(d) == d # None /\ d.health = "sound"
Publish(r, art, rejects) ==
    runtimes' = [runtimes EXCEPT ![r][art.id] =
                    IF @ = None THEN Sound(art)
                    ELSE IF rejects THEN [@ EXCEPT !.health = "invalid"] ELSE @]
Materialize(j, state, art) ==
    LET there == runtimes[state.runner][art.id]
    IN  /\ Goto(j, "prepared")
        /\ \/ /\ ~Usable(there) \/ state.rebuild \/ j \in Faulty
              /\ Publish(state.runner, art, state.rebuild)
              /\ Update(j, [state EXCEPT !.runtime = art])
           \/ /\ Usable(there)
              /\ Update(j, [state EXCEPT !.runtime = there.art])
              /\ UNCHANGED runtimes

-----------------------------------------------------------------------------
(* Before the bridge.                                                       *)

\* A run checks out some commit; the YAML it runs is of that commit, but its
\* key is of the source it was last generated from.
StartJob(j) == \E r \in Runners, k, c \in Versions :
    /\ pc[j] = "queued"
    /\ Update(j, [runner |-> r, key |-> k, checkout |-> c, exact |-> FALSE,
                  delivered |-> None, transport |-> None, rebuild |-> FALSE,
                  deno |-> "none", checked |-> None, planned |-> None,
                  runtime |-> None])
    /\ Goto(j, "cache")
    /\ UNCHANGED <<remote, stores, runtimes, edits, decays, raced>>

\* The cache step restores the transport directory by exact key.  It is best
\* effort: it may deliver nothing, or a directory damaged on the way.
CacheStep(j) ==
    LET entry == remote[job[j].key]
        Deliver(d) ==
            /\ Update(j, [job[j] EXCEPT !.exact = entry # None /\ d # None,
                                        !.delivered = d, !.transport = d])
            /\ Goto(j, "bridge")
    IN  /\ pc[j] = "cache"
        /\ \/ Deliver(entry)
           \/ j \in Faulty /\ Deliver(None)
           \/ /\ j \in Faulty /\ entry # None
              /\ \E h \in Healths : Deliver([entry EXCEPT !.health = h])
        /\ UNCHANGED <<remote, stores, runtimes, edits, decays, raced>>

-----------------------------------------------------------------------------
(* prepare.sh.                                                              *)

\* The restored binary's own verdict: 1 is any status that is neither
\* 0, 2 nor 3.  The manifest is looked at before the tracked source.
RestoreStatusNoDrift(j) ==
    LET s == job[j] IN
    IF s.transport.health = "unstartable" THEN 1
    ELSE IF s.transport.health = "invalid" \/ s.transport.art.id # s.key THEN 2 ELSE 0
RestoreStatus(j) ==
    LET s == job[j] IN
    IF s.transport.health = "unstartable" THEN 1
    ELSE IF s.transport.health = "invalid" \/ s.transport.art.id # s.key THEN 2
    ELSE IF s.checkout # s.transport.art.id THEN 3 ELSE 0

TryRestoreNoFallback(j) ==
    LET s == job[j] IN
    /\ pc[j] = "bridge"
    /\ IF s.transport = None
       THEN Goto(j, "deno") /\ UNCHANGED <<job, runtimes>>
       ELSE \/ /\ RestoreStatus(j) = 0
               /\ Materialize(j, [s EXCEPT !.checked = s.checkout], s.transport.art)
            \/ /\ RestoreStatus(j) # 0
               /\ Goto(j, "failed") /\ UNCHANGED <<job, runtimes>>
    /\ UNCHANGED <<remote, stores, edits, decays, raced>>

\* Status 3 is terminal; a miss and status 2 fall back to source preparation,
\* any other status does too, and has the binary rejected.  Publishing the
\* validated runtime may fail, which is status 2.
TryRestore(j) ==
    LET s == job[j]
        status == RestoreStatus(j)
        compared == IF status \in {0, 3} THEN s.checkout ELSE s.checked
    IN  /\ pc[j] = "bridge"
        /\ IF s.transport = None
           THEN Goto(j, "deno") /\ UNCHANGED <<job, runtimes>>
           ELSE \/ /\ status = 0
                   /\ Materialize(j, [s EXCEPT !.checked = compared], s.transport.art)
                \/ /\ status = 3
                   /\ Update(j, [s EXCEPT !.checked = compared])
                   /\ Goto(j, "failed") /\ UNCHANGED runtimes
                \/ /\ status \in {1, 2} \/ (status = 0 /\ j \in Faulty)
                   /\ Update(j, [s EXCEPT !.rebuild = status = 1,
                                          !.checked = compared])
                   /\ Goto(j, "deno") /\ UNCHANGED runtimes
        /\ UNCHANGED <<remote, stores, edits, decays, raced>>

\* A Deno on PATH is used as it is; otherwise one is downloaded.
SelectDeno(j) ==
    /\ pc[j] = "deno"
    /\ \/ \E deno \in {"path", "downloaded"} :
            Update(j, [job[j] EXCEPT !.deno = deno]) /\ Goto(j, "plan")
       \/ j \in Faulty /\ Goto(j, "failed") /\ UNCHANGED job
    /\ UNCHANGED <<remote, stores, runtimes, edits, decays, raced>>

\* task prepare computes the identity of the checkout and compares it with
\* the key in the YAML.
PlanNoDrift(j) ==
    /\ pc[j] = "plan"
    /\ Update(j, [job[j] EXCEPT !.checked = job[j].checkout,
                                !.planned = job[j].checkout])
    /\ Goto(j, "obtain")
    /\ UNCHANGED <<remote, stores, runtimes, edits, decays, raced>>
Plan(j) ==
    LET s == job[j] IN
    /\ pc[j] = "plan"
    /\ IF s.checkout = s.key
       THEN /\ Update(j, [s EXCEPT !.checked = s.checkout, !.planned = s.checkout])
            /\ Goto(j, "obtain")
       ELSE /\ Update(j, [s EXCEPT !.checked = s.checkout])
            /\ Goto(j, "failed")
    /\ UNCHANGED <<remote, stores, runtimes, edits, decays, raced>>

\* The artifact is delivered to the transport directory and materialized.
Supply(j, art) == Materialize(j, [job[j] EXCEPT !.transport = Sound(art)], art)

\* The runner's build cache has an artifact of that identity.  If it cannot be
\* supplied, as it is damaged or rejected or, after it was published, cannot be
\* delivered, the source is compiled ...
Reuse(j) ==
    /\ pc[j] = "obtain"
    /\ ~job[j].rebuild
    /\ \E art \in stores[job[j].runner] :
          /\ art.id = job[j].planned
          /\ \/ Supply(j, art)
             \/ /\ Publish(job[j].runner, art, FALSE) \/ UNCHANGED runtimes
                /\ Goto(j, "compile") /\ UNCHANGED job
    /\ UNCHANGED <<remote, stores, edits, decays, raced>>

\* ... as it is by now.  The build cache replaces the entry of that identity, if
\* its store does not fail.
Built(j) == [id |-> job[j].planned, code |-> job[j].checkout]
Build(j) ==
    LET s == job[j]
        others == {a \in stores[s.runner] : a.id # s.planned}
    IN  /\ \/ pc[j] = "compile"
           \/ pc[j] = "obtain" /\ (s.rebuild \/ stores[s.runner] = others)
        /\ \/ stores' = [stores EXCEPT ![s.runner] = others \cup {Built(j)}]
           \/ j \in Faulty /\ stores' = [stores EXCEPT ![s.runner] = others]
        /\ raced' = IF s.planned = s.checkout THEN raced ELSE raced \cup {Built(j)}
Compile(j) ==
    /\ Build(j)
    /\ Supply(j, Built(j))
    /\ UNCHANGED <<remote, edits, decays>>

\* The compiler may fail or be cancelled; or, with what it built in the build
\* cache, the delivery; or, with that delivered, the publication.
PrepareFails(j) == \E end \in {"failed", "cancelled"} :
    /\ j \in Faulty
    /\ \/ pc[j] \in {"obtain", "compile"} /\ UNCHANGED <<stores, job, raced>>
       \/ /\ Build(j)
          /\ \E d \in {job[j].transport, None, Sound(Built(j))} :
                Update(j, [job[j] EXCEPT !.transport = d])
    /\ Goto(j, end)
    /\ UNCHANGED <<remote, runtimes, edits, decays>>

-----------------------------------------------------------------------------
(* After the bridge.                                                        *)

RunTasks(j) ==
    /\ pc[j] = "prepared"
    /\ Goto(j, "succeeded") \/ Goto(j, "failed")
    /\ UNCHANGED <<remote, stores, runtimes, job, edits, decays, raced>>

\* The cache step's post action, in a successful job without an exact hit:
\* an entry that exists is never overwritten.
Save(j) ==
    LET s == job[j] IN
    /\ pc[j] = "succeeded"
    /\ remote' = IF ~s.exact /\ remote[s.key] = None
                 THEN [remote EXCEPT ![s.key] = s.transport] ELSE remote
    /\ Goto(j, "saved")
    /\ UNCHANGED <<stores, runtimes, job, edits, decays, raced>>

-----------------------------------------------------------------------------
(* The environment.                                                         *)

\* A step of the workflow's author changes tracked source.
Edit(j) == \E v \in Versions :
    /\ pc[j] \in Running
    /\ edits < MaxEdits
    /\ edits' = edits + 1
    /\ v # job[j].checkout
    /\ Update(j, [job[j] EXCEPT !.checkout = v])
    /\ UNCHANGED <<remote, stores, runtimes, pc, decays, raced>>

Decay(k) ==
    /\ remote[k] # None
    /\ decays < MaxDecays
    /\ decays' = decays + 1
    /\ \/ remote' = [remote EXCEPT ![k] = None]
       \/ \E h \in Healths \ {"sound"} : remote' = [remote EXCEPT ![k].health = h]
    /\ UNCHANGED <<stores, runtimes, pc, job, edits, raced>>

Cancel(j) ==
    /\ j \in Faulty
    /\ pc[j] \in Running
    /\ Goto(j, "cancelled")
    /\ UNCHANGED <<remote, stores, runtimes, job, edits, decays, raced>>

Step(j) ==
    \/ CacheStep(j) \/ TryRestore(j) \/ SelectDeno(j) \/ Plan(j)
    \/ Reuse(j) \/ Compile(j) \/ PrepareFails(j) \/ RunTasks(j) \/ Save(j)

Next ==
    \/ \E j \in Jobs : StartJob(j) \/ Step(j) \/ Edit(j) \/ Cancel(j)
    \/ \E k \in Versions : Decay(k)

Spec == Init /\ [][Next]_vars

\* A runner carries on with the job it has started.
FairSpec == Spec /\ \A j \in Jobs : WF_vars(Step(j))

-----------------------------------------------------------------------------
(* Properties.                                                              *)

\* "Preparation never writes a new artifact under a stale key": what any job
\* saves or publishes under a key, or keeps in a build cache, is of that key's
\* identity, and of its code too unless the source changed while it was compiled.
EntriesMatchTheirKey ==
    /\ \A k \in Versions : remote[k] # None =>
        /\ remote[k].art.id = k
        /\ remote[k].art.code = k \/ remote[k].art \in raced
    /\ \A r \in Runners : \A a \in stores[r] : a.id = a.code \/ a \in raced
    /\ \A r \in Runners, k \in Versions : runtimes[r][k] # None =>
        /\ runtimes[r][k].art.id = k
        /\ runtimes[r][k].art.code = k \/ runtimes[r][k].art \in raced

\* A task runs the source its job was prepared with, and that source was the
\* one the YAML was generated from, whichever of the remote cache, the build
\* cache, the published runtimes and the compiler the runtime came from.
TasksMatchCheckout ==
    \A j \in Jobs : pc[j] \in {"prepared", "succeeded", "saved"} =>
        /\ job[j].checked = job[j].key
        /\ job[j].runtime.id = job[j].key
        /\ job[j].runtime.code = job[j].key \/ job[j].runtime \in raced

\* Drift is terminal: "the existing transport directory is left intact", and
\* drift the restored binary reports ends the job before a Deno is selected.
DriftLeavesJobUntouched ==
    \A j \in Jobs : pc[j] # "queued" /\ job[j].checked \notin {None, job[j].key} =>
        /\ job[j].transport = job[j].delivered
        /\ job[j].runtime = None
        /\ pc[j] \in {"failed", "cancelled"}

\* A delivered artifact that is missing, damaged, foreign or does not start
\* costs a build, never the job: a job whose own tools do not fail and that
\* has no drift gets a runtime, whatever the other jobs leave for it.
PreparesUnlessDrifted ==
    \A j \in Jobs \ Faulty : pc[j] = "bridge" ~>
        \/ pc[j] # "queued" /\ job[j].runtime # None
        \/ pc[j] # "queued" /\ job[j].checked \notin {None, job[j].key}

=============================================================================
