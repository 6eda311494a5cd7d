-------------------------- MODULE TypeServiceProofs --------------------------
(***************************************************************************)
(* What is deployed is published, and what is served fits its URL and its  *)
(* time, for any number of release runs and requests, versions, commits    *)
(* and refs, and for any faults.                                           *)
(***************************************************************************)
EXTENDS TypeService, SequenceTheorems, FiniteSetTheorems, TLAPS

-----------------------------------------------------------------------------
(* Releases.                                                                *)

Stages == {"build", "archiveRead", "publish", "verify", "deploy", "upload", "released",
           "failed"}
ReleaseRun == [stage : Stages, version : Versions, commit : Commits,
               environment : SUBSET (Credentials \cup Upload)]
Deployed == [version : Versions, commit : Commits, bindings : SUBSET Credentials]

\* A run that is past the verification has found its own commit in the
\* registry, where nothing changes, and one that uploads has all secrets.
ReleaseInv ==
    /\ registry \in [Versions -> Commits \cup {None}]
    /\ release \in [Runs -> [stage : {"idle"}] \cup ReleaseRun]
    /\ \A r \in Runs : release[r].stage \in {"deploy", "upload"} =>
          registry[release[r].version] = release[r].commit
    /\ \A r \in Runs : release[r].stage = "upload" => Credentials \subseteq release[r].environment
    /\ worker # None => worker \in Deployed
    /\ DeployedIsPublished

\* Versions that have their files keep them.
Growing ==
    /\ registry' \in [Versions -> Commits \cup {None}]
    /\ \A v \in Versions : registry[v] # None => registry'[v] = registry[v]

\* What runs and the Worker rely on in the registry stays.
LEMMA FoundStays ==
    ASSUME ReleaseInv, Growing
    PROVE  /\ \A r \in Runs : release[r].stage \in {"deploy", "upload"} =>
                 registry'[release[r].version] = release[r].commit
           /\ worker # None => registry'[worker.version] = worker.commit
<1>1. ASSUME NEW r \in Runs, release[r].stage \in {"deploy", "upload"}
      PROVE  registry'[release[r].version] = release[r].commit
  <2>1. release[r].version \in Versions /\ release[r].commit \in Commits
    BY <1>1 DEF ReleaseInv, ReleaseRun
  <2>2. registry[release[r].version] = release[r].commit
    BY <1>1 DEF ReleaseInv
  <2> QED
    BY <2>1, <2>2, ServiceAssumption DEF Growing
<1>2. ASSUME worker # None PROVE registry'[worker.version] = worker.commit
  <2>1. worker.version \in Versions /\ worker.commit \in Commits
    BY <1>2 DEF ReleaseInv, Deployed
  <2> QED
    BY <1>2, <2>1, ServiceAssumption DEF ReleaseInv, DeployedIsPublished, Growing
<1> QED
  BY <1>1, <1>2

\* The stage of one run changes, to one that claims nothing or what holds.
LEMMA EnterKeeps ==
    ASSUME ReleaseInv, NEW r \in Runs, NEW stage \in Stages \ {"upload"},
           release[r].stage # "idle", Enter(r, stage), Growing, UNCHANGED worker,
           stage = "deploy" => registry'[release[r].version] = release[r].commit
    PROVE  ReleaseInv'
<1>1. release[r] \in ReleaseRun
  BY DEF ReleaseInv, ReleaseRun
<1>2. release' = [release EXCEPT ![r].stage = stage]
  BY DEF Enter
<1>3. release'[r] \in ReleaseRun /\ release'[r].stage = stage
      /\ release'[r].version = release[r].version /\ release'[r].commit = release[r].commit
  BY <1>1, <1>2 DEF ReleaseInv, ReleaseRun
<1>4. \A q \in Runs \ {r} : release'[q] = release[q]
  BY <1>2 DEF ReleaseInv
<1>5. release' \in [Runs -> [stage : {"idle"}] \cup ReleaseRun]
  BY <1>2, <1>3, <1>4 DEF ReleaseInv
<1>6. \A q \in Runs : release'[q].stage \in {"deploy", "upload"} =>
          registry'[release'[q].version] = release'[q].commit
  BY <1>3, <1>4, FoundStays
<1>7. \A q \in Runs : release'[q].stage = "upload" =>
          Credentials \subseteq release'[q].environment
  BY <1>3, <1>4 DEF ReleaseInv
<1> QED
  BY <1>5, <1>6, <1>7, FoundStays DEF ReleaseInv, DeployedIsPublished, Growing

\* A failure claims nothing.
LEMMA FailKeeps ==
    ASSUME ReleaseInv, NEW r \in Runs, release[r].stage # "idle", Fail(r),
           Growing, UNCHANGED worker
    PROVE  ReleaseInv'
BY EnterKeeps DEF Fail, Stages

\* A run starts with a version, a commit and what its environment has.
LEMMA StartRunKeeps ==
    ASSUME ReleaseInv, NEW r \in Runs, StartRun(r)
    PROVE  ReleaseInv'
<1>1. PICK v \in Versions, c \in Commits :
          release' = [release EXCEPT ![r] =
              [stage |-> "build", version |-> v, commit |-> c, environment |-> {}]]
  BY DEF StartRun
<1>2. release'[r] \in ReleaseRun /\ release'[r].stage = "build"
  BY <1>1 DEF ReleaseInv, ReleaseRun, Stages
<1>3. \A q \in Runs \ {r} : release'[q] = release[q]
  BY <1>1 DEF ReleaseInv
<1>4. release' \in [Runs -> [stage : {"idle"}] \cup ReleaseRun]
  BY <1>1, <1>2, <1>3 DEF ReleaseInv
<1> QED
  BY <1>2, <1>3, <1>4 DEF ReleaseInv, StartRun, DeployedIsPublished

\* A build claims nothing of the registry.
LEMMA BuildKeeps ==
    ASSUME ReleaseInv, NEW r \in Runs, Build(r)
    PROVE  ReleaseInv'
BY EnterKeeps, FailKeeps DEF Build, Stages, ReleaseInv, Growing

\* What a run reads of the registry is its own or nothing.
LEMMA ReadRegistryKeeps ==
    ASSUME ReleaseInv, NEW r \in Runs, ReadRegistry(r)
    PROVE  ReleaseInv'
<1>1. release[r].stage = "archiveRead" /\ UNCHANGED <<registry, worker>> /\ Growing
  BY DEF ReadRegistry, ReleaseInv, Growing
<1>2. CASE Fail(r)
  BY <1>1, <1>2, FailKeeps
<1>3. CASE Enter(r, IF VerifyContent(r, registry[release[r].version])
                    THEN "deploy" ELSE "failed")
  <2>1. CASE VerifyContent(r, registry[release[r].version])
    BY <1>1, <1>3, <2>1, EnterKeeps DEF Stages, VerifyContent
  <2>2. CASE ~VerifyContent(r, registry[release[r].version])
    BY <1>1, <1>3, <2>2, EnterKeeps DEF Stages
  <2> QED
    BY <2>1, <2>2
<1>4. CASE Enter(r, "publish")
  BY <1>1, <1>4, EnterKeeps DEF Stages
<1> QED
  BY <1>2, <1>3, <1>4 DEF ReadRegistry

\* A run that goes on to deploy has found its own commit.
LEMMA VerifyPublishedKeeps ==
    ASSUME ReleaseInv, NEW r \in Runs, VerifyPublished(r)
    PROVE  ReleaseInv'
<1>1. release[r].stage = "verify" /\ UNCHANGED <<registry, worker>> /\ Growing
  BY DEF VerifyPublished, ReleaseInv, Growing
<1>2. CASE Fail(r)
  BY <1>1, <1>2, FailKeeps
<1>3. CASE Enter(r, IF VerifyContent(r, registry[release[r].version])
                    THEN "deploy" ELSE "failed")
  <2>1. CASE VerifyContent(r, registry[release[r].version])
    BY <1>1, <1>3, <2>1, EnterKeeps DEF Stages, VerifyContent
  <2>2. CASE ~VerifyContent(r, registry[release[r].version])
    BY <1>1, <1>3, <2>2, EnterKeeps DEF Stages
  <2> QED
    BY <2>1, <2>2
<1> QED
  BY <1>2, <1>3 DEF VerifyPublished

\* A publication adds the files of a version that has none.
LEMMA PublishKeeps ==
    ASSUME ReleaseInv, NEW r \in Runs, Publish(r)
    PROVE  ReleaseInv'
<1>1. release[r].stage = "publish" /\ UNCHANGED worker
  BY DEF Publish
<1>2. release[r].version \in Versions /\ release[r].commit \in Commits
  BY <1>1 DEF ReleaseInv, ReleaseRun
<1>3. registry' \in {registry, [registry EXCEPT ![release[r].version] = release[r].commit]}
      /\ (registry[release[r].version] # None => registry' = registry)
  BY DEF Publish
<1>4. Growing
  BY <1>2, <1>3 DEF ReleaseInv, Growing
<1>5. Enter(r, "verify") \/ Fail(r)
  BY DEF Publish
<1> QED
  BY <1>1, <1>4, <1>5, EnterKeeps, FailKeeps DEF Stages

\* A child process that starts has every secret.
LEMMA FnoxExecKeeps ==
    ASSUME ReleaseInv, NEW r \in Runs, FnoxExec(r)
    PROVE  ReleaseInv'
<1>1. release[r].stage = "deploy" /\ UNCHANGED <<registry, worker>> /\ Growing
  BY DEF FnoxExec, ReleaseInv, Growing
<1>2. CASE Fail(r)
  BY <1>1, <1>2, FailKeeps
<1>3. ASSUME NEW environment \in {Credentials \cup Upload, Upload, Credentials},
             Required(environment),
             release' = [release EXCEPT ![r].stage = "upload", ![r].environment = environment]
      PROVE  ReleaseInv'
  <2>1. release[r] \in ReleaseRun
    BY <1>1 DEF ReleaseInv, ReleaseRun
  <2>2. environment \in SUBSET (Credentials \cup Upload) /\ Credentials \subseteq environment
    BY <1>3 DEF Required
  <2>3. release'[r] = [release[r] EXCEPT !.stage = "upload", !.environment = environment]
    BY <1>3 DEF ReleaseInv
  <2>4. /\ release'[r] \in ReleaseRun
        /\ release'[r].environment = environment
        /\ release'[r].version = release[r].version
        /\ release'[r].commit = release[r].commit
    BY <2>1, <2>2, <2>3 DEF ReleaseRun, Stages
  <2>5. \A q \in Runs \ {r} : release'[q] = release[q]
    BY <1>3 DEF ReleaseInv
  <2>6. release' \in [Runs -> [stage : {"idle"}] \cup ReleaseRun]
    BY <1>3, <2>4, <2>5 DEF ReleaseInv
  <2> QED
    BY <1>1, <2>2, <2>4, <2>5, <2>6 DEF ReleaseInv, DeployedIsPublished
<1> QED
  BY <1>2, <1>3 DEF FnoxExec

\* The Worker that is uploaded is of the version and commit of its run.
LEMMA UploadWorkerKeeps ==
    ASSUME ReleaseInv, NEW r \in Runs, UploadWorker(r)
    PROVE  ReleaseInv'
<1> DEFINE uploaded == [version |-> release[r].version, commit |-> release[r].commit,
                        bindings |-> release[r].environment \cap Credentials]
<1>1. release[r].stage = "upload" /\ UNCHANGED registry /\ worker' \in {worker, uploaded}
  BY DEF UploadWorker
<1>2. uploaded \in Deployed /\ registry[uploaded.version] = uploaded.commit
      /\ uploaded.bindings = Credentials
  BY <1>1 DEF ReleaseInv, ReleaseRun, Deployed
<1>3. \E stage \in {"released", "failed"} : Enter(r, stage)
  BY DEF UploadWorker, Fail
<1>4. /\ release' \in [Runs -> [stage : {"idle"}] \cup ReleaseRun]
      /\ \A q \in Runs : release'[q].stage \in {"deploy", "upload"} =>
            release'[q] = release[q]
  <2>1. PICK stage \in {"released", "failed"} :
            release' = [release EXCEPT ![r].stage = stage]
    BY <1>3 DEF Enter
  <2>2. release[r] \in ReleaseRun
    BY <1>1 DEF ReleaseInv, ReleaseRun
  <2>3. release'[r] \in ReleaseRun /\ release'[r].stage = stage
    BY <2>1, <2>2 DEF ReleaseInv, ReleaseRun, Stages
  <2>4. \A q \in Runs \ {r} : release'[q] = release[q]
    BY <2>1 DEF ReleaseInv
  <2> QED
    BY <2>1, <2>3, <2>4 DEF ReleaseInv
<1> QED
  BY <1>1, <1>2, <1>4 DEF ReleaseInv, DeployedIsPublished

\* Every step of a release keeps the invariant of the releases.
LEMMA ReleaseStep ==
    ASSUME ReleaseInv, ReleaseNext
    PROVE  ReleaseInv'
BY StartRunKeeps, BuildKeeps, ReadRegistryKeeps, PublishKeeps, VerifyPublishedKeeps,
   FnoxExecKeeps, UploadWorkerKeeps DEF ReleaseNext

\* The Worker that serves is of a version that the registry has from the same
\* commit, and it has its credentials.
THEOREM DeployedAndPublished == Spec => []DeployedIsPublished
<1>1. Init => ReleaseInv
  BY DEF Init, ReleaseInit, ReleaseInv, DeployedIsPublished, Deployed
<1>2. ReleaseInv /\ [Next]_vars => ReleaseInv'
  <2> SUFFICES ASSUME ReleaseInv, [Next]_vars PROVE ReleaseInv'
    OBVIOUS
  <2>1. CASE ReleaseNext
    BY <2>1, ReleaseStep
  <2>2. CASE UNCHANGED <<registry, worker, release>>
    BY <2>2 DEF ReleaseInv, DeployedIsPublished
  <2> QED
    BY <2>1, <2>2 DEF Next, vars, releaseVars
<1>3. ReleaseInv => DeployedIsPublished
  BY DEF ReleaseInv
<1> QED
  BY <1>1, <1>2, <1>3, PTL DEF Spec

-----------------------------------------------------------------------------
(* Requests.                                                                *)

Spellings == {"lower", "upper"}
Codes == {"not_found", "upstream_failure", "configuration_missing", "metadata_invalid"}
Answers == [kind : {"redirect"}, at : Shas, note : Refs]
           \cup [kind : {"module"}, spelling : {"lower"}, at : Shas, note : Refs \cup {None}]
           \cup [kind : {"error"}, code : Codes]
Times == Nat
Entry == [answer : Answers, asked : Times, stored : Times]
Request ==
    [stage : {"idle"}]
    \cup [stage : {"read", "upstream"}, id : Nat, url : Keys, spelling : Spellings]
    \cup [stage : {"save"}, id : Nat, url : Keys, spelling : Spellings, answer : Answers,
          asked : Times]
    \cup [stage : {"answered"}, url : Keys, answer : Answers, asked : Times,
          stored : Times, given : Times]

\* What was retrieved for a URL between two times and may be given for it.
Fresh(url, answer, asked, stored) ==
    /\ answer.kind = "module" => answer = Module("lower", url.at, url.note)
    /\ answer.kind = "redirect" =>
         /\ url.at \in Refs
         /\ \E t \in asked .. stored : t \in DOMAIN heads /\ heads[t][url.at] = answer.at

EntryFresh(k, entry) ==
    /\ Fresh(k, entry.answer, entry.asked, entry.stored)
    /\ entry.stored <= Now
    /\ entry.answer.kind = "redirect" => Now - entry.stored < RefTTL
RequestFresh(r) ==
    /\ r.stage = "save" =>
         /\ Fresh(r.url, r.answer, r.asked, r.asked)
         /\ r.asked <= Now
    /\ r.stage = "answered" =>
         /\ Fresh(r.url, r.answer, r.asked, r.stored)
         /\ r.answer.kind = "redirect" => r.given - r.stored < RefTTL

ServiceType ==
    /\ heads \in Seq([Refs -> Shas]) /\ Len(heads) >= 1
    /\ left \in [requests : Nat, ticks : Nat, faults : Nat, releasing : BOOLEAN]
    /\ cache \in [Keys -> Entry \cup {None}]
    /\ request \in [Requests -> Request]
ServiceInv ==
    /\ ServiceType
    /\ \A k \in Keys : cache[k] # None => EntryFresh(k, cache[k])
    /\ \A q \in Requests : RequestFresh(request[q])

\* One request changes, and nothing that the others rely on.
LEMMA RequestKeeps ==
    ASSUME ServiceInv, NEW q \in Requests, NEW new \in Request,
           request' = [request EXCEPT ![q] = new], RequestFresh(new),
           UNCHANGED <<heads, cache>>,
           left' \in [requests : Nat, ticks : Nat, faults : Nat, releasing : BOOLEAN]
    PROVE  ServiceInv'
<1>1. ServiceType'
  BY DEF ServiceInv, ServiceType
<1>2. \A p \in Requests : request'[p] = IF p = q THEN new ELSE request[p]
  BY DEF ServiceInv, ServiceType
<1>3. \A p \in Requests : RequestFresh(request'[p])
  BY <1>2 DEF ServiceInv
<1>4. ASSUME NEW r, RequestFresh(r) PROVE RequestFresh(r)'
  BY <1>4 DEF RequestFresh, Fresh, Now
<1> QED
  BY <1>1, <1>3 DEF ServiceInv, RequestFresh, EntryFresh, Fresh, Now

\* The clock is the number of times that were.
LEMMA NowIsNat == ASSUME ServiceType PROVE Now \in Nat
BY DEF ServiceType, Now

\* An answer that is fresh may be given; one that is no redirect at any time.
LEMMA AnswerKeeps ==
    ASSUME ServiceInv, NEW q \in Requests, request[q].stage # "idle",
           NEW status, NEW answer \in Answers, NEW asked \in Times, NEW stored \in Times,
           Answer(q, status, answer, asked, stored),
           Fresh(request[q].url, answer, asked, stored),
           answer.kind = "redirect" => Now - stored < RefTTL,
           UNCHANGED <<heads, cache, left>>
    PROVE  ServiceInv'
<1> DEFINE new == [stage |-> "answered", url |-> request[q].url, answer |-> answer,
                   asked |-> asked, stored |-> stored, given |-> Now]
<1>1. request[q].url \in Keys
  BY DEF ServiceInv, ServiceType, Request
<1>2. new \in Request
  BY <1>1, NowIsNat DEF ServiceInv, Request, Times
<1>3. RequestFresh(new)
  BY DEF RequestFresh
<1>4. request' = [request EXCEPT ![q] = new]
  BY DEF Answer
<1> HIDE DEF new
<1> QED
  BY <1>2, <1>3, <1>4, RequestKeeps DEF ServiceInv, ServiceType

\* A request is received with nothing retrieved.
LEMMA ReceiveKeeps ==
    ASSUME ServiceInv, NEW q \in Requests, Receive(q)
    PROVE  ServiceInv'
<1>1. PICK url \in Keys, spelling \in Spellings :
          request' = [request EXCEPT ![q] =
              [stage |-> "read", id |-> left.requests, url |-> url, spelling |-> spelling]]
  BY DEF Receive, Spellings
<1> DEFINE new == [stage |-> "read", id |-> left.requests, url |-> url, spelling |-> spelling]
<1>2. new \in Request
  BY DEF ServiceInv, ServiceType, Request
<1>3. RequestFresh(new)
  BY DEF RequestFresh
<1>4. left' \in [requests : Nat, ticks : Nat, faults : Nat, releasing : BOOLEAN]
  BY DEF Receive, ServiceInv, ServiceType
<1>5. UNCHANGED <<heads, cache>>
  BY DEF Receive
<1> HIDE DEF new
<1> QED
  BY <1>1, <1>2, <1>3, <1>4, <1>5, RequestKeeps DEF new

\* A request that is refused, and an answer that is taken.
LEMMA IdleKeeps ==
    ASSUME ServiceInv, NEW q \in Requests, Refuse(q) \/ Taken(q)
    PROVE  ServiceInv'
<1> DEFINE new == [stage |-> "idle"]
<1>1. new \in Request /\ RequestFresh(new)
  BY DEF Request, RequestFresh
<1>2. request' = [request EXCEPT ![q] = new] /\ UNCHANGED <<heads, cache, left>>
  BY DEF Refuse, Taken
<1> HIDE DEF new
<1> QED
  BY <1>1, <1>2, RequestKeeps DEF ServiceInv, ServiceType

\* What the cache has for the URL may be given; without it, GitHub is asked.
LEMMA ReadCacheKeeps ==
    ASSUME ServiceInv, NEW q \in Requests, ReadCache(q)
    PROVE  ServiceInv'
<1>1. request[q].stage = "read" /\ UNCHANGED <<heads, cache, left>>
  BY DEF ReadCache
<1>2. request[q] \in [stage : {"read", "upstream"}, id : Nat, url : Keys, spelling : Spellings]
  BY <1>1 DEF ServiceInv, ServiceType, Request
<1> DEFINE entry == cache[request[q].url]
<1>3. CASE entry # None /\ Answer(q, "ok", entry.answer, entry.asked, entry.stored)
  <2>1. entry \in Entry /\ EntryFresh(request[q].url, entry)
    BY <1>2, <1>3 DEF ServiceInv, ServiceType
  <2>2. entry.answer \in Answers /\ entry.asked \in Times /\ entry.stored \in Times
    BY <2>1 DEF Entry
  <2> HIDE DEF entry
  <2> QED
    BY <1>1, <1>3, <2>1, <2>2, AnswerKeeps DEF EntryFresh
<1>4. CASE request' = [request EXCEPT ![q].stage = "upstream"]
  <2> DEFINE new == [request[q] EXCEPT !.stage = "upstream"]
  <2>1. new \in Request /\ new.stage = "upstream"
    BY <1>2 DEF Request
  <2>2. RequestFresh(new)
    BY <2>1 DEF RequestFresh
  <2>3. request' = [request EXCEPT ![q] = new]
    BY <1>4
  <2> HIDE DEF new
  <2> QED
    BY <1>1, <2>1, <2>2, <2>3, RequestKeeps DEF ServiceInv, ServiceType
<1> QED
  BY <1>3, <1>4 DEF ReadCache

\* Errors are given and not stored.
LEMMA ErrorKeeps ==
    ASSUME ServiceInv, NEW q \in Requests, GetFails(q) \/ GenerateFails(q)
    PROVE  ServiceInv'
<1>1. PICK code \in Codes :
          Answer(q, "error", Error(code), Now, Now)
  BY DEF GetFails, GenerateFails, Codes
<1>2. request[q].stage = "upstream" /\ UNCHANGED <<heads, cache, left>>
  BY DEF GetFails, GenerateFails
<1>3. Error(code) \in Answers /\ Error(code).kind = "error"
  BY DEF Error, Answers
<1>4. Fresh(request[q].url, Error(code), Now, Now)
  BY <1>3 DEF Fresh
<1> QED
  BY <1>1, <1>2, <1>3, <1>4, NowIsNat, AnswerKeeps DEF ServiceInv, Times

\* What was retrieved is kept with the request until it is stored.
LEMMA RetrievedKeeps ==
    ASSUME ServiceInv, NEW q \in Requests, NEW answer \in Answers,
           request[q].stage = "upstream", Retrieved(q, answer),
           Fresh(request[q].url, answer, Now, Now)
    PROVE  ServiceInv'
<1> DEFINE new == [stage |-> "save", id |-> request[q].id, url |-> request[q].url,
                   spelling |-> request[q].spelling, answer |-> answer, asked |-> Now]
<1>1. request[q] \in [stage : {"read", "upstream"}, id : Nat, url : Keys, spelling : Spellings]
  BY DEF ServiceInv, ServiceType, Request
<1>2. new \in Request
  BY <1>1, NowIsNat DEF ServiceInv, Request, Times
<1>3. RequestFresh(new)
  BY NowIsNat DEF RequestFresh, ServiceInv
<1>4. request' = [request EXCEPT ![q] = new] /\ UNCHANGED <<heads, cache, left>>
  BY DEF Retrieved, ServiceInv, ServiceType
<1> HIDE DEF new
<1> QED
  BY <1>2, <1>3, <1>4, RequestKeeps DEF ServiceInv, ServiceType

\* A redirect leads to what the ref names at the time it is resolved.
LEMMA ResolveKeeps ==
    ASSUME ServiceInv, NEW q \in Requests, Resolve(q)
    PROVE  ServiceInv'
<1> DEFINE ref == request[q].url.at
           answer == Redirect(heads[Now][ref], ref)
<1>1. request[q].stage = "upstream" /\ ref \in Refs /\ Retrieved(q, answer)
  BY DEF Resolve
<1>2. Now \in DOMAIN heads /\ Now \in Nat
  BY NowIsNat DEF ServiceInv, ServiceType, Now
<1>3. heads[Now][ref] \in Shas
  BY <1>1, <1>2 DEF ServiceInv, ServiceType
<1>4. answer \in Answers /\ answer.kind = "redirect" /\ answer.at = heads[Now][ref]
  BY <1>1, <1>3 DEF Redirect, Answers
<1>5. Fresh(request[q].url, answer, Now, Now)
  BY <1>1, <1>2, <1>4 DEF Fresh
<1> HIDE DEF answer
<1> QED
  BY <1>1, <1>4, <1>5, RetrievedKeeps

\* The types are generated for the commit and the ref of the URL.
LEMMA GenerateKeeps ==
    ASSUME ServiceInv, NEW q \in Requests, Generate(q)
    PROVE  ServiceInv'
<1> DEFINE url == request[q].url
           answer == Module("lower", url.at, url.note)
<1>1. request[q].stage = "upstream" /\ url.at \in Shas /\ Retrieved(q, answer)
  BY DEF Generate
<1>2. url \in Keys
  BY <1>1 DEF ServiceInv, ServiceType, Request
<1>3. url.note \in Refs \cup {None}
  BY <1>2 DEF Keys
<1>4. answer \in Answers /\ answer.kind = "module"
  BY <1>1, <1>3 DEF Module, Answers
<1>5. Fresh(url, answer, Now, Now)
  BY <1>4 DEF Fresh
<1> HIDE DEF answer
<1> QED
  BY <1>1, <1>4, <1>5, RetrievedKeeps

\* Time is appended and never changed.
LEMMA FreshStays ==
    ASSUME ServiceType, NEW moved \in [Refs -> Shas], heads' = Append(heads, moved),
           NEW url, NEW answer, NEW asked, NEW stored,
           Fresh(url, answer, asked, stored)
    PROVE  Fresh(url, answer, asked, stored)'
<1>1. \A t \in DOMAIN heads : t \in DOMAIN heads' /\ heads'[t] = heads[t]
  BY DEF ServiceType
<1> QED
  BY <1>1 DEF Fresh

\* What is stored and given was fresh when it was retrieved, and is still.
LEMMA SaveKeeps ==
    ASSUME ServiceInv, NEW q \in Requests, Save(q)
    PROVE  ServiceInv'
<1> DEFINE answer == request[q].answer
           asked == request[q].asked
           entry == [answer |-> answer, asked |-> asked, stored |-> Now]
           new == [stage |-> "answered", url |-> request[q].url, answer |-> answer,
                   asked |-> asked, stored |-> Now, given |-> Now]
<1>1. request[q].stage = "save" /\ UNCHANGED <<heads, left>>
  BY DEF Save
<1>2. request[q].url \in Keys /\ answer \in Answers /\ asked \in Nat
  BY <1>1 DEF ServiceInv, ServiceType, Request, Times
<1>3. asked <= Now /\ Fresh(request[q].url, answer, asked, asked) /\ Now \in Nat
  BY <1>1, NowIsNat DEF ServiceInv, RequestFresh
<1>4. Fresh(request[q].url, answer, asked, Now)
  <2>1. asked \in asked .. asked /\ \A t \in asked .. asked : t \in asked .. Now
    BY <1>2, <1>3
  <2> QED
    BY <1>3, <2>1 DEF Fresh
<1>5. request' = [request EXCEPT ![q] = new]
  BY DEF Save, Answer
<1>6. new \in Request /\ RequestFresh(new)
  <2>1. new \in Request
    BY <1>2, <1>3 DEF Request, Times
  <2>2. Now - Now < RefTTL
    BY <1>3, ServiceAssumption
  <2> QED
    BY <1>4, <2>1, <2>2 DEF RequestFresh
<1>7. entry \in Entry /\ EntryFresh(request[q].url, entry)
  <2>1. entry \in Entry
    BY <1>2, <1>3 DEF Entry, Times
  <2>2. Now - Now < RefTTL /\ Now <= Now
    BY <1>3, ServiceAssumption
  <2> QED
    BY <1>4, <2>1, <2>2 DEF EntryFresh
<1>8. cache' \in {cache, [cache EXCEPT ![request[q].url] = entry]}
  BY DEF Save, CacheKey
<1> HIDE DEF new, entry
<1>9. /\ cache' \in [Keys -> Entry \cup {None}]
      /\ \A k \in Keys : cache'[k] # None => EntryFresh(k, cache'[k])
  BY <1>2, <1>7, <1>8 DEF ServiceInv, ServiceType
<1>10. /\ request' \in [Requests -> Request]
       /\ \A p \in Requests : RequestFresh(request'[p])
  BY <1>5, <1>6 DEF ServiceInv, ServiceType
<1> QED
  BY <1>1, <1>9, <1>10 DEF ServiceInv, ServiceType, EntryFresh, RequestFresh, Fresh, Now

\* What is in the cache, and not at the end of its lifetime at the next tick, is
\* fresh then.
LEMMA EntryFreshStays ==
    ASSUME ServiceType, NEW moved \in [Refs -> Shas], heads' = Append(heads, moved),
           NEW k, NEW e \in Entry, EntryFresh(k, e), Now + 1 - e.stored < Lifetime(e)
    PROVE  EntryFresh(k, e)'
<1>1. Now \in Nat /\ Now' = Now + 1
  BY NowIsNat DEF ServiceType, Now
<1>2. Fresh(k, e.answer, e.asked, e.stored)'
  BY FreshStays DEF EntryFresh
<1>3. e.stored \in Nat /\ e.stored <= Now
  BY DEF Entry, EntryFresh, Times
<1>4. e.answer.kind = "redirect" => Now' - e.stored < RefTTL
  <2>1. Now + 1 - e.stored < Lifetime(e)
    OBVIOUS
  <2>2. Now' - e.stored = Now + 1 - e.stored
    BY <1>1, <1>3
  <2> QED
    BY <2>1, <2>2 DEF Lifetime
<1> QED
  BY <1>1, <1>2, <1>3, <1>4 DEF EntryFresh

\* What a request has retrieved or was given stays what it may be given.
LEMMA RequestFreshStays ==
    ASSUME ServiceType, NEW moved \in [Refs -> Shas], heads' = Append(heads, moved),
           NEW r \in Request, RequestFresh(r)
    PROVE  RequestFresh(r)'
<1>1. Now \in Nat /\ Now' = Now + 1
  BY NowIsNat DEF ServiceType, Now
<1>2. CASE r.stage = "save"
  <2>1. r.asked \in Nat
    BY <1>2 DEF Request, Times
  <2>2. Fresh(r.url, r.answer, r.asked, r.asked)'
    BY <1>2, FreshStays DEF RequestFresh
  <2> QED
    BY <1>1, <1>2, <2>1, <2>2 DEF RequestFresh
<1>3. CASE r.stage = "answered"
  <2>1. Fresh(r.url, r.answer, r.asked, r.stored)'
    BY <1>3, FreshStays DEF RequestFresh
  <2> QED
    BY <1>3, <2>1 DEF RequestFresh
<1> QED
  BY <1>2, <1>3 DEF RequestFresh

\* What has reached the end of its lifetime leaves the cache, so that the rest
\* is within it.
LEMMA TickKeeps ==
    ASSUME ServiceInv, Tick
    PROVE  ServiceInv'
<1>1. PICK moved \in [Refs -> Shas] : heads' = Append(heads, moved)
  BY DEF Tick
<1>2. ServiceType'
  <2>1. left' \in [requests : Nat, ticks : Nat, faults : Nat, releasing : BOOLEAN]
    <3>1. left' = [left EXCEPT !.ticks = left.ticks - 1] /\ left.ticks > 0
      BY DEF Tick
    <3>2. left \in [requests : Nat, ticks : Nat, faults : Nat, releasing : BOOLEAN]
      BY DEF ServiceInv, ServiceType
    <3>3. left.ticks - 1 \in Nat
      BY <3>1, <3>2
    <3> QED
      BY <3>1, <3>2, <3>3
  <2>2. cache' \in [Keys -> Entry \cup {None}]
    BY DEF Tick, ServiceInv, ServiceType
  <2>3. heads' \in Seq([Refs -> Shas]) /\ Len(heads') >= 1
    BY <1>1 DEF ServiceInv, ServiceType
  <2> QED
    BY <2>1, <2>2, <2>3 DEF Tick, ServiceInv, ServiceType
<1>3. ASSUME NEW k \in Keys, NEW e, e = cache'[k], e # None
      PROVE  EntryFresh(k, e)'
  <2>1. /\ e = cache[k]
        /\ ~(Now + 1 - e.stored >= Lifetime(e))
    BY <1>3 DEF Tick
  <2>2. e \in Entry /\ EntryFresh(k, e)
    BY <1>3, <2>1 DEF ServiceInv, ServiceType
  <2>3. Now + 1 - e.stored < Lifetime(e)
    BY <2>1, <2>2, NowIsNat, ServiceAssumption DEF Lifetime, Entry, Times, ServiceInv
  <2> QED
    BY <1>1, <2>2, <2>3, EntryFreshStays DEF ServiceInv
<1>4. ASSUME NEW q \in Requests, NEW r, r = request'[q]
      PROVE  RequestFresh(r)'
  <2>1. r \in Request /\ RequestFresh(r)
    BY <1>4 DEF Tick, ServiceInv, ServiceType
  <2> QED
    BY <1>1, <2>1, RequestFreshStays DEF ServiceInv
<1>5. \A k \in Keys : cache'[k] # None => EntryFresh(k, cache[k])'
  BY <1>3 DEF EntryFresh, Fresh
<1>6. \A q \in Requests : RequestFresh(request[q])'
  BY <1>4 DEF RequestFresh, Fresh
<1> QED
  BY <1>2, <1>5, <1>6 DEF ServiceInv

\* An isolate that starts or ends takes nothing but the requests in it.
LEMMA IsolateKeeps ==
    ASSUME ServiceInv, StartIsolate \/ Teardown
    PROVE  ServiceInv'
<1>1. UNCHANGED <<heads, cache, left>>
  BY DEF StartIsolate, Teardown
<1>2. /\ request' \in [Requests -> Request]
      /\ \A q \in Requests : request'[q] = request[q] \/ request'[q] = [stage |-> "idle"]
  <2>1. CASE StartIsolate
    BY <2>1 DEF StartIsolate, ServiceInv, ServiceType
  <2>2. CASE Teardown
    BY <2>2 DEF Teardown, Request
  <2> QED
    BY <2>1, <2>2
<1>3. \A q \in Requests : RequestFresh(request'[q])
  BY <1>2 DEF ServiceInv, RequestFresh
<1> QED
  BY <1>1, <1>2, <1>3 DEF ServiceInv, ServiceType, EntryFresh, RequestFresh, Fresh, Now

\* Every step of a request, of the clock, of an isolate or of a release keeps
\* the invariant of the requests.
LEMMA ServiceStep == ServiceInv /\ [Next]_vars => ServiceInv'
<1> SUFFICES ASSUME ServiceInv, [Next]_vars PROVE ServiceInv'
  OBVIOUS
<1>1. CASE UNCHANGED serviceVars
  BY <1>1 DEF serviceVars, ServiceInv, ServiceType, EntryFresh, RequestFresh, Fresh, Now
<1>2. CASE ServiceNext
  <2>1. ASSUME NEW q \in Requests,
               Receive(q) \/ Refuse(q) \/ Resolve(q) \/ Generate(q) \/ Taken(q)
        PROVE  ServiceInv'
    BY <2>1, ReceiveKeeps, IdleKeeps, ResolveKeeps, GenerateKeeps
  <2>2. ASSUME NEW q \in Requests,
               ReadCache(q) \/ GetFails(q) \/ GenerateFails(q) \/ Save(q)
        PROVE  ServiceInv'
    BY <2>2, ReadCacheKeeps, ErrorKeeps, SaveKeeps
  <2> QED
    BY <1>2, <2>1, <2>2, TickKeeps, IsolateKeeps DEF ServiceNext
<1> QED
  BY <1>1, <1>2 DEF Next, vars

\* Nothing is cached and nothing asked for at first.
LEMMA ServiceInit == Init => ServiceInv
<1> SUFFICES ASSUME Init PROVE ServiceInv
  OBVIOUS
<1> DEFINE Naming == [Refs -> Shas]
<1>1. heads \in Seq(Naming) /\ Len(heads) >= 1
  <2>1. heads \in [1 .. 1 -> Naming]
    BY DEF Init
  <2> HIDE DEF Naming
  <2>2. heads \in Seq(Naming)
    BY <2>1, SeqDef
  <2>3. DOMAIN heads = 1 .. 1 /\ DOMAIN heads = 1 .. Len(heads) /\ Len(heads) \in Nat
    BY <2>1, <2>2, LenProperties
  <2> QED
    BY <2>2, <2>3
<1>2. ServiceType
  BY <1>1, ServiceAssumption DEF Init, ServiceType, Request
<1> QED
  BY <1>2 DEF Init, ServiceInv, RequestFresh

\* Whatever is given or stored is fresh, in every state.
THEOREM FreshAlways == Spec => []ServiceInv
BY ServiceInit, ServiceStep, PTL DEF Spec

\* The types given for a URL are those of its commit, in one spelling and with
\* the URL's ref: an entry of the cache was stored for the URL it is read with.
THEOREM ServedTypesMatch == Spec => []TypesMatchTheirUrl
<1>1. ServiceInv => TypesMatchTheirUrl
  BY DEF ServiceInv, RequestFresh, Fresh, TypesMatchTheirUrl, Answered
<1> QED
  BY <1>1, FreshAlways, PTL

\* A redirect leads to a commit the ref named while it was retrieved, and is
\* given within its lifetime, however the ref moves.
THEOREM RedirectsWithinLifetime == Spec => []RedirectsAreFresh
<1>1. ServiceInv => RedirectsAreFresh
  BY DEF ServiceInv, RequestFresh, Fresh, RedirectsAreFresh, Answered
<1> QED
  BY <1>1, FreshAlways, PTL

-----------------------------------------------------------------------------
(* The records of an isolate.                                               *)

RunRecord == [id : Nat, status : {"ok", "error"}]
Failures(all) == {n \in 1 .. Len(all) : all[n].status = "error"}
Later(all, n) == {m \in Failures(all) : m > n}

\* Every record kept is one that was made, in the same order, at a place of its
\* own; a failure that is not among them has as many later ones as there is
\* room for.
Places(records, all) == [1 .. Len(records) -> 1 .. Len(all)]
Placed(records, all, place) ==
    /\ \A i \in 1 .. Len(records) : records[i] = all[place[i]]
    /\ \A i, j \in 1 .. Len(records) : i < j => place[i] < place[j]
    /\ \A n \in Failures(all) : \/ \E i \in 1 .. Len(records) : place[i] = n
                                \/ Cardinality(Later(all, n)) >= Capacity
LogInv ==
    /\ log \in Seq(RunRecord) /\ ended \in Seq(RunRecord)
    /\ Len(log) = IF Len(ended) <= Capacity THEN Len(ended) ELSE Capacity
    /\ \E place \in Places(log, ended) : Placed(log, ended, place)

\* There are finitely many failures.
LEMMA LaterFinite ==
    ASSUME NEW all \in Seq(RunRecord), NEW n
    PROVE  IsFiniteSet(Later(all, n)) /\ Cardinality(Later(all, n)) \in Nat
<1>1. Len(all) \in Nat
  OBVIOUS
<1>2. IsFiniteSet(1 .. Len(all))
  BY <1>1, FS_Interval
<1>3. Later(all, n) \in SUBSET (1 .. Len(all))
  BY DEF Later, Failures
<1> QED
  BY <1>2, <1>3, FS_Subset, FS_CardinalityType

\* A new record takes the last place.
LEMMA AppendPlaced ==
    ASSUME NEW records \in Seq(RunRecord), NEW all \in Seq(RunRecord),
           NEW place \in Places(records, all),
           Placed(records, all, place), NEW run \in RunRecord
    PROVE  \E more \in Places(Append(records, run), Append(all, run)) :
              Placed(Append(records, run), Append(all, run), more)
<1>1. /\ Len(records) \in Nat /\ Len(all) \in Nat
      /\ Len(Append(records, run)) = Len(records) + 1
      /\ Len(Append(all, run)) = Len(all) + 1
      /\ \A i \in 1 .. Len(records) : Append(records, run)[i] = records[i]
      /\ \A i \in 1 .. Len(all) : Append(all, run)[i] = all[i]
      /\ Append(records, run)[Len(records) + 1] = run
      /\ Append(all, run)[Len(all) + 1] = run
      /\ Append(all, run) \in Seq(RunRecord)
  OBVIOUS
<1> PICK more \in [1 .. Len(records) + 1 -> 1 .. Len(all) + 1] :
           /\ \A i \in 1 .. Len(records) : more[i] = place[i]
           /\ more[Len(records) + 1] = Len(all) + 1
  <2>1. \A i \in 1 .. Len(records) : place[i] \in 1 .. Len(all) + 1
    BY <1>1 DEF Places
  <2>2. \A i \in 1 .. Len(records) + 1 : i # Len(records) + 1 => i \in 1 .. Len(records)
    BY <1>1
  <2> DEFINE new == [i \in 1 .. Len(records) + 1 |->
                       IF i = Len(records) + 1 THEN Len(all) + 1 ELSE place[i]]
  <2>3. new \in [1 .. Len(records) + 1 -> 1 .. Len(all) + 1]
    BY <1>1, <2>1, <2>2
  <2>4. \A i \in 1 .. Len(records) : i \in 1 .. Len(records) + 1 /\ i # Len(records) + 1
    BY <1>1
  <2>5. \A i \in 1 .. Len(records) : new[i] = place[i]
    BY <2>4
  <2>6. new[Len(records) + 1] = Len(all) + 1
    BY <1>1
  <2> QED
    BY <2>3, <2>5, <2>6
<1>2. \A i \in 1 .. Len(records) : place[i] \in 1 .. Len(all) /\ more[i] = place[i]
  BY DEF Places
<1>3. more[Len(records) + 1] = Len(all) + 1
  OBVIOUS
<1>4. more \in Places(Append(records, run), Append(all, run))
  BY <1>1 DEF Places
<1>5. \A i \in 1 .. Len(records) + 1 : Append(records, run)[i] = Append(all, run)[more[i]]
  <2> SUFFICES ASSUME NEW i \in 1 .. Len(records) + 1
               PROVE  Append(records, run)[i] = Append(all, run)[more[i]]
    OBVIOUS
  <2>1. CASE i = Len(records) + 1
    BY <1>1, <1>3, <2>1
  <2>2. CASE i \in 1 .. Len(records)
    <3>1. records[i] = all[place[i]]
      BY <2>2 DEF Placed
    <3> QED
      BY <1>1, <1>2, <2>2, <3>1
  <2> QED
    BY <1>1, <2>1, <2>2
<1>6. \A i, j \in 1 .. Len(records) + 1 : i < j => more[i] < more[j]
  <2> SUFFICES ASSUME NEW i \in 1 .. Len(records) + 1, NEW j \in 1 .. Len(records) + 1, i < j
               PROVE  more[i] < more[j]
    OBVIOUS
  <2>1. i \in 1 .. Len(records)
    BY <1>1
  <2>2. CASE j = Len(records) + 1
    <3>1. more[i] \in 1 .. Len(all) /\ more[j] = Len(all) + 1
      BY <1>2, <1>3, <2>1, <2>2
    <3> QED
      BY <1>1, <3>1
  <2>3. CASE j \in 1 .. Len(records)
    BY <1>2, <2>1, <2>3 DEF Placed
  <2> QED
    BY <1>1, <2>2, <2>3
<1>7. ASSUME NEW n \in Failures(Append(all, run))
      PROVE  \/ \E i \in 1 .. Len(records) + 1 : more[i] = n
             \/ Cardinality(Later(Append(all, run), n)) >= Capacity
  <2>1. CASE n = Len(all) + 1
    BY <1>1, <1>3, <2>1
  <2>2. CASE n # Len(all) + 1
    <3>1. n \in Failures(all)
      BY <1>1, <2>2 DEF Failures
    <3>2. CASE \E i \in 1 .. Len(records) : place[i] = n
      BY <1>1, <1>2, <3>2
    <3>3. CASE Cardinality(Later(all, n)) >= Capacity
      <4>1. Later(all, n) \in SUBSET Later(Append(all, run), n)
        BY <1>1 DEF Later, Failures
      <4>2. /\ IsFiniteSet(Later(Append(all, run), n))
            /\ Cardinality(Later(Append(all, run), n)) \in Nat
            /\ Cardinality(Later(all, n)) \in Nat
        BY <1>1, LaterFinite
      <4>3. Cardinality(Later(all, n)) <= Cardinality(Later(Append(all, run), n))
        BY <4>1, <4>2, FS_Subset
      <4> QED
        BY <3>3, <4>2, <4>3, ServiceAssumption
    <3> QED
      BY <3>1, <3>2, <3>3 DEF Placed
  <2> QED
    BY <2>1, <2>2
<1> QED
  BY <1>1, <1>4, <1>5, <1>6, <1>7 DEF Placed

\* What is removed from a sequence leaves the others in their order.
LEMMA GluedProperties ==
    ASSUME NEW records \in Seq(RunRecord), NEW d \in 1 .. Len(records),
           NEW front \in Seq(RunRecord), NEW back \in Seq(RunRecord),
           Len(front) = d - 1, \A i \in 1 .. d - 1 : front[i] = records[i],
           Len(back) = Len(records) - d,
           \A i \in 1 .. Len(records) - d : back[i] = records[d + i]
    PROVE  /\ front \o back \in Seq(RunRecord)
           /\ Len(front \o back) = Len(records) - 1
           /\ \A i \in 1 .. Len(records) - 1 :
                (front \o back)[i] = IF i < d THEN records[i] ELSE records[i + 1]
<1>1. Len(records) \in Nat /\ d \in Nat /\ d >= 1 /\ d <= Len(records)
  OBVIOUS
<1>2. Len(front) + Len(back) = Len(records) - 1
  BY <1>1
<1>3. /\ front \o back \in Seq(RunRecord)
      /\ Len(front \o back) = Len(records) - 1
      /\ \A i \in 1 .. Len(records) - 1 :
           (front \o back)[i] = IF i <= Len(front) THEN front[i] ELSE back[i - Len(front)]
  <2>1. /\ front \o back \in Seq(RunRecord)
        /\ Len(front \o back) = Len(front) + Len(back)
        /\ \A i \in 1 .. Len(front) + Len(back) :
             (front \o back)[i] = IF i <= Len(front) THEN front[i] ELSE back[i - Len(front)]
    BY ConcatProperties
  <2>2. ASSUME NEW n, n = Len(records) - 1, n = Len(front) + Len(back)
        PROVE  /\ Len(front \o back) = n
               /\ \A i \in 1 .. n : (front \o back)[i] =
                     IF i <= Len(front) THEN front[i] ELSE back[i - Len(front)]
    BY <2>1, <2>2
  <2> QED
    BY <1>2, <2>1, <2>2
<1>4. ASSUME NEW i \in 1 .. Len(records) - 1
      PROVE  (front \o back)[i] = IF i < d THEN records[i] ELSE records[i + 1]
  <2>1. CASE i < d
    <3>1. i \in 1 .. d - 1 /\ i <= Len(front)
      BY <1>1, <2>1
    <3> QED
      BY <1>3, <2>1, <3>1
  <2>2. CASE ~(i < d)
    <3>1. i - Len(front) \in 1 .. Len(records) - d /\ d + (i - Len(front)) = i + 1
          /\ ~(i <= Len(front))
      BY <1>1, <2>2
    <3>2. (front \o back)[i] = back[i - Len(front)]
      BY <1>3, <3>1
    <3> QED
      BY <2>2, <3>1, <3>2
  <2> QED
    BY <2>1, <2>2
<1> QED
  BY <1>3, <1>4

\* A log without the record at d has the others at their places before d and
\* one place earlier after it.
LEMMA RemoveAtProperties ==
    ASSUME NEW records \in Seq(RunRecord), NEW d \in 1 .. Len(records)
    PROVE  /\ RemoveAt(records, d) \in Seq(RunRecord)
           /\ Len(RemoveAt(records, d)) = Len(records) - 1
           /\ \A i \in 1 .. Len(records) - 1 :
                RemoveAt(records, d)[i] = IF i < d THEN records[i] ELSE records[i + 1]
<1> DEFINE front == SubSeq(records, 1, d - 1)
           back == SubSeq(records, d + 1, Len(records))
<1>1. Len(records) \in Nat /\ d \in Nat /\ d >= 1 /\ d <= Len(records)
  OBVIOUS
<1>2. \A i \in 1 .. Len(records) : records[i] \in RunRecord
  OBVIOUS
<1>3. /\ front \in Seq(RunRecord) /\ Len(front) = d - 1
      /\ \A i \in 1 .. d - 1 : front[i] = records[i]
  <2>1. \A i \in 1 .. d - 1 : records[i] \in RunRecord
    BY <1>1, <1>2
  <2>2. /\ SubSeq(records, 1, d - 1) \in Seq(RunRecord)
        /\ Len(SubSeq(records, 1, d - 1)) = IF 1 <= d - 1 THEN d - 1 - 1 + 1 ELSE 0
        /\ \A i \in 1 .. d - 1 - 1 + 1 : SubSeq(records, 1, d - 1)[i] = records[1 + i - 1]
    BY <1>1, <2>1, SubSeqProperties
  <2> QED
    BY <1>1, <2>2
<1>4. /\ back \in Seq(RunRecord) /\ Len(back) = Len(records) - d
      /\ \A i \in 1 .. Len(records) - d : back[i] = records[d + i]
  <2>1. \A i \in d + 1 .. Len(records) : records[i] \in RunRecord
    BY <1>1, <1>2
  <2>2. /\ SubSeq(records, d + 1, Len(records)) \in Seq(RunRecord)
        /\ Len(SubSeq(records, d + 1, Len(records))) =
             IF d + 1 <= Len(records) THEN Len(records) - (d + 1) + 1 ELSE 0
        /\ \A i \in 1 .. Len(records) - (d + 1) + 1 :
             SubSeq(records, d + 1, Len(records))[i] = records[d + 1 + i - 1]
    BY <1>1, <2>1, SubSeqProperties
  <2> QED
    BY <1>1, <2>2
<1>5. RemoveAt(records, d) = front \o back
  BY DEF RemoveAt
<1> HIDE DEF front, back
<1>6. /\ front \o back \in Seq(RunRecord)
      /\ Len(front \o back) = Len(records) - 1
      /\ \A i \in 1 .. Len(records) - 1 :
           (front \o back)[i] = IF i < d THEN records[i] ELSE records[i + 1]
  BY <1>3, <1>4, GluedProperties
<1> QED
  BY <1>5, <1>6

\* A success may go; and so may the oldest record when all are failures and one
\* more than there is room for.
LEMMA RemovePlaced ==
    ASSUME NEW records \in Seq(RunRecord), NEW all \in Seq(RunRecord),
           NEW place \in Places(records, all),
           Placed(records, all, place), NEW d \in 1 .. Len(records),
           \/ records[d].status = "ok"
           \/ /\ d = 1 /\ Len(records) = Capacity + 1
              /\ \A i \in 1 .. Len(records) : records[i].status = "error"
    PROVE  \E fewer \in Places(RemoveAt(records, d), all) :
              Placed(RemoveAt(records, d), all, fewer)
<1> PICK rest \in Seq(RunRecord) :
           /\ rest = RemoveAt(records, d)
           /\ Len(rest) = Len(records) - 1
           /\ \A i \in 1 .. Len(records) - 1 :
                rest[i] = IF i < d THEN records[i] ELSE records[i + 1]
  BY RemoveAtProperties
<1>1. /\ Len(rest) = Len(records) - 1
      /\ \A i \in 1 .. Len(records) - 1 :
           rest[i] = IF i < d THEN records[i] ELSE records[i + 1]
  OBVIOUS
<1>2. Len(records) \in Nat /\ Len(all) \in Nat /\ d \in Nat /\ Capacity \in Nat \ {0}
  BY ServiceAssumption
<1>3. /\ \A i \in 1 .. Len(records) : place[i] \in 1 .. Len(all) /\ records[i] = all[place[i]]
      /\ \A i, j \in 1 .. Len(records) : i < j => place[i] < place[j]
  BY DEF Placed, Places
<1> PICK fewer \in [1 .. Len(records) - 1 -> 1 .. Len(all)] :
           \A i \in 1 .. Len(records) - 1 :
              fewer[i] = IF i < d THEN place[i] ELSE place[i + 1]
  <2>1. \A i \in 1 .. Len(records) - 1 :
          /\ i \in 1 .. Len(records) /\ i + 1 \in 1 .. Len(records)
    BY <1>2
  <2>2. \A i \in 1 .. Len(records) - 1 :
          place[i] \in 1 .. Len(all) /\ place[i + 1] \in 1 .. Len(all)
    BY <1>3, <2>1
  <2>3. [i \in 1 .. Len(records) - 1 |-> IF i < d THEN place[i] ELSE place[i + 1]]
          \in [1 .. Len(records) - 1 -> 1 .. Len(all)]
    BY <2>2
  <2> QED
    BY <2>3
<1>4. \A i \in 1 .. Len(records) - 1 :
        /\ i \in 1 .. Len(records) /\ i + 1 \in 1 .. Len(records)
        /\ fewer[i] = IF i < d THEN place[i] ELSE place[i + 1]
  BY <1>2
<1>5. fewer \in Places(rest, all)
  BY <1>1 DEF Places
<1>6. ASSUME NEW i \in 1 .. Len(rest)
      PROVE  rest[i] = all[fewer[i]]
  <2>1. /\ i \in 1 .. Len(records) - 1 /\ i \in 1 .. Len(records) /\ i + 1 \in 1 .. Len(records)
        /\ rest[i] = IF i < d THEN records[i] ELSE records[i + 1]
        /\ fewer[i] = IF i < d THEN place[i] ELSE place[i + 1]
    BY <1>1, <1>4
  <2>2. records[i] = all[place[i]] /\ records[i + 1] = all[place[i + 1]]
    BY <1>3, <2>1
  <2> QED
    BY <2>1, <2>2
<1>7. ASSUME NEW i \in 1 .. Len(rest), NEW j \in 1 .. Len(rest), i < j
      PROVE  fewer[i] < fewer[j]
  <2>1. /\ i \in 1 .. Len(records) /\ i + 1 \in 1 .. Len(records)
        /\ j \in 1 .. Len(records) /\ j + 1 \in 1 .. Len(records)
        /\ i < j + 1 /\ i + 1 < j + 1
    BY <1>1, <1>2, <1>7
  <2>2. place[i] < place[j] /\ place[i] < place[j + 1] /\ place[i + 1] < place[j + 1]
    BY <1>3, <1>7, <2>1
  <2>3. i >= d => ~(j < d)
    BY <1>2, <1>7
  <2> QED
    BY <1>1, <1>2, <1>4, <2>2, <2>3
<1>8. ASSUME NEW n \in Failures(all)
      PROVE  \/ \E i \in 1 .. Len(rest) : fewer[i] = n
             \/ Cardinality(Later(all, n)) >= Capacity
  <2>1. ASSUME NEW i \in 1 .. Len(records), place[i] = n, i # d
        PROVE  \E k \in 1 .. Len(rest) : fewer[k] = n
    <3>1. CASE i < d
      <4>1. i \in 1 .. Len(rest) /\ fewer[i] = n
        BY <1>1, <1>2, <1>4, <2>1, <3>1
      <4> QED
        BY <4>1
    <3>2. CASE i > d
      <4>1. i - 1 \in 1 .. Len(rest) /\ ~(i - 1 < d) /\ i - 1 + 1 = i
        BY <1>1, <1>2, <3>2
      <4>2. fewer[i - 1] = n
        BY <1>1, <1>4, <2>1, <4>1
      <4> QED
        BY <4>1, <4>2
    <3> QED
      BY <1>2, <2>1, <3>1, <3>2
  <2>2. ASSUME place[d] = n
        PROVE  Cardinality(Later(all, n)) >= Capacity
    <3>1. records[d].status = "error"
      BY <1>3, <2>2 DEF Failures
    <3>2. /\ d = 1 /\ Len(records) = Capacity + 1
          /\ \A i \in 1 .. Len(records) : records[i].status = "error"
      BY <3>1
    <3> PICK next : next = [i \in 1 .. Capacity |-> place[i + 1]]
      OBVIOUS
    <3>3. ASSUME NEW i \in 1 .. Capacity
          PROVE  i + 1 \in 1 .. Len(records) /\ next[i] = place[i + 1] /\ next[i] \in Later(all, n)
      <4>1. i + 1 \in 1 .. Len(records) /\ 1 \in 1 .. Len(records) /\ 1 < i + 1
        BY <1>2, <3>2
      <4>2. place[i + 1] > n
        BY <1>3, <2>2, <3>2, <4>1
      <4>3. place[i + 1] \in Failures(all)
        BY <1>3, <3>2, <4>1 DEF Failures
      <4> QED
        BY <4>1, <4>2, <4>3 DEF Later
    <3>4. \A i, j \in 1 .. Capacity : next[i] = next[j] => i = j
      <4> SUFFICES ASSUME NEW i \in 1 .. Capacity, NEW j \in 1 .. Capacity, i # j
                   PROVE  next[i] # next[j]
        OBVIOUS
      <4>1. /\ i + 1 \in 1 .. Len(records) /\ j + 1 \in 1 .. Len(records)
            /\ i + 1 < j + 1 \/ j + 1 < i + 1
            /\ next[i] = place[i + 1] /\ next[j] = place[j + 1]
        BY <1>2, <3>3
      <4>2. place[i + 1] < place[j + 1] \/ place[j + 1] < place[i + 1]
        BY <1>3, <4>1
      <4>3. place[i + 1] \in Int /\ place[j + 1] \in Int
        BY <1>3, <4>1
      <4> QED
        BY <4>1, <4>2, <4>3
    <3>5. next \in Injection(1 .. Capacity, Later(all, n))
      BY <3>3, <3>4 DEF Injection, IsInjective
    <3>6. IsFiniteSet(Later(all, n)) /\ Cardinality(Later(all, n)) \in Nat
      BY LaterFinite
    <3>7. Cardinality(1 .. Capacity) <= Cardinality(Later(all, n))
      BY <3>5, <3>6, FS_Injection
    <3>8. Cardinality(1 .. Capacity) = Capacity
      BY <1>2, FS_Interval
    <3> QED
      BY <1>2, <3>6, <3>7, <3>8
  <2>3. \/ \E i \in 1 .. Len(records) : place[i] = n
        \/ Cardinality(Later(all, n)) >= Capacity
    BY DEF Placed
  <2> QED
    BY <2>1, <2>2, <2>3
<1> QED
  BY <1>5, <1>6, <1>7, <1>8 DEF Placed

\* The least of some numbers is one of them.
LEMMA MinOf ==
    ASSUME NEW S \in SUBSET Nat, S # {}
    PROVE  Min(S) \in S
<1>1. PICK m \in S : \A n \in S : ~(<<n, m>> \in OpToRel(<, Nat))
  BY NatLessThanWellFounded, WFMin
<1>2. ASSUME NEW n \in S PROVE m <= n
  <2>1. n \in Nat /\ m \in Nat
    OBVIOUS
  <2>2. ~(n < m)
    BY <1>1, <2>1 DEF OpToRel
  <2> QED
    BY <2>1, <2>2
<1> QED
  BY <1>2 DEF Min

\* The recorder keeps a record of each failure that matters.
LEMMA RecordKeepsLog ==
    ASSUME LogInv, NEW run \in RunRecord,
           log' = Evict(Append(log, run)), ended' = Append(ended, run)
    PROVE  LogInv'
<1> PICK records \in Seq(RunRecord) : records = Append(log, run)
  <2>1. Append(log, run) \in Seq(RunRecord)
    BY DEF LogInv
  <2> QED
    BY <2>1
<1> PICK all \in Seq(RunRecord) : all = Append(ended, run)
  <2>1. Append(ended, run) \in Seq(RunRecord)
    BY DEF LogInv
  <2> QED
    BY <2>1
<1>1. /\ log \in Seq(RunRecord) /\ ended \in Seq(RunRecord)
      /\ Len(records) = Len(log) + 1 /\ Len(all) = Len(ended) + 1
      /\ Len(log) = IF Len(ended) <= Capacity THEN Len(ended) ELSE Capacity
      /\ Len(log) \in Nat /\ Len(ended) \in Nat /\ Capacity \in Nat \ {0}
  BY ServiceAssumption DEF LogInv
<1>2. PICK place \in Places(records, all) : Placed(records, all, place)
  BY AppendPlaced DEF LogInv
<1>3. CASE Len(records) <= Capacity
  <2>1. log' = records /\ ended' = all
    BY <1>3 DEF Evict
  <2>2. Len(log') = IF Len(ended') <= Capacity THEN Len(ended') ELSE Capacity
    <3>1. Len(all) <= Capacity /\ Len(records) = Len(all)
      BY <1>1, <1>3
    <3> QED
      BY <2>1, <3>1
  <2> QED
    BY <1>2, <2>1, <2>2 DEF LogInv
<1>4. CASE ~(Len(records) <= Capacity)
  <2> DEFINE ok == {i \in DOMAIN records : records[i].status = "ok"}
  <2> PICK d : d = IF ok = {} THEN 1 ELSE Min(ok)
    OBVIOUS
  <2>1. log' = RemoveAt(records, d) /\ ended' = all
    BY <1>4 DEF Evict
  <2>2. Len(records) = Capacity + 1 /\ DOMAIN records = 1 .. Len(records)
    BY <1>1, <1>4
  <2>3. ok # {} => d \in ok
    <3>1. ok \in SUBSET Nat
      BY <2>2
    <3> HIDE DEF ok
    <3> QED
      BY <3>1, MinOf
  <2>4. d \in 1 .. Len(records)
    <3>1. CASE ok = {}
      BY <1>1, <3>1
    <3>2. CASE ok # {}
      BY <2>2, <2>3, <3>2
    <3> QED
      BY <3>1, <3>2
  <2>5. \/ records[d].status = "ok"
        \/ /\ d = 1 /\ Len(records) = Capacity + 1
           /\ \A i \in 1 .. Len(records) : records[i].status = "error"
    <3>1. \A i \in 1 .. Len(records) : records[i].status \in {"ok", "error"}
      <4>1. \A i \in 1 .. Len(records) : records[i] \in RunRecord
        OBVIOUS
      <4> QED
        BY <4>1 DEF RunRecord
    <3> QED
      BY <2>2, <2>3, <3>1
  <2> HIDE DEF ok
  <2>6. \E fewer \in Places(RemoveAt(records, d), all) :
           Placed(RemoveAt(records, d), all, fewer)
    BY <1>2, <2>4, <2>5, RemovePlaced
  <2>7. RemoveAt(records, d) \in Seq(RunRecord) /\ Len(RemoveAt(records, d)) = Len(records) - 1
    BY <2>4, RemoveAtProperties
  <2>8. Len(log') = IF Len(ended') <= Capacity THEN Len(ended') ELSE Capacity
    <3>1. Len(log') = Capacity /\ Len(all) = Len(ended) + 1 /\ Len(ended') = Len(all)
      BY <1>1, <2>1, <2>2, <2>7
    <3>2. ~(Len(all) <= Capacity) \/ Len(all) = Capacity
      BY <1>1, <2>2
    <3> QED
      BY <3>1, <3>2
  <2> QED
    BY <2>1, <2>6, <2>7, <2>8 DEF LogInv
<1> QED
  BY <1>3, <1>4

\* A log without records has nothing to place.
LEMMA EmptyPlaced == \E place \in Places(<<>>, <<>>) : Placed(<<>>, <<>>, place)
<1>1. Len(<<>>) = 0 /\ 1 .. 0 = {}
  OBVIOUS
<1>2. [i \in {} |-> 0] \in Places(<<>>, <<>>)
  BY <1>1 DEF Places
<1>3. Placed(<<>>, <<>>, [i \in {} |-> 0])
  BY <1>1 DEF Placed, Failures
<1> QED
  BY <1>2, <1>3

\* Records are only made by the recorder, of requests that are in flight.
LEMMA LogStep ==
    ASSUME ServiceInv, LogInv, [Next]_vars
    PROVE  LogInv'
<1>1. CASE UNCHANGED <<log, ended>>
  BY <1>1 DEF LogInv
<1>2. ASSUME NEW q \in Requests, NEW status \in {"ok", "error"}, Record(q, status),
             request[q].stage \in {"read", "upstream", "save"}
      PROVE  LogInv'
  <2>1. request[q] \in Request
    BY DEF ServiceInv, ServiceType
  <2>2. request[q].id \in Nat
    BY <1>2, <2>1 DEF Request
  <2>3. PICK run \in RunRecord : run = [id |-> request[q].id, status |-> status]
    BY <2>2 DEF RunRecord
  <2> QED
    BY <1>2, <2>3, RecordKeepsLog DEF Record
<1>3. CASE Teardown
  <2>1. log' = <<>> /\ ended' = <<>>
    BY <1>3 DEF Teardown
  <2> QED
    BY <2>1, EmptyPlaced, ServiceAssumption DEF LogInv
<1>4. ASSUME NEW q \in Requests, Receive(q) \/ Resolve(q) \/ Generate(q) \/ Taken(q)
      PROVE  LogInv'
  BY <1>1, <1>4 DEF Receive, Resolve, Generate, Retrieved, Taken
<1>5. ASSUME NEW q \in Requests, Refuse(q) \/ ReadCache(q) \/ GetFails(q)
                                 \/ GenerateFails(q) \/ Save(q)
      PROVE  LogInv'
  <2>1. CASE Refuse(q)
    BY <1>2, <2>1 DEF Refuse
  <2>2. CASE ReadCache(q)
    BY <1>1, <1>2, <2>2 DEF ReadCache, Answer
  <2>3. CASE GetFails(q)
    BY <1>2, <2>3 DEF GetFails, Answer
  <2>4. CASE GenerateFails(q)
    BY <1>2, <2>4 DEF GenerateFails, Answer
  <2>5. CASE Save(q)
    BY <1>2, <2>5 DEF Save, Answer
  <2> QED
    BY <1>5, <2>1, <2>2, <2>3, <2>4, <2>5
<1>6. CASE Tick \/ StartIsolate
  BY <1>1, <1>6 DEF Tick, StartIsolate
<1>7. CASE ServiceNext
  BY <1>3, <1>4, <1>5, <1>6, <1>7 DEF ServiceNext
<1>8. CASE left.releasing /\ ReleaseNext /\ UNCHANGED serviceVars
  BY <1>1, <1>8 DEF serviceVars
<1> QED
  BY <1>1, <1>7, <1>8 DEF Next, vars, serviceVars

\* The newest failures stay in an isolate's log, however many successes and
\* failures end in which order, and nothing goes while there is room.
THEOREM FailuresStay == Spec => []NewestFailuresKept
<1>1. Init => LogInv
  <2> SUFFICES ASSUME Init PROVE LogInv
    OBVIOUS
  <2>1. log = <<>> /\ ended = <<>>
    BY DEF Init
  <2> QED
    BY <2>1, EmptyPlaced, ServiceAssumption DEF LogInv
<1>2. ServiceInv /\ LogInv /\ [Next]_vars => LogInv'
  BY LogStep
<1>3. LogInv => NewestFailuresKept
  <2> SUFFICES ASSUME LogInv PROVE NewestFailuresKept
    OBVIOUS
  <2>1. PICK place \in Places(log, ended) : Placed(log, ended, place)
    BY DEF LogInv
  <2>2. /\ Len(log) \in Nat /\ Len(ended) \in Nat /\ Capacity \in Nat
        /\ DOMAIN log = 1 .. Len(log) /\ DOMAIN ended = 1 .. Len(ended)
    BY ServiceAssumption DEF LogInv
  <2>3. ASSUME NEW n \in Failures(ended), Cardinality(Later(ended, n)) < Capacity
        PROVE  ended[n] \in Range(log)
    <3>1. Cardinality(Later(ended, n)) \in Nat
      BY LaterFinite DEF LogInv
    <3>2. ~(Cardinality(Later(ended, n)) >= Capacity)
      BY <2>2, <2>3, <3>1
    <3>3. PICK i \in 1 .. Len(log) : place[i] = n
      BY <2>1, <3>2 DEF Placed
    <3>4. log[i] = ended[n]
      BY <2>1, <3>3 DEF Placed
    <3> QED
      BY <2>2, <3>3, <3>4 DEF Range
  <2>4. Len(log) = Min({Capacity, Len(ended)})
    <3>1. PICK least : least = IF Len(ended) <= Capacity THEN Len(ended) ELSE Capacity
      OBVIOUS
    <3>2. /\ least \in {Capacity, Len(ended)} /\ least \in Nat
          /\ \A x \in {Capacity, Len(ended)} : least <= x
      BY <2>2, <3>1
    <3>3. \A x \in {Capacity, Len(ended)} :
            (\A y \in {Capacity, Len(ended)} : x <= y) => x = least
      <4> SUFFICES ASSUME NEW x \in {Capacity, Len(ended)},
                          \A y \in {Capacity, Len(ended)} : x <= y
                   PROVE  x = least
        OBVIOUS
      <4>1. x <= Capacity /\ x <= Len(ended) /\ x \in Nat
        BY <2>2
      <4>2. least <= x
        BY <3>2
      <4>3. x <= least
        BY <3>2
      <4>4. x \in Nat /\ least \in Nat
        BY <3>2, <4>1
      <4> QED
        BY <4>2, <4>3, <4>4
    <3>4. Min({Capacity, Len(ended)}) = least
      BY <3>2, <3>3 DEF Min
    <3> QED
      BY <3>1, <3>4 DEF LogInv
  <2> QED
    BY <2>2, <2>3, <2>4 DEF NewestFailuresKept, Failures, Later
<1> QED
  BY <1>1, <1>2, <1>3, FreshAlways, PTL DEF Spec

=============================================================================
