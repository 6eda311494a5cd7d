------------------------------- MODULE Release -------------------------------
(***************************************************************************)
(* Release runs (scripts/release): each builds the package and the Worker  *)
(* of the type service from one commit, publishes the package in the JSR   *)
(* registry or verifies what is published there, and then deploys the      *)
(* Worker.  Registry and host are remote: a call may take effect and be    *)
(* reported as failed, and what was published may not be visible yet.      *)
(***************************************************************************)
EXTENDS Naturals

CONSTANTS
    Runs,       \* release runs
    Versions,   \* versions of the package
    Commits,    \* commits of the repository
    None        \* nothing published, nothing deployed

VARIABLES
    registry,   \* the commit whose files every version has in the registry
    worker,     \* what is deployed: a version, its commit, its bindings
    release,    \* every run
    faults      \* bound: failures still to come

releaseVars == <<registry, worker, release, faults>>

\* The bindings of the service that come with the Worker's code.
Credentials == {"GITHUB_OAUTH_CLIENT_ID", "GITHUB_OAUTH_CLIENT_SECRET"}
Upload == {"CLOUDFLARE_API_TOKEN", "CLOUDFLARE_ACCOUNT_ID"}

\* Nothing is released yet, or an earlier run has released a version.
ReleaseInit ==
    /\ \/ registry = [v \in Versions |-> None] /\ worker = None
       \/ \E v \in Versions, c \in Commits :
            /\ registry = [[w \in Versions |-> None] EXCEPT ![v] = c]
            /\ worker = [version |-> v, commit |-> c, bindings |-> Credentials]
    /\ release = [r \in Runs |-> [stage |-> "idle"]]

Enter(r, stage) == release' = [release EXCEPT ![r].stage = stage]

\* A failure that the run cannot tell from one without effect: the stage's
\* operation throws, or the process is killed.
Fail(r) ==
    /\ faults > 0
    /\ faults' = faults - 1
    /\ Enter(r, "failed")

-----------------------------------------------------------------------------

\* A run of the release workflow for a version; a failed one is run again, on
\* its own commit.
StartRun(r) == \E v \in Versions, c \in Commits :
    /\ \/ release[r].stage = "idle"
       \/ release[r].stage = "failed" /\ v = release[r].version /\ c = release[r].commit
    /\ release' = [release EXCEPT ![r] =
         [stage |-> "build", version |-> v, commit |-> c, environment |-> {}]]
    /\ UNCHANGED <<registry, worker, faults>>

\* The checkout must be the workflow's commit and unchanged; the archive is
\* read from the commit's tree and has the commit stamped into it.
Build(r) ==
    /\ release[r].stage = "build"
    /\ \/ Enter(r, "archiveRead") /\ UNCHANGED faults
       \/ Fail(r)
    /\ UNCHANGED <<registry, worker>>

VerifyNothing(r, published) == TRUE

\* The files in the registry are those of the archive: sizes, checksums and
\* exports.  The stamped commit tells the archives of two commits apart.
VerifyContent(r, published) == published = release[r].commit
\* A version that is seen in the registry is verified instead of published.
\* registryMetadata may answer 404 for one that is not visible yet.
ReadRegistry(r) ==
    LET version == release[r].version IN
    /\ release[r].stage = "archiveRead"
    /\ \/ /\ registry[version] # None
          /\ Enter(r, IF VerifyContent(r, registry[version]) THEN "deploy" ELSE "failed")
          /\ UNCHANGED faults
       \/ registry[version] = None /\ Enter(r, "publish") /\ UNCHANGED faults
       \/ /\ faults > 0   \* not visible yet
          /\ faults' = faults - 1
          /\ Enter(r, "publish")
       \/ Fail(r)
    /\ UNCHANGED <<registry, worker>>

\* What the registry has never changes: deno publish skips a version that exists.
Publish(r) ==
    LET version == release[r].version
        published == IF registry[version] = None
                     THEN [registry EXCEPT ![version] = release[r].commit]
                     ELSE registry
    IN  /\ release[r].stage = "publish"
        /\ \/ registry' = published /\ Enter(r, "verify") /\ UNCHANGED faults
           \/ registry' \in {registry, published} /\ Fail(r)
        /\ UNCHANGED worker

VerifyPublished(r) ==
    /\ release[r].stage = "verify"
    /\ \/ /\ Enter(r, IF VerifyContent(r, registry[release[r].version])
                      THEN "deploy" ELSE "failed")
          /\ UNCHANGED faults
       \/ Fail(r)   \* or not visible yet: "retry the same commit"
    /\ UNCHANGED <<registry, worker>>

\* fnox resolves the secrets for a child process, which requires all of them
\* and writes the service's into a file for the upload.
Required(environment) == Credentials \cup Upload \subseteq environment

FnoxExec(r) ==
    /\ release[r].stage = "deploy"
    /\ \/ \E environment \in {Credentials \cup Upload, Upload, Credentials} :
            /\ Required(environment)
            /\ release' = [release EXCEPT ![r].stage = "upload",
                                          ![r].environment = environment]
            /\ UNCHANGED faults
       \/ Fail(r)
    /\ UNCHANGED <<registry, worker>>

\* One upload of code and secrets.
UploadWorker(r) ==
    LET uploaded == [version |-> release[r].version, commit |-> release[r].commit,
                     bindings |-> release[r].environment \cap Credentials]
    IN  /\ release[r].stage = "upload"
        /\ \/ worker' = uploaded /\ Enter(r, "released") /\ UNCHANGED faults
           \/ worker' \in {worker, uploaded} /\ Fail(r)
        /\ UNCHANGED registry

ReleaseNext == \E r \in Runs :
    \/ StartRun(r) \/ Build(r) \/ ReadRegistry(r) \/ Publish(r)
    \/ VerifyPublished(r) \/ FnoxExec(r) \/ UploadWorker(r)

-----------------------------------------------------------------------------
(* Properties.                                                              *)

\* The Worker that serves is of a version whose package in the registry was
\* built from the same commit, and has the credentials it asks GitHub with,
\* whichever runs and retries failed where.
DeployedIsPublished == worker # None =>
    /\ registry[worker.version] = worker.commit
    /\ worker.bindings = Credentials

=============================================================================
