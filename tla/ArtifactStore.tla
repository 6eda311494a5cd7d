---------------------------- MODULE ArtifactStore ----------------------------
(***************************************************************************)
(* The runner-local store of compiled task runtimes and the two commands   *)
(* that use it (src/task-runtime/prepare.ts, cache.ts).  Several           *)
(* invocations, each a process of its own, share one platform cache: the   *)
(* published runtimes of one artifact key, the build cache's entry of that *)
(* key and the markers of rejected checksums.  They take no lock; renames  *)
(* and checksums are all there is.                                         *)
(*                                                                         *)
(* A directory holds a manifest and a binary.  A file is abstracted to its *)
(* content, and a manifest to the checksum it states, so that a directory  *)
(* is sound when the two agree.  Junk is every content that no compiler    *)
(* run produced: a truncated file, a bit flip, a manifest that does not    *)
(* parse or that is of another key.                                        *)
(***************************************************************************)
EXTENDS Integers, FiniteSets

CONSTANTS
    Procs,           \* concurrent command invocations
    Binaries,        \* the binaries a compiler run can produce
    Junk, None,      \* a damaged file's content; no file
    MaxInvocations,  \* bound: invocations started in a behaviour
    MaxRecoveries,   \* bound: recovery directory names drawn
    MaxDamage,       \* bound: files damaged by the environment
    Faulty           \* TRUE: any file system or compiler call may fail

ASSUME ConstantsAssumption ==
    /\ Junk \notin Binaries
    /\ None \notin Binaries \cup {Junk}
    /\ MaxInvocations \in Nat
    /\ MaxRecoveries \in Nat
    /\ MaxDamage \in Nat
    /\ Faulty \in BOOLEAN

VARIABLES
    runtimes,  \* runtimes/<key> and its recovery directories, by path
    cache,     \* cache/artifacts/<key>
    rejected,  \* runtimes/.rejected/<key>/<checksum> markers
    pc,        \* the next step of each invocation
    inv,       \* the locals of each invocation
    issued,    \* recovery names drawn so far
    started,   \* invocations started so far
    damaged    \* history: the runtime paths the environment damaged

vars == <<runtimes, cache, rejected, pc, inv, issued, started, damaged>>

Contents == Binaries \cup {Junk}
Checksums == Contents \cup {None}  \* of a file; None where there is no file
Dir == [man : Checksums, bin : Checksums]
Absent == [man |-> None, bin |-> None]
Built(b) == [man |-> b, bin |-> b]
Sound(d) == d.bin \in Binaries /\ d.man = d.bin

\* runtimes/<key> itself; every other path is <key>.recovery-<uuid>.
Main == 0
Paths == 0 .. MaxRecoveries
NoPath == -1
CacheEntry == -2

Phases == {"restore", "plan", "hit", "built"}

Invocation ==
    [phase     : Phases,
     rebuild   : BOOLEAN,
     delivery  : Dir,                   \* the transport directory
     readable  : BOOLEAN,               \* its binary can be read
     reject    : Checksums,             \* rejectedChecksum, when known
     rejectAny : BOOLEAN,               \* rejectedChecksum = "unknown"
     restored  : Dir,                   \* build/<uuid>/restored
     built     : Dir,                   \* build/<uuid>/built
     dest      : Paths \cup {NoPath},   \* where materializeArtifact publishes
     result    : Paths \cup {NoPath},   \* the runtime path it returned
     failed    : Checksums,             \* history: the binary it was given
     seen      : SUBSET Checksums]      \* history: markers it must respect

NoInvocation ==
    [phase |-> "plan", rebuild |-> FALSE, delivery |-> Absent, readable |-> TRUE,
     reject |-> None, rejectAny |-> FALSE, restored |-> Absent,
     built |-> Absent, dest |-> NoPath, result |-> NoPath,
     failed |-> None, seen |-> {}]

Fresh(d, r, phase, rebuild) ==
    [NoInvocation EXCEPT !.phase = phase, !.rebuild = rebuild, !.delivery = d,
                         !.readable = r, !.failed = d.bin, !.seen = rejected]

Resting == {"idle", "returned", "failed", "crashed"}
Materializing == {"validateExisting", "rejectExisting", "stat", "publish",
                  "validateWinner"}
Storing == {"storeEvict", "storePublish"}
Steps == Materializing \cup Storing \cup
         {"validateDelivery", "checkSource", "plan", "reject", "cacheStat",
          "copyIn", "validateRestored", "build", "deliver"}

TypeOK ==
    /\ runtimes \in [Paths -> Dir]
    /\ cache \in Dir
    /\ rejected \in SUBSET Checksums
    /\ pc \in [Procs -> Resting \cup Steps]
    /\ inv \in [Procs -> Invocation]
    /\ issued \in 0 .. MaxRecoveries
    /\ started \in 0 .. MaxInvocations
    /\ damaged \in SUBSET (Paths \cup {CacheEntry})

Init ==
    /\ runtimes = [path \in Paths |-> Absent]
    /\ cache = Absent
    /\ rejected = {}
    /\ pc = [p \in Procs |-> "idle"]
    /\ inv = [p \in Procs |-> NoInvocation]
    /\ issued = 0
    /\ started = 0
    /\ damaged = {}

-----------------------------------------------------------------------------
(* What the steps are built from.                                           *)

Goto(p, label) == pc' = [pc EXCEPT ![p] = label]
Update(p, invocation) == inv' = [inv EXCEPT ![p] = invocation]

\* validateArtifact: a manifest of this key whose checksum is the binary's
\* and carries no rejection marker.
ValidNoMarker(d) == Sound(d)
ValidNoChecksum(d) == d.man \in Binaries /\ d.man \notin rejected
Valid(d) == Sound(d) /\ d.bin \notin rejected

\* The directory the current phase validates, delivers and materializes.
Source(p) == CASE inv[p].phase = "restore" -> inv[p].delivery
               [] inv[p].phase = "hit" -> inv[p].restored
               [] OTHER -> inv[p].built

\* Where a thrown error is caught.  store's error is only warned about; one
\* inside materializeArtifact's first try leads to its recovery; one in a
\* cache hit removes the restored copy and builds; the others end the
\* command.
HandlerRetriesHit(p) ==
    IF pc[p] \in Storing THEN "deliver"
    ELSE IF pc[p] \in {"validateExisting", "rejectExisting"} THEN "stat"
    ELSE IF inv[p].phase = "hit" THEN "cacheStat" ELSE "failed"
HandlerNoRecovery(p) ==
    IF pc[p] \in Storing THEN "deliver"
    ELSE IF inv[p].phase = "hit" THEN "build" ELSE "failed"
Handler(p) ==
    IF pc[p] \in Storing THEN "deliver"
    ELSE IF pc[p] \in {"validateExisting", "rejectExisting"} THEN "stat"
    ELSE IF inv[p].phase = "hit" THEN "build" ELSE "failed"

Throw(p) == Goto(p, Handler(p)) /\ UNCHANGED inv

\* materializeArtifact returned path: a restore or a build is over, a hit
\* still delivers its copy to the transport directory.
Materialized(p, path) ==
    /\ Update(p, [inv[p] EXCEPT !.result = path])
    /\ Goto(p, IF inv[p].phase = "hit" THEN "deliver" ELSE "returned")

-----------------------------------------------------------------------------
(* task restore, run by the delivered binary itself.                        *)

\* What the cache steps before the bridge can leave in the transport
\* directory: nothing, a delivered artifact, or one damaged on the way.
Transport == {Absent} \cup {Built(b) : b \in Binaries}
             \cup {[man |-> Junk, bin |-> b] : b \in Binaries}
             \cup {[man |-> b, bin |-> Junk] : b \in Binaries}

Begin(p, d, r, phase, rebuild, label) ==
    /\ pc[p] \in Resting
    /\ started < MaxInvocations
    /\ started' = started + 1
    /\ Update(p, Fresh(d, r, phase, rebuild))
    /\ Goto(p, label)
    /\ UNCHANGED <<runtimes, cache, rejected, issued, damaged>>

\* Only a binary that starts can run the command.
BeginRestore(p) == \E d \in Transport :
    d.bin \in Binaries /\ Begin(p, d, TRUE, "restore", FALSE, "validateDelivery")

ValidateDelivery(p) ==
    /\ pc[p] = "validateDelivery"
    /\ IF Valid(inv[p].delivery)
       THEN Goto(p, "checkSource") /\ UNCHANGED inv
       ELSE Throw(p)
    /\ UNCHANGED <<runtimes, cache, rejected, issued, started, damaged>>

\* Tracked modules and the task registry match the checkout, or not.
CheckSource(p) ==
    /\ pc[p] = "checkSource"
    /\ \/ Goto(p, "validateExisting") /\ UNCHANGED inv
       \/ Throw(p)
    /\ UNCHANGED <<runtimes, cache, rejected, issued, started, damaged>>

-----------------------------------------------------------------------------
(* task prepare [--rebuild].                                                *)

BeginPrepare(p) == \E d \in Transport, r, rebuild \in BOOLEAN :
    /\ ~r => rebuild /\ d # Absent
    /\ Begin(p, d, r, "plan", rebuild, "plan")

\* planTaskArtifact: no effect, and several ways to fail.
Plan(p) ==
    /\ pc[p] = "plan"
    /\ \/ inv[p].rebuild /\ Goto(p, "reject") /\ UNCHANGED inv
       \/ /\ ~inv[p].rebuild
          /\ Update(p, [inv[p] EXCEPT !.phase = "hit"])
          /\ Goto(p, "cacheStat")
       \/ Throw(p)
    /\ UNCHANGED <<runtimes, cache, rejected, issued, started, damaged>>

RejectMarksUnknown(p) ==
    /\ pc[p] = "reject"
    /\ rejected' = rejected \cup {IF inv[p].readable THEN inv[p].delivery.bin
                                  ELSE "unknown"}
    /\ Update(p, [inv[p] EXCEPT !.rejectAny = ~inv[p].readable])
    /\ Goto(p, "build")
    /\ UNCHANGED <<runtimes, cache, issued, started, damaged>>

\* --rebuild: the delivered binary did not start.  Its checksum gets a
\* marker if the file can be read, and is "unknown" otherwise.
Reject(p) ==
    LET bin == inv[p].delivery.bin
        known == bin # None /\ inv[p].readable
    IN  /\ pc[p] = "reject"
        /\ rejected' = IF known THEN rejected \cup {bin} ELSE rejected
        /\ Update(p, [inv[p] EXCEPT
               !.reject = IF known THEN bin ELSE None,
               !.rejectAny = ~known,
               !.seen = IF known THEN @ \cup {bin} ELSE @])
        /\ Goto(p, "build")
        /\ UNCHANGED <<runtimes, cache, issued, started, damaged>>

\* cache.restore: the entry is looked up ...
CacheStat(p) ==
    /\ pc[p] = "cacheStat"
    /\ Update(p, [inv[p] EXCEPT !.restored = Absent])
    /\ Goto(p, IF cache = Absent THEN "build" ELSE "copyIn")
    /\ UNCHANGED <<runtimes, cache, rejected, issued, started, damaged>>

\* ... and its files are copied one at a time, in directory order, from
\* whatever entry has that name by then.
CopyIn(p, file) ==
    LET copied == [inv[p].restored EXCEPT ![file] = cache[file]]
    IN  /\ pc[p] = "copyIn"
        /\ inv[p].restored[file] = None
        /\ IF cache = Absent
           THEN Throw(p)
           ELSE /\ Update(p, [inv[p] EXCEPT !.restored = copied])
                /\ Goto(p, IF None \in {copied.man, copied.bin}
                           THEN "copyIn" ELSE "validateRestored")
        /\ UNCHANGED <<runtimes, cache, rejected, issued, started, damaged>>

ValidateRestored(p) ==
    /\ pc[p] = "validateRestored"
    /\ IF Valid(inv[p].restored)
       THEN Goto(p, "validateExisting") /\ UNCHANGED inv
       ELSE Throw(p)
    /\ UNCHANGED <<runtimes, cache, rejected, issued, started, damaged>>

\* buildArtifact: two runs of the compiler need not agree on a binary.
Build(p) ==
    /\ pc[p] = "build"
    /\ \/ \E b \in Binaries :
            /\ Update(p, [inv[p] EXCEPT !.phase = "built", !.built = Built(b),
                                        !.result = NoPath])
            /\ Goto(p, "storeEvict")
       \/ Goto(p, "failed") /\ UNCHANGED inv
    /\ UNCHANGED <<runtimes, cache, rejected, issued, started, damaged>>

\* cache.store: the old entry is renamed away, then the new one renamed in.
StoreEvict(p) ==
    /\ pc[p] = "storeEvict"
    /\ cache' = Absent
    /\ Goto(p, "storePublish")
    /\ UNCHANGED <<runtimes, rejected, inv, issued, started, damaged>>

\* A rename onto another invocation's entry fails, which is only a warning.
StorePublish(p) ==
    /\ pc[p] = "storePublish"
    /\ cache' = IF cache = Absent THEN inv[p].built ELSE cache
    /\ Goto(p, "deliver")
    /\ UNCHANGED <<runtimes, rejected, inv, issued, started, damaged>>

\* deliverArtifact replaces the transport directory, which only this
\* invocation uses, by a copy of the artifact.
Deliver(p) ==
    /\ pc[p] = "deliver"
    /\ Update(p, [inv[p] EXCEPT !.delivery = Source(p), !.readable = TRUE])
    /\ Goto(p, IF inv[p].phase = "hit" THEN "returned" ELSE "validateExisting")
    /\ UNCHANGED <<runtimes, cache, rejected, issued, started, damaged>>

-----------------------------------------------------------------------------
(* materializeArtifact.                                                     *)

ValidateExisting(p) ==
    LET existing == runtimes[Main]
        failedHere == inv[p].rejectAny \/ existing.bin = inv[p].reject
    IN  /\ pc[p] = "validateExisting"
        /\ \/ Valid(existing) /\ ~failedHere /\ Materialized(p, Main)
           \/ /\ Valid(existing) /\ failedHere
              /\ Update(p, [inv[p] EXCEPT !.reject = existing.bin])
              /\ Goto(p, "rejectExisting")
           \/ ~Valid(existing) /\ Throw(p)
        /\ UNCHANGED <<runtimes, cache, rejected, issued, started, damaged>>

RejectExisting(p) ==
    /\ pc[p] = "rejectExisting"
    /\ rejected' = rejected \cup {inv[p].reject}
    /\ Update(p, [inv[p] EXCEPT !.seen = @ \cup {inv[p].reject}])
    /\ Goto(p, "stat")
    /\ UNCHANGED <<runtimes, cache, issued, started, damaged>>

\* A path that exists keeps its content; the artifact goes beside it.
Stat(p) ==
    /\ pc[p] = "stat"
    /\ IF runtimes[Main] = Absent
       THEN Update(p, [inv[p] EXCEPT !.dest = Main]) /\ UNCHANGED issued
       ELSE /\ issued < MaxRecoveries
            /\ issued' = issued + 1
            /\ Update(p, [inv[p] EXCEPT !.dest = issued + 1])
    /\ Goto(p, "publish")
    /\ UNCHANGED <<runtimes, cache, rejected, started, damaged>>

\* A directory is never renamed onto one that has files.
CanRenameOnto(path) == TRUE
CanRename(path) == runtimes[path] = Absent

Publish(p) ==
    LET dest == inv[p].dest
    IN  /\ pc[p] = "publish"
        /\ IF CanRename(dest)
           THEN /\ runtimes' = [runtimes EXCEPT ![dest] = Source(p)]
                /\ Materialized(p, dest)
           ELSE Goto(p, "validateWinner") /\ UNCHANGED <<runtimes, inv>>
        /\ UNCHANGED <<cache, rejected, issued, started, damaged>>

ValidateWinner(p) ==
    /\ pc[p] = "validateWinner"
    /\ IF Valid(runtimes[inv[p].dest])
       THEN Materialized(p, inv[p].dest)
       ELSE Throw(p)
    /\ UNCHANGED <<runtimes, cache, rejected, issued, started, damaged>>

-----------------------------------------------------------------------------
(* Failing calls, dying processes and decaying files.                       *)

Fault(p) ==
    /\ Faulty
    /\ pc[p] \in Steps
    /\ Throw(p)
    /\ UNCHANGED <<runtimes, cache, rejected, issued, started, damaged>>

Crash(p) ==
    /\ pc[p] \in Steps
    /\ Goto(p, "crashed")
    /\ Update(p, NoInvocation)
    /\ UNCHANGED <<runtimes, cache, rejected, issued, started, damaged>>

DamageRuntime(path) ==
    /\ runtimes[path] # Absent
    /\ Cardinality(damaged) < MaxDamage
    /\ path \notin damaged
    /\ runtimes' = [runtimes EXCEPT ![path].bin = Junk]
    /\ damaged' = damaged \cup {path}
    /\ UNCHANGED <<cache, rejected, pc, inv, issued, started>>

DamageCache ==
    /\ cache # Absent
    /\ Cardinality(damaged) < MaxDamage
    /\ CacheEntry \notin damaged
    /\ cache' = [cache EXCEPT !.bin = Junk]
    /\ damaged' = damaged \cup {CacheEntry}
    /\ UNCHANGED <<runtimes, rejected, pc, inv, issued, started>>

Step(p) ==
    \/ ValidateDelivery(p) \/ CheckSource(p)
    \/ Plan(p) \/ Reject(p) \/ CacheStat(p)
    \/ \E file \in {"man", "bin"} : CopyIn(p, file)
    \/ ValidateRestored(p) \/ Build(p) \/ StoreEvict(p) \/ StorePublish(p)
    \/ Deliver(p)
    \/ ValidateExisting(p) \/ RejectExisting(p) \/ Stat(p) \/ Publish(p)
    \/ ValidateWinner(p)

Next ==
    \/ \E p \in Procs : BeginRestore(p) \/ BeginPrepare(p) \/ Step(p)
                       \/ Fault(p) \/ Crash(p)
    \/ \E path \in Paths : DamageRuntime(path)
    \/ DamageCache

Spec == Init /\ [][Next]_vars

\* A started process runs on until it ends or dies; nothing restarts it.
Fairness == \A p \in Procs : WF_vars(Step(p))
FairSpec == Spec /\ Fairness

-----------------------------------------------------------------------------
(* Properties.                                                              *)

Refs == {path \in Paths : runtimes[path] # Absent}

\* The runtime path a command reports holds a binary some compiler run
\* produced, with the manifest of that same run, although cache entries are
\* replaced while they are copied, processes die between any two steps and
\* other invocations publish at the same time.
ReturnedRuntimeSound ==
    \A p \in Procs : pc[p] = "returned" =>
        /\ inv[p].result \in Paths
        /\ inv[p].result \notin damaged => Sound(runtimes[inv[p].result])

\* "Rejected checksums are ... consulted by both restore and source
\* preparation": a command never hands out a binary whose marker was set
\* before the command began, or that it marked itself, unless it compiled
\* that very binary anew.
RejectedNotReused ==
    \A p \in Procs :
        /\ pc[p] = "returned"
        /\ inv[p].result \notin damaged
        /\ runtimes[inv[p].result].bin \in inv[p].seen
        => inv[p].phase = "built" /\ inv[p].built = runtimes[inv[p].result]

\* "Published runtimes remain in place for concurrent readers": no step of
\* any invocation changes or removes a path once it has content.
PublishedStays ==
    [][\A path \in Refs : runtimes'[path] = runtimes[path] \/ path \in damaged']_vars

\* Without failing calls, a prepare that compiled a runtime fails for one
\* reason only: another invocation published at runtimes/<key> between this
\* one's look at it and its rename, and what it published is unusable.
BuiltFailsOnlyToUnusableWinner ==
    \A p \in Procs : pc[p] = "failed" /\ inv[p].phase = "built" /\ ~Faulty =>
        inv[p].dest = Main /\ runtimes[Main] # Absent /\ ~Valid(runtimes[Main])

\* Every command ends: a damaged entry or a rejected runtime is not tried
\* for ever.
EveryCommandEnds == \A p \in Procs : pc[p] \in Steps ~> pc[p] \in Resting

\* The abstract promise, with the manifest as what was published: a binary
\* that decays later does not change it.
Content == [path \in Paths |-> runtimes[path].man]
Held == [p \in Procs |-> IF pc[p] = "returned" THEN inv[p].result ELSE NoPath]

Promise == INSTANCE PublishedRuntimes WITH
    Readers <- Procs, Artifacts <- Binaries, Nothing <- None,
    content <- Content, held <- Held

\* The invocations together implement that promise.
KeepsPromise == Promise!Spec

\* "A startup failure forces a rebuild and prevents reuse of a published
\* runtime with the failed binary checksum", read without the condition that
\* the failed binary can be hashed.
FailedBinaryNotReused ==
    \A p \in Procs :
        /\ pc[p] = "returned" /\ inv[p].rebuild
        /\ inv[p].result \notin damaged
        /\ runtimes[inv[p].result].bin = inv[p].failed
        => inv[p].built = runtimes[inv[p].result]

=============================================================================
