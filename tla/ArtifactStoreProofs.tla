------------------------- MODULE ArtifactStoreProofs -------------------------
(***************************************************************************)
(* The safety of the runner-local store for any number of invocations, any *)
(* set of binaries and any bounds.                                         *)
(***************************************************************************)
EXTENDS ArtifactStore, TLAPS

Phased(p) ==
    /\ pc[p] \in {"validateDelivery", "checkSource"} => inv[p].phase = "restore"
    /\ pc[p] \in {"plan", "reject"} => inv[p].phase = "plan"
    /\ pc[p] \in {"cacheStat", "copyIn", "validateRestored"} => inv[p].phase = "hit"
    /\ pc[p] \in Storing \cup {"rejectExisting"} => inv[p].phase = "built"
    /\ pc[p] = "build" => inv[p].phase \in {"plan", "hit"}
    /\ pc[p] \in Materializing \cup {"returned"} =>
           inv[p].phase \in {"restore", "hit", "built"}
    /\ pc[p] = "deliver" => inv[p].phase \in {"hit", "built"}
    /\ pc[p] = "plan" \/ inv[p].phase \in {"restore", "hit"} =>
           inv[p].reject = None /\ ~inv[p].rejectAny

\* The artifact a command is about to publish passed the checksum test or
\* was just compiled, and nobody else can touch it.
SourceSound(p) ==
    /\ pc[p] \in Materializing \cup {"checkSource", "deliver"} => Sound(Source(p))
    /\ inv[p].phase = "built" => Sound(inv[p].built)

\* Only the environment makes a published directory disagree with itself.
PublishedSound ==
    \A path \in Paths : runtimes[path] # Absent =>
        /\ runtimes[path].man \in Binaries
        /\ path \notin damaged => Sound(runtimes[path])

HasResult(p) == pc[p] = "returned" \/ (pc[p] = "deliver" /\ inv[p].phase = "hit")

ResultPublished(p) ==
    /\ HasResult(p) => inv[p].result \in Paths /\ runtimes[inv[p].result] # Absent
    /\ pc[p] \in {"publish", "validateWinner"} => inv[p].dest \in Paths

\* What is left of the markers' meaning once more markers appear: an
\* artifact that was validated carried none of the markers that count.
MarkersRespected(p) ==
    /\ inv[p].seen \subseteq rejected
    /\ /\ pc[p] \in Materializing \cup {"checkSource", "deliver"}
       /\ inv[p].phase \in {"restore", "hit"}
       => Source(p).bin \notin inv[p].seen
    /\ /\ HasResult(p)
       /\ inv[p].result \notin damaged
       /\ runtimes[inv[p].result].bin \in inv[p].seen
       => inv[p].phase = "built" /\ inv[p].built = runtimes[inv[p].result]

SafetyAt(p) == Phased(p) /\ SourceSound(p) /\ ResultPublished(p) /\ MarkersRespected(p)

\* The inductive invariant.
SafetyInv == PublishedSound /\ \A p \in Procs : SafetyAt(p)

-----------------------------------------------------------------------------

\* A missing directory is a directory like any other to the types.
LEMMA AbsentIsDir == Absent \in Dir /\ None \notin Contents
  BY ConstantsAssumption DEF Absent, Dir, Contents, Checksums

\* What the compiler leaves is sound.
LEMMA BuiltIsDir == ASSUME NEW b \in Binaries
                    PROVE Built(b) \in Dir /\ Sound(Built(b))
  BY DEF Built, Dir, Contents, Checksums, Sound

Labels == Resting \cup Steps

\* A move of one invocation keeps pc and inv typed.
LEMMA Moved ==
    ASSUME TypeOK, NEW p \in Procs
    PROVE  /\ UNCHANGED inv => inv' \in [Procs -> Invocation]
           /\ \A i \in Invocation : Update(p, i) =>
                  /\ inv' \in [Procs -> Invocation]
                  /\ inv'[p] = i
                  /\ \A q \in Procs \ {p} : inv'[q] = inv[q]
           /\ \A l \in Labels : Goto(p, l) =>
                  /\ pc' \in [Procs -> Labels]
                  /\ pc'[p] = l
                  /\ \A q \in Procs \ {p} : pc'[q] = pc[q]
  BY DEF TypeOK, Update, Goto, Labels

\* Every place an action goes to is a label.
LEMMA LabelsAre ==
    /\ Resting \subseteq Labels /\ Steps \subseteq Labels
    /\ \A l \in {"validateDelivery", "checkSource", "plan", "reject", "cacheStat",
                 "copyIn", "validateRestored", "build", "deliver", "storeEvict",
                 "storePublish", "validateExisting", "rejectExisting", "stat",
                 "publish", "validateWinner", "idle", "returned", "failed",
                 "crashed"} : l \in Labels
  BY DEF Labels, Resting, Steps, Storing, Materializing

\* So is every place a call that throws leads to.
LEMMA HandlerIsLabel == \A p \in Procs : Handler(p) \in {"deliver", "stat", "build", "failed"}
  BY DEF Handler

\* An invocation that starts has the type of one.
LEMMA FreshIsInvocation ==
    /\ NoInvocation \in Invocation
    /\ \A d \in Dir, r, rebuild \in BOOLEAN, phase \in Phases :
           TypeOK => Fresh(d, r, phase, rebuild) \in Invocation
  <1>1. NoInvocation \in Invocation
    BY ConstantsAssumption, AbsentIsDir DEF NoInvocation, Invocation, Phases, NoPath, Dir, Absent, Checksums
  <1>2. ASSUME NEW d \in Dir, NEW r \in BOOLEAN, NEW rebuild \in BOOLEAN,
               NEW phase \in Phases, TypeOK
        PROVE  Fresh(d, r, phase, rebuild) \in Invocation
    <2>1. d.bin \in Checksums /\ rejected \in SUBSET Checksums
      BY <1>2 DEF Dir, TypeOK
    <2> QED
      BY <1>1, <2>1 DEF Fresh, Invocation
  <1> QED
    BY <1>1, <1>2

\* What an invocation copies from is a directory.
LEMMA SourceIsDir == ASSUME TypeOK, NEW p \in Procs PROVE Source(p) \in Dir
  <1>1. inv[p] \in Invocation
    BY DEF TypeOK
  <1> QED
    BY <1>1 DEF Source, Invocation

\* So is whatever is delivered to it.
LEMMA TransportIsDir == Transport \subseteq Dir
  BY ConstantsAssumption, AbsentIsDir, BuiltIsDir DEF Transport, Dir, Contents, Checksums

\* The types hold at first.
LEMMA TypeInit == Init => TypeOK
  BY FreshIsInvocation, AbsentIsDir, ConstantsAssumption DEF Init, TypeOK, Resting

\* Every step preserves the shape of the state.
LEMMA TypeStep ==
    ASSUME TypeOK, [Next]_vars
    PROVE  TypeOK'
  <1> USE ConstantsAssumption
  <1>types. /\ runtimes \in [Paths -> Dir] /\ cache \in Dir
            /\ rejected \in SUBSET Checksums /\ pc \in [Procs -> Labels]
            /\ inv \in [Procs -> Invocation] /\ issued \in 0 .. MaxRecoveries
            /\ started \in 0 .. MaxInvocations
            /\ damaged \in SUBSET (Paths \cup {CacheEntry})
    BY DEF TypeOK, Labels
  <1>goal. ASSUME runtimes' \in [Paths -> Dir], cache' \in Dir,
                  rejected' \in SUBSET Checksums, pc' \in [Procs -> Labels],
                  inv' \in [Procs -> Invocation], issued' \in 0 .. MaxRecoveries,
                  started' \in 0 .. MaxInvocations,
                  damaged' \in SUBSET (Paths \cup {CacheEntry})
           PROVE  TypeOK'
    BY <1>goal DEF TypeOK, Labels
  <1>main. 0 \in Paths /\ Main \in Paths
    BY DEF Paths, Main
  <1>throw. ASSUME NEW p \in Procs, Throw(p)
            PROVE  pc' \in [Procs -> Labels] /\ inv' \in [Procs -> Invocation]
    BY <1>throw, HandlerIsLabel, LabelsAre, Moved DEF Throw
  <1>mat. ASSUME NEW p \in Procs, NEW path \in Paths, Materialized(p, path)
          PROVE  pc' \in [Procs -> Labels] /\ inv' \in [Procs -> Invocation]
    <2>1. [inv[p] EXCEPT !.result = path] \in Invocation
      BY <1>types DEF Invocation
    <2> QED
      BY <1>mat, <2>1, LabelsAre, Moved DEF Materialized
  <1>begin. ASSUME NEW p \in Procs, NEW d \in Dir, NEW r \in BOOLEAN,
                   NEW phase \in Phases, NEW rebuild \in BOOLEAN,
                   NEW l \in Labels, Begin(p, d, r, phase, rebuild, l)
            PROVE  TypeOK'
    BY <1>begin, <1>types, <1>goal, FreshIsInvocation, Moved DEF Begin
  <1>1. ASSUME NEW p \in Procs, BeginRestore(p) PROVE TypeOK'
    BY <1>1, <1>begin, TransportIsDir, LabelsAre DEF BeginRestore, Phases
  <1>2. ASSUME NEW p \in Procs, BeginPrepare(p) PROVE TypeOK'
    BY <1>2, <1>begin, TransportIsDir, LabelsAre DEF BeginPrepare, Phases
  <1>3. ASSUME NEW p \in Procs, ValidateDelivery(p) PROVE TypeOK'
    BY <1>3, <1>types, <1>goal, <1>throw, <1>mat, <1>main, LabelsAre, Moved DEF ValidateDelivery
  <1>4. ASSUME NEW p \in Procs, CheckSource(p) PROVE TypeOK'
    BY <1>4, <1>types, <1>goal, <1>throw, <1>mat, <1>main, LabelsAre, Moved DEF CheckSource
  <1>5. ASSUME NEW p \in Procs, Plan(p) PROVE TypeOK'
    <2>1. [inv[p] EXCEPT !.phase = "hit"] \in Invocation
      BY <1>types DEF Invocation, Phases
    <2> QED
      BY <1>5, <1>types, <1>goal, <1>throw, <2>1, LabelsAre, Moved DEF Plan
  <1>6. ASSUME NEW p \in Procs, Reject(p) PROVE TypeOK'
    <2> DEFINE bin == inv[p].delivery.bin
               known == bin # None /\ inv[p].readable
               next == [inv[p] EXCEPT
                           !.reject = IF known THEN bin ELSE None,
                           !.rejectAny = ~known,
                           !.seen = IF known THEN @ \cup {bin} ELSE @]
    <2>1. inv[p] \in Invocation /\ bin \in Checksums /\ None \in Checksums
      BY <1>types DEF Invocation, Dir, Checksums
    <2>2. next \in Invocation
      <3>1. known \in BOOLEAN
        BY <2>1 DEF Invocation
      <3>2. CASE known
        BY <2>1, <3>2 DEF Invocation
      <3>3. CASE ~known
        BY <2>1, <3>3 DEF Invocation
      <3> QED
        BY <3>2, <3>3
    <2> QED
      BY <1>6, <1>types, <1>goal, <2>1, <2>2, LabelsAre, Moved DEF Reject
  <1>7. ASSUME NEW p \in Procs, CacheStat(p) PROVE TypeOK'
    <2>1. [inv[p] EXCEPT !.restored = Absent] \in Invocation
      BY <1>types, AbsentIsDir DEF Invocation, Phases
    <2> QED
      BY <1>7, <1>types, <1>goal, <1>throw, <2>1, LabelsAre, Moved DEF CacheStat
  <1>8. ASSUME NEW p \in Procs, NEW file \in {"man", "bin"}, CopyIn(p, file)
        PROVE  TypeOK'
    <2> DEFINE copied == [inv[p].restored EXCEPT ![file] = cache[file]]
    <2>1. inv[p].restored \in Dir
      BY <1>types DEF Invocation
    <2>2. copied \in Dir
      BY <1>types, <2>1 DEF Dir
    <2>3. [inv[p] EXCEPT !.restored = copied] \in Invocation
      BY <1>types, <2>2 DEF Invocation
    <2> QED
      BY <1>8, <1>types, <1>goal, <1>throw, <2>3, LabelsAre, Moved DEF CopyIn
  <1>9. ASSUME NEW p \in Procs, ValidateRestored(p) PROVE TypeOK'
    BY <1>9, <1>types, <1>goal, <1>throw, <1>mat, <1>main, LabelsAre, Moved DEF ValidateRestored
  <1>10. ASSUME NEW p \in Procs, Build(p) PROVE TypeOK'
    <2>1. ASSUME NEW b \in Binaries
          PROVE  [inv[p] EXCEPT !.phase = "built", !.built = Built(b),
                                !.result = NoPath] \in Invocation
      BY <1>types, BuiltIsDir DEF Invocation, Phases
    <2> QED
      BY <1>10, <1>types, <1>goal, <2>1, LabelsAre, Moved DEF Build
  <1>11. ASSUME NEW p \in Procs, StoreEvict(p) PROVE TypeOK'
    BY <1>11, <1>types, <1>goal, <1>throw, <1>mat, <1>main, LabelsAre, Moved, AbsentIsDir DEF StoreEvict
  <1>12. ASSUME NEW p \in Procs, StorePublish(p) PROVE TypeOK'
    <2>1. inv[p].built \in Dir
      BY <1>types DEF Invocation
    <2> QED
      BY <1>12, <1>types, <1>goal, <2>1, LabelsAre, Moved DEF StorePublish
  <1>13. ASSUME NEW p \in Procs, Deliver(p) PROVE TypeOK'
    <2>1. [inv[p] EXCEPT !.delivery = Source(p), !.readable = TRUE] \in Invocation
      BY <1>types, SourceIsDir DEF Invocation
    <2> QED
      BY <1>13, <1>types, <1>goal, <2>1, LabelsAre, Moved DEF Deliver
  <1>14. ASSUME NEW p \in Procs, ValidateExisting(p) PROVE TypeOK'
    <2>1. runtimes[Main].bin \in Checksums
      BY <1>types, <1>main DEF Dir
    <2>2. [inv[p] EXCEPT !.reject = runtimes[Main].bin] \in Invocation
      BY <1>types, <2>1 DEF Invocation
    <2> QED
      BY <1>14, <2>2, <1>types, <1>goal, <1>throw, <1>mat, <1>main, LabelsAre, Moved DEF ValidateExisting
  <1>15. ASSUME NEW p \in Procs, RejectExisting(p) PROVE TypeOK'
    <2>1. inv[p].reject \in Checksums
      BY <1>types DEF Invocation
    <2>2. [inv[p] EXCEPT !.seen = @ \cup {inv[p].reject}] \in Invocation
      BY <1>types, <2>1 DEF Invocation
    <2> QED
      BY <1>15, <1>types, <1>goal, <2>1, <2>2, LabelsAre, Moved DEF RejectExisting
  <1>16. ASSUME NEW p \in Procs, Stat(p) PROVE TypeOK'
    <2>1. issued < MaxRecoveries => issued + 1 \in Paths
      BY <1>types DEF Paths
    <2>2. \A path \in Paths : [inv[p] EXCEPT !.dest = path] \in Invocation
      BY <1>types DEF Invocation
    <2> QED
      BY <1>16, <1>types, <1>goal, <1>main, <2>1, <2>2, LabelsAre, Moved DEF Stat, Paths
  <1>17. ASSUME NEW p \in Procs, Publish(p) PROVE TypeOK'
    <2> DEFINE dest == inv[p].dest
    <2>1. dest \in Paths \cup {NoPath}
      BY <1>types DEF Invocation
    <2>2. CASE CanRename(dest)
      <3>1. [runtimes EXCEPT ![dest] = Source(p)] \in [Paths -> Dir]
        BY <1>types, SourceIsDir
      <3>2. [inv[p] EXCEPT !.result = dest] \in Invocation
        BY <1>types, <2>1 DEF Invocation
      <3> QED
        BY <1>17, <1>types, <1>goal, <2>2, <3>1, <3>2, LabelsAre, Moved
           DEF Publish, Materialized
    <2>3. CASE ~CanRename(dest)
      BY <1>17, <1>types, <1>goal, <2>3, LabelsAre, Moved DEF Publish
    <2> QED
      BY <2>2, <2>3
  <1>18. ASSUME NEW p \in Procs, ValidateWinner(p) PROVE TypeOK'
    <2>1. [inv[p] EXCEPT !.result = inv[p].dest] \in Invocation
      BY <1>types DEF Invocation
    <2> QED
      BY <1>18, <1>types, <1>goal, <1>throw, <2>1, LabelsAre, Moved
         DEF ValidateWinner, Materialized
  <1>19. ASSUME NEW p \in Procs, Fault(p) PROVE TypeOK'
    BY <1>19, <1>types, <1>goal, <1>throw DEF Fault
  <1>20. ASSUME NEW p \in Procs, Crash(p) PROVE TypeOK'
    BY <1>20, <1>types, <1>goal, FreshIsInvocation, LabelsAre, Moved DEF Crash
  <1>21. ASSUME NEW path \in Paths, DamageRuntime(path) PROVE TypeOK'
    <2>1. [runtimes EXCEPT ![path].bin = Junk] \in [Paths -> Dir]
      BY <1>types DEF Dir, Checksums, Contents
    <2> QED
      BY <1>21, <1>types, <1>goal, <2>1 DEF DamageRuntime
  <1>22. CASE DamageCache
    <2>1. [cache EXCEPT !.bin = Junk] \in Dir
      BY <1>types DEF Dir, Checksums, Contents
    <2> QED
      BY <1>22, <1>types, <1>goal, <2>1 DEF DamageCache
  <1>23. CASE UNCHANGED vars
    BY <1>23, <1>types, <1>goal DEF vars
  <1> QED
    BY <1>1, <1>2, <1>3, <1>4, <1>5, <1>6, <1>7, <1>8, <1>9, <1>10, <1>11, <1>12,
       <1>13, <1>14, <1>15, <1>16, <1>17, <1>18, <1>19, <1>20, <1>21, <1>22, <1>23
       DEF Next, Step

\* The state keeps its shape in every behaviour.
THEOREM TypeCorrect == Spec => []TypeOK
  BY TypeInit, TypeStep, PTL DEF Spec


-----------------------------------------------------------------------------
(* Steps of one invocation and what they leave to the others.               *)

Command(p) == BeginRestore(p) \/ BeginPrepare(p) \/ Step(p) \/ Fault(p) \/ Crash(p)

\* The mover's new values, and the others' old ones.
LEMMA Frame ==
    ASSUME TypeOK, NEW p \in Procs
    PROVE  /\ \A l : Goto(p, l) =>
                  pc'[p] = l /\ \A q \in Procs \ {p} : pc'[q] = pc[q]
           /\ \A i : Update(p, i) =>
                  inv'[p] = i /\ \A q \in Procs \ {p} : inv'[q] = inv[q]
  BY DEF TypeOK, Goto, Update

\* An invocation moves nobody else.
LEMMA OnlyMover ==
    ASSUME TypeOK, NEW p \in Procs, Command(p)
    PROVE  \A q \in Procs \ {p} : pc'[q] = pc[q] /\ inv'[q] = inv[q]
  <1> USE Frame DEF Throw, Materialized
  <1>1. CASE BeginRestore(p)
    BY <1>1 DEF BeginRestore, Begin
  <1>2. CASE BeginPrepare(p)
    BY <1>2 DEF BeginPrepare, Begin
  <1>3. CASE ValidateDelivery(p)
    BY <1>3 DEF ValidateDelivery
  <1>4. CASE CheckSource(p)
    BY <1>4 DEF CheckSource
  <1>5. CASE Plan(p)
    BY <1>5 DEF Plan
  <1>6. CASE Reject(p)
    BY <1>6 DEF Reject
  <1>7. CASE CacheStat(p)
    BY <1>7 DEF CacheStat
  <1>8. CASE \E file \in {"man", "bin"} : CopyIn(p, file)
    BY <1>8 DEF CopyIn
  <1>9. CASE ValidateRestored(p)
    BY <1>9 DEF ValidateRestored
  <1>10. CASE Build(p)
    BY <1>10 DEF Build
  <1>11. CASE StoreEvict(p)
    BY <1>11 DEF StoreEvict
  <1>12. CASE StorePublish(p)
    BY <1>12 DEF StorePublish
  <1>13. CASE Deliver(p)
    BY <1>13 DEF Deliver
  <1>14. CASE ValidateExisting(p)
    BY <1>14 DEF ValidateExisting
  <1>15. CASE RejectExisting(p)
    BY <1>15 DEF RejectExisting
  <1>16. CASE Stat(p)
    BY <1>16 DEF Stat
  <1>17. CASE Publish(p)
    BY <1>17 DEF Publish
  <1>18. CASE ValidateWinner(p)
    BY <1>18 DEF ValidateWinner
  <1>19. CASE Fault(p)
    BY <1>19 DEF Fault
  <1>20. CASE Crash(p)
    BY <1>20 DEF Crash
  <1> QED
    BY <1>1, <1>2, <1>3, <1>4, <1>5, <1>6, <1>7, <1>8, <1>9, <1>10,
       <1>11, <1>12, <1>13, <1>14, <1>15, <1>16, <1>17, <1>18, <1>19, <1>20
       DEF Command, Step

\* Once published, a path keeps its content, whoever moves.
Growing ==
    /\ \A path \in Paths : runtimes[path] # Absent =>
           /\ runtimes'[path] # Absent
           /\ runtimes'[path].man = runtimes[path].man
           /\ runtimes'[path] = runtimes[path] \/ path \in damaged'
    /\ damaged \subseteq damaged'
    /\ rejected \subseteq rejected'

\* Every step keeps what is published and what is marked.
LEMMA Monotone ==
    ASSUME TypeOK, [Next]_vars
    PROVE  Growing
  <1>types. runtimes \in [Paths -> Dir]
    BY DEF TypeOK
  <1>same. ASSUME UNCHANGED runtimes, damaged \subseteq damaged',
                  rejected \subseteq rejected'
           PROVE  Growing
    BY <1>same DEF Growing
  <1>1. ASSUME NEW p \in Procs, Publish(p) PROVE Growing
    <2>1. \A path \in Paths :
              runtimes[path] # Absent => runtimes'[path] = runtimes[path]
      BY <1>1, <1>types DEF Publish, CanRename
    <2>2. damaged' = damaged /\ rejected' = rejected
      BY <1>1 DEF Publish
    <2>3. ASSUME NEW path \in Paths, runtimes[path] # Absent
          PROVE  /\ runtimes'[path] # Absent
                 /\ runtimes'[path].man = runtimes[path].man
                 /\ runtimes'[path] = runtimes[path]
      BY <2>1, <2>3
    <2> QED
      BY <2>2, <2>3 DEF Growing
  <1>2. ASSUME NEW path \in Paths, DamageRuntime(path) PROVE Growing
    <2>1. \A other \in Paths \ {path} : runtimes'[other] = runtimes[other]
      BY <1>2, <1>types DEF DamageRuntime
    <2>2. /\ runtimes'[path].man = runtimes[path].man
          /\ runtimes'[path].bin = Junk
      BY <1>2, <1>types DEF DamageRuntime, Dir
    <2>3. runtimes'[path] # Absent
      BY <2>2, ConstantsAssumption DEF Absent
    <2> QED
      BY <1>2, <2>1, <2>2, <2>3 DEF DamageRuntime, Growing
  <1>3. CASE \E p \in Procs : Reject(p) \/ RejectExisting(p)
    BY <1>3, <1>same DEF Reject, RejectExisting
  <1>4. CASE \E p \in Procs : BeginRestore(p) \/ BeginPrepare(p) \/ Fault(p) \/ Crash(p)
    BY <1>4, <1>same DEF BeginRestore, BeginPrepare, Begin, Fault, Crash
  <1>5. CASE \E p \in Procs : ValidateDelivery(p) \/ CheckSource(p) \/ Plan(p)
                            \/ CacheStat(p) \/ ValidateRestored(p) \/ Build(p)
                            \/ \E file \in {"man", "bin"} : CopyIn(p, file)
    BY <1>5, <1>same DEF ValidateDelivery, CheckSource, Plan, CacheStat,
       ValidateRestored, Build, CopyIn
  <1>6. CASE \E p \in Procs : StoreEvict(p) \/ StorePublish(p) \/ Deliver(p)
                            \/ ValidateExisting(p) \/ Stat(p) \/ ValidateWinner(p)
    BY <1>6, <1>same DEF StoreEvict, StorePublish, Deliver, ValidateExisting, Stat,
       ValidateWinner
  <1>7. CASE DamageCache \/ UNCHANGED vars
    BY <1>7, <1>same DEF DamageCache, vars
  <1> QED
    BY <1>1, <1>2, <1>3, <1>4, <1>5, <1>6, <1>7 DEF Next, Step

\* What is known of an invocation stays true while the others move.
LEMMA Undisturbed ==
    ASSUME TypeOK, Growing, NEW q \in Procs, SafetyAt(q),
           pc'[q] = pc[q], inv'[q] = inv[q]
    PROVE  SafetyAt(q)'
  <1>1. Phased(q)'
    BY DEF SafetyAt, Phased
  <1>2. SourceSound(q)'
    BY DEF SafetyAt, SourceSound, Source
  <1>3. ResultPublished(q)'
    BY DEF SafetyAt, ResultPublished, HasResult, Growing
  <1>4. MarkersRespected(q)'
    BY DEF SafetyAt, MarkersRespected, ResultPublished, HasResult, Source, Growing
  <1> QED
    BY <1>1, <1>2, <1>3, <1>4 DEF SafetyAt

-----------------------------------------------------------------------------
(* What a step makes of its own invocation.                                 *)

\* A thrown error leaves the invocation in a handler it has the locals for.
LEMMA ThrowSafe ==
    ASSUME TypeOK, NEW p \in Procs, SafetyAt(p), Growing, pc[p] \in Steps,
           Throw(p)
    PROVE  SafetyAt(p)'
  <1>1. pc'[p] = Handler(p) /\ inv'[p] = inv[p]
    BY Frame DEF Throw
  <1>2. Handler(p) \in {"deliver", "stat", "build", "failed"}
    BY HandlerIsLabel
  <1>3. inv[p].phase \in Phases
    BY DEF TypeOK, Invocation
  <1>4. CASE Handler(p) = "deliver"
    <2>1. pc[p] \in Storing /\ inv[p].phase = "built"
      BY <1>4 DEF Handler, SafetyAt, Phased
    <2> QED
      BY <1>1, <1>4, <2>1 DEF SafetyAt, Phased, SourceSound, Source, ResultPublished,
         HasResult, MarkersRespected, Growing, Storing, Materializing
  <1>5. CASE Handler(p) = "stat"
    <2>1. pc[p] \in {"validateExisting", "rejectExisting"}
      BY <1>5 DEF Handler
    <2> QED
      BY <1>1, <1>5, <2>1 DEF SafetyAt, Phased, SourceSound, Source, ResultPublished,
         HasResult, MarkersRespected, Growing, Storing, Materializing
  <1>6. CASE Handler(p) \in {"build", "failed"}
    <2>1. Handler(p) = "build" => inv[p].phase = "hit"
      BY DEF Handler
    <2> QED
      BY <1>1, <1>6, <2>1 DEF SafetyAt, Phased, SourceSound, Source, ResultPublished,
         HasResult, MarkersRespected, Growing, Storing, Materializing
  <1> QED
    BY <1>2, <1>4, <1>5, <1>6

\* materializeArtifact returns a path whose content is sound.
LEMMA MaterializedSafe ==
    ASSUME TypeOK, Growing, PublishedSound, NEW p \in Procs, SafetyAt(p),
           pc[p] \in Materializing, NEW path \in Paths, runtimes'[path] # Absent,
           Materialized(p, path),
           \/ runtimes'[path].bin \notin inv[p].seen
           \/ path \in damaged'
           \/ inv[p].phase = "built" /\ runtimes'[path] = inv[p].built
    PROVE  SafetyAt(p)'
  <1>1. /\ inv'[p] = [inv[p] EXCEPT !.result = path]
        /\ pc'[p] = IF inv[p].phase = "hit" THEN "deliver" ELSE "returned"
    BY Frame DEF Materialized
  <1>2. inv[p] \in Invocation
    BY DEF TypeOK
  <1>3. CASE inv[p].phase = "hit"
    BY <1>1, <1>2, <1>3 DEF SafetyAt, Phased, SourceSound, Source,
         ResultPublished, HasResult, MarkersRespected, Growing, Invocation, Storing,
         Materializing
  <1>4. CASE inv[p].phase # "hit"
    BY <1>1, <1>2, <1>4 DEF SafetyAt, Phased, SourceSound, Source,
         ResultPublished, HasResult, MarkersRespected, Growing, Invocation, Storing,
         Materializing
  <1> QED
    BY <1>3, <1>4

\* A valid directory is sound and carries no marker this command knew of.
LEMMA ValidMeans ==
    ASSUME NEW p \in Procs, SafetyAt(p), NEW d, Valid(d)
    PROVE  Sound(d) /\ d.bin \notin inv[p].seen /\ d # Absent /\ d.bin \in Binaries
  BY ConstantsAssumption DEF Valid, Sound, SafetyAt, MarkersRespected, Absent

\* A step keeps what the invocation knows that takes it.
LEMMA CommandSafe ==
    ASSUME TypeOK, [Next]_vars, PublishedSound, NEW p \in Procs, SafetyAt(p), Command(p)
    PROVE  SafetyAt(p)'
  <1>grow. Growing
    BY Monotone
  <1>inv. inv[p] \in Invocation /\ runtimes \in [Paths -> Dir] /\ Main \in Paths
    BY ConstantsAssumption DEF TypeOK, Main, Paths
  <1>move. ASSUME NEW l, Goto(p, l) PROVE pc'[p] = l
    BY <1>move, Frame
  <1>update. ASSUME NEW i, Update(p, i) PROVE inv'[p] = i
    BY <1>update, Frame
  <1>throw. ASSUME Throw(p), pc[p] \in Steps PROVE SafetyAt(p)'
    BY <1>throw, <1>grow, ThrowSafe
  <1>begin. ASSUME NEW d, NEW r, NEW phase, NEW rebuild, NEW l,
                   Begin(p, d, r, phase, rebuild, l),
                   <<phase, l>> \in {<<"restore", "validateDelivery">>, <<"plan", "plan">>}
            PROVE  SafetyAt(p)'
    <2>1. inv'[p] = Fresh(d, r, phase, rebuild) /\ pc'[p] = l /\ rejected' = rejected
      BY <1>begin, Frame DEF Begin
    <2> QED
      BY <1>begin, <2>1 DEF Fresh, NoInvocation, SafetyAt, Phased, SourceSound, Source,
         ResultPublished, HasResult, MarkersRespected, Storing, Materializing
  <1>1. CASE BeginRestore(p)
    BY <1>1, <1>begin DEF BeginRestore
  <1>2. CASE BeginPrepare(p)
    BY <1>2, <1>begin DEF BeginPrepare
  <1>3. CASE ValidateDelivery(p)
    <2>pc. pc[p] \in Steps
      BY <1>3 DEF ValidateDelivery, Steps, Storing, Materializing
    <2>1. ASSUME pc'[p] = "checkSource", inv'[p] = inv[p], Valid(inv[p].delivery)
           PROVE  SafetyAt(p)'
      BY <2>1, <1>3, <1>grow, <1>inv, ValidMeans DEF SafetyAt, Phased, SourceSound, Source,
         ResultPublished, HasResult, MarkersRespected, Growing, Invocation, Storing,
         Materializing, ValidateDelivery
    <2>2. CASE Throw(p)
      BY <2>2, <2>pc, <1>throw
    <2> QED
      BY <1>3, <1>move, <1>update, <2>1, <2>2 DEF ValidateDelivery
  <1>4. CASE CheckSource(p)
    <2>pc. pc[p] \in Steps
      BY <1>4 DEF CheckSource, Steps, Storing, Materializing
    <2>1. ASSUME pc'[p] = "validateExisting", inv'[p] = inv[p]
           PROVE  SafetyAt(p)'
      BY <2>1, <1>4, <1>grow, <1>inv DEF SafetyAt, Phased, SourceSound, Source,
         ResultPublished, HasResult, MarkersRespected, Growing, Invocation, Storing,
         Materializing, CheckSource
    <2>2. CASE Throw(p)
      BY <2>2, <2>pc, <1>throw
    <2> QED
      BY <1>4, <1>move, <1>update, <2>1, <2>2 DEF CheckSource
  <1>5. CASE Plan(p)
    <2>pc. pc[p] \in Steps
      BY <1>5 DEF Plan, Steps, Storing, Materializing
    <2>1. ASSUME pc'[p] = "reject", inv'[p] = inv[p]
           PROVE  SafetyAt(p)'
      BY <2>1, <1>5, <1>grow, <1>inv DEF SafetyAt, Phased, SourceSound, Source,
         ResultPublished, HasResult, MarkersRespected, Growing, Invocation, Storing,
         Materializing, Plan
    <2>2. ASSUME pc'[p] = "cacheStat", inv'[p] = [inv[p] EXCEPT !.phase = "hit"]
           PROVE  SafetyAt(p)'
      BY <2>2, <1>5, <1>grow, <1>inv DEF SafetyAt, Phased, SourceSound, Source,
         ResultPublished, HasResult, MarkersRespected, Growing, Invocation, Storing,
         Materializing, Plan
    <2>3. CASE Throw(p)
      BY <2>3, <2>pc, <1>throw
    <2> QED
      BY <1>5, <1>move, <1>update, <2>1, <2>2, <2>3 DEF Plan
  <1>6. CASE Reject(p)
    <2> DEFINE bin == inv[p].delivery.bin
               known == bin # None /\ inv[p].readable
    <2>1. /\ pc[p] = "reject" /\ pc'[p] = "build"
          /\ rejected' = IF known THEN rejected \cup {bin} ELSE rejected
          /\ inv'[p] = [inv[p] EXCEPT
                           !.reject = IF known THEN bin ELSE None,
                           !.rejectAny = ~known,
                           !.seen = IF known THEN @ \cup {bin} ELSE @]
      BY <1>6, <1>move, <1>update DEF Reject
    <2> HIDE DEF known
    <2>2. CASE known
      BY <2>1, <2>2, <1>grow, <1>inv DEF SafetyAt, Phased, SourceSound, Source,
         ResultPublished, HasResult, MarkersRespected, Growing, Invocation, Storing,
         Materializing
    <2>3. CASE ~known
      BY <2>1, <2>3, <1>grow, <1>inv DEF SafetyAt, Phased, SourceSound, Source,
         ResultPublished, HasResult, MarkersRespected, Growing, Invocation, Storing,
         Materializing
    <2> QED
      BY <2>2, <2>3
  <1>7. CASE CacheStat(p)
    <2>pc. pc[p] \in Steps
      BY <1>7 DEF CacheStat, Steps, Storing, Materializing
    <2>1. ASSUME inv'[p] = [inv[p] EXCEPT !.restored = Absent], pc'[p] \in {"build", "copyIn"}
           PROVE  SafetyAt(p)'
      BY <2>1, <1>7, <1>grow, <1>inv DEF SafetyAt, Phased, SourceSound, Source,
         ResultPublished, HasResult, MarkersRespected, Growing, Invocation, Storing,
         Materializing, CacheStat
    <2> QED
      BY <1>7, <1>move, <1>update, <2>1 DEF CacheStat
  <1>8. ASSUME NEW file \in {"man", "bin"}, CopyIn(p, file)
        PROVE  SafetyAt(p)'
    <2>pc. pc[p] \in Steps
      BY <1>8 DEF CopyIn, Steps, Storing, Materializing
    <2>1. ASSUME NEW d, inv'[p] = [inv[p] EXCEPT !.restored = d], pc'[p] \in {"copyIn", "validateRestored"}
           PROVE  SafetyAt(p)'
      BY <2>1, <1>8, <1>grow, <1>inv DEF SafetyAt, Phased, SourceSound, Source,
         ResultPublished, HasResult, MarkersRespected, Growing, Invocation, Storing,
         Materializing, CopyIn
    <2>2. CASE Throw(p)
      BY <2>2, <2>pc, <1>throw
    <2> QED
      BY <1>8, <1>move, <1>update, <2>1, <2>2 DEF CopyIn
  <1>9. CASE ValidateRestored(p)
    <2>pc. pc[p] \in Steps
      BY <1>9 DEF ValidateRestored, Steps, Storing, Materializing
    <2>1. ASSUME pc'[p] = "validateExisting", inv'[p] = inv[p], Valid(inv[p].restored)
           PROVE  SafetyAt(p)'
      BY <2>1, <1>9, <1>grow, <1>inv, ValidMeans DEF SafetyAt, Phased, SourceSound, Source,
         ResultPublished, HasResult, MarkersRespected, Growing, Invocation, Storing,
         Materializing, ValidateRestored
    <2>2. CASE Throw(p)
      BY <2>2, <2>pc, <1>throw
    <2> QED
      BY <1>9, <1>move, <1>update, <2>1, <2>2 DEF ValidateRestored
  <1>10. CASE Build(p)
    <2>pc. pc[p] \in Steps
      BY <1>10 DEF Build, Steps, Storing, Materializing
    <2>1. ASSUME NEW b \in Binaries, pc'[p] = "storeEvict", inv'[p] = [inv[p] EXCEPT !.phase = "built", !.built = Built(b), !.result = NoPath]
           PROVE  SafetyAt(p)'
      BY <2>1, <1>10, <1>grow, <1>inv, BuiltIsDir DEF SafetyAt, Phased, SourceSound, Source,
         ResultPublished, HasResult, MarkersRespected, Growing, Invocation, Storing,
         Materializing, Build
    <2>2. ASSUME pc'[p] = "failed", inv'[p] = inv[p]
           PROVE  SafetyAt(p)'
      BY <2>2, <1>10, <1>grow, <1>inv DEF SafetyAt, Phased, SourceSound, Source,
         ResultPublished, HasResult, MarkersRespected, Growing, Invocation, Storing,
         Materializing, Build
    <2> QED
      BY <1>10, <1>move, <1>update, <2>1, <2>2 DEF Build
  <1>11. CASE StoreEvict(p)
    <2>pc. pc[p] \in Steps
      BY <1>11 DEF StoreEvict, Steps, Storing, Materializing
    <2>1. ASSUME pc'[p] = "storePublish", inv'[p] = inv[p]
           PROVE  SafetyAt(p)'
      BY <2>1, <1>11, <1>grow, <1>inv DEF SafetyAt, Phased, SourceSound, Source,
         ResultPublished, HasResult, MarkersRespected, Growing, Invocation, Storing,
         Materializing, StoreEvict
    <2> QED
      BY <1>11, <1>move, <1>update, <2>1 DEF StoreEvict
  <1>12. CASE StorePublish(p)
    <2>pc. pc[p] \in Steps
      BY <1>12 DEF StorePublish, Steps, Storing, Materializing
    <2>1. ASSUME pc'[p] = "deliver", inv'[p] = inv[p]
           PROVE  SafetyAt(p)'
      BY <2>1, <1>12, <1>grow, <1>inv DEF SafetyAt, Phased, SourceSound, Source,
         ResultPublished, HasResult, MarkersRespected, Growing, Invocation, Storing,
         Materializing, StorePublish
    <2> QED
      BY <1>12, <1>move, <1>update, <2>1 DEF StorePublish
  <1>13. CASE Deliver(p)
    <2>pc. pc[p] \in Steps
      BY <1>13 DEF Deliver, Steps, Storing, Materializing
    <2>phase. inv[p].phase \in {"hit", "built"}
      BY <1>13 DEF Deliver, SafetyAt, Phased
    <2>1. ASSUME inv[p].phase = "hit", pc'[p] = "returned", inv'[p] = [inv[p] EXCEPT !.delivery = Source(p), !.readable = TRUE]
           PROVE  SafetyAt(p)'
      BY <2>1, <1>13, <1>grow, <1>inv DEF SafetyAt, Phased, SourceSound, Source,
         ResultPublished, HasResult, MarkersRespected, Growing, Invocation, Storing,
         Materializing, Deliver
    <2>2. ASSUME inv[p].phase = "built", pc'[p] = "validateExisting", inv'[p] = [inv[p] EXCEPT !.delivery = Source(p), !.readable = TRUE]
           PROVE  SafetyAt(p)'
      BY <2>2, <1>13, <1>grow, <1>inv DEF SafetyAt, Phased, SourceSound, Source,
         ResultPublished, HasResult, MarkersRespected, Growing, Invocation, Storing,
         Materializing, Deliver
    <2> QED
      BY <1>13, <1>move, <1>update, <2>phase, <2>1, <2>2 DEF Deliver
  <1>14. CASE ValidateExisting(p)
    <2> DEFINE existing == runtimes[Main]
               failedHere == inv[p].rejectAny \/ existing.bin = inv[p].reject
    <2>pc. pc[p] = "validateExisting" /\ pc[p] \in Steps /\ pc[p] \in Materializing
           /\ UNCHANGED runtimes
      BY <1>14 DEF ValidateExisting, Steps, Materializing
    <2>1. CASE Valid(existing) /\ Materialized(p, Main)
      <3>1. existing # Absent /\ existing.bin \notin inv[p].seen
        BY <2>1, ValidMeans
      <3> QED
        BY <2>pc, <2>1, <3>1, <1>grow, <1>inv, MaterializedSafe
    <2>2. CASE /\ Valid(existing) /\ failedHere
               /\ Update(p, [inv[p] EXCEPT !.reject = existing.bin])
               /\ Goto(p, "rejectExisting")
      <3>1. existing.bin # None
        BY <2>2, ValidMeans, ConstantsAssumption
      <3>2. inv[p].phase = "built"
        BY <2>pc, <2>2, <3>1 DEF SafetyAt, Phased
      <3>3. /\ pc'[p] = "rejectExisting"
            /\ inv'[p] = [inv[p] EXCEPT !.reject = existing.bin]
        BY <2>2, <1>move, <1>update
      <3> QED
        BY <2>pc, <3>2, <3>3, <1>grow, <1>inv DEF SafetyAt, Phased, SourceSound, Source,
           ResultPublished, HasResult, MarkersRespected, Growing, Invocation, Storing,
           Materializing
    <2>3. CASE Throw(p)
      BY <2>3, <2>pc, <1>throw
    <2> QED
      BY <1>14, <2>1, <2>2, <2>3 DEF ValidateExisting
  <1>15. CASE RejectExisting(p)
    <2>pc. pc[p] \in Steps
      BY <1>15 DEF RejectExisting, Steps, Storing, Materializing
    <2>1. ASSUME pc'[p] = "stat", inv'[p] = [inv[p] EXCEPT !.seen = @ \cup {inv[p].reject}]
           PROVE  SafetyAt(p)'
      BY <2>1, <1>15, <1>grow, <1>inv DEF SafetyAt, Phased, SourceSound, Source,
         ResultPublished, HasResult, MarkersRespected, Growing, Invocation, Storing,
         Materializing, RejectExisting
    <2> QED
      BY <1>15, <1>move, <1>update, <2>1 DEF RejectExisting
  <1>16. CASE Stat(p)
    <2>pc. pc[p] \in Steps
      BY <1>16 DEF Stat, Steps, Storing, Materializing
    <2>path. issued < MaxRecoveries => issued + 1 \in Paths
      BY ConstantsAssumption DEF TypeOK, Paths
    <2>1. ASSUME NEW path \in Paths, pc'[p] = "publish", inv'[p] = [inv[p] EXCEPT !.dest = path]
           PROVE  SafetyAt(p)'
      BY <2>1, <1>16, <1>grow, <1>inv DEF SafetyAt, Phased, SourceSound, Source,
         ResultPublished, HasResult, MarkersRespected, Growing, Invocation, Storing,
         Materializing, Stat
    <2> QED
      BY <1>16, <1>move, <1>update, <1>inv, <2>path, <2>1 DEF Stat
  <1>17. CASE Publish(p)
    <2> DEFINE dest == inv[p].dest
    <2>pc. /\ pc[p] = "publish" /\ pc[p] \in Steps /\ pc[p] \in Materializing
           /\ dest \in Paths /\ Sound(Source(p))
      BY <1>17 DEF Publish, Steps, Materializing, SafetyAt, SourceSound, ResultPublished
    <2>1. CASE CanRename(dest)
      <3>1. runtimes'[dest] = Source(p) /\ Materialized(p, dest)
        BY <1>17, <1>inv, <2>pc, <2>1 DEF Publish
      <3>2. Source(p) # Absent
        BY <2>pc, ConstantsAssumption DEF Sound, Absent
      <3>3. \/ Source(p).bin \notin inv[p].seen
            \/ inv[p].phase = "built" /\ Source(p) = inv[p].built
        BY <2>pc DEF SafetyAt, Phased, MarkersRespected, Source, Materializing
      <3> QED
        BY <2>pc, <3>1, <3>2, <3>3, <1>grow, MaterializedSafe
    <2>2. CASE pc'[p] = "validateWinner" /\ inv'[p] = inv[p]
      BY <2>2, <2>pc, <1>grow, <1>inv DEF SafetyAt, Phased, SourceSound, Source,
         ResultPublished, HasResult, MarkersRespected, Growing, Invocation, Storing,
         Materializing
    <2> QED
      BY <1>17, <1>move, <2>1, <2>2 DEF Publish
  <1>18. CASE ValidateWinner(p)
    <2>pc. /\ pc[p] = "validateWinner" /\ pc[p] \in Steps /\ pc[p] \in Materializing
           /\ inv[p].dest \in Paths /\ UNCHANGED runtimes
      BY <1>18 DEF ValidateWinner, Steps, Materializing, SafetyAt, ResultPublished
    <2>1. CASE Valid(runtimes[inv[p].dest]) /\ Materialized(p, inv[p].dest)
      <3>1. /\ runtimes[inv[p].dest] # Absent
            /\ runtimes[inv[p].dest].bin \notin inv[p].seen
        BY <2>1, ValidMeans
      <3> QED
        BY <2>pc, <2>1, <3>1, <1>grow, MaterializedSafe
    <2>2. CASE Throw(p)
      BY <2>2, <2>pc, <1>throw
    <2> QED
      BY <1>18, <2>1, <2>2 DEF ValidateWinner
  <1>19. CASE Fault(p)
    BY <1>19, <1>throw DEF Fault
  <1>20. CASE Crash(p)
    <2>1. inv'[p] = NoInvocation /\ pc'[p] = "crashed"
      BY <1>20, <1>move, <1>update DEF Crash
    <2> QED
      BY <2>1 DEF NoInvocation, SafetyAt, Phased, SourceSound, Source,
         ResultPublished, HasResult, MarkersRespected, Storing, Materializing
  <1> QED
    BY <1>1, <1>2, <1>3, <1>4, <1>5, <1>6, <1>7, <1>8, <1>9, <1>10, <1>11, <1>12,
       <1>13, <1>14, <1>15, <1>16, <1>17, <1>18, <1>19, <1>20 DEF Command, Step


\* Only sound directories are published, and what is published only decays.
LEMMA PublishedStep ==
    ASSUME TypeOK, [Next]_vars, SafetyInv
    PROVE  PublishedSound'
  <1>grow. Growing
    BY Monotone
  <1>types. runtimes \in [Paths -> Dir]
    BY DEF TypeOK
  <1>1. ASSUME NEW p \in Procs, Publish(p), CanRename(inv[p].dest)
        PROVE  PublishedSound'
    <2>1. Sound(Source(p)) /\ inv[p].dest \in Paths
      BY <1>1 DEF Publish, SafetyInv, SafetyAt, SourceSound, ResultPublished, Materializing
    <2>2. runtimes' = [runtimes EXCEPT ![inv[p].dest] = Source(p)]
      BY <1>1 DEF Publish
    <2>3. damaged' = damaged
      BY <1>1 DEF Publish
    <2> QED
      BY <2>1, <2>2, <2>3, <1>types DEF SafetyInv, PublishedSound, Sound
  <1>2. ASSUME \A path \in Paths : runtimes[path] = Absent => runtimes'[path] = Absent
        PROVE  PublishedSound'
    BY <1>2, <1>grow DEF SafetyInv, PublishedSound, Growing, Sound
  <1>3. ASSUME NEW path \in Paths, DamageRuntime(path)
        PROVE  \A other \in Paths : runtimes[other] = Absent => runtimes'[other] = Absent
    BY <1>3, <1>types DEF DamageRuntime
  <1>4. \/ UNCHANGED runtimes
        \/ \E path \in Paths : DamageRuntime(path)
        \/ \E p \in Procs : Publish(p) /\ CanRename(inv[p].dest)
    BY DEF Next, Step, BeginRestore, BeginPrepare, Begin, ValidateDelivery, CheckSource,
       Plan, Reject, CacheStat, CopyIn, ValidateRestored, Build, StoreEvict, StorePublish,
       Deliver, ValidateExisting, RejectExisting, Stat, Publish, ValidateWinner, Fault,
       Crash, DamageCache, vars
  <1> QED
    BY <1>1, <1>2, <1>3, <1>4

\* A step keeps what every invocation knows.
LEMMA SafetyStep ==
    ASSUME TypeOK, [Next]_vars, SafetyInv
    PROVE  SafetyInv'
  <1>1. PublishedSound'
    BY PublishedStep
  <1>2. Growing
    BY Monotone
  <1>3. ASSUME NEW p \in Procs, Command(p), NEW q \in Procs PROVE SafetyAt(q)'
    BY <1>2, <1>3, CommandSafe, OnlyMover, Undisturbed DEF SafetyInv
  <1>4. CASE DamageCache \/ \E path \in Paths : DamageRuntime(path)
    BY <1>1, <1>2, <1>4, Undisturbed DEF SafetyInv, DamageCache, DamageRuntime
  <1>5. CASE UNCHANGED vars
    BY <1>1, <1>2, <1>5, Undisturbed DEF SafetyInv, vars
  <1> QED
    BY <1>1, <1>3, <1>4, <1>5 DEF Next, Command, SafetyInv

\* At first nothing is published and no invocation knows anything.
LEMMA SafetyInit == Init => SafetyInv
  BY ConstantsAssumption DEF Init, NoInvocation, SafetyInv, SafetyAt, PublishedSound,
     Phased, SourceSound, Source, ResultPublished, HasResult, MarkersRespected,
     Storing, Materializing

\* The types and the invariant hold of every state.
LEMMA Safety == Spec => [](TypeOK /\ SafetyInv)
  BY TypeInit, TypeStep, SafetyInit, SafetyStep, PTL DEF Spec

-----------------------------------------------------------------------------
(* The theorems.                                                            *)

\* Every reported path holds one compiler run's binary with its manifest.
THEOREM ReturnedSound == Spec => []ReturnedRuntimeSound
  <1>1. TypeOK /\ SafetyInv => ReturnedRuntimeSound
    BY DEF SafetyInv, SafetyAt, ResultPublished, HasResult, PublishedSound,
       ReturnedRuntimeSound
  <1> QED
    BY <1>1, Safety, PTL

\* No command hands out what was marked before it began unless it compiled it.
THEOREM RejectionHolds == Spec => []RejectedNotReused
  <1>1. TypeOK /\ SafetyInv => RejectedNotReused
    BY DEF SafetyInv, SafetyAt, MarkersRespected, HasResult, RejectedNotReused
  <1> QED
    BY <1>1, Safety, PTL

\* No step of any command changes or removes a published path.
THEOREM PublishedForever == Spec => PublishedStays
  <1>1. TypeOK /\ [Next]_vars =>
            [\A path \in Refs : runtimes'[path] = runtimes[path] \/ path \in damaged']_vars
    BY Monotone DEF Growing, Refs
  <1> QED
    BY <1>1, TypeCorrect, PTL DEF Spec, PublishedStays


\* One command's step is a step of the abstract promise.
LEMMA CommandRefines ==
    ASSUME TypeOK, SafetyInv, TypeOK', SafetyInv', [Next]_vars, NEW p \in Procs, Command(p)
    PROVE  Promise!Next
  <1>types. /\ runtimes \in [Paths -> Dir] /\ runtimes' \in [Paths -> Dir]
            /\ inv'[p] \in Invocation
    BY DEF TypeOK
  <1>held. Held' = [Held EXCEPT ![p] =
                       IF pc'[p] = "returned" THEN inv'[p].result ELSE NoPath]
    BY OnlyMover DEF Held
  <1>told. ASSUME pc'[p] = "returned"
           PROVE  inv'[p].result \in Paths /\ Content'[inv'[p].result] \in Binaries
    BY <1>told, <1>types DEF SafetyInv, SafetyAt, ResultPublished, HasResult,
       PublishedSound, Content
  <1>1. CASE UNCHANGED runtimes
    <2>1. Content' = Content
      BY <1>1 DEF Content
    <2>2. CASE pc'[p] = "returned"
      <3>1. Promise!Tell(p, inv'[p].result) /\ UNCHANGED Content
        BY <1>held, <1>told, <2>1, <2>2 DEF Promise!Tell
      <3> QED
        BY <1>told, <2>2, <3>1 DEF Promise!Next
    <2>3. CASE pc'[p] # "returned"
      <3>1. Promise!Forget(p)
        BY <1>held, <2>1, <2>3 DEF Promise!Forget
      <3> QED
        BY <3>1 DEF Promise!Next
    <2> QED
      BY <2>2, <2>3
  <1>2. CASE Publish(p) /\ CanRename(inv[p].dest)
    <2> DEFINE dest == inv[p].dest
               a == Source(p).man
    <2>1. dest \in Paths /\ a \in Binaries
      BY <1>2 DEF Publish, SafetyInv, SafetyAt, SourceSound, ResultPublished, Sound,
         Materializing
    <2>2. runtimes' = [runtimes EXCEPT ![dest] = Source(p)]
      BY <1>2 DEF Publish
    <2>3. Promise!Publish(dest, a)
      BY <1>2, <1>types, <2>1, <2>2 DEF Promise!Publish, Content, CanRename, Absent
    <2>4. CASE pc'[p] = "returned"
      <3>1. inv'[p].result = dest
        BY <1>2, Frame DEF Publish, Materialized, TypeOK, Invocation
      <3>2. Promise!Tell(p, dest)
        BY <1>held, <1>told, <2>4, <3>1 DEF Promise!Tell
      <3> QED
        BY <2>1, <2>3, <3>2 DEF Promise!Next
    <2>5. CASE pc'[p] # "returned"
      <3>1. Held' = Held
        BY <1>2, <1>held, <2>5 DEF Publish, Held
      <3> QED
        BY <2>1, <2>3, <3>1 DEF Promise!Next
    <2> QED
      BY <2>4, <2>5
  <1>3. \/ UNCHANGED runtimes
        \/ Publish(p) /\ CanRename(inv[p].dest)
    BY DEF Command, Step, BeginRestore, BeginPrepare, Begin, ValidateDelivery,
       CheckSource, Plan, Reject, CacheStat, CopyIn, ValidateRestored, Build, StoreEvict,
       StorePublish, Deliver, ValidateExisting, RejectExisting, Stat, Publish,
       ValidateWinner, Fault, Crash
  <1> QED
    BY <1>1, <1>2, <1>3

\* The store keeps the promise: a path is told only after its content was
\* published, and what was published at it never changes.
THEOREM Refinement == Spec => KeepsPromise
  <1>1. Init => Promise!Init
    BY DEF Init, Promise!Init, Content, Held, Absent
  <1>2. TypeOK /\ SafetyInv /\ TypeOK' /\ SafetyInv' /\ [Next]_vars
        => [Promise!Next]_(Promise!vars)
    <2> SUFFICES ASSUME TypeOK, SafetyInv, TypeOK', SafetyInv', [Next]_vars
                 PROVE  [Promise!Next]_(Promise!vars)
      OBVIOUS
    <2>1. ASSUME NEW p \in Procs, Command(p) PROVE Promise!Next
      BY <2>1, CommandRefines
    <2>2. ASSUME NEW path \in Paths, DamageRuntime(path) PROVE Content' = Content /\ Held' = Held
      BY <2>2 DEF DamageRuntime, Content, Held, TypeOK, Dir
    <2>3. CASE DamageCache \/ UNCHANGED vars
      BY <2>3 DEF DamageCache, vars, Promise!vars, Content, Held
    <2> QED
      BY <2>1, <2>2, <2>3 DEF Next, Command, Promise!vars
  <1> QED
    BY <1>1, <1>2, Safety, PTL DEF Spec, KeepsPromise, Promise!Spec

-----------------------------------------------------------------------------
(* A build that fails.                                                      *)

Unusable(path) == runtimes[path] # Absent /\ ~Valid(runtimes[path])

\* A recovery path is free for the one invocation that drew its name, so that
\* only runtimes/<key> can have another winner.
WinnerAt(p) ==
    /\ pc[p] = "publish" /\ inv[p].dest # Main =>
         inv[p].dest \in 1 .. issued /\ runtimes[inv[p].dest] = Absent
    /\ pc[p] = "validateWinner" => inv[p].dest = Main /\ runtimes[Main] # Absent
    /\ pc[p] = "failed" /\ inv[p].phase = "built" /\ ~Faulty =>
         inv[p].dest = Main /\ Unusable(Main)
Undrawn == \A path \in Paths : path > issued => runtimes[path] = Absent
OwnNames ==
    \A p, q \in Procs : pc[p] = "publish" /\ pc[q] = "publish" /\ p # q =>
        inv[p].dest = Main \/ inv[p].dest # inv[q].dest
WinnerInv == Undrawn /\ OwnNames /\ \A p \in Procs : WinnerAt(p)

\* What is unusable never becomes usable: markers only become more, and what is
\* damaged fails its checksum.
LEMMA UnusableStays ==
    ASSUME TypeOK, [Next]_vars, NEW path \in Paths, Unusable(path)
    PROVE  Unusable(path)'
  <1>1. Growing
    BY Monotone
  <1>2. runtimes'[path] # Absent
    BY <1>1 DEF Growing, Unusable
  <1>3. runtimes'[path] = runtimes[path] \/ runtimes'[path].bin \notin Binaries
    <2>1. ASSUME NEW p \in Procs, Publish(p) PROVE runtimes'[path] = runtimes[path]
      BY <2>1 DEF Publish, CanRename, Unusable, TypeOK
    <2>2. ASSUME NEW other \in Paths, DamageRuntime(other)
          PROVE  runtimes'[path] = runtimes[path] \/ runtimes'[path].bin = Junk
      BY <2>2 DEF DamageRuntime, TypeOK, Dir
    <2>3. \/ UNCHANGED runtimes
          \/ \E other \in Paths : DamageRuntime(other)
          \/ \E p \in Procs : Publish(p)
      BY DEF Next, Step, BeginRestore, BeginPrepare, Begin, ValidateDelivery, CheckSource,
         Plan, Reject, CacheStat, CopyIn, ValidateRestored, Build, StoreEvict,
         StorePublish, Deliver, ValidateExisting, RejectExisting, Stat, ValidateWinner,
         Fault, Crash, DamageCache, vars
    <2> QED
      BY <2>1, <2>2, <2>3, ConstantsAssumption
  <1> QED
    BY <1>1, <1>2, <1>3 DEF Unusable, Valid, Sound, Growing

\* Steps that neither publish nor fail after a build leave the names alone.
LEMMA OtherStepsKeepWinner ==
    ASSUME TypeOK, [Next]_vars, WinnerInv, NEW p \in Procs, UNCHANGED <<runtimes, issued>>,
           pc'[p] \notin {"publish", "validateWinner"},
           pc'[p] = "failed" => inv'[p].phase # "built" \/ Faulty,
           \A q \in Procs \ {p} : pc'[q] = pc[q] /\ inv'[q] = inv[q]
    PROVE  WinnerInv'
  <1>1. Undrawn' /\ OwnNames'
    BY DEF WinnerInv, Undrawn, OwnNames
  <1>2. ASSUME NEW q \in Procs PROVE WinnerAt(q)'
    <2>1. CASE q = p
      BY <2>1 DEF WinnerAt
    <2>2. CASE q # p
      <3>1. Unusable(Main) => Unusable(Main)'
        BY UnusableStays, ConstantsAssumption DEF Main, Paths
      <3>2. pc'[q] = pc[q] /\ inv'[q] = inv[q] /\ WinnerAt(q)
        BY <2>2 DEF WinnerInv
      <3> QED
        BY <3>1, <3>2 DEF WinnerAt
    <2> QED
      BY <2>1, <2>2
  <1> QED
    BY <1>1, <1>2 DEF WinnerInv

\* A name is drawn that nobody has drawn before.
LEMMA StatKeepsWinner ==
    ASSUME TypeOK, [Next]_vars, WinnerInv, NEW p \in Procs, Stat(p)
    PROVE  WinnerInv'
  <1>1. /\ issued \in Nat /\ issued' \in Nat /\ issued <= issued'
        /\ pc'[p] = "publish" /\ UNCHANGED runtimes
        /\ \A q \in Procs \ {p} : pc'[q] = pc[q] /\ inv'[q] = inv[q]
    BY Frame DEF Stat, TypeOK
  <1>2. \/ inv'[p].dest = Main
        \/ inv'[p].dest = issued + 1 /\ issued' = issued + 1 /\ issued + 1 \in Paths
    <2>1. inv[p] \in Invocation
      BY DEF TypeOK
    <2>2. CASE runtimes[Main] = Absent
      BY <2>1, <2>2, Frame DEF Stat, Invocation
    <2>3. CASE runtimes[Main] # Absent
      <3>1. inv'[p] = [inv[p] EXCEPT !.dest = issued + 1] /\ issued < MaxRecoveries
            /\ issued' = issued + 1
        BY <2>3, Frame DEF Stat
      <3> QED
        BY <1>1, <2>1, <3>1, ConstantsAssumption DEF Invocation, Paths
    <2> QED
      BY <2>2, <2>3
  <1>3. Undrawn'
    BY <1>1 DEF WinnerInv, Undrawn, Paths
  <1>4. \A q \in Procs \ {p} : pc[q] = "publish" => inv[q].dest = Main \/ inv[q].dest \in 1 .. issued
    BY DEF WinnerInv, WinnerAt
  <1>5. OwnNames'
    BY <1>1, <1>2, <1>4 DEF WinnerInv, OwnNames, Main
  <1>6. ASSUME NEW q \in Procs \ {p} PROVE WinnerAt(q)'
    <2>1. Unusable(Main) => Unusable(Main)'
      BY UnusableStays, ConstantsAssumption DEF Main, Paths
    <2> QED
      BY <1>1, <2>1 DEF WinnerInv, WinnerAt
  <1>7. WinnerAt(p)'
    BY <1>1, <1>2 DEF WinnerAt, WinnerInv, Undrawn
  <1> QED
    BY <1>3, <1>5, <1>6, <1>7 DEF WinnerInv

\* A rename fails for a path that has a winner already, and that is Main.
LEMMA PublishKeepsWinner ==
    ASSUME TypeOK, [Next]_vars, SafetyInv, WinnerInv, NEW p \in Procs, Publish(p)
    PROVE  WinnerInv'
  <1> DEFINE dest == inv[p].dest
  <1>1. /\ dest \in Paths /\ issued' = issued /\ issued \in Nat /\ pc[p] = "publish"
        /\ \A q \in Procs \ {p} : pc'[q] = pc[q] /\ inv'[q] = inv[q]
    BY OnlyMover DEF Publish, SafetyInv, SafetyAt, ResultPublished, TypeOK, Command, Step
  <1>2. CASE CanRename(dest)
    <2>1. /\ runtimes' = [runtimes EXCEPT ![dest] = Source(p)]
          /\ pc'[p] \in {"deliver", "returned"}
      BY <1>2, Frame DEF Publish, Materialized
    <2>2. Undrawn'
      BY <1>1, <2>1, ConstantsAssumption
         DEF WinnerInv, Undrawn, WinnerAt, TypeOK, Main, Paths
    <2>3. OwnNames'
      BY <1>1, <2>1 DEF WinnerInv, OwnNames
    <2>4. WinnerAt(p)'
      BY <2>1 DEF WinnerAt
    <2>5. ASSUME NEW q \in Procs \ {p} PROVE WinnerAt(q)'
      <3>1. Unusable(Main) => Unusable(Main)'
        BY UnusableStays, ConstantsAssumption DEF Main, Paths
      <3>2. runtimes[Main] # Absent => runtimes'[Main] # Absent
        BY Monotone, ConstantsAssumption DEF Growing, Main, Paths
      <3>3. pc[q] = "publish" /\ inv[q].dest # Main =>
              inv[q].dest # dest /\ inv[q].dest \in 1 .. issued /\ runtimes[inv[q].dest] = Absent
        BY <1>1 DEF WinnerInv, OwnNames, WinnerAt
      <3>4. pc[q] = "publish" /\ inv[q].dest # Main =>
              inv[q].dest \in 1 .. issued /\ runtimes'[inv[q].dest] = Absent
        BY <2>1, <3>3 DEF TypeOK
      <3> QED
        BY <1>1, <3>1, <3>2, <3>4 DEF WinnerInv, WinnerAt
    <2> QED
      BY <2>2, <2>3, <2>4, <2>5 DEF WinnerInv
  <1>3. CASE ~CanRename(dest)
    <2>1. UNCHANGED <<runtimes, inv>> /\ pc'[p] = "validateWinner"
      BY <1>3, Frame DEF Publish
    <2>2. dest = Main /\ runtimes[Main] # Absent
      BY <1>1, <1>3 DEF WinnerInv, WinnerAt, CanRename
    <2>3. Undrawn' /\ OwnNames'
      BY <1>1, <2>1 DEF WinnerInv, Undrawn, OwnNames
    <2>4. WinnerAt(p)'
      BY <2>1, <2>2 DEF WinnerAt
    <2>5. ASSUME NEW q \in Procs \ {p} PROVE WinnerAt(q)'
      <3>1. Unusable(Main) => Unusable(Main)'
        BY UnusableStays, ConstantsAssumption DEF Main, Paths
      <3> QED
        BY <1>1, <2>1, <3>1 DEF WinnerInv, WinnerAt
    <2> QED
      BY <2>3, <2>4, <2>5 DEF WinnerInv
  <1> QED
    BY <1>2, <1>3

\* A winner is refused if it cannot be used.
LEMMA ValidateKeepsWinner ==
    ASSUME TypeOK, [Next]_vars, WinnerInv, NEW p \in Procs, ValidateWinner(p)
    PROVE  WinnerInv'
  <1>1. /\ UNCHANGED <<runtimes, rejected, issued>>
        /\ inv[p].dest = Main /\ runtimes[Main] # Absent
        /\ \A q \in Procs \ {p} : pc'[q] = pc[q] /\ inv'[q] = inv[q]
    BY OnlyMover DEF ValidateWinner, WinnerInv, WinnerAt, Command, Step
  <1>2. CASE Valid(runtimes[Main])
    <2>1. pc'[p] \in {"deliver", "returned"}
      BY <1>1, <1>2, Frame DEF ValidateWinner, Materialized
    <2> QED
      BY <1>1, <2>1, OtherStepsKeepWinner
  <1>3. CASE ~Valid(runtimes[Main])
    <2>1. pc'[p] \in {"deliver", "stat", "build", "failed"} /\ inv'[p] = inv[p]
      BY <1>1, <1>3, Frame, HandlerIsLabel DEF ValidateWinner, Throw
    <2>2. Unusable(Main)'
      BY <1>1, <1>3 DEF Unusable, Valid
    <2>3. WinnerAt(p)'
      BY <1>1, <2>1, <2>2 DEF WinnerAt
    <2>4. Undrawn' /\ OwnNames'
      BY <1>1, <2>1 DEF WinnerInv, Undrawn, OwnNames
    <2>5. ASSUME NEW q \in Procs \ {p} PROVE WinnerAt(q)'
      BY <1>1, <2>2 DEF WinnerInv, WinnerAt
    <2> QED
      BY <2>3, <2>4, <2>5 DEF WinnerInv
  <1> QED
    BY <1>2, <1>3

\* Every other step of a command leads elsewhere, and no error ends a command
\* that has built anything, unless a call failed.
LEMMA CommandLeavesWinner ==
    ASSUME TypeOK, SafetyInv, NEW p \in Procs, Command(p),
           ~Stat(p), ~Publish(p), ~ValidateWinner(p)
    PROVE  /\ UNCHANGED <<runtimes, issued>>
           /\ pc'[p] \notin {"publish", "validateWinner"}
           /\ pc'[p] = "failed" => inv'[p].phase # "built" \/ Faulty
  <1> DEFINE Goal == /\ UNCHANGED <<runtimes, issued>>
                     /\ pc'[p] \notin {"publish", "validateWinner"}
                     /\ pc'[p] = "failed" => inv'[p].phase # "built" \/ Faulty
  <1>1. Phased(p)
    BY DEF SafetyInv, SafetyAt
  <1>2. ASSUME Throw(p), inv[p].phase # "built" \/ Faulty \/ Handler(p) # "failed"
        PROVE  /\ pc'[p] \notin {"publish", "validateWinner"}
               /\ pc'[p] = "failed" => inv'[p].phase # "built" \/ Faulty
    BY <1>2, Frame, HandlerIsLabel DEF Throw
  <1>3. CASE BeginRestore(p) \/ BeginPrepare(p) \/ Crash(p)
    <2>1. \/ Goto(p, "validateDelivery") \/ Goto(p, "plan") \/ Goto(p, "crashed")
      BY <1>3 DEF BeginRestore, BeginPrepare, Begin, Crash
    <2>2. pc'[p] \in {"validateDelivery", "plan", "crashed"}
      BY <2>1, Frame
    <2>3. UNCHANGED <<runtimes, issued>>
      BY <1>3 DEF BeginRestore, BeginPrepare, Begin, Crash
    <2> QED
      BY <2>2, <2>3
  <1>4. CASE ValidateDelivery(p) \/ CheckSource(p)
    BY <1>1, <1>2, <1>4, Frame DEF ValidateDelivery, CheckSource, Phased
  <1>5. CASE Plan(p)
    BY <1>1, <1>2, <1>5, Frame DEF Plan, Phased
  <1>6. CASE Reject(p) \/ CacheStat(p) \/ StoreEvict(p) \/ StorePublish(p)
             \/ Deliver(p) \/ RejectExisting(p)
    BY <1>6, Frame DEF Reject, CacheStat, StoreEvict, StorePublish, Deliver, RejectExisting
  <1>7. CASE ValidateRestored(p) \/ \E file \in {"man", "bin"} : CopyIn(p, file)
    BY <1>1, <1>2, <1>7, Frame DEF ValidateRestored, CopyIn, Phased
  <1>8. CASE Build(p)
    <2>1. inv[p].phase # "built" /\ UNCHANGED <<runtimes, issued>>
      BY <1>1, <1>8 DEF Build, Phased
    <2>2. CASE \E b \in Binaries : Goto(p, "storeEvict")
      BY <2>1, <2>2, Frame
    <2>3. CASE Goto(p, "failed") /\ UNCHANGED inv
      BY <2>1, <2>3, Frame
    <2> QED
      BY <1>8, <2>2, <2>3 DEF Build
  <1>9. CASE ValidateExisting(p)
    <2>1. Handler(p) # "failed" /\ UNCHANGED <<runtimes, issued>>
      BY <1>9 DEF ValidateExisting, Handler, Storing
    <2>2. ASSUME Materialized(p, Main) PROVE pc'[p] \in {"deliver", "returned"}
      BY <2>2, Frame DEF Materialized
    <2>3. Goto(p, "rejectExisting") => pc'[p] = "rejectExisting"
      BY Frame
    <2> QED
      BY <1>2, <1>9, <2>1, <2>2, <2>3 DEF ValidateExisting
  <1>10. CASE Fault(p)
    BY <1>2, <1>10 DEF Fault
  <1> QED
    BY <1>3, <1>4, <1>5, <1>6, <1>7, <1>8, <1>9, <1>10 DEF Command, Step

\* Decay frees no path.
LEMMA DamageKeepsWinner ==
    ASSUME TypeOK, [Next]_vars, WinnerInv, UNCHANGED <<pc, inv, issued>>,
           \A path \in Paths : runtimes[path] = Absent <=> runtimes'[path] = Absent
    PROVE  WinnerInv'
  <1>1. Unusable(Main) => Unusable(Main)'
    BY UnusableStays, ConstantsAssumption DEF Main, Paths
  <1>2. Undrawn' /\ OwnNames'
    BY DEF WinnerInv, Undrawn, OwnNames
  <1>3. ASSUME NEW q \in Procs PROVE WinnerAt(q)'
    <2>1. 1 .. issued \subseteq Paths /\ Main \in Paths
      BY ConstantsAssumption DEF TypeOK, Paths, Main
    <2> QED
      BY <1>1, <2>1 DEF WinnerInv, WinnerAt
  <1> QED
    BY <1>2, <1>3 DEF WinnerInv

\* Names stay their owners', and only a winner fails a build.
LEMMA WinnerStep ==
    ASSUME TypeOK, SafetyInv, WinnerInv, [Next]_vars
    PROVE  WinnerInv'
  <1>1. ASSUME NEW p \in Procs, Command(p) PROVE WinnerInv'
    <2>1. CASE Stat(p)
      BY <2>1, StatKeepsWinner
    <2>2. CASE Publish(p)
      BY <2>2, PublishKeepsWinner
    <2>3. CASE ValidateWinner(p)
      BY <2>3, ValidateKeepsWinner
    <2>4. CASE ~Stat(p) /\ ~Publish(p) /\ ~ValidateWinner(p)
      BY <1>1, <2>4, CommandLeavesWinner, OnlyMover, OtherStepsKeepWinner
    <2> QED
      BY <2>1, <2>2, <2>3, <2>4
  <1>2. ASSUME NEW path \in Paths, DamageRuntime(path) PROVE WinnerInv'
    <2>1. runtimes[path] # Absent /\ runtimes'[path] # Absent
      BY <1>2, Monotone DEF DamageRuntime, Growing
    <2>2. \A other \in Paths : runtimes[other] = Absent <=> runtimes'[other] = Absent
      BY <1>2, <2>1 DEF DamageRuntime, TypeOK
    <2> QED
      BY <1>2, <2>2, DamageKeepsWinner DEF DamageRuntime
  <1>3. CASE DamageCache \/ UNCHANGED vars
    BY <1>3, DamageKeepsWinner DEF DamageCache, vars
  <1> QED
    BY <1>1, <1>2, <1>3 DEF Next, Command

\* If no call fails, a command that has compiled a runtime fails only because
\* another one published an unusable one at runtimes/<key> first.
THEOREM BuildsFailOnlyToWinners == Spec => []BuiltFailsOnlyToUnusableWinner
  <1>1. Init => WinnerInv
    BY DEF Init, WinnerInv, Undrawn, OwnNames, WinnerAt
  <1>2. TypeOK /\ SafetyInv /\ WinnerInv /\ [Next]_vars => WinnerInv'
    BY WinnerStep
  <1>3. WinnerInv => BuiltFailsOnlyToUnusableWinner
    BY DEF WinnerInv, WinnerAt, Unusable, BuiltFailsOnlyToUnusableWinner
  <1> QED
    BY <1>1, <1>2, <1>3, Safety, PTL DEF Spec

=============================================================================
