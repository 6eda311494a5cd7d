--------------------------- MODULE ScenarioJobProofs ---------------------------
(***************************************************************************)
(* What the steps of a job publish, and when, for programs of any length.  *)
(***************************************************************************)
EXTENDS ScenarioJob, SequenceTheorems, WellFoundedInduction, TLAPS

TypeOK ==
    /\ program \in Programs
    /\ initFailed \in BOOLEAN
    /\ pos \in 1 .. Len(program) + 1
    /\ child \in Nat
    /\ before \subseteq Ids
    /\ steps \in [Ids -> Ran \cup Skipped \cup {None}]
    /\ pending \in [Ids -> Held \cup {None}]
    /\ env \in [Keys -> Values \cup {None}]
    /\ started \in Seq(Ids)
    /\ state \in {"running", "finished", "conflict", "fixture"}
    /\ wrote \in [Ids -> Writes \cup {None}]

\* In a group, what is pending was so before it or is its own.
Place == InGroup =>
    /\ pos <= Len(program) /\ program[pos].kind = "parallel"
    /\ child <= Len(program[pos].children) + 1
    /\ \A id \in PendingIds : id \in before \/ id \in StepsOf(pos)
    /\ \A id \in before : \E s \in 1 .. pos - 1 : id \in StepsOf(s)

\* Only a step that the interpreter has passed has a result.
Passed(id) ==
    \/ \E s \in 1 .. pos - 1 : id \in StepsOf(s)
    \/ \E c \in 1 .. child - 1 : program[pos].children[c].id = id
ResultsPassed == \A id \in Ids : steps[id] # None \/ pending[id] # None => Passed(id)

\* What is held back is not due yet, what is published was due.
StillHeld == Running => \A id \in PendingIds : PublishedAt(id) >= pos
WasDue == \A id \in Started : steps[id] # None =>
    \/ pos > PublishedAt(id)
    \/ pos = Len(program) + 1 /\ PublishedAt(id) = pos /\ PendingIds = {}

\* A step's writes are held back as they are.
WritesKept == \A id \in PendingIds : wrote[id] = pending[id].writes

\* The inductive invariant: what is pending has its place of publication ahead,
\* what is published has it behind.
IInv ==
    /\ TypeOK /\ Place /\ ResultsPassed /\ StillHeld /\ WasDue /\ WritesKept
    /\ EveryStartedStepCounts /\ LastPublishedWriteStands

-----------------------------------------------------------------------------
(* Legal programs.                                                          *)

\* A nonempty set of numbers has a least one.
LEMMA LeastOf ==
    ASSUME NEW T \in SUBSET Nat, T # {}
    PROVE  LET least == CHOOSE t \in T : \A u \in T : t <= u
           IN  least \in T /\ \A u \in T : least <= u
<1>1. PICK t \in T : \A u \in T : ~(<<u, t>> \in OpToRel(<, Nat))
  BY NatLessThanWellFounded, WFMin
<1>2. ASSUME NEW u \in T PROVE t <= u
  <2>1. u \in Nat /\ t \in Nat /\ ~(u < t)
    BY <1>1 DEF OpToRel
  <2> QED
    BY <2>1
<1> QED
  BY <1>2

\* What validation accepted.
LEMMA ProgramFacts ==
    ASSUME TypeOK
    PROVE  /\ Len(program) \in Nat /\ pos \in Nat
           /\ \A s, t \in 1 .. Len(program) : s # t => StepsOf(s) \cap StepsOf(t) = {}
           /\ \A s \in 1 .. Len(program) :
                /\ program[s].kind = "exec" => program[s] \in Exec
                /\ program[s].kind = "parallel" =>
                     /\ program[s] \in Group
                     /\ \A c, d \in DOMAIN program[s].children :
                          c # d => program[s].children[c].id # program[s].children[d].id
                     /\ \A c \in DOMAIN program[s].children : ~program[s].children[c].background
<1>1. program \in Seq(Exec \cup Group \cup Control) /\ Legal(program)
  BY ConstantsAssumption DEF TypeOK
<1>2. Len(program) \in Nat /\ DOMAIN program = 1 .. Len(program) /\ pos \in Nat
  BY <1>1 DEF TypeOK
<1>3. \A s, t \in 1 .. Len(program) : s # t => StepsOf(s) \cap StepsOf(t) = {}
  BY <1>1, <1>2 DEF Legal, StepsOf
<1>4. ASSUME NEW s \in 1 .. Len(program)
      PROVE  /\ program[s].kind = "exec" => program[s] \in Exec
             /\ program[s].kind = "parallel" =>
                  /\ program[s] \in Group
                  /\ \A c, d \in DOMAIN program[s].children :
                       c # d => program[s].children[c].id # program[s].children[d].id
                  /\ \A c \in DOMAIN program[s].children : ~program[s].children[c].background
  <2>1. CASE program[s].kind = "exec"
    BY <1>1, <1>2, <2>1 DEF Legal
  <2>2. CASE program[s].kind = "parallel"
    BY <1>1, <1>2, <2>2 DEF Legal
  <2> QED
    BY <2>1, <2>2
<1> QED
  BY <1>2, <1>3, <1>4

\* Where a step is published: where it is, unless it is a background step; then
\* at the first control after it that joins it.
LEMMA PublishedFacts ==
    ASSUME TypeOK, NEW s \in 1 .. Len(program), NEW id \in StepsOf(s)
    PROVE  /\ Position(id) = s
           /\ ~IsBackground(id) => PublishedAt(id) = s
           /\ IsBackground(id) =>
                /\ program[s].kind = "exec" /\ program[s].background
                /\ PublishedAt(id) \in s + 1 .. Len(program) + 1
                /\ PublishedAt(id) <= Len(program) => Joins(PublishedAt(id), id)
                /\ \A t \in s + 1 .. Len(program) : Joins(t, id) => PublishedAt(id) <= t
           /\ IsBackground(id) <=> program[s].kind = "exec" /\ program[s].background
<1>1. Len(program) \in Nat /\ DOMAIN program = 1 .. Len(program)
  BY ProgramFacts, ConstantsAssumption DEF TypeOK
<1>2. \A t \in 1 .. Len(program) : id \in StepsOf(t) => t = s
  BY ProgramFacts
<1>3. Position(id) = s
  BY <1>1, <1>2 DEF Position
<1>4. IsBackground(id) <=> program[s].kind = "exec" /\ program[s].background
  BY <1>3 DEF IsBackground
<1>5. ~IsBackground(id) => PublishedAt(id) = s
  BY <1>3 DEF PublishedAt
<1>6. ASSUME IsBackground(id)
      PROVE  /\ PublishedAt(id) \in s + 1 .. Len(program) + 1
             /\ PublishedAt(id) <= Len(program) => Joins(PublishedAt(id), id)
             /\ \A t \in s + 1 .. Len(program) : Joins(t, id) => PublishedAt(id) <= t
  <2> DEFINE joins == {t \in DOMAIN program : t > s /\ Joins(t, id)}
  <2>1. PublishedAt(id) = IF joins = {} THEN Len(program) + 1
                          ELSE CHOOSE t \in joins : \A u \in joins : t <= u
    BY <1>3, <1>6 DEF PublishedAt
  <2>2. joins \in SUBSET Nat
    BY <1>1
  <2>3. \A t : t \in joins <=> t \in s + 1 .. Len(program) /\ Joins(t, id)
    BY <1>1
  <2> HIDE DEF joins
  <2>4. CASE joins = {}
    BY <1>1, <2>1, <2>3, <2>4
  <2>5. CASE joins # {}
    <3>1. PublishedAt(id) \in joins /\ \A u \in joins : PublishedAt(id) <= u
      BY <2>1, <2>2, <2>5, LeastOf
    <3> QED
      BY <1>1, <2>3, <3>1
  <2> QED
    BY <2>4, <2>5
<1> QED
  BY <1>3, <1>4, <1>5, <1>6

-----------------------------------------------------------------------------
(* Where the interpreter is.                                                *)

\* Outside a group, what is held back was started before; unless it is joined
\* here, it is published later.
LEMMA NotDue ==
    ASSUME IInv, Running, ~InGroup, NEW id \in PendingIds
    PROVE  /\ \E s \in 1 .. pos - 1 : id \in StepsOf(s)
           /\ PublishedAt(id) \in pos .. Len(program) + 1
           /\ pos <= Len(program) /\ ~Joins(pos, id) => PublishedAt(id) >= pos + 1
           /\ pos <= Len(program) /\ Joins(pos, id) => PublishedAt(id) = pos
<1>1. TypeOK /\ Len(program) \in Nat /\ pos \in 1 .. Len(program) + 1 /\ child = 0
  BY ProgramFacts DEF IInv, TypeOK, InGroup
<1>2. PICK s \in 1 .. pos - 1 : id \in StepsOf(s)
  BY <1>1 DEF PendingIds, IInv, ResultsPassed, Passed
<1>3. PublishedAt(id) >= pos
  BY DEF IInv, StillHeld
<1>4. s \in 1 .. Len(program) /\ s < pos /\ s \in Nat
  BY <1>1
<1>5. IsBackground(id)
  BY <1>1, <1>2, <1>3, <1>4, PublishedFacts
<1>6. /\ PublishedAt(id) \in s + 1 .. Len(program) + 1
      /\ PublishedAt(id) <= Len(program) => Joins(PublishedAt(id), id)
      /\ \A t \in s + 1 .. Len(program) : Joins(t, id) => PublishedAt(id) <= t
  BY <1>1, <1>2, <1>4, <1>5, PublishedFacts
<1>7. pos <= Len(program) /\ ~Joins(pos, id) => PublishedAt(id) # pos
  BY <1>6
<1>8. pos <= Len(program) /\ Joins(pos, id) => PublishedAt(id) <= pos
  BY <1>1, <1>4, <1>6
<1> QED
  BY <1>1, <1>2, <1>3, <1>6, <1>7, <1>8

\* The step at which the interpreter is has no result yet.
LEMMA StepFacts ==
    ASSUME IInv, AtExec
    PROVE  /\ pos \in 1 .. Len(program) /\ Running
           /\ Step \in Exec /\ Step.id \in Ids /\ Step.id \in StepsOf(pos)
           /\ steps[Step.id] = None /\ pending[Step.id] = None
           /\ InGroup => /\ program[pos].kind = "parallel" /\ ~IsBackground(Step.id)
                         /\ child \in 1 .. Len(program[pos].children)
           /\ ~InGroup => /\ program[pos].kind = "exec" /\ Step = program[pos]
                          /\ Step.background <=> IsBackground(Step.id)
<1>1. TypeOK /\ Len(program) \in Nat /\ pos \in 1 .. Len(program) + 1 /\ child \in Nat
  BY ProgramFacts DEF IInv, TypeOK
<1>2. CASE ~InGroup
  <2>1. pos \in 1 .. Len(program) /\ program[pos].kind = "exec" /\ Step = program[pos]
    BY <1>1, <1>2 DEF AtExec, At, Step
  <2>2. Step \in Exec /\ Step.id \in StepsOf(pos)
    BY <1>1, <2>1, ProgramFacts DEF StepsOf, ExecIds
  <2>3. Step.id \in Ids
    BY <2>2 DEF Exec
  <2>4. \A s \in 1 .. pos - 1 : Step.id \notin StepsOf(s)
    BY <1>1, <2>1, <2>2, ProgramFacts
  <2>5. ~Passed(Step.id)
    BY <1>1, <1>2, <2>4 DEF Passed, InGroup
  <2>6. Step.background <=> IsBackground(Step.id)
    BY <1>1, <2>1, <2>2, PublishedFacts
  <2> QED
    BY <1>2, <2>1, <2>2, <2>3, <2>5, <2>6 DEF IInv, ResultsPassed, AtExec, At, Running
<1>3. CASE InGroup
  <2>1. pos \in 1 .. Len(program) /\ program[pos].kind = "parallel"
    BY <1>1, <1>3 DEF IInv, Place
  <2>2. /\ program[pos] \in Group
        /\ \A c, d \in DOMAIN program[pos].children :
             c # d => program[pos].children[c].id # program[pos].children[d].id
    BY <1>1, <2>1, ProgramFacts
  <2>3. program[pos].children \in Seq(Exec)
    BY <2>2 DEF Group
  <2>4. DOMAIN program[pos].children = 1 .. Len(program[pos].children)
        /\ Len(program[pos].children) \in Nat
    BY <2>3
  <2>5. child \in 1 .. Len(program[pos].children) /\ Step = program[pos].children[child]
    BY <1>1, <1>3, <2>4 DEF AtExec, At, Step, InGroup
  <2>6. Step \in Exec /\ Step.id \in Ids
    <3>1. Step \in Exec
      BY <2>3, <2>5
    <3> QED
      BY <3>1 DEF Exec
  <2>7. Step.id \in StepsOf(pos)
    BY <2>1, <2>4, <2>5 DEF StepsOf, ExecIds
  <2>8. \A s \in 1 .. pos - 1 : Step.id \notin StepsOf(s)
    BY <1>1, <2>1, <2>7, ProgramFacts
  <2>9. \A c \in 1 .. child - 1 : program[pos].children[c].id # Step.id
    <3>1. \A c \in 1 .. child - 1 : c \in DOMAIN program[pos].children /\ c # child
      BY <1>1, <2>4, <2>5
    <3> QED
      BY <2>2, <2>4, <2>5, <3>1
  <2>10. ~Passed(Step.id)
    BY <2>8, <2>9 DEF Passed
  <2>11. ~IsBackground(Step.id)
    BY <1>1, <2>1, <2>7, PublishedFacts
  <2>12. Running
    BY <1>3 DEF AtExec, At
  <2> QED
    BY <1>3, <2>1, <2>5, <2>6, <2>7, <2>10, <2>11, <2>12 DEF IInv, ResultsPassed
<1> QED
  BY <1>2, <1>3

\* The step after it.
LEMMA AdvanceFacts ==
    ASSUME IInv, AtExec, Advance, UNCHANGED <<program, before>>
    PROVE  /\ pos' \in 1 .. Len(program') + 1 /\ child' \in Nat
           /\ pos <= pos' /\ pos' \in Nat
           /\ \A id : Passed(id) \/ id = Step.id => Passed(id)'
           /\ InGroup => /\ InGroup' /\ pos' = pos
                         /\ child' <= Len(program[pos].children) + 1
           /\ ~InGroup => ~InGroup' /\ pos' = pos + 1
           /\ \A id \in PendingIds : PublishedAt(id) >= pos'
<1>1. /\ TypeOK /\ Len(program) \in Nat /\ pos \in 1 .. Len(program) + 1 /\ child \in Nat
      /\ pos \in 1 .. Len(program) /\ Running /\ Step.id \in StepsOf(pos)
      /\ pos \in Nat
  BY ProgramFacts, StepFacts DEF IInv, TypeOK
<1>2. CASE ~InGroup
  <2>1. child = 0 /\ child' = 0 /\ pos' = pos + 1
    BY <1>1, <1>2 DEF Advance, InGroup
  <2>2. ASSUME NEW id, Passed(id) \/ id = Step.id PROVE Passed(id)'
    <3>1. PICK s \in 1 .. pos : id \in StepsOf(s)
      BY <1>1, <2>1, <2>2 DEF Passed
    <3> QED
      BY <1>1, <2>1, <3>1 DEF Passed, StepsOf
  <2>3. ASSUME NEW id \in PendingIds PROVE PublishedAt(id) >= pos'
    <3>1. program[pos].kind = "exec"
      BY <1>2, StepFacts
    <3>2. ~Joins(pos, id)
      BY <3>1 DEF Joins
    <3> QED
      BY <1>1, <1>2, <2>1, <3>2, NotDue
  <2> QED
    BY <1>1, <1>2, <2>1, <2>2, <2>3 DEF InGroup
<1>3. CASE InGroup
  <2>1. child > 0 /\ child' = child + 1 /\ pos' = pos /\ Step = program[pos].children[child]
        /\ child \in 1 .. Len(program[pos].children)
    BY <1>3, StepFacts DEF Advance, InGroup, Step
  <2>2. ASSUME NEW id, Passed(id) \/ id = Step.id PROVE Passed(id)'
    <3>1. CASE \E s \in 1 .. pos - 1 : id \in StepsOf(s)
      BY <2>1, <3>1 DEF Passed, StepsOf
    <3>2. CASE \E c \in 1 .. child - 1 : program[pos].children[c].id = id
      <4>1. PICK c \in 1 .. child' - 1 : program[pos].children[c].id = id
        BY <1>1, <2>1, <3>2
      <4> QED
        BY <2>1, <4>1 DEF Passed
    <3>3. CASE id = Step.id
      <4>1. child \in 1 .. child' - 1
        BY <1>1, <2>1
      <4> QED
        BY <2>1, <3>3, <4>1 DEF Passed
    <3> QED
      BY <2>2, <3>1, <3>2, <3>3 DEF Passed
  <2>3. \A id \in PendingIds : PublishedAt(id) >= pos'
    BY <1>1, <2>1 DEF IInv, StillHeld
  <2>4. child' <= Len(program[pos].children) + 1
    <3>1. Len(program[pos].children) \in Int
      BY <2>1
    <3> QED
      BY <1>1, <2>1
  <2> QED
    BY <1>1, <1>3, <2>1, <2>2, <2>3, <2>4 DEF InGroup
<1> QED
  BY <1>2, <1>3

\* What the interpreter has passed is at the step where it is, or before.
LEMMA PassedPlace ==
    ASSUME IInv, NEW id, Passed(id)
    PROVE  \E s \in 1 .. Len(program) :
             /\ s < pos \/ (s = pos /\ InGroup)
             /\ id \in StepsOf(s)
<1>1. TypeOK /\ Len(program) \in Nat /\ pos \in 1 .. Len(program) + 1 /\ child \in Nat
  BY ProgramFacts DEF IInv, TypeOK
<1>2. CASE \E s \in 1 .. pos - 1 : id \in StepsOf(s)
  BY <1>1, <1>2
<1>3. CASE \E c \in 1 .. child - 1 : program[pos].children[c].id = id
  <2>1. PICK c \in 1 .. child - 1 : program[pos].children[c].id = id
    BY <1>3
  <2>2. /\ pos \in 1 .. Len(program) /\ program[pos].kind = "parallel" /\ InGroup
        /\ child <= Len(program[pos].children) + 1
    BY <1>1, <2>1 DEF IInv, Place, InGroup
  <2>3. program[pos] \in Group
    BY <1>1, <2>2, ProgramFacts
  <2>4. program[pos].children \in Seq(Exec)
    BY <2>3 DEF Group
  <2>5. c \in DOMAIN program[pos].children
    BY <1>1, <2>1, <2>2, <2>4
  <2>6. id \in StepsOf(pos)
    BY <2>1, <2>2, <2>5 DEF StepsOf, ExecIds
  <2> QED
    BY <2>2, <2>6
<1> QED
  BY <1>2, <1>3 DEF Passed

\* What has a result has a place of publication.
LEMMA ResultPlace ==
    ASSUME IInv, NEW id \in Ids, steps[id] # None \/ pending[id] # None
    PROVE  PublishedAt(id) \in 1 .. Len(program) + 1
<1>1. TypeOK /\ Len(program) \in Nat
  BY ProgramFacts DEF IInv
<1>2. PICK s \in 1 .. Len(program) : id \in StepsOf(s)
  BY PassedPlace DEF IInv, ResultsPassed
<1> QED
  BY <1>1, <1>2, PublishedFacts

\* While a step is ahead or pending, what is published was due before.
LEMMA PublishedBefore ==
    ASSUME IInv, pos <= Len(program) \/ PendingIds # {}, NEW id \in Started, steps[id] # None
    PROVE  PublishedAt(id) \in Int /\ PublishedAt(id) < pos
<1>1. TypeOK /\ Len(program) \in Nat /\ pos \in 1 .. Len(program) + 1 /\ started \in Seq(Ids)
  BY ProgramFacts DEF IInv, TypeOK
<1>2. id \in Ids
  BY <1>1 DEF Started
<1>3. PublishedAt(id) \in 1 .. Len(program) + 1
  BY <1>2, ResultPlace
<1>4. pos > PublishedAt(id)
  BY <1>1 DEF IInv, WasDue
<1> QED
  BY <1>1, <1>3, <1>4

-----------------------------------------------------------------------------
(* The environment.                                                         *)

\* The property, with a name for the published steps that wrote a variable.
Wrote(all, id, k) == all[id] # None /\ all[id][k] # None
Writers(k) == {id \in Started : steps[id] # None /\ Wrote(wrote, id, k)}
\* The property by those names.
LEMMA LastWrite ==
    LastPublishedWriteStands <=>
        \A k \in Keys :
            /\ Writers(k) = {} => env[k] = None
            /\ \A id \in Writers(k) :
                (\A other \in Writers(k) : PublishedAt(other) <= PublishedAt(id))
                => env[k] = wrote[id][k]
  BY DEF LastPublishedWriteStands, Writers, Wrote

\* A step is published at the same place of the same program.
LEMMA SameProgram ==
    ASSUME UNCHANGED program
    PROVE  \A id : PublishedAt(id)' = PublishedAt(id) /\ StepsOf(id)' = StepsOf(id)
  BY DEF PublishedAt, Position, IsBackground, Joins, StepsOf, ExecIds

\* Where no step is published, the environment stays.
LEMMA WritesStay ==
    ASSUME IInv, UNCHANGED <<program, env>>,
           \A k \in Keys : Writers(k)' = Writers(k)
                           /\ \A id \in Writers(k) : wrote'[id] = wrote[id]
    PROVE  LastPublishedWriteStands'
<1>1. \A id : PublishedAt(id)' = PublishedAt(id)
  BY SameProgram
<1>2. LastPublishedWriteStands
  BY DEF IInv
<1>3. \A k \in Keys :
        /\ Writers(k) = {} => env[k] = None
        /\ \A id \in Writers(k) :
            (\A other \in Writers(k) : PublishedAt(other) <= PublishedAt(id))
            => env[k] = wrote[id][k]
  BY <1>2, LastWrite
<1>4. \A k \in Keys :
        /\ Writers(k)' = {} => env'[k] = None
        /\ \A id \in Writers(k)' :
            (\A other \in Writers(k)' : PublishedAt(other)' <= PublishedAt(id)')
            => env'[k] = wrote'[id][k]
  BY <1>1, <1>3
<1> QED
  BY <1>4 DEF LastPublishedWriteStands, Writers, Wrote

\* Where some are published that agree, after all that were published before,
\* their writes stand.
LEMMA WritesPublish ==
    ASSUME IInv, UNCHANGED program, NEW J, NEW place \in Int,
           \A id \in J : PublishedAt(id) = place,
           \A id \in Started : steps[id] # None => PublishedAt(id) \in Int /\ PublishedAt(id) < place,
           \A k \in Keys :
             /\ \A id : id \in Writers(k)' <=>
                  \/ id \in Writers(k)
                  \/ id \in J /\ Wrote(wrote', id, k)
             /\ \A id \in Writers(k) : wrote'[id] = wrote[id]
             /\ (\A id \in J : ~Wrote(wrote', id, k)) => env'[k] = env[k]
             /\ \A id \in J : Wrote(wrote', id, k) => env'[k] = wrote'[id][k]
    PROVE  LastPublishedWriteStands'
<1>1. \A id : PublishedAt(id)' = PublishedAt(id)
  BY SameProgram
<1>2. LastPublishedWriteStands
  BY DEF IInv
<1>3. \A k \in Keys :
        /\ Writers(k) = {} => env[k] = None
        /\ \A id \in Writers(k) :
            (\A other \in Writers(k) : PublishedAt(other) <= PublishedAt(id))
            => env[k] = wrote[id][k]
  BY <1>2, LastWrite
<1>4. \A k \in Keys : \A id \in Writers(k) : PublishedAt(id) \in Int /\ PublishedAt(id) < place
  BY DEF Writers
<1>5. ASSUME NEW k \in Keys
      PROVE  /\ Writers(k)' = {} => env'[k] = None
             /\ \A id \in Writers(k)' :
                 (\A other \in Writers(k)' : PublishedAt(other)' <= PublishedAt(id)')
                 => env'[k] = wrote'[id][k]
  <2>1. CASE \A id \in J : ~Wrote(wrote', id, k)
    <3>1. Writers(k)' = Writers(k) /\ env'[k] = env[k]
      BY <2>1
    <3> QED
      BY <1>1, <1>3, <3>1
  <2>2. CASE \E id \in J : Wrote(wrote', id, k)
    <3>1. PICK new \in J : Wrote(wrote', new, k)
      BY <2>2
    <3>2. new \in Writers(k)' /\ PublishedAt(new) = place
      BY <3>1
    <3>3. ASSUME NEW id \in Writers(k)',
                 \A other \in Writers(k)' : PublishedAt(other)' <= PublishedAt(id)'
          PROVE  env'[k] = wrote'[id][k]
      <4>1. id \notin Writers(k)
        BY <1>1, <1>4, <3>2, <3>3
      <4> QED
        BY <4>1
    <3> QED
      BY <3>2, <3>3
  <2> QED
    BY <2>1, <2>2
<1> QED
  BY <1>5 DEF LastPublishedWriteStands, Writers, Wrote

-----------------------------------------------------------------------------
(* Steps that run, or do not.                                               *)

\* In a group a further member has been passed.
LEMMA AdvanceKeeps ==
    ASSUME IInv, AtExec, Advance, UNCHANGED <<program, before>>,
           \A id \in Ids : pending'[id] # None => pending[id] # None \/ id = Step.id,
           \A id \in Ids : steps'[id] # None => steps[id] # None \/ id = Step.id
    PROVE  Place' /\ ResultsPassed'
<1>1. ResultsPassed'
  BY AdvanceFacts DEF IInv, ResultsPassed
<1>2. ASSUME InGroup' PROVE Place'
  <2>1. InGroup /\ pos' = pos /\ child' <= Len(program[pos].children) + 1
    BY <1>2, AdvanceFacts
  <2>2. Step.id \in StepsOf(pos)
    BY StepFacts
  <2> QED
    BY <2>1, <2>2 DEF IInv, Place, PendingIds, StepsOf
<1> QED
  BY <1>1, <1>2 DEF Place

\* A step that starts.
LEMMA StartedAppend ==
    ASSUME TypeOK, NEW id \in Ids, started' = Append(started, id)
    PROVE  started' \in Seq(Ids) /\ Started' = Started \cup {id}
<1>1. started \in Seq(Ids) /\ Len(started) \in Nat /\ DOMAIN started = 1 .. Len(started)
  BY DEF TypeOK
<1>2. /\ started' \in Seq(Ids) /\ DOMAIN started' = 1 .. Len(started) + 1
      /\ \A n \in 1 .. Len(started) : started'[n] = started[n]
      /\ started'[Len(started) + 1] = id
  BY <1>1, AppendProperties
<1>3. Started = {started[n] : n \in 1 .. Len(started)}
      /\ Started' = {started'[n] : n \in 1 .. Len(started) + 1}
  BY <1>1, <1>2 DEF Started
<1>4. \A n : n \in 1 .. Len(started) + 1 <=> n \in 1 .. Len(started) \/ n = Len(started) + 1
  BY <1>1
<1> QED
  BY <1>2, <1>3, <1>4

\* A step that is skipped has a result and no writes.
LEMMA SkipKeeps == ASSUME IInv, Skip PROVE IInv'
<1> DEFINE skipped == [outcome |-> "skipped", conclusion |-> "skipped", requested |-> FALSE]
<1>1. /\ AtExec /\ Advance /\ steps' = [steps EXCEPT ![Step.id] = skipped]
      /\ UNCHANGED <<program, initFailed, before, pending, env, started, state, verdict, wrote,
                     entered>>
  BY DEF Skip
<1>2. Step.id \in Ids /\ steps[Step.id] = None /\ pending[Step.id] = None /\ Running
  BY <1>1, StepFacts
<1>3. skipped \in Skipped /\ skipped # None /\ skipped.outcome = "skipped"
  <2>1. skipped \in Skipped
    BY DEF Skipped
  <2> QED
    BY <2>1, ConstantsAssumption
<1> HIDE DEF skipped
<1>4. \A id \in Ids : steps'[id] = IF id = Step.id THEN skipped ELSE steps[id]
  BY <1>1, <1>2 DEF IInv, TypeOK
<1>5. Step.id \notin Started /\ Started' = Started
  BY <1>1, <1>2 DEF IInv, EveryStartedStepCounts, Running, Started
<1>6. Started \subseteq Ids
  BY DEF IInv, TypeOK, Started
<1>7. TypeOK'
  BY <1>1, <1>2, <1>3, AdvanceFacts DEF IInv, TypeOK
<1>8. Place' /\ ResultsPassed'
  BY <1>1, <1>4, AdvanceKeeps
<1>9. StillHeld' /\ WritesKept'
  BY <1>1, SameProgram, AdvanceFacts DEF IInv, StillHeld, PendingIds, WritesKept
<1>10. WasDue'
  <2>1. pos <= pos' /\ pos \in Nat /\ pos' \in Nat /\ pos \in 1 .. Len(program)
    BY <1>1, StepFacts, AdvanceFacts
  <2>2. ASSUME NEW id \in Started, steps'[id] # None PROVE pos' > PublishedAt(id)
    <3>1. steps[id] # None
      BY <1>4, <1>5, <1>6, <2>2
    <3>2. PublishedAt(id) \in Int /\ PublishedAt(id) < pos
      BY <2>1, <2>2, <3>1, PublishedBefore
    <3> QED
      BY <2>1, <3>2
  <2> QED
    BY <1>1, <1>5, <2>2, SameProgram DEF WasDue
<1>11. EveryStartedStepCounts'
  BY <1>1, <1>2, <1>3, <1>4, <1>5 DEF IInv, EveryStartedStepCounts, Running
<1>12. LastPublishedWriteStands'
  <2>1. \A k : Writers(k)' = Writers(k)
    BY <1>1, <1>4, <1>5, <1>6 DEF Writers
  <2> QED
    BY <1>1, <2>1, WritesStay
<1> QED
  BY <1>7, <1>8, <1>9, <1>10, <1>11, <1>12 DEF IInv

\* A step that runs publishes at once, or holds back what it did.
LEMMA ExecuteKeeps == ASSUME IInv, Execute PROVE IInv'
<1>0. PICK outcome \in Outcomes, writes \in Writes : \E result :
        /\ result = [outcome |-> outcome,
                     conclusion |-> IF outcome = "failure" /\ Step.tolerate
                                    THEN "success" ELSE outcome,
                     requested |-> FALSE]
        /\ AtExec /\ started' = Append(started, Step.id)
        /\ IF Step.background \/ InGroup
           THEN /\ pending' = [pending EXCEPT ![Step.id] = [result |-> result, writes |-> writes]]
                /\ UNCHANGED <<steps, env>>
           ELSE /\ steps' = [steps EXCEPT ![Step.id] = result]
                /\ env' = [k \in Keys |-> IF writes[k] = None THEN env[k] ELSE writes[k]]
                /\ UNCHANGED pending
        /\ wrote' = [wrote EXCEPT ![Step.id] = writes]
        /\ Advance
        /\ UNCHANGED <<program, initFailed, before, state, verdict, entered>>
  BY DEF Execute
<1>1. PICK result :
        /\ result = [outcome |-> outcome,
                     conclusion |-> IF outcome = "failure" /\ Step.tolerate
                                    THEN "success" ELSE outcome,
                     requested |-> FALSE]
        /\ AtExec /\ started' = Append(started, Step.id)
        /\ IF Step.background \/ InGroup
           THEN /\ pending' = [pending EXCEPT ![Step.id] = [result |-> result, writes |-> writes]]
                /\ UNCHANGED <<steps, env>>
           ELSE /\ steps' = [steps EXCEPT ![Step.id] = result]
                /\ env' = [k \in Keys |-> IF writes[k] = None THEN env[k] ELSE writes[k]]
                /\ UNCHANGED pending
        /\ wrote' = [wrote EXCEPT ![Step.id] = writes]
        /\ Advance
        /\ UNCHANGED <<program, initFailed, before, state, verdict, entered>>
  BY <1>0
<1>2. /\ Step.id \in Ids /\ steps[Step.id] = None /\ pending[Step.id] = None /\ Running
      /\ pos \in 1 .. Len(program)
  BY <1>1, StepFacts
<1>3. result \in Ran /\ result # None /\ result.outcome \in Outcomes
  <2>1. result \in Ran
    BY <1>1 DEF Ran, Outcomes
  <2> QED
    BY <2>1, ConstantsAssumption DEF Ran
<1>4. started' \in Seq(Ids) /\ Started' = Started \cup {Step.id}
  BY <1>1, <1>2, StartedAppend DEF IInv
<1>5. Step.id \notin Started /\ Started \subseteq Ids
  BY <1>2 DEF IInv, EveryStartedStepCounts, Running, Started, TypeOK
<1>6. /\ wrote' \in [Ids -> Writes \cup {None}] /\ writes # None
      /\ \A id \in Ids : wrote'[id] = IF id = Step.id THEN writes ELSE wrote[id]
  BY <1>1, <1>2, ConstantsAssumption DEF IInv, TypeOK
<1>7. /\ pos <= pos' /\ pos \in Nat /\ pos' \in Nat
      /\ ~InGroup => pos' = pos + 1
  BY <1>1, <1>2, AdvanceFacts
<1>8. \A id \in Started : steps[id] # None => PublishedAt(id) \in Int /\ PublishedAt(id) < pos
  BY <1>2, PublishedBefore
<1>9. CASE Step.background \/ InGroup
  <2> DEFINE held == [result |-> result, writes |-> writes]
  <2>1. pending' = [pending EXCEPT ![Step.id] = held] /\ UNCHANGED <<steps, env>>
    BY <1>1, <1>9
  <2>2. held \in Held /\ held.writes = writes
    BY <1>3 DEF Held
  <2>3. held # None
    BY <2>2, ConstantsAssumption
  <2> HIDE DEF held
  <2>4. \A id \in Ids : pending'[id] = IF id = Step.id THEN held ELSE pending[id]
    BY <1>2, <2>1 DEF IInv, TypeOK
  <2>5. TypeOK'
    <3>1. pending' \in [Ids -> Held \cup {None}]
      BY <2>1, <2>2 DEF IInv, TypeOK
    <3> QED
      BY <1>1, <1>4, <1>6, <2>1, <3>1, AdvanceFacts DEF IInv, TypeOK
  <2>6. Place' /\ ResultsPassed'
    BY <1>1, <2>1, <2>4, AdvanceKeeps
  <2>7. PublishedAt(Step.id) >= pos'
    <3>1. Step.id \in StepsOf(pos) /\ TypeOK /\ Len(program) \in Nat
      BY <1>1, StepFacts, ProgramFacts DEF IInv
    <3>2. CASE InGroup
      <4>1. PublishedAt(Step.id) = pos /\ pos' = pos
        BY <1>1, <1>2, <3>1, <3>2, StepFacts, AdvanceFacts, PublishedFacts
      <4> QED
        BY <1>7, <4>1
    <3>3. CASE ~InGroup
      <4>1. IsBackground(Step.id)
        BY <1>1, <1>9, <3>3, StepFacts
      <4>2. PublishedAt(Step.id) \in pos + 1 .. Len(program) + 1
        BY <1>2, <3>1, <4>1, PublishedFacts
      <4> QED
        BY <1>7, <3>1, <3>3, <4>2
    <3> QED
      BY <3>2, <3>3
  <2>8. StillHeld'
    <3>1. \A id \in PendingIds' : id = Step.id \/ id \in PendingIds
      BY <2>4 DEF PendingIds
    <3>2. \A id \in PendingIds' : PublishedAt(id) >= pos'
      BY <1>1, <2>7, <3>1, AdvanceFacts
    <3> QED
      BY <1>1, <3>2, SameProgram DEF StillHeld
  <2>9. WritesKept'
    BY <1>6, <2>2, <2>4 DEF IInv, WritesKept, PendingIds
  <2>10. WasDue'
    <3>1. ASSUME NEW id \in Started', steps'[id] # None PROVE pos' > PublishedAt(id)
      <4>1. id \in Started /\ steps[id] # None
        BY <1>2, <1>4, <2>1, <3>1
      <4> QED
        BY <1>7, <1>8, <4>1
    <3> QED
      BY <1>1, <3>1, SameProgram DEF WasDue
  <2>11. EveryStartedStepCounts'
    BY <1>1, <1>2, <1>4, <2>1, <2>3, <2>4 DEF IInv, EveryStartedStepCounts, Running
  <2>12. LastPublishedWriteStands'
    <3>1. \A k : Writers(k)' = Writers(k) /\ \A id \in Writers(k) : wrote'[id] = wrote[id]
      BY <1>2, <1>4, <1>5, <1>6, <2>1 DEF Writers, Wrote
    <3> QED
      BY <1>1, <2>1, <3>1, WritesStay
  <2> QED
    BY <2>5, <2>6, <2>8, <2>9, <2>10, <2>11, <2>12 DEF IInv
<1>10. CASE ~(Step.background \/ InGroup)
  <2>1. /\ steps' = [steps EXCEPT ![Step.id] = result] /\ UNCHANGED pending
        /\ env' = [k \in Keys |-> IF writes[k] = None THEN env[k] ELSE writes[k]]
    BY <1>1, <1>10
  <2>2. \A id \in Ids : steps'[id] = IF id = Step.id THEN result ELSE steps[id]
    BY <1>2, <2>1 DEF IInv, TypeOK
  <2>3. TypeOK'
    <3>1. env' \in [Keys -> Values \cup {None}] /\ steps' \in [Ids -> Ran \cup Skipped \cup {None}]
      BY <1>3, <2>1 DEF IInv, TypeOK, Writes
    <3> QED
      BY <1>1, <1>4, <1>6, <2>1, <3>1, AdvanceFacts DEF IInv, TypeOK
  <2>4. Place' /\ ResultsPassed'
    BY <1>1, <2>1, <2>2, AdvanceKeeps
  <2>5. PublishedAt(Step.id) = pos /\ pos' = pos + 1
    BY <1>1, <1>2, <1>7, <1>10, StepFacts, PublishedFacts DEF IInv
  <2>6. StillHeld'
    <3>1. PendingIds' = PendingIds
      BY <2>1 DEF PendingIds
    <3> QED
      BY <1>1, <3>1, SameProgram, AdvanceFacts DEF StillHeld
  <2>7. WritesKept'
    BY <1>2, <1>6, <2>1 DEF IInv, WritesKept, PendingIds
  <2>8. WasDue'
    <3>1. ASSUME NEW id \in Started', steps'[id] # None PROVE pos' > PublishedAt(id)
      <4>1. CASE id = Step.id
        BY <1>7, <2>5, <4>1
      <4>2. CASE id # Step.id
        BY <1>4, <1>5, <1>7, <1>8, <2>2, <3>1, <4>2
      <4> QED
        BY <4>1, <4>2
    <3> QED
      BY <1>1, <3>1, SameProgram DEF WasDue
  <2>9. EveryStartedStepCounts'
    <3>1. result.outcome # "skipped"
      BY <1>3 DEF Outcomes
    <3> QED
      BY <1>1, <1>2, <1>3, <1>4, <2>1, <2>2, <3>1 DEF IInv, EveryStartedStepCounts, Running
  <2>10. LastPublishedWriteStands'
    <3>0. PICK J, place : J = {Step.id} /\ place = pos
      OBVIOUS
    <3>1. ASSUME NEW k \in Keys
          PROVE  /\ \A id : id \in Writers(k)' <=>
                  \/ id \in Writers(k)
                  \/ id \in J /\ Wrote(wrote', id, k)
                 /\ \A id \in Writers(k) : wrote'[id] = wrote[id]
                 /\ (\A id \in J : ~Wrote(wrote', id, k)) => env'[k] = env[k]
                 /\ \A id \in J : Wrote(wrote', id, k) => env'[k] = wrote'[id][k]
      <4>1. Step.id \notin Writers(k) /\ Writers(k) \subseteq Ids
        BY <1>5 DEF Writers
      <4>2. \A id : id \in Writers(k)' <=>
                  \/ id \in Writers(k)
                  \/ id \in J /\ Wrote(wrote', id, k)
        <5>1. Step.id \in Writers(k)' <=> Wrote(wrote', Step.id, k)
          BY <1>2, <1>3, <1>4, <2>2 DEF Writers, Wrote
        <5>2. ASSUME NEW id, id # Step.id PROVE id \in Writers(k)' <=> id \in Writers(k)
          BY <1>4, <1>5, <1>6, <2>2, <5>2 DEF Writers, Wrote
        <5> QED
          BY <3>0, <4>1, <5>1, <5>2
      <4>3. wrote'[Step.id] = writes
        BY <1>2, <1>6
      <4> QED
        BY <1>6, <2>1, <3>0, <4>1, <4>2, <4>3 DEF Wrote
    <3>2. \A id \in J : PublishedAt(id) = place
      BY <2>5, <3>0
    <3>3. place \in Int /\ \A id \in Started : steps[id] # None =>
                              PublishedAt(id) \in Int /\ PublishedAt(id) < place
      BY <1>7, <1>8, <3>0
    <3> QED
      BY <1>1, <3>1, <3>2, <3>3, WritesPublish
  <2> QED
    BY <2>3, <2>4, <2>6, <2>7, <2>8, <2>9, <2>10 DEF IInv
<1> QED
  BY <1>9, <1>10

-----------------------------------------------------------------------------
(* Joins.                                                                   *)

\* What is joined was due here and nowhere before; what stays pending is due
\* later.
LEMMA JoinKeeps ==
    ASSUME IInv, Running, NEW ids, Join(ids), child' = 0,
           UNCHANGED <<program, initFailed, before, started, verdict, wrote, entered>>,
           \A id \in ids \cap PendingIds : PublishedAt(id) = pos,
           \/ /\ pos <= Len(program) /\ pos' = pos + 1
              /\ \A id \in PendingIds \ ids : PublishedAt(id) >= pos + 1
           \/ /\ pos = Len(program) + 1 /\ pos' = pos /\ ~InGroup
              /\ PendingIds # {} /\ PendingIds \subseteq ids
    PROVE  IInv'
<1>1. /\ TypeOK /\ Len(program) \in Nat /\ pos \in 1 .. Len(program) + 1 /\ child \in Nat
      /\ pos \in Nat /\ started \in Seq(Ids)
  BY ProgramFacts DEF IInv, TypeOK
<1>2. PICK joined : joined = ids \cap PendingIds
  OBVIOUS
<1>3. joined \subseteq Ids /\ \A id \in joined : pending[id] # None /\ pending[id] \in Held
  BY <1>1, <1>2 DEF PendingIds, TypeOK
<1>4. \A id \in Ids : Passed(id) => Passed(id)'
  <2>1. ASSUME NEW id \in Ids, Passed(id) PROVE Passed(id)'
    <3>1. PICK s \in 1 .. Len(program) : /\ s < pos \/ (s = pos /\ InGroup)
                                         /\ id \in StepsOf(s)
      BY <2>1, PassedPlace
    <3>2. s \in 1 .. pos' - 1
      BY <1>1, <3>1
    <3> QED
      BY <3>1, <3>2 DEF Passed, StepsOf
  <2> QED
    BY <2>1
<1>5. \A id \in Started : steps[id] # None => PublishedAt(id) \in Int /\ PublishedAt(id) < pos
  BY PublishedBefore
<1>6. Started' = Started /\ Started \subseteq Ids /\ pos' \in 1 .. Len(program') + 1
  BY <1>1 DEF Started
<1>7. \A id : PublishedAt(id)' = PublishedAt(id)
  BY SameProgram
<1>8. Place'
  BY DEF Place, InGroup
<1>9. CASE state' = "conflict" /\ UNCHANGED <<steps, pending, env>>
  <2>1. TypeOK'
    BY <1>1, <1>6, <1>9 DEF TypeOK
  <2>2. ResultsPassed' /\ WritesKept' /\ StillHeld' /\ EveryStartedStepCounts'
    BY <1>4, <1>9 DEF IInv, ResultsPassed, WritesKept, PendingIds, StillHeld, Running,
       EveryStartedStepCounts
  <2>3. WasDue'
    <3>1. \A id \in Started' : steps'[id] # None => pos' > PublishedAt(id)
      BY <1>1, <1>5, <1>6, <1>9
    <3> QED
      BY <1>7, <3>1 DEF WasDue
  <2>4. LastPublishedWriteStands'
    <3>1. \A k : Writers(k)' = Writers(k)
      BY <1>6, <1>9 DEF Writers
    <3> QED
      BY <1>9, <3>1, WritesStay
  <2> QED
    BY <1>8, <2>1, <2>2, <2>3, <2>4 DEF IInv
<1>10. CASE /\ ~Conflict(joined) /\ UNCHANGED state
            /\ steps' = [id \in Ids |-> IF id \in joined THEN pending[id].result ELSE steps[id]]
            /\ pending' = [id \in Ids |-> IF id \in joined THEN None ELSE pending[id]]
            /\ env' = [k \in Keys |-> Written(joined, k)]
  <2>1. \A id \in joined : /\ pending[id].result \in Ran /\ pending[id].result # None
                           /\ pending[id].writes \in Writes
                           /\ pending[id].result.outcome # "skipped"
    <3>1. ASSUME NEW id \in joined
          PROVE  /\ pending[id].result \in Ran /\ pending[id].result # None
                 /\ pending[id].writes \in Writes
                 /\ pending[id].result.outcome # "skipped"
      <4>1. pending[id].result \in Ran /\ pending[id].writes \in Writes
        BY <1>3 DEF Held
      <4>2. pending[id].result.outcome \in Outcomes
        BY <4>1 DEF Ran
      <4> QED
        BY <4>1, <4>2, ConstantsAssumption DEF Outcomes
    <3> QED
      BY <3>1
  <2>2. PendingIds' = PendingIds \ joined
    BY <1>3, <1>10 DEF PendingIds
  <2>3. TypeOK'
    <3>1. steps' \in [Ids -> Ran \cup Skipped \cup {None}]
      BY <1>1, <1>10, <2>1 DEF TypeOK
    <3>2. pending' \in [Ids -> Held \cup {None}]
      BY <1>1, <1>10 DEF TypeOK
    <3>3. ASSUME NEW k \in Keys PROVE Written(joined, k) \in Values \cup {None}
      <4> DEFINE writers == {id \in joined : pending[id].writes[k] # None}
      <4>1. CASE writers = {}
        BY <1>1, <4>1 DEF Written, TypeOK
      <4>2. CASE writers # {}
        <5>1. PICK w : w = CHOOSE id \in writers : TRUE
          OBVIOUS
        <5>2. w \in writers
          BY <4>2, <5>1
        <5>3. Written(joined, k) = pending[w].writes[k]
          BY <4>2, <5>1 DEF Written
        <5>4. pending[w].writes \in Writes
          BY <2>1, <5>2
        <5> QED
          BY <5>3, <5>4 DEF Writes
      <4> QED
        BY <4>1, <4>2
    <3> QED
      BY <1>1, <1>6, <1>10, <3>1, <3>2, <3>3 DEF TypeOK
  <2>4. ResultsPassed'
    BY <1>3, <1>4, <1>10 DEF IInv, ResultsPassed
  <2>5. StillHeld'
    <3>1. \A id \in PendingIds' : PublishedAt(id) >= pos'
      BY <1>1, <1>2, <2>2
    <3> QED
      BY <1>7, <3>1 DEF StillHeld
  <2>6. WasDue'
    <3>1. ASSUME NEW id \in Started', steps'[id] # None
          PROVE  \/ pos' > PublishedAt(id)
                 \/ pos' = Len(program) + 1 /\ PublishedAt(id) = pos' /\ PendingIds' = {}
      <4>1. CASE id \in joined
        <5>1. PublishedAt(id) = pos
          BY <1>2, <4>1
        <5> QED
          BY <1>1, <1>2, <2>2, <5>1
      <4>2. CASE id \notin joined
        <5>1. PublishedAt(id) \in Int /\ PublishedAt(id) < pos
          BY <1>5, <1>6, <1>10, <3>1, <4>2
        <5> QED
          BY <1>1, <5>1
      <4> QED
        BY <4>1, <4>2
    <3> QED
      BY <1>7, <3>1 DEF WasDue
  <2>7. WritesKept'
    BY <1>10, <2>2 DEF IInv, WritesKept, PendingIds
  <2>8. EveryStartedStepCounts'
    BY <1>3, <1>6, <1>10, <2>1 DEF IInv, EveryStartedStepCounts, Running
  <2>9. LastPublishedWriteStands'
    <3>1. PICK place : place = pos
      OBVIOUS
    <3>2. \A id \in joined : id \in Started /\ wrote[id] = pending[id].writes
      BY <1>2, <1>3 DEF IInv, EveryStartedStepCounts, Running, WritesKept
    <3>3. ASSUME NEW k \in Keys
          PROVE  /\ \A id : id \in Writers(k)' <=>
                       \/ id \in Writers(k)
                       \/ id \in joined /\ Wrote(wrote', id, k)
                 /\ \A id \in Writers(k) : wrote'[id] = wrote[id]
                 /\ (\A id \in joined : ~Wrote(wrote', id, k)) => env'[k] = env[k]
                 /\ \A id \in joined : Wrote(wrote', id, k) => env'[k] = wrote'[id][k]
      <4>1. ASSUME NEW id PROVE id \in Writers(k)' <=> \/ id \in Writers(k)
                                                       \/ id \in joined /\ Wrote(wrote', id, k)
        BY <1>3, <1>6, <1>10, <2>1, <3>2 DEF Writers
      <4> DEFINE writers == {id \in joined : pending[id].writes[k] # None}
      <4>2. env'[k] = Written(joined, k)
        BY <1>10
      <4>3. \A id : id \in writers <=> id \in joined /\ Wrote(wrote', id, k)
        BY <2>1, <3>2, ConstantsAssumption DEF Wrote
      <4>4. CASE writers = {}
        BY <4>1, <4>2, <4>3, <4>4 DEF Written
      <4>5. CASE writers # {}
        <5>1. PICK w : w = CHOOSE id \in writers : TRUE
          OBVIOUS
        <5>2. w \in writers
          BY <4>5, <5>1
        <5>3. env'[k] = pending[w].writes[k]
          BY <4>2, <4>5, <5>1 DEF Written
        <5>4. \A id \in writers : pending[id].writes[k] = pending[w].writes[k]
          BY <1>10, <5>2 DEF Conflict
        <5> HIDE DEF writers
        <5>5. \A id \in writers : env'[k] = wrote'[id][k]
          BY <3>2, <4>3, <5>3, <5>4
        <5> QED
          BY <4>1, <4>3, <5>2, <5>5
      <4> QED
        BY <4>4, <4>5
    <3>4. \A id \in joined : PublishedAt(id) = place
      BY <1>2, <3>1
    <3>5. place \in Int /\ \A id \in Started : steps[id] # None =>
                              PublishedAt(id) \in Int /\ PublishedAt(id) < place
      BY <1>1, <1>5, <3>1
    <3> QED
      BY <3>3, <3>4, <3>5, WritesPublish
  <2> QED
    BY <1>8, <2>3, <2>4, <2>5, <2>6, <2>7, <2>8, <2>9 DEF IInv
<1> QED
  BY <1>2, <1>9, <1>10 DEF Join

\* A control joins what it names.
LEMMA WaitKeeps == ASSUME IInv, Wait PROVE IInv'
<1>1. /\ Running /\ ~InGroup /\ pos <= Len(program) /\ pos' = pos + 1
      /\ program[pos].kind \in {"wait", "wait-all"}
      /\ Join(IF At("wait") THEN program[pos].targets ELSE PendingIds)
      /\ UNCHANGED <<program, initFailed, child, before, started, verdict, wrote, entered>>
  BY DEF Wait, At
<1>2. PICK ids : ids = IF At("wait") THEN program[pos].targets ELSE PendingIds
  OBVIOUS
<1>3. child' = 0
  BY <1>1 DEF InGroup, IInv, TypeOK
<1>4. \A id \in PendingIds : id \in ids <=> Joins(pos, id)
  BY <1>1, <1>2 DEF At, Joins
<1>5. \A id \in ids \cap PendingIds : PublishedAt(id) = pos
  BY <1>1, <1>4, NotDue
<1>6. \A id \in PendingIds \ ids : PublishedAt(id) >= pos + 1
  BY <1>1, <1>4, NotDue
<1> QED
  BY <1>1, <1>2, <1>3, <1>5, <1>6, JoinKeeps

\* A group joins what it left pending itself.
LEMMA LeaveGroupKeeps == ASSUME IInv, LeaveGroup PROVE IInv'
<1>1. /\ Running /\ InGroup /\ Join(PendingIds \ before) /\ child' = 0 /\ pos' = pos + 1
      /\ UNCHANGED <<program, initFailed, before, started, verdict, wrote, entered>>
  BY DEF LeaveGroup
<1>2. /\ pos \in 1 .. Len(program) /\ program[pos].kind = "parallel" /\ TypeOK
      /\ Len(program) \in Nat
  BY <1>1, ProgramFacts DEF IInv, TypeOK, Place
<1>3. PICK ids : ids = PendingIds \ before
  OBVIOUS
<1>4. ASSUME NEW id \in ids \cap PendingIds PROVE PublishedAt(id) = pos
  <2>1. id \in StepsOf(pos)
    BY <1>1, <1>3 DEF IInv, Place
  <2> QED
    BY <1>2, <2>1, PublishedFacts
<1>5. ASSUME NEW id \in PendingIds \ ids PROVE PublishedAt(id) >= pos + 1
  <2>1. PICK s \in 1 .. pos - 1 : id \in StepsOf(s)
    BY <1>1, <1>3 DEF IInv, Place
  <2>2. s \in 1 .. Len(program) /\ s < pos
    BY <1>2, <2>1
  <2>3. PublishedAt(id) >= pos
    BY <1>1 DEF IInv, StillHeld
  <2>4. ~Joins(pos, id)
    BY <1>2 DEF Joins
  <2>5. PublishedAt(id) \in s .. Len(program) + 1 /\ PublishedAt(id) # pos
    <3>1. IsBackground(id)
      BY <1>2, <2>1, <2>2, <2>3, PublishedFacts
    <3>2. PublishedAt(id) \in s + 1 .. Len(program) + 1
          /\ (PublishedAt(id) <= Len(program) => Joins(PublishedAt(id), id))
      BY <1>2, <2>1, <2>2, <3>1, PublishedFacts
    <3> QED
      BY <1>2, <2>2, <2>4, <3>2
  <2> QED
    BY <1>2, <2>2, <2>3, <2>5
<1> QED
  BY <1>1, <1>2, <1>3, <1>4, <1>5, JoinKeeps

\* The end of the job joins the rest.
LEMMA JoinRestKeeps == ASSUME IInv, JoinRest PROVE IInv'
<1>1. /\ Running /\ ~InGroup /\ pos = Len(program) + 1 /\ PendingIds # {} /\ Join(PendingIds)
      /\ UNCHANGED <<program, initFailed, pos, child, before, started, verdict, wrote, entered>>
  BY DEF JoinRest, AtEnd
<1>2. child' = 0 /\ Len(program) \in Nat
  BY <1>1, ProgramFacts DEF InGroup, IInv, TypeOK
<1>3. PICK ids : ids = PendingIds
  OBVIOUS
<1>4. \A id \in ids \cap PendingIds : PublishedAt(id) = pos
  BY <1>1, <1>2, <1>3, NotDue
<1> QED
  BY <1>1, <1>2, <1>3, <1>4, JoinKeeps

-----------------------------------------------------------------------------
(* The other steps.                                                         *)

\* A group notes what was pending before it.
LEMMA EnterGroupKeeps == ASSUME IInv, EnterGroup PROVE IInv'
<1>1. /\ Running /\ ~InGroup /\ pos <= Len(program) /\ program[pos].kind = "parallel"
      /\ child' = 1 /\ before' = PendingIds
      /\ UNCHANGED <<program, initFailed, pos, steps, pending, env, started, state, verdict, wrote>>
  BY DEF EnterGroup, At
<1>2. TypeOK /\ PendingIds \subseteq Ids /\ PendingIds' = PendingIds /\ pos \in 1 .. Len(program)
  BY <1>1, ProgramFacts DEF IInv, TypeOK, PendingIds
<1>3. TypeOK'
  BY <1>1, <1>2 DEF TypeOK
<1>4. Place'
  <2>1. program[pos] \in Group
    BY <1>1, <1>2, ProgramFacts
  <2>2. Len(program[pos].children) \in Nat
    BY <2>1 DEF Group
  <2>3. \A id \in before' : \E s \in 1 .. pos - 1 : id \in StepsOf(s)'
    BY <1>1, NotDue, SameProgram
  <2> QED
    BY <1>1, <1>2, <2>2, <2>3 DEF Place, InGroup
<1>5. ResultsPassed'
  <2>1. ASSUME NEW id \in Ids, Passed(id) PROVE Passed(id)'
    <3>1. PICK s \in 1 .. Len(program) : /\ s < pos
                                         /\ id \in StepsOf(s)
      BY <1>1, <2>1, PassedPlace DEF IInv
    <3>2. s \in 1 .. pos - 1
      BY <1>2, <3>1
    <3> QED
      BY <1>1, <3>1, <3>2 DEF Passed, StepsOf
  <2> QED
    BY <1>1, <2>1 DEF IInv, ResultsPassed
<1>6. StillHeld' /\ WritesKept' /\ WasDue'
  <2>1. \A id : PublishedAt(id)' = PublishedAt(id)
    BY <1>1, SameProgram
  <2>2. Started' = Started
    BY <1>1 DEF Started
  <2> QED
    BY <1>1, <1>2, <2>1, <2>2 DEF IInv, StillHeld, Running, WritesKept, WasDue
<1>7. EveryStartedStepCounts'
  BY <1>1 DEF IInv, EveryStartedStepCounts, Started, Running
<1>8. LastPublishedWriteStands'
  <2>1. \A k : Writers(k)' = Writers(k)
    BY <1>1 DEF Writers, Started
  <2> QED
    BY <1>1, <2>1, WritesStay
<1> QED
  BY <1>3, <1>4, <1>5, <1>6, <1>7, <1>8 DEF IInv

\* A request is noted on a result that stays what it was otherwise.
LEMMA CancelKeeps == ASSUME IInv, Cancel PROVE IInv'
<1>1. /\ Running /\ ~InGroup /\ pos <= Len(program) /\ pos' = pos + 1
      /\ program[pos].kind = "cancel"
      /\ UNCHANGED <<program, initFailed, child, before, env, started, state, verdict, wrote,
                     entered>>
  BY DEF Cancel, At
<1>2. PICK target \in program[pos].targets :
        /\ pending' = IF pending[target] = None THEN pending
                      ELSE [pending EXCEPT ![target].result = [@ EXCEPT !.requested = TRUE]]
        /\ steps' = IF pending[target] # None \/ steps[target] = None THEN steps
                    ELSE [steps EXCEPT ![target] = [@ EXCEPT !.requested = TRUE]]
  BY DEF Cancel
<1>3. /\ TypeOK /\ Len(program) \in Nat /\ pos \in 1 .. Len(program) /\ child = 0
      /\ pos' \in 1 .. Len(program') + 1
  BY <1>1, ProgramFacts DEF IInv, TypeOK, InGroup
<1>4. /\ pending' \in [Ids -> Held \cup {None}]
      /\ \A id \in Ids : /\ pending'[id] = None <=> pending[id] = None
                         /\ pending[id] # None => pending'[id].writes = pending[id].writes
  <2>1. CASE pending[target] = None
    BY <1>2, <1>3, <2>1 DEF TypeOK
  <2>2. CASE pending[target] # None
    <3>1. pending \in [Ids -> Held \cup {None}]
      BY <1>3 DEF TypeOK
    <3>2. CASE target \in Ids
      <4>1. pending[target] \in Held
        BY <2>2, <3>1, <3>2
      <4>2. PICK r : r = [pending[target].result EXCEPT !.requested = TRUE]
        OBVIOUS
      <4>3. pending[target].result \in Ran /\ pending[target].writes \in Writes
        BY <4>1 DEF Held
      <4>4. r \in Ran
        BY <4>2, <4>3 DEF Ran
      <4>5. PICK h : h = [pending[target] EXCEPT !.result = r]
        OBVIOUS
      <4>6. h \in Held /\ h.writes = pending[target].writes
        BY <4>1, <4>4, <4>5 DEF Held
      <4>7. h # None
        BY <4>6, ConstantsAssumption
      <4>8. pending' = [pending EXCEPT ![target] = h]
        BY <1>2, <2>2, <4>2, <4>5
      <4> QED
        BY <2>2, <3>1, <3>2, <4>6, <4>7, <4>8
    <3>3. CASE target \notin Ids
      <4>1. pending' = pending
        BY <1>2, <2>2, <3>1, <3>3
      <4> QED
        BY <3>1, <4>1
    <3> QED
      BY <3>2, <3>3
  <2> QED
    BY <2>1, <2>2
<1>5. /\ steps' \in [Ids -> Ran \cup Skipped \cup {None}]
      /\ \A id \in Ids : /\ steps'[id] = None <=> steps[id] = None
                         /\ steps[id] # None => /\ steps'[id].outcome = steps[id].outcome
                                                /\ steps'[id].conclusion = steps[id].conclusion
  <2>1. CASE pending[target] # None \/ steps[target] = None
    BY <1>2, <1>3, <2>1 DEF TypeOK
  <2>2. CASE ~(pending[target] # None \/ steps[target] = None)
    <3>1. steps \in [Ids -> Ran \cup Skipped \cup {None}]
      BY <1>3 DEF TypeOK
    <3>2. CASE target \in Ids
      <4>1. steps[target] \in Ran \cup Skipped
        BY <2>2, <3>1, <3>2
      <4>2. PICK r : r = [steps[target] EXCEPT !.requested = TRUE]
        OBVIOUS
      <4>3. /\ r \in Ran \cup Skipped
            /\ r.outcome = steps[target].outcome /\ r.conclusion = steps[target].conclusion
        BY <4>1, <4>2 DEF Ran, Skipped
      <4>4. r # None
        BY <4>3, ConstantsAssumption
      <4>5. steps' = [steps EXCEPT ![target] = r]
        BY <1>2, <2>2, <4>2
      <4> QED
        BY <2>2, <3>1, <3>2, <4>3, <4>4, <4>5
    <3>3. CASE target \notin Ids
      <4>1. steps' = steps
        BY <1>2, <2>2, <3>1, <3>3
      <4> QED
        BY <3>1, <4>1
    <3> QED
      BY <3>2, <3>3
  <2> QED
    BY <2>1, <2>2
<1>6. PendingIds' = PendingIds /\ Started' = Started /\ Started \subseteq Ids
  BY <1>1, <1>3, <1>4 DEF PendingIds, Started, TypeOK
<1>7. TypeOK' /\ Place'
  BY <1>1, <1>3, <1>4, <1>5 DEF TypeOK, Place, InGroup
<1>8. ResultsPassed'
  <2>1. ASSUME NEW id \in Ids, Passed(id) PROVE Passed(id)'
    <3>1. PICK s \in 1 .. Len(program) : /\ s < pos
                                         /\ id \in StepsOf(s)
      BY <1>1, <2>1, PassedPlace DEF IInv
    <3>2. s \in 1 .. pos' - 1
      BY <1>1, <1>3, <3>1
    <3> QED
      BY <1>1, <3>1, <3>2 DEF Passed, StepsOf
  <2> QED
    BY <1>4, <1>5, <2>1 DEF IInv, ResultsPassed
<1>9. \A id : PublishedAt(id)' = PublishedAt(id)
  BY <1>1, SameProgram
<1>10. StillHeld'
  <2>1. \A id \in PendingIds : ~Joins(pos, id)
    BY <1>1 DEF Joins
  <2> QED
    BY <1>1, <1>6, <1>9, <2>1, NotDue DEF StillHeld
<1>11. WritesKept'
  BY <1>1, <1>4, <1>6 DEF IInv, WritesKept, PendingIds
<1>12. WasDue'
  <2>1. ASSUME NEW id \in Started', steps'[id] # None PROVE pos' > PublishedAt(id)
    <3>1. PublishedAt(id) \in Int /\ PublishedAt(id) < pos
      BY <1>3, <1>5, <1>6, <2>1, PublishedBefore
    <3> QED
      BY <1>1, <1>3, <3>1
  <2> QED
    BY <1>9, <2>1 DEF WasDue
<1>13. EveryStartedStepCounts'
  BY <1>1, <1>4, <1>5, <1>6 DEF IInv, EveryStartedStepCounts, Running
<1>14. LastPublishedWriteStands'
  <2>1. \A k : Writers(k)' = Writers(k)
    BY <1>1, <1>5, <1>6 DEF Writers
  <2> QED
    BY <1>1, <2>1, WritesStay
<1> QED
  BY <1>7, <1>8, <1>10, <1>11, <1>12, <1>13, <1>14 DEF IInv

\* A step that throws may have started, and has no result.
LEMMA ThrowKeeps == ASSUME IInv, Throw PROVE IInv'
<1>1. /\ AtExec /\ state' = "fixture"
      /\ started' = started \/ started' = Append(started, Step.id)
      /\ UNCHANGED <<program, initFailed, pos, child, before, steps, pending, env, verdict, wrote,
                     entered>>
  BY DEF Throw
<1>2. Step.id \in Ids /\ steps[Step.id] = None /\ TypeOK
  BY <1>1, StepFacts DEF IInv
<1>3. started' \in Seq(Ids) /\ Started \subseteq Started' /\ Started' \subseteq Started \cup {Step.id}
  <2>1. CASE started' = started
    BY <1>2, <2>1 DEF Started, TypeOK
  <2>2. CASE started' = Append(started, Step.id)
    BY <1>2, <2>2, StartedAppend
  <2> QED
    BY <1>1, <2>1, <2>2
<1>4. PendingIds' = PendingIds /\ \A id : PublishedAt(id)' = PublishedAt(id)
  BY <1>1, SameProgram DEF PendingIds
<1>5. TypeOK'
  BY <1>1, <1>2, <1>3 DEF TypeOK
<1>6. Place' /\ ResultsPassed'
  BY <1>1, <1>4 DEF IInv, Place, InGroup, ResultsPassed, Passed, StepsOf
<1>7. StillHeld' /\ WritesKept' /\ EveryStartedStepCounts'
  BY <1>1, <1>4 DEF IInv, StillHeld, Running, WritesKept, EveryStartedStepCounts
<1>8. WasDue'
  BY <1>1, <1>2, <1>3, <1>4 DEF IInv, WasDue
<1>9. LastPublishedWriteStands'
  <2>1. \A k : Writers(k)' = Writers(k)
    BY <1>1, <1>2, <1>3 DEF Writers
  <2> QED
    BY <1>1, <2>1, WritesStay
<1> QED
  BY <1>5, <1>6, <1>7, <1>8, <1>9 DEF IInv

\* A verdict that counts every step that started.
LEMMA FinishKeeps ==
    ASSUME IInv, Running, NEW outcome, NEW images, Finish(outcome, images), PendingIds = {},
           started # << >> => outcome = Outcome
    PROVE  IInv'
<1>1. /\ state' = "finished" /\ verdict'.outcome = outcome
      /\ UNCHANGED <<program, initFailed, pos, child, before, steps, pending, env, started, wrote,
                     entered>>
  BY DEF Finish
<1>2. TypeOK' /\ Place' /\ ResultsPassed' /\ WritesKept'
  BY <1>1 DEF IInv, TypeOK, Place, InGroup, PendingIds, ResultsPassed, Passed, StepsOf, WritesKept
<1>3. StillHeld' /\ WasDue'
  <2>1. PendingIds' = PendingIds /\ Started' = Started /\ \A id : PublishedAt(id)' = PublishedAt(id)
    BY <1>1, SameProgram DEF PendingIds, Started
  <2> QED
    BY <1>1, <2>1 DEF IInv, StillHeld, Running, WasDue
<1>4. EveryStartedStepCounts'
  <2>1. \A id \in Ids : /\ pending[id] = None
                        /\ id \in Started <=> steps[id] # None /\ steps[id].outcome # "skipped"
    BY DEF IInv, EveryStartedStepCounts, Running, PendingIds
  <2>2. Started \subseteq Ids
    BY DEF IInv, TypeOK, Started
  <2>3. Concluded("failure") <=> \E id \in Started : steps[id].conclusion = "failure"
    <3>1. ASSUME NEW id \in Ids, steps[id] # None, steps[id].conclusion = "failure"
          PROVE  id \in Started
      <4>1. steps[id] \in Ran \cup Skipped
        BY <3>1 DEF IInv, TypeOK
      <4>2. steps[id].outcome # "skipped"
        BY <3>1, <4>1 DEF Ran, Skipped, Outcomes
      <4> QED
        BY <2>1, <3>1, <4>2
    <3> QED
      BY <2>1, <2>2, <3>1 DEF Concluded
  <2>4. started # << >> => (outcome = "failure" <=>
          initFailed \/ \E id \in Started : steps[id].conclusion = "failure")
    BY <2>3 DEF Outcome, Failure
  <2> QED
    BY <1>1, <2>1, <2>2, <2>4 DEF EveryStartedStepCounts, Started
<1>5. LastPublishedWriteStands'
  <2>1. \A k : Writers(k)' = Writers(k)
    BY <1>1 DEF Writers, Started
  <2> QED
    BY <1>1, <2>1, WritesStay
<1> QED
  BY <1>2, <1>3, <1>4, <1>5 DEF IInv

\* An environment is rejected before any step starts.
LEMMA RejectEnvironmentKeeps == ASSUME IInv, RejectEnvironment PROVE IInv'
<1>1. Running /\ pos = 1 /\ ~InGroup /\ Finish("failure", {FALSE})
  BY DEF RejectEnvironment
<1>2. child = 0 /\ started \in Seq(Ids)
  BY <1>1 DEF IInv, TypeOK, InGroup
<1>3. \A id \in Ids : steps[id] = None /\ pending[id] = None
  <2>1. 1 .. pos - 1 = {} /\ 1 .. child - 1 = {}
    BY <1>1, <1>2
  <2>2. \A id : ~Passed(id)
    BY <2>1 DEF Passed
  <2> QED
    BY <2>2 DEF IInv, ResultsPassed
<1>4. \A id \in Ids : id \notin Started
  BY <1>1, <1>3 DEF IInv, EveryStartedStepCounts, Running
<1>5. started = << >>
  <2>1. ASSUME started # << >> PROVE FALSE
    <3>1. 1 \in DOMAIN started /\ started[1] \in Ids
      BY <1>2, <2>1
    <3> QED
      BY <1>4, <3>1 DEF Started
  <2> QED
    BY <2>1
<1> QED
  BY <1>1, <1>3, <1>5, FinishKeeps DEF PendingIds

-----------------------------------------------------------------------------
(* The theorems.                                                            *)

\* The invariant holds of every state of a job.
LEMMA Invariance == Spec => []IInv
<1>1. Init => IInv
  <2> SUFFICES ASSUME Init PROVE IInv
    OBVIOUS
  <2>1. Started = {} /\ PendingIds = {}
    BY DEF Init, Started, PendingIds
  <2>2. TypeOK
    <3>1. program \in Seq(Exec \cup Group \cup Control)
      BY ConstantsAssumption DEF Init
    <3>2. Len(program) \in Nat
      BY <3>1
    <3> QED
      BY <3>2 DEF Init, TypeOK
  <2>3. Place /\ ResultsPassed /\ StillHeld /\ WasDue /\ WritesKept
    BY <2>1 DEF Init, Place, InGroup, ResultsPassed, StillHeld, WasDue, WritesKept
  <2>4. EveryStartedStepCounts
    BY <2>1 DEF Init, EveryStartedStepCounts
  <2>5. LastPublishedWriteStands
    BY <2>1 DEF Init, LastPublishedWriteStands
  <2> QED
    BY <2>2, <2>3, <2>4, <2>5 DEF IInv
<1>2. IInv /\ [Next]_vars => IInv'
  <2> SUFFICES ASSUME IInv, [Next]_vars PROVE IInv'
    OBVIOUS
  <2>1. CASE UNCHANGED vars
    <3>1. TypeOK' /\ Place' /\ ResultsPassed' /\ WritesKept'
      BY <2>1 DEF vars, IInv, TypeOK, Place, InGroup, PendingIds, ResultsPassed, Passed, StepsOf,
         WritesKept
    <3>2. PendingIds' = PendingIds /\ Started' = Started /\ \A id : PublishedAt(id)' = PublishedAt(id)
      BY <2>1, SameProgram DEF vars, PendingIds, Started
    <3>3. StillHeld' /\ WasDue'
      BY <2>1, <3>2 DEF vars, IInv, StillHeld, Running, WasDue
    <3>4. EveryStartedStepCounts'
      BY <2>1, <3>2 DEF vars, IInv, EveryStartedStepCounts
    <3>5. LastPublishedWriteStands'
      <4>1. \A k : Writers(k)' = Writers(k)
        BY <2>1, <3>2 DEF vars, Writers
      <4> QED
        BY <2>1, <4>1, WritesStay DEF vars
    <3> QED
      BY <3>1, <3>3, <3>4, <3>5 DEF IInv
  <2>2. CASE Conclude
    BY <2>2, FinishKeeps DEF Conclude, AtEnd
  <2> QED
    BY <2>1, <2>2, SkipKeeps, ExecuteKeeps, ThrowKeeps, EnterGroupKeeps, LeaveGroupKeeps,
       WaitKeeps, CancelKeeps, RejectEnvironmentKeeps, JoinRestKeeps DEF Next
<1> QED
  BY <1>1, <1>2, PTL DEF Spec

\* Every step that started counts in its job's verdict.
THEOREM NoResultLost == Spec => []EveryStartedStepCounts
<1>1. IInv => EveryStartedStepCounts
  BY DEF IInv
<1> QED
  BY <1>1, Invariance, PTL

\* No result is published before the program's place for it.
THEOREM NothingEarly == Spec => []HeldBackUntilJoined
<1>1. IInv => HeldBackUntilJoined
  BY DEF IInv, WasDue, HeldBackUntilJoined
<1> QED
  BY <1>1, Invariance, PTL

\* The environment is what the program's order of publication makes of it.
THEOREM LastWritesStand == Spec => []LastPublishedWriteStands
<1>1. IInv => LastPublishedWriteStands
  BY DEF IInv
<1> QED
  BY <1>1, Invariance, PTL

=============================================================================
