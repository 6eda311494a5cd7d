----------------------- MODULE DiagnosticRecordsProofs -----------------------
(***************************************************************************)
(* The best records stay and no more than the limit do, for any number of  *)
(* commands that end at the same time and any limit.                       *)
(***************************************************************************)
EXTENDS DiagnosticRecords, FiniteSetTheorems, WellFoundedInduction, TLAPS

\* As many records as the limit have been written that are at least as good.
Enough(r) == Cardinality({q \in Written \ {r} : AtLeast(q, r)}) >= Limit

\* What makes BestRecordsStay inductive: a command decides what to remove
\* before it does so, by what it saw, and all of that has been written.  A
\* command that has not ended has no file yet.
IInv ==
    /\ TypeOK
    /\ \A r \in Runs : pc[r] = "running" => file[r] = "absent"
    /\ \A r \in Runs : seen[r] \subseteq Written
    /\ \A r \in Runs : \A q \in excess[r] : q \in Written /\ Enough(q)
    /\ \A r \in Runs : file[r] = "removed" => Enough(r)

\* The commands that have listed the directory did so one after another: a rank
\* says in which order, and is 0 before that.  Who lists later sees, or has yet
\* to read, all whole records of those who listed before, and leaves no more
\* than the limit of them.
UpTo(rank, r) == {p \in Whole : 0 < rank[p] /\ rank[p] <= rank[r]}
Ranked(rank, top) ==
    /\ \A r \in Runs : rank[r] <= top
    /\ \A r \in Runs : pc[r] \in {"running", "write", "list"} => rank[r] = 0
    /\ \A r \in Runs : pc[r] \in {"read", "remove", "done"} => rank[r] > 0
    /\ \A r \in Runs : pc[r] \in {"read", "remove"} => UpTo(rank, r) \subseteq todo[r] \cup seen[r]
    /\ \A r \in Runs : pc[r] = "remove" =>
         todo[r] = {} /\ Cardinality((seen[r] \cap Whole) \ excess[r]) <= Limit
    /\ \A r \in Runs : pc[r] = "done" => Cardinality(UpTo(rank, r)) <= Limit
LimitInv ==
    /\ IInv
    /\ \A r \in Runs : pc[r] = "write" => file[r] = "torn"
    /\ \E rank \in [Runs -> Nat], top \in Nat : Ranked(rank, top)

-----------------------------------------------------------------------------
(* Sets of records.                                                         *)

\* A set of records that are at least as good as r, and as many as the limit,
\* is enough.
LEMMA EnoughBySet ==
    ASSUME NEW r \in Runs, NEW K \in SUBSET (Written \ {r}),
           \A q \in K : AtLeast(q, r), Cardinality(K) >= Limit
    PROVE  Enough(r)
<1> DEFINE S == {q \in Written \ {r} : AtLeast(q, r)}
<1>1. K \subseteq S
  OBVIOUS
<1>2. IsFiniteSet(S)
  <2>1. S \subseteq Runs
    BY DEF Written
  <2> QED
    BY <2>1, FS_Subset, ConstantsAssumption
<1>3. Cardinality(K) \in Nat /\ Cardinality(S) \in Nat /\ Cardinality(K) <= Cardinality(S)
  BY <1>1, <1>2, FS_Subset, FS_CardinalityType
<1>4. Cardinality(S) >= Limit
  BY <1>3, ConstantsAssumption
<1> QED
  BY <1>4 DEF Enough

\* What is enough stays enough while records are only added.
LEMMA EnoughStays ==
    ASSUME NEW r \in Runs, Enough(r), Written \subseteq Written', record' = record
    PROVE  Enough(r)'
<1> DEFINE S == {q \in Written \ {r} : AtLeast(q, r)}
           T == {q \in Written' \ {r} : AtLeast(q, r)'}
<1>1. S \subseteq T
  BY DEF AtLeast
<1>2. IsFiniteSet(T)
  <2>1. T \subseteq Runs
    BY DEF Written
  <2> QED
    BY <2>1, FS_Subset, ConstantsAssumption
<1>3. Cardinality(S) \in Nat /\ Cardinality(T) \in Nat /\ Cardinality(S) <= Cardinality(T)
  BY <1>1, <1>2, FS_Subset, FS_CardinalityType
<1>4. Cardinality(T) >= Limit
  BY <1>3, ConstantsAssumption DEF Enough
<1> QED
  BY <1>4 DEF Enough

\* Whatever is beyond the limit of a finite set of written records is
\* outranked by enough of those that are not.
LEMMA BeyondIsEnough ==
    ASSUME TypeOK, NEW all \in SUBSET Written, NEW beyond \in Beyond(all),
           NEW x \in beyond
    PROVE  Enough(x)
<1> DEFINE K == all \ beyond
<1>1. all \subseteq Runs /\ beyond \subseteq all /\ x \in Runs
  BY DEF Written, Beyond
<1>2. IsFiniteSet(all) /\ IsFiniteSet(K)
  BY <1>1, FS_Subset, ConstantsAssumption
<1>3. Cardinality(all) \in Nat /\ Cardinality(K) \in Nat
  BY <1>2, FS_CardinalityType
<1>4. K # all
  BY <1>1
<1>5. Cardinality(K) # Cardinality(all)
  BY <1>1, <1>2, <1>4, FS_Subset
<1>6. Cardinality(K) = Limit
  BY <1>5 DEF Beyond
<1>7. \A q \in K : AtLeast(q, x)
  <2> TAKE q \in K
  <2>1. Before(q, x)
    BY DEF Beyond
  <2>2. record[q].failed \in BOOLEAN /\ record[x].failed \in BOOLEAN
    BY <1>1 DEF TypeOK, Record
  <2> QED
    BY <2>1, <2>2 DEF Before, AtLeast
<1>8. K \in SUBSET (Written \ {x})
  BY <1>1
<1> QED
  BY <1>1, <1>6, <1>7, <1>8, EnoughBySet, ConstantsAssumption

-----------------------------------------------------------------------------
(* Type correctness.                                                        *)

\* Every step of a run preserves the types.
LEMMA TypeStep ==
    ASSUME TypeOK, NEW r \in Runs,
           \/ BeginWrite(r) \/ EndWrite(r) \/ ListDirectory(r) \/ ReadRecord(r)
           \/ SortRecords(r) \/ RemoveRecord(r) \/ Finish(r)
           \/ Unavailable(r) \/ Die(r)
    PROVE  TypeOK'
<1> USE DEF TypeOK, Steps, Goto
<1>1. CASE BeginWrite(r)
  BY <1>1 DEF BeginWrite
<1>2. CASE EndWrite(r)
  BY <1>2 DEF EndWrite
<1>3. CASE ListDirectory(r)
  BY <1>3 DEF ListDirectory
<1>4. CASE ReadRecord(r)
  BY <1>4 DEF ReadRecord
<1>5. CASE SortRecords(r)
  BY <1>5 DEF SortRecords, Beyond
<1>6. CASE RemoveRecord(r)
  BY <1>6 DEF RemoveRecord
<1>7. CASE Finish(r)
  BY <1>7 DEF Finish, End
<1>8. CASE Unavailable(r)
  BY <1>8 DEF Unavailable, End
<1>9. CASE Die(r)
  BY <1>9 DEF Die, End
<1> QED
  BY <1>1, <1>2, <1>3, <1>4, <1>5, <1>6, <1>7, <1>8, <1>9

\* The records and the files stay within their types.
THEOREM TypeCorrect == Spec => []TypeOK
<1>1. Init => TypeOK
  BY DEF Init, TypeOK, Steps
<1>2. TypeOK /\ [Next]_vars => TypeOK'
  <2> SUFFICES ASSUME TypeOK, [Next]_vars PROVE TypeOK'
    OBVIOUS
  <2>1. CASE Next
    BY <2>1, TypeStep DEF Next
  <2>2. CASE UNCHANGED vars
    BY <2>2 DEF TypeOK, vars
  <2> QED
    BY <2>1, <2>2
<1> QED
  BY <1>1, <1>2, PTL DEF Spec

-----------------------------------------------------------------------------
(* The best records stay.                                                   *)

\* A step that only adds written records, sees only those, and removes and
\* plans to remove only what is outranked, keeps the invariant.
LEMMA Growing ==
    ASSUME IInv, TypeOK', record' = record, Written \subseteq Written',
           \A q \in Runs : pc'[q] = "running" => file'[q] = "absent",
           \A q \in Runs : seen'[q] \subseteq Written',
           \A q \in Runs : \A x \in excess'[q] : x \in Written' /\ Enough(x),
           \A q \in Runs : file'[q] = "removed" => Enough(q)
    PROVE  IInv'
<1>1. \A q \in Runs : Enough(q) => Enough(q)'
  BY EnoughStays
<1>2. \A q \in Runs : \A x \in excess'[q] : x \in Runs /\ Enough(x)
  BY DEF Written
<1> QED
  BY <1>1, <1>2 DEF IInv

\* Every step of a run preserves the invariant.
LEMMA IInvStep ==
    ASSUME IInv, NEW r \in Runs,
           \/ BeginWrite(r) \/ EndWrite(r) \/ ListDirectory(r) \/ ReadRecord(r)
           \/ SortRecords(r) \/ RemoveRecord(r) \/ Finish(r)
           \/ Unavailable(r) \/ Die(r)
    PROVE  IInv'
<1>1. TypeOK /\ TypeOK'
  BY TypeStep DEF IInv
<1>2. \A q \in Runs : \A x \in excess[q] : x \in Runs /\ x \in Written /\ Enough(x)
  BY DEF IInv, Written
<1>3. CASE BeginWrite(r)
  <2>1. Written \subseteq Written'
    BY <1>1, <1>3 DEF IInv, BeginWrite, Written, TypeOK
  <2>2. \A q \in Runs : pc'[q] = "running" => file'[q] = "absent"
    BY <1>1, <1>3 DEF IInv, BeginWrite, Goto, TypeOK
  <2>3. \A q \in Runs : file'[q] = "removed" => Enough(q)
    BY <1>1, <1>3 DEF IInv, BeginWrite, TypeOK
  <2> QED
    BY <1>1, <1>2, <1>3, <2>1, <2>2, <2>3, Growing DEF IInv, BeginWrite
<1>4. CASE EndWrite(r)
  <2>1. Written \subseteq Written'
    BY <1>1, <1>4 DEF EndWrite, Written, TypeOK
  <2>2. \A q \in Runs : pc'[q] = "running" => file'[q] = "absent"
    BY <1>1, <1>4 DEF IInv, EndWrite, Goto, TypeOK
  <2>3. \A q \in Runs : file'[q] = "removed" => Enough(q)
    BY <1>1, <1>4 DEF IInv, EndWrite, TypeOK
  <2> QED
    BY <1>1, <1>2, <1>4, <2>1, <2>2, <2>3, Growing DEF IInv, EndWrite
<1>5. CASE ListDirectory(r)
  <2>1. Written' = Written
    BY <1>5 DEF ListDirectory, Written
  <2>2. \A q \in Runs : pc'[q] = "running" => file'[q] = "absent"
    BY <1>1, <1>5 DEF IInv, ListDirectory, Goto, TypeOK
  <2> QED
    BY <1>1, <1>2, <1>5, <2>1, <2>2, Growing DEF IInv, ListDirectory
<1>6. CASE ReadRecord(r)
  <2>1. Written' = Written
    BY <1>6 DEF ReadRecord, Written
  <2>2. \A q \in Runs : seen'[q] \subseteq Written'
    BY <1>1, <1>6, <2>1 DEF IInv, ReadRecord, TypeOK, Written
  <2> QED
    BY <1>1, <1>2, <1>6, <2>1, <2>2, Growing DEF IInv, ReadRecord
<1>7. CASE SortRecords(r)
  <2>1. Written' = Written
    BY <1>7 DEF SortRecords, Written
  <2>2. \A q \in Runs : pc'[q] = "running" => file'[q] = "absent"
    BY <1>1, <1>7 DEF IInv, SortRecords, Goto, TypeOK
  <2>3. PICK beyond \in Beyond(seen[r]) : excess' = [excess EXCEPT ![r] = beyond]
    BY <1>7 DEF SortRecords
  <2>4. seen[r] \in SUBSET Written /\ beyond \subseteq Runs
    BY <2>3 DEF IInv, Beyond, Written
  <2>5. \A x \in beyond : Enough(x)
    BY <1>1, <2>3, <2>4, BeyondIsEnough
  <2>6. \A q \in Runs : \A x \in excess'[q] : x \in Written' /\ Enough(x)
    BY <1>1, <1>2, <2>1, <2>3, <2>4, <2>5 DEF TypeOK, Beyond
  <2> QED
    BY <1>1, <1>7, <2>1, <2>2, <2>6, Growing DEF IInv, SortRecords
<1>8. CASE RemoveRecord(r)
  <2>1. PICK q \in excess[r] : /\ file' = [file EXCEPT ![q] = "removed"]
                               /\ excess' = [excess EXCEPT ![r] = @ \ {q}]
    BY <1>8 DEF RemoveRecord
  <2>2. Written \subseteq Written'
    BY <1>1, <2>1 DEF Written, TypeOK
  <2>3. \A p \in Runs : pc'[p] = "running" => file'[p] = "absent"
    <3>1. q \in Written /\ pc' = pc
      BY <1>2, <1>8 DEF RemoveRecord
    <3> QED
      BY <1>1, <2>1, <3>1 DEF IInv, TypeOK, Written
  <2>4. \A p \in Runs : file'[p] = "removed" => Enough(p)
    BY <1>1, <1>2, <2>1 DEF IInv, TypeOK
  <2>5. \A p \in Runs : \A x \in excess'[p] : x \in Written' /\ Enough(x)
    BY <1>1, <1>2, <2>1, <2>2 DEF TypeOK
  <2>6. \A p \in Runs : seen'[p] \subseteq Written'
    BY <1>8, <2>2 DEF IInv, RemoveRecord
  <2> QED
    BY <1>1, <1>8, <2>2, <2>3, <2>4, <2>5, <2>6, Growing DEF RemoveRecord
<1>9. ASSUME NEW step \in {"done", "unavailable", "dead"}, End(r, step)
      PROVE  IInv'
  <2>1. Written' = Written
    BY <1>9 DEF End, Written
  <2>2. \A q \in Runs : pc'[q] = "running" => file'[q] = "absent"
    BY <1>1, <1>9 DEF IInv, End, Goto, TypeOK
  <2>3. \A q \in Runs : seen'[q] \subseteq Written'
    BY <1>1, <1>9, <2>1 DEF IInv, End, TypeOK
  <2>4. \A q \in Runs : \A x \in excess'[q] : x \in Written' /\ Enough(x)
    BY <1>1, <1>2, <1>9, <2>1 DEF End, TypeOK
  <2> QED
    BY <1>1, <1>9, <2>1, <2>2, <2>3, <2>4, Growing DEF IInv, End
<1>10. CASE Finish(r)
  BY <1>9, <1>10 DEF Finish
<1>11. CASE Unavailable(r)
  BY <1>9, <1>11 DEF Unavailable
<1>12. CASE Die(r)
  BY <1>9, <1>12 DEF Die
<1> QED
  BY <1>3, <1>4, <1>5, <1>6, <1>7, <1>8, <1>10, <1>11, <1>12

\* What changes nothing keeps the invariant.
LEMMA IInvStutters ==
    ASSUME IInv, UNCHANGED vars
    PROVE  IInv'
<1>1. TypeOK'
  BY DEF IInv, TypeOK, vars
<1>2. Written' = Written
  BY DEF vars, Written
<1>3. \A q \in Runs : \A x \in excess'[q] : x \in Written' /\ Enough(x)
  BY <1>2 DEF IInv, vars
<1> QED
  BY <1>1, <1>2, <1>3, Growing DEF IInv, vars

\* No command removes a record that is among the best ever written.
THEOREM BestStay == Spec => []BestRecordsStay
<1>1. Init => IInv
  <2> SUFFICES ASSUME Init PROVE IInv
    OBVIOUS
  <2>1. TypeOK
    BY DEF Init, TypeOK, Steps
  <2> QED
    BY <2>1 DEF Init, IInv
<1>2. IInv /\ [Next]_vars => IInv'
  <2> SUFFICES ASSUME IInv, [Next]_vars PROVE IInv'
    OBVIOUS
  <2>1. CASE Next
    BY <2>1, IInvStep DEF Next
  <2>2. CASE UNCHANGED vars
    BY <2>2, IInvStutters
  <2> QED
    BY <2>1, <2>2
<1>3. IInv => BestRecordsStay
  BY DEF IInv, BestRecordsStay, Enough
<1> QED
  BY <1>1, <1>2, <1>3, PTL DEF Spec

-----------------------------------------------------------------------------
(* No more than the limit are left.                                         *)

\* A part of a set of records within the limit is within the limit.
LEMMA CardWithin ==
    ASSUME NEW T \in SUBSET Runs, NEW S \in SUBSET T, Cardinality(T) <= Limit
    PROVE  Cardinality(S) <= Limit
<1>1. IsFiniteSet(T)
  BY FS_Subset, ConstantsAssumption
<1>2. Cardinality(S) \in Nat /\ Cardinality(T) \in Nat /\ Cardinality(S) <= Cardinality(T)
  BY <1>1, FS_Subset, FS_CardinalityType
<1> QED
  BY <1>2, ConstantsAssumption

\* A step other than a listing keeps the ranks: no record appears among those
\* of the commands that have listed, none that is whole gets out of the view of
\* a command, and a command is done only when nothing is left to remove.
LEMMA RankedStep ==
    ASSUME NEW rank \in [Runs -> Nat], NEW top \in Nat, Ranked(rank, top),
           \A p \in Whole' : rank[p] > 0 => p \in Whole,
           \A q \in Runs : pc'[q] \in {"running", "write", "list"} =>
             pc[q] \in {"running", "write", "list"},
           \A q \in Runs : pc'[q] \in {"read", "remove"} =>
             /\ pc[q] \in {"read", "remove"}
             /\ \A p \in todo[q] \cup seen[q] : p \in Whole' => p \in todo'[q] \cup seen'[q],
           \A q \in Runs : pc'[q] = "remove" =>
             todo'[q] = {} /\ Cardinality((seen'[q] \cap Whole') \ excess'[q]) <= Limit,
           \A q \in Runs : pc'[q] = "done" =>
             pc[q] = "done" \/ (pc[q] = "remove" /\ excess[q] = {})
    PROVE  Ranked(rank, top)'
<1>1. \A q \in Runs : UpTo(rank, q)' \subseteq UpTo(rank, q) /\ UpTo(rank, q) \subseteq Runs
  BY DEF UpTo, Whole
<1>2. ASSUME NEW q \in Runs, pc'[q] \in {"read", "remove"}
      PROVE  UpTo(rank, q)' \subseteq todo'[q] \cup seen'[q]
  <2>1. UpTo(rank, q) \subseteq todo[q] \cup seen[q]
    BY <1>2 DEF Ranked
  <2>2. UpTo(rank, q)' \subseteq Whole'
    BY DEF UpTo
  <2> QED
    BY <1>1, <1>2, <2>1, <2>2
<1>3. ASSUME NEW q \in Runs, pc'[q] = "done"
      PROVE  Cardinality(UpTo(rank, q)') <= Limit
  <2>1. CASE pc[q] = "done"
    BY <1>1, <2>1, CardWithin DEF Ranked
  <2>2. CASE pc[q] = "remove" /\ excess[q] = {}
    <3>1. /\ UpTo(rank, q) \subseteq (seen[q] \cap Whole) \ excess[q]
          /\ Cardinality((seen[q] \cap Whole) \ excess[q]) <= Limit
      BY <2>2 DEF Ranked, UpTo
    <3>2. (seen[q] \cap Whole) \ excess[q] \subseteq Runs
      BY DEF Whole
    <3> QED
      BY <1>1, <3>1, <3>2, CardWithin
  <2> QED
    BY <1>3, <2>1, <2>2
<1>4. \A q \in Runs : rank[q] <= top
  BY DEF Ranked
<1>5. \A q \in Runs : pc'[q] \in {"running", "write", "list"} => rank[q] = 0
  BY DEF Ranked
<1>6. \A q \in Runs : pc'[q] \in {"read", "remove", "done"} => rank[q] > 0
  BY DEF Ranked
<1> QED
  BY <1>2, <1>3, <1>4, <1>5, <1>6 DEF Ranked

\* A command that lists comes after all that have: it has yet to read every
\* record that is whole.
LEMMA RankedListing ==
    ASSUME TypeOK, NEW r \in Runs, ListDirectory(r),
           NEW rank \in [Runs -> Nat], NEW top \in Nat, Ranked(rank, top),
           NEW later \in [Runs -> Nat], later = [rank EXCEPT ![r] = top + 1]
    PROVE  Ranked(later, top + 1)'
<1>1. /\ later[r] = top + 1 /\ rank[r] = 0
      /\ \A q \in Runs \ {r} : later[q] = rank[q]
      /\ \A q \in Runs : rank[q] \in Nat /\ rank[q] <= top
  BY DEF Ranked, ListDirectory
<1>2. /\ pc[r] = "list" /\ pc'[r] = "read" /\ Whole' = Whole
      /\ seen' = seen /\ excess' = excess
      /\ \A q \in Runs \ {r} : pc'[q] = pc[q] /\ todo'[q] = todo[q]
      /\ Whole \subseteq todo'[r]
  BY DEF ListDirectory, Goto, TypeOK, Whole
<1>3. \A q \in Runs \ {r} : UpTo(later, q)' = UpTo(rank, q)
  <2> SUFFICES ASSUME NEW q \in Runs \ {r}, NEW p
               PROVE  p \in UpTo(later, q)' <=> p \in UpTo(rank, q)
    OBVIOUS
  <2>1. p \in Whole => p \in Runs
    BY DEF Whole
  <2>2. CASE p = r
    BY <1>1, <1>2, <2>2 DEF UpTo
  <2>3. CASE p # r
    BY <1>1, <1>2, <2>1, <2>3 DEF UpTo
  <2> QED
    BY <2>2, <2>3
<1>4. \A q \in Runs : later[q] <= top + 1
  BY <1>1
<1>5. \A q \in Runs : pc'[q] \in {"running", "write", "list"} => later[q] = 0
  BY <1>1, <1>2 DEF Ranked
<1>6. \A q \in Runs : pc'[q] \in {"read", "remove", "done"} => later[q] > 0
  BY <1>1, <1>2 DEF Ranked
<1>7. \A q \in Runs : pc'[q] \in {"read", "remove"} => UpTo(later, q)' \subseteq todo'[q] \cup seen'[q]
  <2> SUFFICES ASSUME NEW q \in Runs, pc'[q] \in {"read", "remove"}
               PROVE  UpTo(later, q)' \subseteq todo'[q] \cup seen'[q]
    OBVIOUS
  <2>1. CASE q = r
    BY <1>2, <2>1 DEF UpTo
  <2>2. CASE q # r
    BY <1>2, <1>3, <2>2 DEF Ranked
  <2> QED
    BY <2>1, <2>2
<1>8. \A q \in Runs : pc'[q] = "remove" =>
        todo'[q] = {} /\ Cardinality((seen'[q] \cap Whole') \ excess'[q]) <= Limit
  BY <1>2 DEF Ranked
<1>9. \A q \in Runs : pc'[q] = "done" => Cardinality(UpTo(later, q)') <= Limit
  BY <1>2, <1>3 DEF Ranked
<1> QED
  BY <1>4, <1>5, <1>6, <1>7, <1>8, <1>9 DEF Ranked

\* What a command keeps once it has sorted is within the limit.
LEMMA KeptWithin ==
    ASSUME NEW all \in SUBSET Runs, NEW beyond \in Beyond(all)
    PROVE  Cardinality(all \ beyond) <= Limit
<1>1. Cardinality(all) \in Nat
  BY FS_Subset, FS_CardinalityType, ConstantsAssumption
<1> QED
  BY <1>1, ConstantsAssumption DEF Beyond

\* A step that files no record of a command that has listed, and lets each of
\* the others read and remove at most what it did before, keeps the ranks.
LEMMA LimitStep ==
    ASSUME LimitInv, NEW r \in Runs,
           \/ BeginWrite(r) \/ EndWrite(r) \/ ListDirectory(r) \/ ReadRecord(r)
           \/ SortRecords(r) \/ RemoveRecord(r) \/ Finish(r)
           \/ Unavailable(r) \/ Die(r)
    PROVE  LimitInv'
<1>1. TypeOK /\ IInv /\ IInv' /\ TypeOK'
  BY IInvStep DEF IInv, LimitInv
<1>2. PICK rank \in [Runs -> Nat], top \in Nat : Ranked(rank, top)
  BY DEF LimitInv
<1>3. \A q \in Runs : pc[q] = "running" => file[q] = "absent"
  BY <1>1 DEF IInv
<1>4. \A q \in Runs : pc[q] = "write" => file[q] = "torn"
  BY DEF LimitInv
<1>5. \A q \in Runs : /\ pc[q] = "remove" => todo[q] = {}
                      /\ pc[q] = "remove" => Cardinality((seen[q] \cap Whole) \ excess[q]) <= Limit
                      /\ (seen[q] \cap Whole) \ excess[q] \in SUBSET Runs
  BY <1>2 DEF Ranked, Whole
<1>6. ASSUME \E later \in [Runs -> Nat], most \in Nat : Ranked(later, most)',
             \A q \in Runs : pc'[q] = "write" => file'[q] = "torn"
      PROVE  LimitInv'
  BY <1>1, <1>6 DEF LimitInv
<1>7. CASE BeginWrite(r)
  <2>1. /\ Whole' = Whole /\ seen' = seen /\ excess' = excess
        /\ \A q \in Runs : pc'[q] = IF q = r THEN "write" ELSE pc[q]
        /\ pc[r] = "running"
    BY <1>1, <1>3, <1>7 DEF BeginWrite, Whole, TypeOK, Goto
  <2>2. \A q \in Runs : todo[q] \subseteq todo'[q] /\ (pc[q] # "read" => todo'[q] = todo[q])
    BY <1>1, <1>7 DEF BeginWrite, TypeOK
  <2>3. Ranked(rank, top)'
    <3>1. \A p \in Whole' : rank[p] > 0 => p \in Whole
      BY <2>1
    <3>2. \A q \in Runs : pc'[q] \in {"running", "write", "list"} =>
              pc[q] \in {"running", "write", "list"}
      BY <2>1
    <3>3. \A q \in Runs : pc'[q] \in {"read", "remove"} =>
              /\ pc[q] \in {"read", "remove"}
              /\ \A p \in todo[q] \cup seen[q] : p \in Whole' => p \in todo'[q] \cup seen'[q]
      BY <2>1, <2>2
    <3>4. \A q \in Runs : pc'[q] = "remove" =>
              todo'[q] = {} /\ Cardinality((seen'[q] \cap Whole') \ excess'[q]) <= Limit
      BY <1>5, <2>1, <2>2
    <3>5. \A q \in Runs : pc'[q] = "done" =>
              pc[q] = "done" \/ (pc[q] = "remove" /\ excess[q] = {})
      BY <2>1
    <3> QED
      BY <1>2, <3>1, <3>2, <3>3, <3>4, <3>5, RankedStep
  <2>4. \A q \in Runs : pc'[q] = "write" => file'[q] = "torn"
    BY <1>1, <1>4, <1>7 DEF BeginWrite, TypeOK, Goto
  <2> QED
    BY <1>6, <2>3, <2>4
<1>8. CASE EndWrite(r)
  <2>1. /\ todo' = todo /\ seen' = seen /\ excess' = excess
        /\ \A q \in Runs : pc'[q] = IF q = r THEN "list" ELSE pc[q]
        /\ pc[r] = "write"
        /\ \A q \in Runs : q \in Whole' <=> q = r \/ q \in Whole
    BY <1>1, <1>8 DEF EndWrite, Whole, TypeOK, Goto
  <2>2. rank[r] = 0 /\ \A q \in Runs : r \notin seen[q]
    BY <1>1, <1>2, <1>4, <2>1 DEF Ranked, IInv, Written
  <2>3. \A q \in Runs : seen[q] \cap Whole' = seen[q] \cap Whole
    BY <1>1, <2>1, <2>2 DEF TypeOK
  <2>4. \A p \in Whole' : p \in Runs
    BY DEF Whole
  <2>5. Ranked(rank, top)'
    <3>1. \A p \in Whole' : rank[p] > 0 => p \in Whole
      BY <2>1, <2>2, <2>4
    <3>2. \A q \in Runs : pc'[q] \in {"running", "write", "list"} =>
              pc[q] \in {"running", "write", "list"}
      BY <2>1
    <3>3. \A q \in Runs : pc'[q] \in {"read", "remove"} =>
              /\ pc[q] \in {"read", "remove"}
              /\ \A p \in todo[q] \cup seen[q] : p \in Whole' => p \in todo'[q] \cup seen'[q]
      BY <2>1
    <3>4. \A q \in Runs : pc'[q] = "remove" =>
              todo'[q] = {} /\ Cardinality((seen'[q] \cap Whole') \ excess'[q]) <= Limit
      BY <1>5, <2>1, <2>3
    <3>5. \A q \in Runs : pc'[q] = "done" =>
              pc[q] = "done" \/ (pc[q] = "remove" /\ excess[q] = {})
      BY <2>1
    <3> QED
      BY <1>2, <3>1, <3>2, <3>3, <3>4, <3>5, RankedStep
  <2>6. \A q \in Runs : pc'[q] = "write" => file'[q] = "torn"
    BY <1>1, <1>4, <1>8 DEF EndWrite, TypeOK, Goto
  <2> QED
    BY <1>6, <2>5, <2>6
<1>9. CASE ListDirectory(r)
  <2>1. PICK later \in [Runs -> Nat] : later = [rank EXCEPT ![r] = top + 1]
    <3>1. [rank EXCEPT ![r] = top + 1] \in [Runs -> Nat]
      OBVIOUS
    <3> QED
      BY <3>1
  <2>2. Ranked(later, top + 1)'
    BY <1>1, <1>2, <1>9, <2>1, RankedListing
  <2>3. \A q \in Runs : pc'[q] = "write" => file'[q] = "torn"
    BY <1>1, <1>4, <1>9 DEF ListDirectory, TypeOK, Goto
  <2> QED
    BY <1>6, <2>2, <2>3
<1>10. CASE ReadRecord(r)
  <2>1. /\ Whole' = Whole /\ pc' = pc /\ excess' = excess /\ pc[r] = "read"
        /\ \A q \in Runs \ {r} : todo'[q] = todo[q] /\ seen'[q] = seen[q]
    BY <1>1, <1>10 DEF ReadRecord, Whole, TypeOK
  <2>2. \A p \in todo[r] \cup seen[r] : p \in Whole => p \in todo'[r] \cup seen'[r]
    BY <1>1, <1>10 DEF ReadRecord, Whole, TypeOK
  <2>3. \A q \in Runs : \A p \in todo[q] \cup seen[q] : p \in Whole' => p \in todo'[q] \cup seen'[q]
    BY <2>1, <2>2
  <2>4. Ranked(rank, top)'
    <3>1. \A p \in Whole' : rank[p] > 0 => p \in Whole
      BY <2>1
    <3>2. \A q \in Runs : pc'[q] \in {"running", "write", "list"} =>
              pc[q] \in {"running", "write", "list"}
      BY <2>1
    <3>3. \A q \in Runs : pc'[q] \in {"read", "remove"} =>
              /\ pc[q] \in {"read", "remove"}
              /\ \A p \in todo[q] \cup seen[q] : p \in Whole' => p \in todo'[q] \cup seen'[q]
      BY <2>1, <2>3
    <3>4. \A q \in Runs : pc'[q] = "remove" =>
              todo'[q] = {} /\ Cardinality((seen'[q] \cap Whole') \ excess'[q]) <= Limit
      BY <1>5, <2>1
    <3>5. \A q \in Runs : pc'[q] = "done" =>
              pc[q] = "done" \/ (pc[q] = "remove" /\ excess[q] = {})
      BY <2>1
    <3> QED
      BY <1>2, <3>1, <3>2, <3>3, <3>4, <3>5, RankedStep
  <2>5. \A q \in Runs : pc'[q] = "write" => file'[q] = "torn"
    BY <1>4, <1>10 DEF ReadRecord
  <2> QED
    BY <1>6, <2>4, <2>5
<1>11. CASE SortRecords(r)
  <2>1. PICK beyond \in Beyond(seen[r]) : excess' = [excess EXCEPT ![r] = beyond]
    BY <1>11 DEF SortRecords
  <2>2. /\ Whole' = Whole /\ todo' = todo /\ seen' = seen /\ pc[r] = "read" /\ todo[r] = {}
        /\ excess'[r] = beyond
        /\ \A q \in Runs \ {r} : excess'[q] = excess[q] /\ pc'[q] = pc[q]
        /\ pc'[r] = "remove"
    BY <1>1, <1>11, <2>1 DEF SortRecords, Whole, TypeOK, Goto
  <2>3. Cardinality((seen[r] \cap Whole) \ beyond) <= Limit
    <3>1. seen[r] \in SUBSET Runs
      BY <1>1 DEF TypeOK
    <3>2. Cardinality(seen[r] \ beyond) <= Limit
      BY <2>1, <3>1, KeptWithin
    <3>3. seen[r] \ beyond \in SUBSET Runs /\ (seen[r] \cap Whole) \ beyond \in SUBSET (seen[r] \ beyond)
      BY <3>1
    <3> QED
      BY <3>2, <3>3, CardWithin
  <2>4. \A q \in Runs : pc'[q] = "remove" =>
          todo'[q] = {} /\ Cardinality((seen'[q] \cap Whole') \ excess'[q]) <= Limit
    BY <1>5, <2>2, <2>3
  <2>5. Ranked(rank, top)'
    <3>1. \A p \in Whole' : rank[p] > 0 => p \in Whole
      BY <2>2
    <3>2. \A q \in Runs : pc'[q] \in {"running", "write", "list"} =>
              pc[q] \in {"running", "write", "list"}
      BY <2>2
    <3>3. \A q \in Runs : pc'[q] \in {"read", "remove"} =>
              /\ pc[q] \in {"read", "remove"}
              /\ \A p \in todo[q] \cup seen[q] : p \in Whole' => p \in todo'[q] \cup seen'[q]
      BY <2>2
    <3>5. \A q \in Runs : pc'[q] = "done" =>
              pc[q] = "done" \/ (pc[q] = "remove" /\ excess[q] = {})
      BY <2>2
    <3> QED
      BY <1>2, <3>1, <3>2, <3>3, <2>4, <3>5, RankedStep
  <2>6. \A q \in Runs : pc'[q] = "write" => file'[q] = "torn"
    BY <1>4, <1>11, <2>2 DEF SortRecords
  <2> QED
    BY <1>6, <2>5, <2>6
<1>12. CASE RemoveRecord(r)
  <2>1. PICK gone \in excess[r] : /\ file' = [file EXCEPT ![gone] = "removed"]
                                  /\ excess' = [excess EXCEPT ![r] = @ \ {gone}]
    BY <1>12 DEF RemoveRecord
  <2>2. pc' = pc /\ todo' = todo /\ seen' = seen
    BY <1>12 DEF RemoveRecord
  <2>3. Whole' \subseteq Whole /\ gone \notin Whole'
    BY <1>1, <2>1 DEF TypeOK, Whole
  <2>4. \A q \in Runs : \A p \in excess[q] : p = gone \/ p \in excess'[q]
    BY <1>1, <2>1 DEF TypeOK
  <2>5. \A q \in Runs : (seen'[q] \cap Whole') \ excess'[q] \in SUBSET ((seen[q] \cap Whole) \ excess[q])
    BY <2>2, <2>3, <2>4
  <2>6. \A q \in Runs : pc'[q] = "remove" =>
          todo'[q] = {} /\ Cardinality((seen'[q] \cap Whole') \ excess'[q]) <= Limit
    <3>1. \A q \in Runs : Cardinality((seen[q] \cap Whole) \ excess[q]) <= Limit =>
            Cardinality((seen'[q] \cap Whole') \ excess'[q]) <= Limit
      BY <1>5, <2>5, CardWithin
    <3> QED
      BY <1>5, <2>2, <3>1
  <2>7. Ranked(rank, top)'
    <3>1. \A p \in Whole' : rank[p] > 0 => p \in Whole
      BY <2>3
    <3>2. \A q \in Runs : pc'[q] \in {"running", "write", "list"} =>
              pc[q] \in {"running", "write", "list"}
      BY <2>2
    <3>3. \A q \in Runs : pc'[q] \in {"read", "remove"} =>
              /\ pc[q] \in {"read", "remove"}
              /\ \A p \in todo[q] \cup seen[q] : p \in Whole' => p \in todo'[q] \cup seen'[q]
      BY <2>2
    <3>5. \A q \in Runs : pc'[q] = "done" =>
              pc[q] = "done" \/ (pc[q] = "remove" /\ excess[q] = {})
      BY <2>2
    <3> QED
      BY <1>2, <3>1, <3>2, <3>3, <2>6, <3>5, RankedStep
  <2>8. \A q \in Runs : pc'[q] = "write" => file'[q] = "torn"
    <3>1. gone \in Runs /\ file[gone] # "torn"
      BY <1>1, <2>1 DEF IInv, Written
    <3> QED
      BY <1>1, <1>4, <2>1, <2>2, <3>1 DEF TypeOK
  <2> QED
    BY <1>6, <2>7, <2>8
<1>13. ASSUME NEW step \in {"done", "unavailable", "dead"}, End(r, step),
              step = "done" => pc[r] = "remove" /\ excess[r] = {}
       PROVE  LimitInv'
  <2>1. /\ Whole' = Whole /\ file' = file /\ pc'[r] = step
        /\ \A q \in Runs \ {r} : /\ pc'[q] = pc[q] /\ todo'[q] = todo[q]
                                 /\ seen'[q] = seen[q] /\ excess'[q] = excess[q]
    BY <1>1, <1>13 DEF End, Whole, TypeOK, Goto
  <2>2. Ranked(rank, top)'
    <3>1. \A p \in Whole' : rank[p] > 0 => p \in Whole
      BY <2>1
    <3>2. \A q \in Runs : pc'[q] \in {"running", "write", "list"} =>
              pc[q] \in {"running", "write", "list"}
      BY <1>13, <2>1
    <3>3. \A q \in Runs : pc'[q] \in {"read", "remove"} =>
              /\ pc[q] \in {"read", "remove"}
              /\ \A p \in todo[q] \cup seen[q] : p \in Whole' => p \in todo'[q] \cup seen'[q]
      BY <1>13, <2>1
    <3>4. \A q \in Runs : pc'[q] = "remove" =>
              todo'[q] = {} /\ Cardinality((seen'[q] \cap Whole') \ excess'[q]) <= Limit
      BY <1>5, <1>13, <2>1
    <3>5. \A q \in Runs : pc'[q] = "done" =>
              pc[q] = "done" \/ (pc[q] = "remove" /\ excess[q] = {})
      BY <1>13, <2>1
    <3> QED
      BY <1>2, <3>1, <3>2, <3>3, <3>4, <3>5, RankedStep
  <2> QED
    BY <1>4, <1>6, <2>1, <2>2
<1>14. CASE Finish(r)
  BY <1>13, <1>14 DEF Finish
<1>15. CASE Unavailable(r)
  BY <1>13, <1>15 DEF Unavailable
<1>16. CASE Die(r)
  BY <1>13, <1>16 DEF Die
<1> QED
  BY <1>7, <1>8, <1>9, <1>10, <1>11, <1>12, <1>14, <1>15, <1>16

\* Of some of the ranks up to the top, one is the greatest.
LEMMA GreatestRank ==
    ASSUME NEW rank \in [Runs -> Nat], NEW top \in Nat, NEW S \in SUBSET Runs, S # {},
           \A q \in S : rank[q] <= top
    PROVE  \E last \in S : \A q \in S : rank[q] <= rank[last]
<1> DEFINE T == {top - rank[q] : q \in S}
<1>1. \A q \in S : rank[q] \in Nat /\ top - rank[q] \in Nat
  OBVIOUS
<1>2. PICK t \in T : \A u \in T : ~(<<u, t>> \in OpToRel(<, Nat))
  <2>1. T \subseteq Nat /\ T # {}
    BY <1>1
  <2> HIDE DEF T
  <2> QED
    BY <2>1, NatLessThanWellFounded, WFMin
<1>3. PICK last \in S : t = top - rank[last]
  BY <1>2
<1>4. ASSUME NEW q \in S PROVE rank[q] <= rank[last]
  <2>1. top - rank[q] \in T /\ top - rank[q] \in Nat /\ top - rank[last] \in Nat
    BY <1>1
  <2>2. ~(top - rank[q] < top - rank[last])
    BY <1>2, <1>3, <2>1 DEF OpToRel
  <2>3. rank[q] \in Nat /\ rank[last] \in Nat
    BY <1>1
  <2> QED
    BY <2>2, <2>3
<1> QED
  BY <1>3, <1>4

\* The last of the finished commands to list saw the records of all the others.
LEMMA LastSawAll ==
    ASSUME LimitInv
    PROVE  NoMoreThanLimit
<1>1. PICK rank \in [Runs -> Nat], top \in Nat : Ranked(rank, top)
  BY DEF LimitInv
<1> DEFINE S == {r \in Whole : pc[r] = "done"}
<1>2. S \in SUBSET Runs /\ \A q \in S : 0 < rank[q] /\ rank[q] <= top /\ pc[q] = "done"
  BY <1>1 DEF Ranked, Whole
<1>3. CASE S = {}
  BY <1>3, FS_EmptySet, ConstantsAssumption DEF NoMoreThanLimit
<1>4. CASE S # {}
  <2>1. PICK last \in S : \A q \in S : rank[q] <= rank[last]
    <3> HIDE DEF S
    <3> QED
      BY <1>2, <1>4, GreatestRank
  <2>2. S \in SUBSET UpTo(rank, last) /\ UpTo(rank, last) \in SUBSET Runs
    BY <1>2, <2>1 DEF UpTo, Whole
  <2>3. Cardinality(UpTo(rank, last)) <= Limit
    BY <1>1, <1>2, <2>1 DEF Ranked
  <2>4. Cardinality(S) <= Limit
    BY <2>2, <2>3, CardWithin
  <2> QED
    BY <2>4 DEF NoMoreThanLimit
<1> QED
  BY <1>3, <1>4

\* However many commands end at the same time, those that have finished leave
\* no more records than the limit.
THEOREM WithinLimit == Spec => []NoMoreThanLimit
<1>1. Init => LimitInv
  <2> SUFFICES ASSUME Init PROVE LimitInv
    OBVIOUS
  <2>1. IInv
    BY DEF Init, IInv, TypeOK, Steps
  <2>2. PICK rank \in [Runs -> Nat] : rank = [q \in Runs |-> 0]
    OBVIOUS
  <2>3. Ranked(rank, 0)
    BY <2>2 DEF Init, Ranked
  <2> QED
    BY <2>1, <2>3 DEF Init, LimitInv
<1>2. LimitInv /\ [Next]_vars => LimitInv'
  <2> SUFFICES ASSUME LimitInv, [Next]_vars PROVE LimitInv'
    OBVIOUS
  <2>1. CASE Next
    BY <2>1, LimitStep DEF Next
  <2>2. CASE UNCHANGED vars
    <3>1. PICK rank \in [Runs -> Nat], top \in Nat : Ranked(rank, top)
      BY DEF LimitInv
    <3>2. Ranked(rank, top)'
      BY <2>2, <3>1 DEF vars, Ranked, UpTo, Whole
    <3>3. IInv'
      BY <2>2, IInvStutters DEF LimitInv
    <3>4. \A q \in Runs : pc'[q] = "write" => file'[q] = "torn"
      BY <2>2 DEF LimitInv, vars
    <3> QED
      BY <3>2, <3>3, <3>4 DEF LimitInv
  <2> QED
    BY <2>1, <2>2
<1> QED
  BY <1>1, <1>2, LastSawAll, PTL DEF Spec

=============================================================================
