-------------------------- MODULE DiagnosticRecords --------------------------
(***************************************************************************)
(* The records that commands leave of themselves                           *)
(* (src/task-runtime/diagnostics.ts).  A command that ends writes one file *)
(* into a directory that all commands of the user share, reads the others  *)
(* and removes those beyond a limit: failures are kept before successes,   *)
(* and later ones before earlier ones.  There is no lock.                  *)
(*                                                                         *)
(* A record is named after its run, and every run finishes at most once,   *)
(* so that runs stand for records.                                         *)
(***************************************************************************)
EXTENDS Integers, FiniteSets

CONSTANTS
    Runs,    \* commands
    Limit,   \* records to keep
    Times    \* when a command may end; clocks may be equal or step back

ASSUME ConstantsAssumption ==
    IsFiniteSet(Runs) /\ Limit \in Nat \ {0} /\ Times \subseteq Int

VARIABLES
    pc,      \* where a run is in finish
    record,  \* what it writes
    file,    \* its file: absent, torn (in part), whole or removed
    todo,    \* names it has listed and not read yet
    seen,    \* records it has read
    excess   \* records it has still to remove

vars == <<pc, record, file, todo, seen, excess>>

Record == [failed : BOOLEAN, time : Times]
Steps == {"running", "write", "list", "read", "remove", "done", "unavailable", "dead"}

TypeOK ==
    /\ pc \in [Runs -> Steps]
    /\ record \in [Runs -> Record]
    /\ file \in [Runs -> {"absent", "torn", "whole", "removed"}]
    /\ todo \in [Runs -> SUBSET Runs]
    /\ seen \in [Runs -> SUBSET Runs]
    /\ excess \in [Runs -> SUBSET Runs]

Whole == {r \in Runs : file[r] = "whole"}
Written == {r \in Runs : file[r] \in {"whole", "removed"}}

\* The comparison of records.sort, by which ties are left to the directory.
BeforeByTime(q, r) == record[q].time >= record[r].time
Before(q, r) == IF record[q].failed # record[r].failed THEN record[q].failed
                ELSE record[q].time >= record[r].time

Init ==
    /\ pc = [r \in Runs |-> "running"]
    /\ record \in [Runs -> Record]
    /\ file = [r \in Runs |-> "absent"]
    /\ todo = [r \in Runs |-> {}]
    /\ seen = [r \in Runs |-> {}]
    /\ excess = [r \in Runs |-> {}]

Goto(r, step) == pc' = [pc EXCEPT ![r] = step]

-----------------------------------------------------------------------------
(* finish.                                                                  *)

\* The file is not written at once: others may read it in part.  Those that
\* are going through the directory just now may come across it or not.
BeginWrite(r) ==
    /\ pc[r] = "running"
    /\ file' = [file EXCEPT ![r] = "torn"]
    /\ \E across \in SUBSET {q \in Runs : pc[q] = "read"} :
         todo' = [q \in Runs |-> IF q \in across THEN todo[q] \cup {r} ELSE todo[q]]
    /\ Goto(r, "write")
    /\ UNCHANGED <<record, seen, excess>>

EndWrite(r) ==
    /\ pc[r] = "write"
    /\ file' = [file EXCEPT ![r] = "whole"]
    /\ Goto(r, "list")
    /\ UNCHANGED <<record, todo, seen, excess>>

ListDirectory(r) ==
    /\ pc[r] = "list"
    /\ todo' = [todo EXCEPT ![r] = {q \in Runs : file[q] \in {"torn", "whole"}}]
    /\ Goto(r, "read")
    /\ UNCHANGED <<record, file, seen, excess>>

\* A file that has gone or cannot be parsed is passed over.
ReadRecord(r) ==
    /\ pc[r] = "read"
    /\ \E q \in todo[r] :
         /\ todo' = [todo EXCEPT ![r] = @ \ {q}]
         /\ seen' = [seen EXCEPT ![r] = IF file[q] = "whole" THEN @ \cup {q} ELSE @]
    /\ UNCHANGED <<pc, record, file, excess>>

\* records.slice(Limit) of the sorted records.
BeyondOneMore(all) ==
    {beyond \in SUBSET all :
        /\ Cardinality(all \ beyond) =
             IF Cardinality(all) <= Limit THEN Cardinality(all) ELSE Limit + 1
        /\ \A kept \in all \ beyond, x \in beyond : Before(kept, x)}
Beyond(all) ==
    {beyond \in SUBSET all :
        /\ Cardinality(all \ beyond) =
             IF Cardinality(all) <= Limit THEN Cardinality(all) ELSE Limit
        /\ \A kept \in all \ beyond, x \in beyond : Before(kept, x)}

SortRecords(r) ==
    /\ pc[r] = "read"
    /\ todo[r] = {}
    /\ \E beyond \in Beyond(seen[r]) : excess' = [excess EXCEPT ![r] = beyond]
    /\ Goto(r, "remove")
    /\ UNCHANGED <<record, file, todo, seen>>

\* One that another run has removed meanwhile is passed over.
RemoveRecord(r) ==
    /\ pc[r] = "remove"
    /\ \E q \in excess[r] :
         /\ \A x \in excess[r] : Before(q, x)
         /\ file' = [file EXCEPT ![q] = "removed"]
         /\ excess' = [excess EXCEPT ![r] = @ \ {q}]
    /\ UNCHANGED <<pc, record, todo, seen>>

\* What a run has listed and read ends with it.
End(r, step) ==
    /\ Goto(r, step)
    /\ todo' = [todo EXCEPT ![r] = {}]
    /\ seen' = [seen EXCEPT ![r] = {}]
    /\ excess' = [excess EXCEPT ![r] = {}]
    /\ UNCHANGED <<record, file>>

Finish(r) ==
    /\ pc[r] = "remove"
    /\ excess[r] = {}
    /\ End(r, "done")

\* An error before the removals ends the recording with a warning.
Unavailable(r) ==
    /\ pc[r] \in {"running", "write", "list", "read"}
    /\ End(r, "unavailable")

Die(r) ==
    /\ pc[r] \in {"running", "write", "list", "read", "remove"}
    /\ End(r, "dead")

Next == \E r \in Runs :
    \/ BeginWrite(r) \/ EndWrite(r) \/ ListDirectory(r) \/ ReadRecord(r)
    \/ SortRecords(r) \/ RemoveRecord(r) \/ Finish(r)
    \/ Unavailable(r) \/ Die(r)

Spec == Init /\ [][Next]_vars

-----------------------------------------------------------------------------
(* Properties.                                                              *)

\* A failure is worth more than a success, and a later record more than an
\* earlier one.
AtLeast(q, r) ==
    \/ record[q].failed /\ ~record[r].failed
    \/ record[q].failed = record[r].failed /\ record[q].time >= record[r].time

\* "Retains up to 32 records, preferring failures": commands that end at the
\* same time remove by different views of the directory, yet none removes a
\* record that is among the best of all ever written.
BestRecordsStay ==
    \A r \in Runs : file[r] = "removed" =>
        Cardinality({q \in Written \ {r} : AtLeast(q, r)}) >= Limit

\* Nor do they leave more than the limit: of the records that are there, at
\* any time, no more than that many belong to commands that have finished, as
\* the last of these to list the directory saw all of them.
NoMoreThanLimit ==
    Cardinality({r \in Whole : pc[r] = "done"}) <= Limit

=============================================================================
