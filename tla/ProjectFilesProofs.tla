-------------------------- MODULE ProjectFilesProofs --------------------------
(***************************************************************************)
(* init creates all of its files or none and nobody's work is lost, for    *)
(* any number of commands in a directory, and any edits and deaths; the    *)
(* verdicts of generate and check are true for any number of runs, outputs *)
(* and edits, as long as nothing changes under the run.                    *)
(***************************************************************************)
EXTENDS ProjectFiles, Generation, SequenceTheorems, FiniteSetTheorems, TLAPS

InitLabels == {"start", "preflight", "open", "stat", "write", "checkOwn", "removeOwn",
               "succeeded", "failed", "dead"}
AddLabels == {"start", "find", "read", "compare", "rename", "succeeded", "failed", "dead"}

Entry(name, id) == [name |-> name, id |-> id]

\* What init has created and identified: the second file first.
First == {<<Entry("deno.json", i)>> : i \in Nat}
Both == {<<Entry("workflows.ts", i), Entry("deno.json", j)>> : i, j \in Nat}
CreatedLists == {<< >>} \cup First \cup Both
Entries(list) == {list[i] : i \in DOMAIN list}

Local ==
    [at : Nat, created : CreatedLists, found : SUBSET Configs, text : Text,
     own : Nat, made : SUBSET Nat, slipped : BOOLEAN, raced : BOOLEAN]

TypeOK ==
    /\ fs \in [Names -> File \cup {Absent}]
    /\ ids \in Nat
    /\ edits \in 0 .. MaxEdits
    /\ command \in [Procs -> Commands]
    /\ pc \in [Procs -> InitLabels \cup AddLabels]
    /\ local \in [Procs -> Local]
    /\ \A p \in Procs : pc[p] \in IF p \in Inits THEN InitLabels ELSE AddLabels

\* The file under a name is the one with this identity.
Stands(name, id) == fs[name] # Absent /\ fs[name].id = id

\* The names an init holds: nobody else may remove what stands there.
Held(s, label) ==
    {e.name : e \in Entries(s.created)}
    \cup (IF label = "stat" THEN {Created[s.at + 1]} ELSE {})

\* What init knows about its files.
InitKnows(s, label) ==
    /\ label \in {"start", "preflight"} => s.created = << >>
    /\ label \in {"open", "stat", "write"} => s.at \in {0, 1}
    /\ label \in {"open", "stat"} => s.created \in IF s.at = 0 THEN {<< >>} ELSE First
    /\ label = "write" => /\ s.created \in IF s.at = 0 THEN First ELSE Both
                          /\ Head(s.created).id = s.own
    /\ label = "succeeded" => s.created \in Both
    /\ label = "removeOwn" => s.created # << >>
    /\ label = "failed" => s.created = << >>
    /\ label \in {"stat", "write"} => s.own \in s.made

\* What is true of the directory meanwhile.  Without a failed call, all that an
\* init has made and that is still there is what it has yet to remove.
InitSafe(s, label) ==
    /\ InitKnows(s, label)
    /\ s.made \subseteq 1 .. ids
    /\ \A e \in Entries(s.created) : e.id \in s.made
    /\ \A name \in Held(s, label) : fs[name] # Absent
    /\ label = "removeOwn" /\ ~s.raced => Stands(Head(s.created).name, Head(s.created).id)
    /\ ~s.slipped /\ label # "dead" =>
         \A name \in Names, id \in s.made : Stands(name, id) =>
             \/ Entry(name, id) \in Entries(s.created)
             \/ label = "stat" /\ id = s.own /\ name = Created[s.at + 1]

\* What add knows about the configuration.
AddSafe(s, label) ==
    /\ label \in {"read", "compare", "rename"} => \E name \in Configs : s.found = {name}
    /\ label = "rename" /\ ~s.raced =>
         \A name \in s.found : fs[name] # Absent /\ fs[name].text = s.text

ProcSafe(p, s, label) == IF p \in Inits THEN InitSafe(s, label) ELSE AddSafe(s, label)

\* The inductive invariant: no two inits hold a name, and what one holds stays.
IInv ==
    /\ TypeOK
    /\ \A name \in Names : fs[name] # Absent => fs[name].id \in 1 .. ids
    /\ \A p \in Procs : ProcSafe(p, local[p], pc[p])
    /\ \A p, q \in Inits : p # q => Held(local[p], pc[p]) \cap Held(local[q], pc[q]) = {}

-----------------------------------------------------------------------------
(* The list of what init has created.                                       *)

\* What the lists hold.
LEMMA ListEntries ==
    /\ Entries(<< >>) = {}
    /\ \A e : Entries(<<e>>) = {e}
    /\ \A e, f : Entries(<<e, f>>) = {e, f}
BY DEF Entries

\* Each entry of a list is one of a name, and no name has two.
LEMMA ListNames ==
    ASSUME NEW list \in CreatedLists
    PROVE  /\ \A e \in Entries(list) :
                e.name \in Names /\ e.id \in Nat /\ e = Entry(e.name, e.id)
           /\ \A e, f \in Entries(list) : e.name = f.name => e = f
<1>1. CASE list = << >>
  BY <1>1, ListEntries
<1>2. CASE list \in First
  BY <1>2, ListEntries DEF First, Entry, Names
<1>3. CASE list \in Both
  BY <1>3, ListEntries DEF Both, Entry, Names
<1> QED
  BY <1>1, <1>2, <1>3 DEF CreatedLists

\* Its first is one of them, and the rest are the others.
LEMMA ListTail ==
    ASSUME NEW list \in CreatedLists, list # << >>
    PROVE  /\ Head(list) \in Entries(list)
           /\ Tail(list) \in CreatedLists
           /\ Entries(Tail(list)) = Entries(list) \ {Head(list)}
<1>1. CASE list \in First
  <2>1. PICK i \in Nat : list = <<Entry("deno.json", i)>>
    BY <1>1 DEF First
  <2>2. Head(list) = Entry("deno.json", i) /\ Tail(list) = << >>
    BY <2>1
  <2> QED
    BY <2>1, <2>2, ListEntries DEF CreatedLists
<1>2. CASE list \in Both
  <2>1. PICK i, j \in Nat : list = <<Entry("workflows.ts", i), Entry("deno.json", j)>>
    BY <1>2 DEF Both
  <2>2. Head(list) = Entry("workflows.ts", i) /\ Tail(list) = <<Entry("deno.json", j)>>
    BY <2>1
  <2>3. Entry("workflows.ts", i) # Entry("deno.json", j)
    BY DEF Entry
  <2> QED
    BY <2>1, <2>2, <2>3, ListEntries DEF CreatedLists, First
<1> QED
  BY <1>1, <1>2 DEF CreatedLists

\* The file that is created next goes to the front.
LEMMA ListPush ==
    ASSUME NEW at \in {0, 1}, NEW id \in Nat,
           NEW list \in IF at = 0 THEN {<< >>} ELSE First
    PROVE  /\ <<Entry(Created[at + 1], id)>> \o list \in IF at = 0 THEN First ELSE Both
           /\ <<Entry(Created[at + 1], id)>> \o list \in CreatedLists
           /\ Head(<<Entry(Created[at + 1], id)>> \o list) = Entry(Created[at + 1], id)
           /\ Entries(<<Entry(Created[at + 1], id)>> \o list)
                = {Entry(Created[at + 1], id)} \cup Entries(list)
<1>1. CASE at = 0
  <2>1. list = << >> /\ Created[at + 1] = "deno.json"
    BY <1>1 DEF Created
  <2>2. <<Entry("deno.json", id)>> \o << >> = <<Entry("deno.json", id)>>
    OBVIOUS
  <2> QED
    BY <1>1, <2>1, <2>2, ListEntries DEF First, CreatedLists
<1>2. CASE at = 1
  <2>1. PICK i \in Nat : list = <<Entry("deno.json", i)>>
    BY <1>2 DEF First
  <2>2. Created[at + 1] = "workflows.ts"
    BY <1>2 DEF Created
  <2> DEFINE e == Entry("workflows.ts", id)
             f == Entry("deno.json", i)
  <2> HIDE DEF e, f
  <2>3. <<e>> \o <<f>> = <<e, f>>
    <3> DEFINE c == <<e>> \o <<f>>
    <3>1. <<e>> \in Seq({e, f}) /\ <<f>> \in Seq({e, f}) /\ <<e, f>> \in Seq({e, f})
      OBVIOUS
    <3>2. c \in Seq({e, f}) /\ Len(c) = 2 /\ c[1] = e /\ c[2] = f
      BY <3>1
    <3>3. Len(<<e, f>>) = 2 /\ <<e, f>>[1] = e /\ <<e, f>>[2] = f
      OBVIOUS
    <3> HIDE DEF c
    <3>4. \A k \in 1 .. 2 : c[k] = <<e, f>>[k]
      BY <3>2, <3>3
    <3> QED
      BY <3>1, <3>2, <3>3, <3>4, SeqEqual DEF c
  <2>4. <<e, f>> \in Both
    BY DEF e, f, Both
  <2>5. Head(<<e, f>>) = e /\ Entries(<<e, f>>) = {e} \cup Entries(<<f>>)
    BY ListEntries
  <2>6. <<Entry(Created[at + 1], id)>> \o list = <<e, f>> /\ list = <<f>>
    BY <2>1, <2>2, <2>3 DEF e, f
  <2> QED
    BY <1>2, <2>2, <2>4, <2>5, <2>6 DEF CreatedLists, e
<1> QED
  BY <1>1, <1>2

-----------------------------------------------------------------------------
(* How a change of the directory bears on those who did not make it.        *)

\* Files that were there before may be gone or have new texts; any other has a
\* new identity.
Renewed(files) ==
    /\ files \in [Names -> File \cup {Absent}]
    /\ ids' \in Nat /\ ids <= ids'
    /\ \A name \in Names : files[name] # Absent =>
         \/ fs[name] # Absent /\ files[name].id = fs[name].id
         \/ files[name].id = ids + 1 /\ ids' = ids + 1

\* A process that did not make the change finds what it relies on, or is raced.
LEMMA OtherStays ==
    ASSUME IInv, NEW q \in Procs, NEW files, Renewed(files), fs' = files,
           UNCHANGED command, NEW label, label = pc[q],
           q \in Inits => \A name \in Held(local[q], label) : files[name] # Absent,
           NEW t, t = [local[q] EXCEPT !.raced = Raced(q, files)]
    PROVE  t \in Local /\ ProcSafe(q, t, label)' /\ Held(t, label) = Held(local[q], label)
<1>1. local[q] \in Local /\ ProcSafe(q, local[q], label)
  BY DEF IInv, TypeOK
<1>2. Raced(q, files) \in BOOLEAN
  BY <1>1 DEF Raced, Local
<1>3. /\ t \in Local /\ t.raced = Raced(q, files)
      /\ t.at = local[q].at /\ t.created = local[q].created /\ t.found = local[q].found
      /\ t.text = local[q].text /\ t.own = local[q].own /\ t.made = local[q].made
      /\ t.slipped = local[q].slipped
  BY <1>1, <1>2 DEF Local
<1>4. Held(t, label) = Held(local[q], label)
  BY <1>3 DEF Held
<1>5. CASE q \in Inits
  <2>1. InitSafe(local[q], label)
    BY <1>1, <1>5 DEF ProcSafe
  <2>2. InitKnows(t, label)
    BY <1>3, <2>1 DEF InitSafe, InitKnows
  <2>3. t.made \subseteq 1 .. ids'
    BY <1>3, <2>1 DEF InitSafe, Renewed, IInv, TypeOK
  <2>4. \A name \in Held(t, label) : fs'[name] # Absent
    BY <1>4, <1>5
  <2>5. label = "removeOwn" /\ ~t.raced =>
          fs'[Head(t.created).name] # Absent /\ fs'[Head(t.created).name].id = Head(t.created).id
    <3> SUFFICES ASSUME label = "removeOwn", ~Raced(q, files)
                 PROVE  /\ fs'[Head(t.created).name] # Absent
                        /\ fs'[Head(t.created).name].id = Head(t.created).id
      BY <1>3
    <3>1. t.created \in CreatedLists /\ t.created # << >>
      BY <1>3, <2>1 DEF InitSafe, InitKnows, Local
    <3>2. Head(t.created).name \in Names
      BY <3>1, ListTail, ListNames
    <3>3. Relies(q, Head(t.created).name)
      BY <1>3 DEF Relies
    <3>4. files[Head(t.created).name] = fs[Head(t.created).name]
      BY <3>2, <3>3 DEF Raced
    <3> QED
      BY <1>3, <2>1, <3>4 DEF InitSafe, Stands, Raced
  <2>6. \A name \in Names, id \in t.made :
          fs'[name] # Absent /\ fs'[name].id = id => Stands(name, id)
    <3>1. t.made \subseteq 1 .. ids /\ ids \in Nat
      BY <1>3, <2>1 DEF InitSafe, IInv, TypeOK
    <3> QED
      BY <3>1 DEF Renewed, Stands
  <2> QED
    BY <1>3, <1>4, <1>5, <2>1, <2>2, <2>3, <2>4, <2>5, <2>6 DEF ProcSafe, InitSafe, InitKnows,
       Inits, Stands
<1>6. CASE q \notin Inits
  <2>1. AddSafe(local[q], label)
    BY <1>1, <1>6 DEF ProcSafe
  <2>2. ASSUME label = "rename", ~Raced(q, files), NEW name \in t.found
        PROVE  files[name] # Absent /\ files[name].text = t.text
    <3>1. Relies(q, name) /\ name \in Names
      BY <1>3, <2>2 DEF Relies, Local, Configs, Names
    <3>2. files[name] = fs[name]
      BY <2>2, <3>1 DEF Raced
    <3> QED
      BY <1>3, <2>1, <2>2, <3>2 DEF AddSafe, Raced
  <2> QED
    BY <1>3, <1>4, <1>6, <2>1, <2>2 DEF ProcSafe, AddSafe, Inits
<1> QED
  BY <1>5, <1>6


\* A process changes the directory: what it does away with it holds, and what
\* it holds afterwards it held before, or nobody had it.
LEMMA ProcChanges ==
    ASSUME IInv, NEW p \in Procs, NEW s \in Local, NEW label, NEW files,
           Renewed(files), Change(p, s, files), Goto(p, label), UNCHANGED <<edits, command>>,
           label \in IF p \in Inits THEN InitLabels ELSE AddLabels,
           ProcSafe(p, s, label)',
           \A name \in Names : fs[name] # Absent /\ files[name] = Absent =>
              p \in Inits /\ name \in Held(local[p], pc[p]),
           p \in Inits => \A name \in Held(s, label) :
              name \in Held(local[p], pc[p]) \/ fs[name] = Absent
    PROVE  IInv'
<1>1. /\ fs' = files /\ UNCHANGED command
      /\ pc' = [pc EXCEPT ![p] = label]
      /\ local' = [q \in Procs |-> IF q = p THEN s
                                  ELSE [local[q] EXCEPT !.raced = Raced(q, files)]]
  BY DEF Change, Goto
<1>2. Inits' = Inits
  BY <1>1 DEF Inits
<1>3. ASSUME NEW q \in Procs, q # p
      PROVE  /\ local'[q] \in Local /\ pc'[q] = pc[q]
             /\ ProcSafe(q, local[q], pc[q])'
             /\ Held(local[q], pc[q])' = Held(local[q], pc[q])
  <2> DEFINE t == local'[q]
             at == pc[q]
  <2>1. t = [local[q] EXCEPT !.raced = Raced(q, files)] /\ pc'[q] = at
    BY <1>1, <1>3 DEF IInv, TypeOK
  <2>2. q \in Inits => \A name \in Held(local[q], at) : files[name] # Absent
    <3> SUFFICES ASSUME q \in Inits, NEW name \in Held(local[q], at), files[name] = Absent
                 PROVE  FALSE
      OBVIOUS
    <3>1. InitSafe(local[q], at)
      BY DEF IInv, ProcSafe
    <3>2. fs[name] # Absent
      BY <3>1 DEF InitSafe
    <3>3. name \in Names
      <4>1. local[q] \in Local
        BY DEF IInv, TypeOK
      <4>2. \A e \in Entries(local[q].created) : e.name \in Names
        BY <4>1, ListNames DEF Local
      <4>3. at = "stat" => Created[local[q].at + 1] \in Names
        BY <3>1 DEF InitSafe, InitKnows, Created, Names
      <4> QED
        BY <4>2, <4>3 DEF Held
    <3>4. p \in Inits /\ name \in Held(local[p], pc[p])
      BY <3>2, <3>3
    <3> QED
      BY <1>3, <3>4 DEF IInv
  <2>3. \A u, l : u = t /\ l = at =>
          u \in Local /\ ProcSafe(q, u, l)' /\ Held(u, l) = Held(local[q], l)
    BY <1>1, <2>1, <2>2, OtherStays
  <2> QED
    BY <2>1, <2>3 DEF ProcSafe, InitSafe, InitKnows, AddSafe, Held, Stands
<1>4. local'[p] = s /\ pc'[p] = label
  BY <1>1 DEF IInv, TypeOK
<1>5. ProcSafe(p, local[p], pc[p])'
  BY <1>4 DEF ProcSafe, InitSafe, InitKnows, AddSafe, Held, Stands
<1>6. TypeOK'
  <2>1. local' \in [Procs -> Local]
    BY <1>1, <1>3, <1>4
  <2>2. \A q \in Procs : pc'[q] \in IF q \in Inits THEN InitLabels ELSE AddLabels
    BY <1>3, <1>4 DEF IInv, TypeOK
  <2>3. pc' \in [Procs -> InitLabels \cup AddLabels]
    BY <1>1 DEF IInv, TypeOK
  <2> QED
    BY <1>1, <1>2, <2>1, <2>2, <2>3 DEF Renewed, IInv, TypeOK
<1>7. \A name \in Names : fs'[name] # Absent => fs'[name].id \in 1 .. ids'
  BY <1>1 DEF Renewed, IInv, TypeOK
<1>8. \A q, r \in Inits' : q # r => Held(local[q], pc[q])' \cap Held(local[r], pc[r])' = {}
  <2>1. ASSUME NEW q \in Inits, q # p, p \in Inits
        PROVE  Held(local[q], pc[q]) \cap Held(s, label) = {}
    <3>1. Held(local[q], pc[q]) \cap Held(local[p], pc[p]) = {}
      BY <2>1 DEF IInv
    <3>2. \A name \in Held(local[q], pc[q]) : fs[name] # Absent
      BY <2>1 DEF IInv, ProcSafe, InitSafe, Inits
    <3> QED
      BY <2>1, <3>1, <3>2
  <2>2. Held(local[p], pc[p])' = Held(s, label)
    BY <1>4 DEF Held
  <2>3. \A q \in Inits : q # p => Held(local[q], pc[q])' = Held(local[q], pc[q])
    BY <1>3 DEF Inits
  <2>4. \A q, r \in Inits : q # r => Held(local[q], pc[q]) \cap Held(local[r], pc[r]) = {}
    BY DEF IInv
  <2> HIDE DEF Held
  <2> QED
    BY <1>2, <2>1, <2>2, <2>3, <2>4
<1> QED
  BY <1>3, <1>5, <1>6, <1>7, <1>8 DEF IInv

\* A process goes on alone; what it holds it held before.
LEMMA ProcMoves ==
    ASSUME IInv, NEW p \in Procs, NEW s \in Local, NEW label,
           Set(p, s), Goto(p, label), UNCHANGED <<fs, ids, edits, command>>,
           label \in IF p \in Inits THEN InitLabels ELSE AddLabels,
           ProcSafe(p, s, label),
           p \in Inits => Held(s, label) \subseteq Held(local[p], pc[p])
    PROVE  IInv'
<1>1. local' = [local EXCEPT ![p] = s] /\ pc' = [pc EXCEPT ![p] = label]
  BY DEF Set, Goto
<1>2. Change(p, s, fs)
  <2>1. \A q \in Procs : [local[q] EXCEPT !.raced = Raced(q, fs)] = local[q]
    <3> TAKE q \in Procs
    <3>1. local[q] \in Local
      BY DEF IInv, TypeOK
    <3>2. Raced(q, fs) = local[q].raced
      BY <3>1 DEF Raced, Local
    <3> QED
      BY <3>1, <3>2 DEF Local
  <2> QED
    BY <1>1, <2>1 DEF Change, IInv, TypeOK
<1>3. Renewed(fs)
  BY DEF Renewed, IInv, TypeOK
<1>4. ProcSafe(p, s, label)'
  BY DEF ProcSafe, InitSafe, InitKnows, AddSafe, Held, Stands, Inits
<1> QED
  BY <1>2, <1>3, <1>4, ProcChanges

\* The same for one that has learnt nothing.
LEMMA ProcGoes ==
    ASSUME IInv, NEW p \in Procs, NEW label,
           Goto(p, label), UNCHANGED <<fs, ids, edits, command, local>>,
           label \in IF p \in Inits THEN InitLabels ELSE AddLabels,
           ProcSafe(p, local[p], label),
           p \in Inits => Held(local[p], label) \subseteq Held(local[p], pc[p])
    PROVE  IInv'
<1>1. local[p] \in Local /\ Set(p, local[p])
  BY DEF IInv, TypeOK, Set
<1> QED
  BY <1>1, ProcMoves

\* Or one that stays where it is.
LEMMA ProcLearns ==
    ASSUME IInv, NEW p \in Procs, NEW s \in Local,
           Set(p, s), UNCHANGED <<fs, ids, edits, command, pc>>,
           ProcSafe(p, s, pc[p]),
           p \in Inits => Held(s, pc[p]) \subseteq Held(local[p], pc[p])
    PROVE  IInv'
<1>1. Goto(p, pc[p]) /\ pc[p] \in IF p \in Inits THEN InitLabels ELSE AddLabels
  BY DEF IInv, TypeOK, Goto
<1> QED
  BY <1>1, ProcMoves


-----------------------------------------------------------------------------
(* init.                                                                    *)

\* What is known of an init where it is.
LEMMA InitIsSafe ==
    ASSUME IInv, NEW p \in Inits
    PROVE  p \in Procs /\ local[p] \in Local /\ InitSafe(local[p], pc[p])
           /\ pc[p] \in InitLabels
BY DEF IInv, TypeOK, ProcSafe, Inits

\* An init goes to its cleanup with what it has created.
LEMMA ToCleanup ==
    ASSUME IInv, NEW p \in Inits, Goto(p, "checkOwn"),
           pc[p] \in {"preflight", "open", "write"},
           UNCHANGED <<fs, ids, edits, command, local>>
    PROVE  IInv'
<1>1. p \in Procs /\ InitSafe(local[p], "checkOwn")
      /\ Held(local[p], "checkOwn") \subseteq Held(local[p], pc[p])
  BY InitIsSafe DEF InitSafe, InitKnows, Held
<1> QED
  BY <1>1, ProcGoes DEF ProcSafe, InitLabels

\* A new init holds nothing.
LEMMA BeginInitKeeps == ASSUME IInv, NEW p \in Procs, BeginInit(p) PROVE IInv'
<1>1. p \in Inits
  BY DEF BeginInit, Inits
<1>2. InitSafe(local[p], "preflight")
      /\ Held(local[p], "preflight") \subseteq Held(local[p], pc[p])
  BY <1>1, InitIsSafe DEF BeginInit, InitSafe, InitKnows, Held
<1> QED
  BY <1>1, <1>2, ProcGoes DEF BeginInit, ProcSafe, InitLabels

\* Nor does one that is looking.
LEMMA LookAtKeeps ==
    ASSUME IInv, NEW p \in Procs, LookAt(p) PROVE IInv'
<1>1. p \in Inits
  BY DEF LookAt, IInv, TypeOK, AddLabels
<1>2. p \in Procs /\ local[p] \in Local /\ InitSafe(local[p], "preflight")
      /\ pc[p] = "preflight"
  BY <1>1, InitIsSafe DEF LookAt
<1>3. CASE fs[Preflight[local[p].at + 1]] # Absent
  BY <1>1, <1>3, ToCleanup DEF LookAt
<1>4. CASE fs[Preflight[local[p].at + 1]] = Absent /\ local[p].at + 1 = Len(Preflight)
  <2> DEFINE s == [local[p] EXCEPT !.at = 0]
  <2>1. s \in Local /\ InitSafe(s, "open") /\ Held(s, "open") \subseteq Held(local[p], pc[p])
    BY <1>2, <1>4 DEF Local, Preflight, InitSafe, InitKnows, Held
  <2>2. Set(p, s) /\ Goto(p, "open") /\ UNCHANGED <<fs, ids, edits, command>>
    BY <1>4 DEF LookAt
  <2> HIDE DEF s
  <2> QED
    BY <1>1, <2>1, <2>2, ProcMoves DEF ProcSafe, InitLabels
<1>5. CASE fs[Preflight[local[p].at + 1]] = Absent /\ local[p].at + 1 # Len(Preflight)
  <2> DEFINE s == [local[p] EXCEPT !.at = @ + 1]
  <2>1. s \in Local
    BY <1>2 DEF Local
  <2>2. InitSafe(s, "preflight") /\ Held(s, pc[p]) \subseteq Held(local[p], pc[p])
    BY <1>2 DEF Local, InitSafe, InitKnows, Held
  <2>3. Set(p, s) /\ UNCHANGED <<fs, ids, edits, command, pc>>
    BY <1>5 DEF LookAt
  <2> HIDE DEF s
  <2> QED
    BY <1>1, <1>2, <2>1, <2>2, <2>3, ProcLearns DEF ProcSafe
<1> QED
  BY <1>3, <1>4, <1>5

\* The texts that commands leave are texts, and no file is a missing one.
LEMMA TextsAreTexts ==
    /\ Torn(Template) \in Text
    /\ \A text \in Text : Written(text) \in Text
    /\ \A id \in Nat, text \in Text : [id |-> id, text |-> text] \in File
    /\ \A file \in File : file # Absent
    /\ \A name \in Configs : name \in Names
<1>1. Template \in Text
  BY ConstantsAssumption DEF Template, Text
<1> QED
  BY <1>1, ConstantsAssumption DEF Torn, Written, Text, File, Configs, Names

\* What init opens nobody holds, as it is not there; its identity is new.
LEMMA OpenNewKeeps == ASSUME IInv, NEW p \in Procs, OpenNew(p) PROVE IInv'
<1>1. p \in Inits
  BY DEF OpenNew, IInv, TypeOK, AddLabels
<1>2. p \in Procs /\ local[p] \in Local /\ InitSafe(local[p], "open") /\ pc[p] = "open"
  BY <1>1, InitIsSafe DEF OpenNew
<1> DEFINE name == NameAt(p)
           file == [id |-> ids + 1, text |-> Torn(Template)]
           files == [fs EXCEPT ![name] = file]
<1>3. name \in Names /\ name = Created[local[p].at + 1]
  BY <1>2 DEF InitSafe, InitKnows, NameAt, Created, Names
<1>4. CASE fs[name] # Absent
  BY <1>1, <1>2, <1>4, ToCleanup DEF OpenNew
<1>5. CASE fs[name] = Absent
  <2>0. PICK s : s = [local[p] EXCEPT !.own = ids + 1, !.made = @ \cup {ids + 1}]
    OBVIOUS
  <2>1. /\ Change(p, s, files) /\ ids' = ids + 1 /\ Goto(p, "stat")
        /\ UNCHANGED <<edits, command>>
    BY <1>5, <2>0 DEF OpenNew
  <2>2. ids \in Nat /\ ids + 1 \in Nat
    BY DEF IInv, TypeOK
  <2>3. file \in File /\ file # Absent /\ file.id = ids + 1
    BY <2>2, TextsAreTexts
  <2>4. /\ files \in [Names -> File \cup {Absent}]
        /\ \A n \in Names : files[n] = IF n = name THEN file ELSE fs[n]
    BY <1>3, <2>3 DEF IInv, TypeOK
  <2>5. Renewed(files)
    BY <2>1, <2>2, <2>3, <2>4 DEF Renewed
  <2>6. /\ s \in Local /\ s.at = local[p].at /\ s.created = local[p].created
        /\ s.own = ids + 1 /\ s.made = local[p].made \cup {ids + 1}
        /\ s.slipped = local[p].slipped
    BY <1>2, <2>0, <2>2 DEF Local
  <2>7. fs' = files
    BY <2>1 DEF Change
  <2> HIDE DEF files, file, name
  <2>8. Held(s, "stat") = Held(local[p], "open") \cup {name}
    BY <1>3, <2>6 DEF Held
  <2>9. InitKnows(s, "stat")
    BY <1>2, <2>6 DEF InitSafe, InitKnows
  <2>10. s.made \subseteq 1 .. ids'
    BY <1>2, <2>1, <2>2, <2>6 DEF InitSafe
  <2>11. \A n \in Held(s, "stat") : fs'[n] # Absent
    <3>1. \A n \in Held(local[p], "open") : n \in Names /\ fs[n] # Absent
      BY <1>2, ListNames DEF InitSafe, Held, Local
    <3> QED
      BY <1>3, <2>3, <2>4, <2>7, <2>8, <3>1
  <2>12. ASSUME ~s.slipped, NEW n \in Names, NEW id \in s.made,
                fs'[n] # Absent, fs'[n].id = id
         PROVE  \/ Entry(n, id) \in Entries(s.created)
                \/ id = s.own /\ n = Created[s.at + 1]
    <3>1. CASE n = name
      BY <1>3, <2>3, <2>4, <2>6, <2>7, <2>12, <3>1
    <3>2. CASE n # name
      <4>1. fs[n] # Absent /\ fs[n].id = id
        BY <2>4, <2>7, <2>12, <3>2
      <4>2. id # ids + 1
        BY <2>2, <4>1 DEF IInv
      <4>3. id \in local[p].made
        BY <2>6, <4>2
      <4> QED
        BY <1>2, <2>6, <2>12, <4>1, <4>3 DEF InitSafe, Stands
    <3> QED
      BY <3>1, <3>2
  <2>13. InitSafe(s, "stat")'
    <3>1. InitKnows(s, "stat")'
      BY <2>9 DEF InitKnows
    <3>2. \A e \in Entries(s.created) : e.id \in s.made
      BY <1>2, <2>6 DEF InitSafe
    <3>3. \A n \in Held(s, "stat")' : fs'[n] # Absent
      BY <2>11 DEF Held
    <3> QED
      BY <2>10, <2>12, <3>1, <3>2, <3>3 DEF InitSafe, Stands
  <2>14. ProcSafe(p, s, "stat")'
    BY <1>1, <2>1, <2>13 DEF ProcSafe, InitSafe, InitKnows, Held, Stands, Inits
  <2>15. \A n \in Names : fs[n] # Absent => files[n] # Absent
    BY <2>3, <2>4
  <2>16. \A n \in Held(s, "stat") : n \in Held(local[p], pc[p]) \/ fs[n] = Absent
    BY <1>2, <1>5, <2>8
  <2> QED
    <3>1. "stat" \in IF p \in Inits THEN InitLabels ELSE AddLabels
      BY <1>1 DEF InitLabels
    <3>2. /\ Change(p, s, files) /\ Goto(p, "stat") /\ UNCHANGED <<edits, command>>
          /\ \A n \in Names : fs[n] # Absent /\ files[n] = Absent =>
               p \in Inits /\ n \in Held(local[p], pc[p])
          /\ p \in Inits => \A n \in Held(s, "stat") :
               n \in Held(local[p], pc[p]) \/ fs[n] = Absent
      BY <2>1, <2>15, <2>16
    <3> QED
      BY <1>2, <2>5, <2>6, <2>14, <3>1, <3>2, ProcChanges
<1> QED
  BY <1>4, <1>5

\* What was opened goes to the list, unless it could not be identified.
LEMMA StatNewKeeps == ASSUME IInv, NEW p \in Procs, StatNew(p) PROVE IInv'
<1>1. p \in Inits
  BY DEF StatNew, IInv, TypeOK, AddLabels
<1>2. p \in Procs /\ local[p] \in Local /\ InitSafe(local[p], "stat") /\ pc[p] = "stat"
  BY <1>1, InitIsSafe DEF StatNew
<1>3. UNCHANGED <<fs, ids, edits, command>>
  BY DEF StatNew
<1> DEFINE name == Created[local[p].at + 1]
           list == <<Entry(name, local[p].own)>> \o local[p].created
           s == [local[p] EXCEPT !.created = list]
           u == [local[p] EXCEPT !.slipped = TRUE]
<1>4. CASE Set(p, s) /\ Goto(p, "write")
  <2>1. /\ local[p].at \in {0, 1} /\ local[p].own \in Nat
        /\ local[p].created \in IF local[p].at = 0 THEN {<< >>} ELSE First
    BY <1>2 DEF InitSafe, InitKnows, Local
  <2>2. /\ list \in IF local[p].at = 0 THEN First ELSE Both
        /\ list \in CreatedLists /\ Head(list) = Entry(name, local[p].own)
        /\ Entries(list) = {Entry(name, local[p].own)} \cup Entries(local[p].created)
    BY <2>1, ListPush
  <2> HIDE DEF list, name
  <2>3. /\ s \in Local /\ s.at = local[p].at /\ s.created = list /\ s.own = local[p].own
        /\ s.made = local[p].made /\ s.slipped = local[p].slipped
    BY <1>2, <2>2 DEF Local
  <2> HIDE DEF s
  <2>4. Held(s, "write") = Held(local[p], "stat")
    <3>1. Entry(name, local[p].own).name = name
      BY DEF Entry
    <3>2. Held(s, "write") = {name} \cup {e.name : e \in Entries(local[p].created)}
      BY <2>2, <2>3, <3>1 DEF Held
    <3> QED
      BY <3>2 DEF Held, name
  <2>5. InitSafe(s, "write")
    <3>1. InitKnows(s, "write")
      BY <1>2, <2>1, <2>2, <2>3 DEF InitSafe, InitKnows, Entry
    <3>2. s.made \subseteq 1 .. ids /\ \A e \in Entries(s.created) : e.id \in s.made
      BY <1>2, <2>2, <2>3 DEF InitSafe, InitKnows, Entry
    <3>3. \A n \in Held(s, "write") : fs[n] # Absent
      BY <1>2, <2>4 DEF InitSafe
    <3>4. ~s.slipped => \A n \in Names, id \in s.made :
            Stands(n, id) => Entry(n, id) \in Entries(s.created)
      BY <1>2, <2>2, <2>3 DEF InitSafe, name
    <3> QED
      BY <3>1, <3>2, <3>3, <3>4 DEF InitSafe
  <2> QED
    BY <1>1, <1>2, <1>3, <1>4, <2>3, <2>4, <2>5, ProcMoves DEF ProcSafe, InitLabels
<1>5. CASE Set(p, u) /\ Goto(p, "checkOwn")
  <2>1. u \in Local /\ InitSafe(u, "checkOwn")
        /\ Held(u, "checkOwn") \subseteq Held(local[p], "stat")
    BY <1>2 DEF Local, InitSafe, InitKnows, Held
  <2> HIDE DEF u
  <2> QED
    BY <1>1, <1>2, <1>3, <1>5, <2>1, ProcMoves DEF ProcSafe, InitLabels
<1> QED
  BY <1>4, <1>5 DEF StatNew, Entry, NameAt


\* A write leaves every file where it is.
LEMMA WriteNewKeeps == ASSUME IInv, NEW p \in Procs, WriteNew(p) PROVE IInv'
<1>1. p \in Inits
  BY DEF WriteNew, IInv, TypeOK, AddLabels
<1>2. p \in Procs /\ local[p] \in Local /\ InitSafe(local[p], "write") /\ pc[p] = "write"
  BY <1>1, InitIsSafe DEF WriteNew
<1> DEFINE files == [name \in Names |-> IF name \in Named(local[p].own)
                                       THEN [fs[name] EXCEPT !.text = Written(@)]
                                       ELSE fs[name]]
           label == IF local[p].at + 1 = Len(Created) THEN "succeeded" ELSE "open"
<1>3. CASE Goto(p, "checkOwn") /\ UNCHANGED <<fs, local>>
  BY <1>1, <1>2, <1>3, ToCleanup DEF WriteNew
<1>4. CASE Change(p, [local[p] EXCEPT !.at = @ + 1], files) /\ Goto(p, label)
  <2>1. PICK s : s = [local[p] EXCEPT !.at = @ + 1]
    OBVIOUS
  <2>2. PICK l : l = label
    OBVIOUS
  <2>3. /\ Change(p, s, files) /\ Goto(p, l) /\ UNCHANGED <<edits, command>>
        /\ ids' = ids /\ fs' = files
    BY <1>4, <2>1, <2>2 DEF WriteNew, Change
  <2>4. \A name \in Names :
          /\ files[name] \in File \cup {Absent}
          /\ files[name] = Absent <=> fs[name] = Absent
          /\ fs[name] # Absent => files[name].id = fs[name].id
    <3> TAKE name \in Names
    <3>1. CASE name \in Named(local[p].own)
      <4>1. fs[name] \in File
        BY <3>1 DEF Named, IInv, TypeOK
      <4>2. files[name] = [id |-> fs[name].id, text |-> Written(fs[name].text)]
        BY <3>1, <4>1 DEF File
      <4>3. fs[name].id \in Nat /\ Written(fs[name].text) \in Text
        BY <4>1, TextsAreTexts DEF File
      <4>4. files[name] \in File
        BY <4>2, <4>3, TextsAreTexts
      <4>5. files[name] # Absent /\ fs[name] # Absent
        BY <4>1, <4>4, TextsAreTexts
      <4>6. files[name].id = fs[name].id
        BY <4>2
      <4> HIDE DEF files
      <4> QED
        BY <4>4, <4>5, <4>6
    <3>2. CASE name \notin Named(local[p].own)
      BY <3>2 DEF IInv, TypeOK
    <3> QED
      BY <3>1, <3>2
  <2>5. files \in [Names -> File \cup {Absent}]
    BY <2>4
  <2> HIDE DEF files
  <2>6. Renewed(files)
    BY <2>3, <2>4, <2>5 DEF Renewed, IInv, TypeOK
  <2>7. /\ s \in Local /\ s.at = local[p].at + 1 /\ s.created = local[p].created
        /\ s.own = local[p].own /\ s.made = local[p].made /\ s.slipped = local[p].slipped
        /\ s.raced = local[p].raced
    BY <1>2, <2>1 DEF Local
  <2>8. InitKnows(s, l) /\ l \in {"open", "succeeded"}
    BY <1>2, <2>2, <2>7 DEF InitSafe, InitKnows, Created
  <2>9. Held(s, l) = Held(local[p], "write")
    BY <2>7, <2>8 DEF Held
  <2>10. \A name \in Held(s, l) : name \in Names /\ fs[name] # Absent
    BY <1>2, <2>7, <2>8, <2>9, ListNames DEF InitSafe, Held, Local
  <2>11. InitSafe(s, l)'
    <3>1. InitKnows(s, l)'
      BY <2>8 DEF InitKnows
    <3>2. \A name \in Held(s, l)' : fs'[name] # Absent
      BY <2>3, <2>4, <2>10 DEF Held
    <3>3. \A name \in Names, id \in s.made : Stands(name, id)' => Stands(name, id)
      BY <2>3, <2>4 DEF Stands
    <3> QED
      BY <1>2, <2>3, <2>7, <2>8, <3>1, <3>2, <3>3 DEF InitSafe
  <2>12. ProcSafe(p, s, l)'
    BY <1>1, <2>3, <2>11 DEF ProcSafe, InitSafe, InitKnows, Held, Stands, Inits
  <2>13. l \in IF p \in Inits THEN InitLabels ELSE AddLabels
    BY <1>1, <2>8 DEF InitLabels
  <2> HIDE DEF Held
  <2> QED
    BY <1>2, <2>3, <2>4, <2>6, <2>7, <2>9, <2>12, <2>13, ProcChanges
<1> QED
  BY <1>3, <1>4 DEF WriteNew

\* What init finds to be its own it may remove; another's file it leaves.
LEMMA CheckOwnKeeps == ASSUME IInv, NEW p \in Procs, CheckOwn(p) PROVE IInv'
<1>1. p \in Inits
  BY DEF CheckOwn, IInv, TypeOK, AddLabels
<1>2. p \in Procs /\ local[p] \in Local /\ InitSafe(local[p], "checkOwn")
      /\ pc[p] = "checkOwn"
  BY <1>1, InitIsSafe DEF CheckOwn
<1> DEFINE list == local[p].created
           mine == list # << >> /\ Head(list).name \in Named(Head(list).id)
<1>3. UNCHANGED <<fs, ids, edits, command>>
  BY DEF CheckOwn
<1>4. CASE list = << >>
  <2>1. Goto(p, "failed") /\ UNCHANGED local
    BY <1>4 DEF CheckOwn
  <2>2. InitSafe(local[p], "failed") /\ Held(local[p], "failed") \subseteq Held(local[p], pc[p])
    BY <1>2, <1>4 DEF InitSafe, InitKnows, Held
  <2> QED
    BY <1>1, <1>3, <2>1, <2>2, ProcGoes DEF ProcSafe, InitLabels
<1>5. CASE list # << >> /\ mine
  <2>1. Goto(p, "removeOwn") /\ UNCHANGED local
    BY <1>5 DEF CheckOwn
  <2>2. Stands(Head(list).name, Head(list).id)
    BY <1>5 DEF Stands, Named
  <2>3. InitSafe(local[p], "removeOwn")
        /\ Held(local[p], "removeOwn") \subseteq Held(local[p], pc[p])
    BY <1>2, <1>5, <2>2 DEF InitSafe, InitKnows, Held
  <2> QED
    BY <1>1, <1>3, <2>1, <2>3, ProcGoes DEF ProcSafe, InitLabels
<1>6. CASE list # << >> /\ ~mine
  <2>1. PICK s : s = [local[p] EXCEPT !.created = Tail(@)]
    OBVIOUS
  <2>2. Set(p, s) /\ UNCHANGED pc
    BY <1>6, <2>1 DEF CheckOwn
  <2>3. /\ Tail(list) \in CreatedLists
        /\ Entries(Tail(list)) = Entries(list) \ {Head(list)}
        /\ Head(list) \in Entries(list)
        /\ Head(list).name \in Names
    BY <1>2, <1>6, ListTail, ListNames DEF Local
  <2>4. /\ s \in Local /\ s.created = Tail(list) /\ s.made = local[p].made
        /\ s.slipped = local[p].slipped
    BY <1>2, <2>1, <2>3 DEF Local
  <2>5. ~Stands(Head(list).name, Head(list).id)
    BY <1>6, <2>3 DEF Named, Stands
  <2>6. \A name \in Names, id \in s.made :
          Stands(name, id) => Entry(name, id) # Head(list)
    BY <2>5 DEF Entry
  <2>7. Held(s, "checkOwn") \subseteq Held(local[p], "checkOwn")
    BY <2>3, <2>4 DEF Held
  <2>8. InitSafe(s, "checkOwn")
    BY <1>2, <2>3, <2>4, <2>6, <2>7 DEF InitSafe, InitKnows
  <2> QED
    BY <1>1, <1>2, <1>3, <2>2, <2>4, <2>7, <2>8, ProcLearns DEF ProcSafe
<1> QED
  BY <1>4, <1>5, <1>6

\* A name that init removes nobody else holds.
LEMMA RemoveOwnKeeps == ASSUME IInv, NEW p \in Procs, RemoveOwn(p) PROVE IInv'
<1>1. p \in Inits
  BY DEF RemoveOwn, IInv, TypeOK, AddLabels
<1>2. p \in Procs /\ local[p] \in Local /\ InitSafe(local[p], "removeOwn")
      /\ pc[p] = "removeOwn"
  BY <1>1, InitIsSafe DEF RemoveOwn
<1> DEFINE list == local[p].created
           name == Head(list).name
           files == [fs EXCEPT ![name] = Absent]
<1>3. /\ list \in CreatedLists /\ list # << >>
      /\ Tail(list) \in CreatedLists
      /\ Entries(Tail(list)) = Entries(list) \ {Head(list)}
      /\ Head(list) \in Entries(list)
      /\ name \in Names
  BY <1>2, ListTail, ListNames DEF Local, InitSafe, InitKnows
<1>4. \A e \in Entries(Tail(list)) : e \in Entries(list) /\ e.name # name /\ e.name \in Names
  BY <1>3, ListNames
<1>5. CASE /\ Change(p, [local[p] EXCEPT !.created = Tail(@), !.raced = FALSE], files)
           /\ Goto(p, "checkOwn")
  <2>1. PICK s : s = [local[p] EXCEPT !.created = Tail(@), !.raced = FALSE]
    OBVIOUS
  <2>2. /\ Change(p, s, files) /\ Goto(p, "checkOwn") /\ UNCHANGED <<edits, command>>
        /\ ids' = ids /\ fs' = files
    BY <1>5, <2>1 DEF RemoveOwn, Change
  <2>3. /\ s \in Local /\ s.created = Tail(list) /\ s.made = local[p].made
        /\ s.slipped = local[p].slipped
    BY <1>2, <1>3, <2>1 DEF Local
  <2>4. /\ files \in [Names -> File \cup {Absent}]
        /\ \A n \in Names : files[n] = IF n = name THEN Absent ELSE fs[n]
    BY <1>3 DEF IInv, TypeOK
  <2>5. Renewed(files)
    BY <2>2, <2>4 DEF Renewed, IInv, TypeOK
  <2>6. Held(s, "checkOwn") = {e.name : e \in Entries(Tail(list))}
    BY <2>3 DEF Held
  <2>7. name \in Held(local[p], "removeOwn")
        /\ Held(s, "checkOwn") \subseteq Held(local[p], "removeOwn")
    BY <1>3, <1>4, <2>6 DEF Held
  <2>8. InitSafe(s, "checkOwn")'
    <3>1. InitKnows(s, "checkOwn")'
      BY DEF InitKnows
    <3>2. \A n \in Held(s, "checkOwn")' : fs'[n] # Absent
      <4>1. \A n \in Held(s, "checkOwn") : n \in Names /\ n # name
        BY <1>4, <2>6
      <4>2. \A n \in Held(s, "checkOwn") : fs[n] # Absent
        BY <1>2, <2>7 DEF InitSafe
      <4> QED
        BY <2>2, <2>4, <4>1, <4>2 DEF Held
    <3>3. s.made \subseteq 1 .. ids' /\ \A e \in Entries(s.created) : e.id \in s.made
      BY <1>2, <1>4, <2>2, <2>3 DEF InitSafe
    <3>4. ASSUME ~s.slipped, NEW n \in Names, NEW id \in s.made, Stands(n, id)'
          PROVE  Entry(n, id) \in Entries(s.created)
      <4>1. n # name /\ Stands(n, id)
        BY <2>2, <2>4, <3>4 DEF Stands
      <4>2. Entry(n, id) \in Entries(list)
        BY <1>2, <2>3, <3>4, <4>1 DEF InitSafe
      <4>3. Entry(n, id) # Head(list)
        BY <4>1 DEF Entry
      <4> QED
        BY <1>3, <2>3, <4>2, <4>3
    <3> QED
      BY <3>1, <3>2, <3>3, <3>4 DEF InitSafe
  <2>9. ProcSafe(p, s, "checkOwn")'
    BY <1>1, <2>2, <2>8 DEF ProcSafe, InitSafe, InitKnows, Held, Stands, Inits
  <2>10. "checkOwn" \in IF p \in Inits THEN InitLabels ELSE AddLabels
    BY <1>1 DEF InitLabels
  <2> HIDE DEF files, name, list
  <2> QED
    BY <1>1, <1>2, <2>2, <2>3, <2>4, <2>5, <2>7, <2>9, <2>10, ProcChanges
<1>6. CASE /\ Set(p, [[local[p] EXCEPT !.created = Tail(@), !.raced = FALSE]
                      EXCEPT !.slipped = TRUE])
           /\ Goto(p, "checkOwn") /\ UNCHANGED fs
  <2>1. PICK s : s = [[local[p] EXCEPT !.created = Tail(@), !.raced = FALSE]
                      EXCEPT !.slipped = TRUE]
    OBVIOUS
  <2>2. Set(p, s) /\ Goto(p, "checkOwn") /\ UNCHANGED <<fs, ids, edits, command>>
    BY <1>6, <2>1 DEF RemoveOwn
  <2>3. s \in Local /\ s.created = Tail(list) /\ s.made = local[p].made /\ s.slipped
    BY <1>2, <1>3, <2>1 DEF Local
  <2>4. Held(s, "checkOwn") \subseteq Held(local[p], pc[p])
    BY <1>4, <2>3 DEF Held
  <2>5. InitSafe(s, "checkOwn")
    BY <1>2, <1>4, <2>3, <2>4 DEF InitSafe, InitKnows
  <2> QED
    BY <1>1, <2>2, <2>3, <2>4, <2>5, ProcMoves DEF ProcSafe, InitLabels
<1> QED
  BY <1>5, <1>6 DEF RemoveOwn


-----------------------------------------------------------------------------
(* actions add.                                                             *)

\* What is known of an add where it is.
LEMMA AddIsSafe ==
    ASSUME IInv, NEW p \in Procs \ Inits
    PROVE  /\ local[p] \in Local /\ AddSafe(local[p], pc[p])
           /\ command[p].alias \in Aliases /\ command[p].url \in Urls
<1>1. command[p] \in Command /\ command[p].kind # "init"
  BY ConstantsAssumption DEF IInv, TypeOK, Inits
<1> QED
  BY <1>1 DEF IInv, TypeOK, ProcSafe, Command

\* A set of configurations of which there is one is that one.
LEMMA OneConfiguration ==
    ASSUME NEW found \in SUBSET Configs, Cardinality(found) = 1
    PROVE  \E name \in Configs : found = {name}
<1>1. IsFiniteSet(Configs)
  <2>1. Configs = {"deno.json"} \cup {"deno.jsonc"}
    BY DEF Configs
  <2>2. IsFiniteSet({"deno.json"}) /\ IsFiniteSet({"deno.jsonc"})
    BY FS_Singleton
  <2> QED
    BY <2>1, <2>2, FS_Union
<1>2. IsFiniteSet(found)
  BY <1>1, FS_Subset
<1>3. \E x : found = {x}
  BY <1>2, FS_Singleton
<1> QED
  BY <1>3

\* An add that has not found one configuration knows nothing.
LEMMA BeginAddKeeps == ASSUME IInv, NEW p \in Procs, BeginAdd(p) PROVE IInv'
<1>1. p \in Procs \ Inits
  BY DEF BeginAdd, Inits
<1>2. AddSafe(local[p], "find")
  BY DEF AddSafe
<1> QED
  BY <1>1, <1>2, ProcGoes DEF BeginAdd, ProcSafe, AddLabels

\* It goes on if it has found exactly one.
LEMMA FindKeeps == ASSUME IInv, NEW p \in Procs, Find(p) PROVE IInv'
<1>1. p \in Procs \ Inits /\ pc[p] = "find"
  BY DEF Find, IInv, TypeOK, InitLabels
<1> DEFINE name == IF local[p].at = 0 THEN "deno.json" ELSE "deno.jsonc"
           found == local[p].found \cup {n \in {name} : fs[n] # Absent}
           s == [local[p] EXCEPT !.at = @ + 1, !.found = found]
<1>2. local[p] \in Local
  BY <1>1, AddIsSafe
<1>3. found \in SUBSET Configs
  BY <1>2 DEF Local, Configs
<1> HIDE DEF found
<1>4. s \in Local /\ s.found = found
  <2>1. local[p].at + 1 \in Nat
    BY <1>2 DEF Local
  <2> QED
    BY <1>2, <1>3, <2>1 DEF Local
<1>5. Set(p, s) /\ UNCHANGED <<fs, ids, edits, command>>
  BY DEF Find, found
<1>6. \/ UNCHANGED pc
      \/ Cardinality(found) = 1 /\ Goto(p, "read")
      \/ Goto(p, "failed")
  BY DEF Find, found
<1> HIDE DEF s
<1>7. CASE UNCHANGED pc
  BY <1>1, <1>4, <1>5, <1>7, ProcLearns DEF ProcSafe, AddSafe
<1>8. CASE Cardinality(found) = 1 /\ Goto(p, "read")
  <2>1. AddSafe(s, "read")
    BY <1>3, <1>4, <1>8, OneConfiguration DEF AddSafe
  <2> QED
    BY <1>1, <1>4, <1>5, <1>8, <2>1, ProcMoves DEF ProcSafe, AddLabels
<1>9. CASE Goto(p, "failed")
  BY <1>1, <1>4, <1>5, <1>9, ProcMoves DEF ProcSafe, AddSafe, AddLabels
<1> QED
  BY <1>6, <1>7, <1>8, <1>9

\* The path is the configuration that was found.
LEMMA PathIsFound ==
    ASSUME IInv, NEW p \in Procs \ Inits, pc[p] \in {"read", "compare", "rename"}
    PROVE  local[p].found = {Path(p)} /\ Path(p) \in Configs /\ Path(p) \in Names
<1>1. PICK name \in Configs : local[p].found = {name}
  BY AddIsSafe DEF AddSafe
<1>2. Path(p) = name
  BY <1>1 DEF Path
<1> QED
  BY <1>1, <1>2, TextsAreTexts

\* It keeps the text that it has read.
LEMMA ReadKeeps == ASSUME IInv, NEW p \in Procs, Read(p) PROVE IInv'
<1>1. p \in Procs \ Inits /\ pc[p] = "read"
  BY DEF Read, IInv, TypeOK, InitLabels
<1> DEFINE file == fs[Path(p)]
<1>2. local[p] \in Local /\ AddSafe(local[p], "read")
  BY <1>1, AddIsSafe
<1>3. UNCHANGED <<fs, ids, edits, command>>
  BY DEF Read
<1>4. CASE UNCHANGED local /\ (Goto(p, "failed") \/ Goto(p, "succeeded"))
  BY <1>1, <1>3, <1>4, ProcGoes DEF ProcSafe, AddSafe, AddLabels
<1>5. CASE file # Absent /\ Goto(p, "compare") /\ Set(p, [local[p] EXCEPT !.text = file.text])
  <2> DEFINE s == [local[p] EXCEPT !.text = file.text]
  <2>1. file.text \in Text
    BY <1>1, <1>5, PathIsFound DEF IInv, TypeOK, File
  <2>2. s \in Local /\ s.found = local[p].found
    BY <1>2, <2>1 DEF Local
  <2>3. AddSafe(s, "compare")
    BY <1>2, <2>2 DEF AddSafe
  <2> HIDE DEF s
  <2>4. Set(p, s)
    BY <1>5 DEF s
  <2> QED
    BY <1>1, <1>3, <1>5, <2>2, <2>3, <2>4, ProcMoves DEF ProcSafe, AddLabels
<1> QED
  BY <1>4, <1>5 DEF Read

\* The text is still there when it goes on.
LEMMA CompareKeeps == ASSUME IInv, NEW p \in Procs, Compare(p) PROVE IInv'
<1>1. p \in Procs \ Inits /\ pc[p] = "compare"
  BY DEF Compare, IInv, TypeOK, InitLabels
<1>2. AddSafe(local[p], "compare") /\ local[p].found = {Path(p)}
  BY <1>1, AddIsSafe, PathIsFound
<1>3. UNCHANGED <<fs, ids, edits, command, local>>
  BY DEF Compare
<1>4. CASE fs[Path(p)] # Absent /\ fs[Path(p)].text = local[p].text /\ Goto(p, "rename")
  <2>1. AddSafe(local[p], "rename")
    BY <1>2, <1>4 DEF AddSafe
  <2> QED
    BY <1>1, <1>3, <1>4, <2>1, ProcGoes DEF ProcSafe, AddLabels
<1>5. CASE Goto(p, "failed")
  BY <1>1, <1>3, <1>5, ProcGoes DEF ProcSafe, AddSafe, AddLabels
<1> QED
  BY <1>4, <1>5 DEF Compare

\* The new configuration takes the place of whatever is there.
LEMMA RenameKeeps == ASSUME IInv, NEW p \in Procs, Rename(p) PROVE IInv'
<1>1. p \in Procs \ Inits /\ pc[p] = "rename"
  BY DEF Rename, IInv, TypeOK, InitLabels
<1>2. local[p] \in Local /\ Path(p) \in Names
  BY <1>1, AddIsSafe, PathIsFound
<1> DEFINE file == [id |-> ids + 1, text |-> Mapped(p, local[p].text)]
           files == [fs EXCEPT ![Path(p)] = file]
<1>3. PICK s : s = local[p]
  OBVIOUS
<1>4. /\ Change(p, s, files) /\ ids' = ids + 1 /\ Goto(p, "succeeded")
      /\ UNCHANGED <<edits, command>>
  BY <1>3 DEF Rename
<1>5. file \in File /\ file # Absent /\ file.id = ids + 1
  <2>1. local[p].text \in Text /\ command[p].alias \in Aliases /\ command[p].url \in Urls
    BY <1>1, <1>2, AddIsSafe DEF Local
  <2>2. Mapped(p, local[p].text) \in Text
    BY <2>1 DEF Mapped, Text
  <2> QED
    BY <2>2, TextsAreTexts DEF IInv, TypeOK
<1>6. /\ files \in [Names -> File \cup {Absent}]
      /\ \A n \in Names : files[n] = IF n = Path(p) THEN file ELSE fs[n]
  BY <1>2, <1>5 DEF IInv, TypeOK
<1> HIDE DEF files, file
<1>7. Renewed(files)
  BY <1>4, <1>5, <1>6 DEF Renewed, IInv, TypeOK
<1>8. ProcSafe(p, s, "succeeded")'
  <2>1. p \notin Inits'
    BY <1>1, <1>4 DEF Inits
  <2> QED
    BY <2>1 DEF ProcSafe, AddSafe
<1>9. /\ \A n \in Names : fs[n] # Absent => files[n] # Absent
      /\ "succeeded" \in IF p \in Inits THEN InitLabels ELSE AddLabels
  BY <1>1, <1>5, <1>6 DEF AddLabels
<1> QED
  BY <1>1, <1>2, <1>3, <1>4, <1>7, <1>8, <1>9, ProcChanges

-----------------------------------------------------------------------------
(* Failures and the user.                                                   *)

\* A call that fails ends an add, and sends an init to its cleanup.
LEMMA FailsKeeps == ASSUME IInv, NEW p \in Procs, Fails(p) PROVE IInv'
<1>1. UNCHANGED <<fs, ids, edits, command, local>>
  BY DEF Fails
<1>2. CASE pc[p] \in {"find", "read", "compare", "rename"} /\ Goto(p, "failed")
  <2>1. p \in Procs \ Inits
    BY <1>2 DEF IInv, TypeOK, InitLabels
  <2> QED
    BY <1>1, <1>2, <2>1, ProcGoes DEF ProcSafe, AddSafe, AddLabels
<1>3. CASE pc[p] \in {"preflight", "open"} /\ Goto(p, "checkOwn")
  <2>1. p \in Inits
    BY <1>3 DEF IInv, TypeOK, AddLabels, Inits
  <2> QED
    BY <1>1, <1>3, <2>1, ToCleanup
<1> QED
  BY <1>2, <1>3 DEF Fails

\* A process that dies leaves its files.
LEMMA DieKeeps == ASSUME IInv, NEW p \in Procs, Die(p) PROVE IInv'
<1>1. UNCHANGED <<fs, ids, edits, command, local>> /\ Goto(p, "dead")
  BY DEF Die
<1>2. CASE p \in Inits
  <2>1. InitSafe(local[p], "dead") /\ Held(local[p], "dead") \subseteq Held(local[p], pc[p])
    BY <1>2, InitIsSafe DEF InitSafe, InitKnows, Held
  <2> QED
    BY <1>1, <1>2, <2>1, ProcGoes DEF ProcSafe, InitLabels
<1>3. CASE p \notin Inits
  BY <1>1, <1>3, ProcGoes DEF ProcSafe, AddSafe, AddLabels
<1> QED
  BY <1>2, <1>3

\* A file that is saved stays, as the same one or as a new one.
LEMMA SaveKeeps ==
    ASSUME IInv, NEW id \in Nat, NEW name \in Names, Save(id, name), fs[name] # Absent,
           \/ id = fs[name].id /\ ids' = ids
           \/ id = ids + 1 /\ ids' = ids + 1
    PROVE  IInv'
<1> DEFINE file == [id |-> id, text |-> Edited(name)]
           files == [fs EXCEPT ![name] = file]
<1>1. /\ edits' = edits + 1 /\ edits < MaxEdits /\ fs' = files /\ UNCHANGED <<command, pc>>
      /\ local' = [q \in Procs |-> [local[q] EXCEPT !.raced = Raced(q, files)]]
  BY DEF Save
<1>2. file \in File /\ file # Absent /\ file.id = id
  <2>1. fs[name].text \in Text
    BY DEF IInv, TypeOK, File
  <2>2. edits + 1 \in 0 .. MaxEdits
    BY <1>1, ConstantsAssumption DEF IInv, TypeOK
  <2>3. Edited(name) \in Text
    BY <2>1, <2>2 DEF Edited, Text
  <2> QED
    BY <2>3, TextsAreTexts
<1>3. /\ files \in [Names -> File \cup {Absent}]
      /\ \A n \in Names : files[n] = IF n = name THEN file ELSE fs[n]
  BY <1>2 DEF IInv, TypeOK
<1> HIDE DEF file, files
<1>4. Renewed(files)
  BY <1>2, <1>3 DEF Renewed, IInv, TypeOK
<1>5. ASSUME NEW q \in Procs
      PROVE  /\ local'[q] \in Local
             /\ ProcSafe(q, local[q], pc[q])'
             /\ Held(local[q], pc[q])' = Held(local[q], pc[q])
  <2> DEFINE t == local'[q]
             at == pc[q]
  <2>1. t = [local[q] EXCEPT !.raced = Raced(q, files)] /\ pc'[q] = at
    BY <1>1
  <2>2. q \in Inits => \A n \in Held(local[q], at) : files[n] # Absent
    <3> SUFFICES ASSUME q \in Inits, NEW n \in Held(local[q], at) PROVE files[n] # Absent
      OBVIOUS
    <3>1. InitSafe(local[q], at) /\ local[q] \in Local
      BY InitIsSafe
    <3>2. fs[n] # Absent
      BY <3>1 DEF InitSafe
    <3>3. n \in Names
      <4>1. \A e \in Entries(local[q].created) : e.name \in Names
        BY <3>1, ListNames DEF Local
      <4>2. at = "stat" => Created[local[q].at + 1] \in Names
        BY <3>1 DEF InitSafe, InitKnows, Created, Names
      <4> QED
        BY <4>1, <4>2 DEF Held
    <3> QED
      BY <1>2, <1>3, <3>2, <3>3
  <2>3. \A u, l : u = t /\ l = at =>
          u \in Local /\ ProcSafe(q, u, l)' /\ Held(u, l) = Held(local[q], l)
    BY <1>1, <1>4, <2>1, <2>2, OtherStays
  <2> QED
    BY <2>1, <2>3 DEF ProcSafe, InitSafe, InitKnows, AddSafe, Held, Stands
<1>6. Inits' = Inits
  BY <1>1 DEF Inits
<1>7. TypeOK'
  <2>1. local' \in [Procs -> Local]
    BY <1>1, <1>5
  <2>2. edits' \in 0 .. MaxEdits
    BY <1>1, ConstantsAssumption DEF IInv, TypeOK
  <2> QED
    BY <1>1, <1>4, <1>6, <2>1, <2>2 DEF Renewed, IInv, TypeOK
<1>8. \A n \in Names : fs'[n] # Absent => fs'[n].id \in 1 .. ids'
  BY <1>1, <1>4 DEF Renewed, IInv, TypeOK
<1>9. \A q, r \in Inits' : q # r => Held(local[q], pc[q])' \cap Held(local[r], pc[r])' = {}
  <2>1. \A q \in Inits : Held(local[q], pc[q])' = Held(local[q], pc[q])
    BY <1>5 DEF Inits
  <2>2. \A q, r \in Inits : q # r => Held(local[q], pc[q]) \cap Held(local[r], pc[r]) = {}
    BY DEF IInv
  <2> HIDE DEF Held
  <2> QED
    BY <1>6, <2>1, <2>2
<1> QED
  BY <1>5, <1>7, <1>8, <1>9 DEF IInv

\* An editor writes into a file or replaces it.
LEMMA UserKeeps == ASSUME IInv, EditInPlace \/ Replace PROVE IInv'
<1>1. CASE EditInPlace
  <2>1. PICK name \in Names : fs[name] # Absent /\ Save(fs[name].id, name) /\ UNCHANGED ids
    BY <1>1 DEF EditInPlace
  <2>2. fs[name].id \in Nat
    BY <2>1 DEF IInv, TypeOK, File
  <2>3. PICK id : id = fs[name].id
    OBVIOUS
  <2> QED
    BY <2>1, <2>2, <2>3, SaveKeeps
<1>2. CASE Replace
  <2>1. PICK name \in Names : Save(ids + 1, name) /\ ids' = ids + 1
    BY <1>2 DEF Replace
  <2>2. PICK id : id = ids + 1
    OBVIOUS
  <2>3. fs[name] # Absent /\ id \in Nat
    BY <2>1, <2>2 DEF Save, IInv, TypeOK
  <2> QED
    BY <2>1, <2>2, <2>3, SaveKeeps
<1> QED
  BY <1>1, <1>2


-----------------------------------------------------------------------------
(* The theorems.                                                            *)

\* The invariant holds at first and is kept by every step.
LEMMA Invariance == Spec => []IInv
<1>1. Init => IInv
  <2> SUFFICES ASSUME Init PROVE IInv
    OBVIOUS
  <2>1. fs \in [Names -> File \cup {Absent}]
        /\ \A name \in Names : fs[name] # Absent => fs[name].id \in 1 .. ids
    BY ConstantsAssumption DEF Init, Project
  <2>2. ids \in Nat
    BY DEF Init, Preflight
  <2>3. edits \in 0 .. MaxEdits
    BY ConstantsAssumption DEF Init
  <2>4. Template \in Text
    BY ConstantsAssumption DEF Template, Text
  <2>5. local \in [Procs -> Local]
    BY <2>4 DEF Init, Local, CreatedLists
  <2>6. pc \in [Procs -> InitLabels \cup AddLabels]
        /\ \A p \in Procs : pc[p] \in IF p \in Inits THEN InitLabels ELSE AddLabels
    BY DEF Init, InitLabels, AddLabels
  <2>7. \A p \in Procs : Held(local[p], pc[p]) = {}
    BY ListEntries DEF Init, Held
  <2>8. ASSUME NEW p \in Procs PROVE ProcSafe(p, local[p], pc[p])
    <3>1. pc[p] = "start" /\ local[p].created = << >> /\ local[p].made = {}
      BY DEF Init
    <3>2. Entries(local[p].created) = {}
      BY <3>1, ListEntries
    <3> QED
      BY <2>7, <3>1, <3>2 DEF ProcSafe, InitSafe, InitKnows, AddSafe
  <2> QED
    <3>1. TypeOK
      BY <2>1, <2>2, <2>3, <2>5, <2>6 DEF Init, TypeOK
    <3>2. \A p, q \in Inits : Held(local[p], pc[p]) \cap Held(local[q], pc[q]) = {}
      BY <2>7 DEF Inits
    <3> QED
      BY <2>1, <2>8, <3>1, <3>2 DEF IInv
<1>2. IInv /\ [Next]_vars => IInv'
  <2> SUFFICES ASSUME IInv, [Next]_vars PROVE IInv'
    OBVIOUS
  <2>1. ASSUME NEW p \in Procs,
               \/ BeginInit(p) \/ LookAt(p) \/ OpenNew(p) \/ StatNew(p) \/ WriteNew(p)
               \/ CheckOwn(p) \/ RemoveOwn(p)
               \/ BeginAdd(p) \/ Find(p) \/ Read(p) \/ Compare(p) \/ Rename(p)
               \/ Fails(p) \/ Die(p)
        PROVE  IInv'
    BY <2>1, BeginInitKeeps, LookAtKeeps, OpenNewKeeps, StatNewKeeps, WriteNewKeeps,
       CheckOwnKeeps, RemoveOwnKeeps, BeginAddKeeps, FindKeeps, ReadKeeps, CompareKeeps,
       RenameKeeps, FailsKeeps, DieKeeps
  <2>2. CASE UNCHANGED vars
    <3>1. /\ fs' = fs /\ ids' = ids /\ edits' = edits /\ command' = command
          /\ pc' = pc /\ local' = local /\ Inits' = Inits
      BY <2>2 DEF vars, Inits
    <3>2. TypeOK'
      BY <3>1 DEF IInv, TypeOK
    <3>3. ASSUME NEW p \in Procs PROVE ProcSafe(p, local[p], pc[p])'
      <4>1. CASE p \in Inits
        <5>1. InitSafe(local[p], pc[p])
          BY <4>1, InitIsSafe
        <5>2. InitSafe(local[p], pc[p])'
          BY <3>1, <5>1 DEF InitSafe, InitKnows, Held, Stands
        <5> QED
          BY <3>1, <4>1, <5>2 DEF ProcSafe
      <4>2. CASE p \notin Inits
        BY <3>1, <4>2, AddIsSafe DEF ProcSafe, AddSafe
      <4> QED
        BY <4>1, <4>2
    <3>4. \A p, q \in Inits' : p # q => Held(local[p], pc[p])' \cap Held(local[q], pc[q])' = {}
      BY <3>1 DEF IInv, Held
    <3> QED
      BY <3>1, <3>2, <3>3, <3>4 DEF IInv
  <2> QED
    BY <2>1, <2>2, UserKeeps DEF Next
<1> QED
  BY <1>1, <1>2, PTL DEF Spec

\* An init creates all of its files or none (init/project.ts), of any number of
\* commands in one directory, whoever edits and dies meanwhile.
THEOREM AllOrNothing == Spec => []InitIsAllOrNothing
<1>1. IInv => InitIsAllOrNothing
  <2> SUFFICES ASSUME IInv PROVE InitIsAllOrNothing
    OBVIOUS
  <2>1. ASSUME NEW p \in Inits, pc[p] = "failed", ~local[p].slipped
        PROVE  Ids \cap local[p].made = {}
    <3>1. InitSafe(local[p], "failed")
      BY <2>1, InitIsSafe
    <3>2. Entries(local[p].created) = {}
      BY <3>1, ListEntries DEF InitSafe, InitKnows
    <3>3. \A name \in Names, id \in local[p].made : ~Stands(name, id)
      BY <2>1, <3>1, <3>2 DEF InitSafe
    <3> QED
      BY <3>3 DEF Ids, Stands
  <2>2. ASSUME NEW p \in Inits, pc[p] = "succeeded"
        PROVE  "deno.json" \in Held(local[p], pc[p]) /\ "workflows.ts" \in Held(local[p], pc[p])
    <3>1. PICK i, j \in Nat :
            local[p].created = <<Entry("workflows.ts", i), Entry("deno.json", j)>>
      <4>1. local[p].created \in Both
        BY <2>2, InitIsSafe DEF InitSafe, InitKnows
      <4> QED
        BY <4>1 DEF Both
    <3>2. Entries(local[p].created) = {Entry("workflows.ts", i), Entry("deno.json", j)}
      BY <3>1, ListEntries
    <3> QED
      BY <3>2 DEF Held, Entry
  <2>3. \A p \in Inits : pc[p] = "succeeded" =>
          fs["deno.json"] # Absent /\ fs["workflows.ts"] # Absent
    BY <2>2, InitIsSafe DEF InitSafe
  <2>4. Cardinality({p \in Inits : pc[p] = "succeeded"}) <= 1
    <3> DEFINE S == {p \in Inits : pc[p] = "succeeded"}
    <3>1. \A p, q \in S : p = q
      <4> SUFFICES ASSUME NEW p \in S, NEW q \in S, p # q PROVE FALSE
        OBVIOUS
      <4>1. Held(local[p], pc[p]) \cap Held(local[q], pc[q]) = {}
        BY DEF IInv
      <4> QED
        BY <2>2, <4>1
    <3>2. S = {} \/ \E p : S = {p}
      BY <3>1
    <3>3. Cardinality(S) = 0 \/ Cardinality(S) = 1
      BY <3>2, FS_EmptySet, FS_Singleton
    <3> QED
      BY <3>3
  <2> QED
    BY <2>1, <2>3, <2>4 DEF InitIsAllOrNothing
<1> QED
  BY <1>1, Invariance, PTL

\* What the action property says of one step.
InitsSpareOthers ==
    \A p \in Inits : pc'[p] # pc[p] =>
        \A name \in Names : fs[name] # Absent /\ fs'[name] # fs[name] =>
            \/ fs[name].id \in local[p].made
            \/ pc[p] = "removeOwn" /\ local[p].raced
AddsSpareOthers ==
    \A p \in Procs \ Inits : pc[p] = "rename" /\ pc'[p] = "succeeded" =>
        LET old == fs[Path(p)] IN
        \/ local[p].raced
        \/ /\ old # Absent
           /\ fs'[Path(p)].text = Mapped(p, old.text)

\* Init opens only what is not there, writes only what it has made and removes
\* what it has found to be its own.
LEMMA InitStepSpares ==
    ASSUME IInv, NEW p \in Inits, OpenNew(p) \/ WriteNew(p) \/ RemoveOwn(p),
           NEW name \in Names, fs[name] # Absent, fs'[name] # fs[name]
    PROVE  fs[name].id \in local[p].made \/ (pc[p] = "removeOwn" /\ local[p].raced)
<1>1. p \in Procs /\ local[p] \in Local /\ InitSafe(local[p], pc[p])
  BY InitIsSafe
<1>2. CASE OpenNew(p)
  <2>1. NameAt(p) \in Names
    BY <1>1, <1>2 DEF OpenNew, InitSafe, InitKnows, NameAt, Created, Names
  <2>2. fs[NameAt(p)] = Absent /\ name # NameAt(p) => fs'[name] = fs[name]
    BY <1>2, <2>1 DEF OpenNew, Change, IInv, TypeOK
  <2>3. fs[NameAt(p)] # Absent => fs' = fs
    BY <1>2 DEF OpenNew
  <2> QED
    BY <2>2, <2>3
<1>3. CASE WriteNew(p)
  <2>1. name \in Named(local[p].own)
    BY <1>3 DEF WriteNew, Change
  <2>2. local[p].own \in local[p].made
    BY <1>1, <1>3 DEF WriteNew, InitSafe, InitKnows
  <2> QED
    BY <2>1, <2>2 DEF Named
<1>4. CASE RemoveOwn(p)
  <2>1. pc[p] = "removeOwn" /\ name = Head(local[p].created).name
    BY <1>4 DEF RemoveOwn, Change, IInv, TypeOK
  <2>2. Head(local[p].created) \in Entries(local[p].created)
    BY <1>1, <2>1, ListTail DEF InitSafe, InitKnows, Local
  <2>3. ~local[p].raced => fs[name].id = Head(local[p].created).id
    BY <1>1, <2>1 DEF InitSafe, Stands
  <2> QED
    BY <1>1, <2>1, <2>2, <2>3 DEF InitSafe
<1> QED
  BY <1>2, <1>3, <1>4

\* Add replaces what it has compared.
LEMMA AddStepSpares ==
    ASSUME IInv, NEW p \in Procs \ Inits, Rename(p), ~local[p].raced
    PROVE  fs[Path(p)] # Absent /\ fs'[Path(p)].text = Mapped(p, fs[Path(p)].text)
<1>1. pc[p] = "rename" /\ AddSafe(local[p], "rename")
  BY AddIsSafe DEF Rename
<1>2. local[p].found = {Path(p)} /\ Path(p) \in Names
  BY <1>1, PathIsFound
<1>3. fs[Path(p)] # Absent /\ fs[Path(p)].text = local[p].text
  BY <1>1, <1>2 DEF AddSafe
<1>4. fs' = [fs EXCEPT ![Path(p)] = [id |-> ids + 1, text |-> Mapped(p, local[p].text)]]
  BY DEF Rename, Change
<1>5. fs'[Path(p)] = [id |-> ids + 1, text |-> Mapped(p, local[p].text)]
  BY <1>2, <1>4 DEF IInv, TypeOK
<1> QED
  BY <1>3, <1>5

\* Nobody's work is lost but in the gaps between two calls that no process can
\* close: the last look and the removal, the comparison and the renaming.
THEOREM WorkStays == Spec => OthersWorkStays
<1>1. IInv /\ [Next]_vars => [InitsSpareOthers /\ AddsSpareOthers]_vars
  <2> SUFFICES ASSUME IInv, Next PROVE InitsSpareOthers /\ AddsSpareOthers
    OBVIOUS
  <2>1. CASE EditInPlace \/ Replace
    <3>1. pc' = pc
      BY <2>1 DEF EditInPlace, Replace, Save
    <3> QED
      BY <3>1 DEF InitsSpareOthers, AddsSpareOthers
  <2>2. ASSUME NEW p \in Procs, NEW q \in Procs, q # p, NEW label, Goto(p, label)
        PROVE  pc'[q] = pc[q]
    BY <2>2 DEF Goto, IInv, TypeOK
  <2>3. ASSUME NEW p \in Procs, OpenNew(p) \/ WriteNew(p) \/ RemoveOwn(p)
        PROVE  InitsSpareOthers /\ AddsSpareOthers
    <3>1. p \in Inits
      BY <2>3 DEF OpenNew, WriteNew, RemoveOwn, IInv, TypeOK, AddLabels, Inits
    <3>2. \E label : Goto(p, label)
      BY <2>3 DEF OpenNew, WriteNew, RemoveOwn
    <3>3. \A q \in Procs : q # p => pc'[q] = pc[q]
      BY <2>2, <3>2
    <3>4. InitsSpareOthers
      BY <2>3, <3>1, <3>3, InitStepSpares DEF InitsSpareOthers, Inits
    <3>5. AddsSpareOthers
      BY <3>1, <3>3 DEF AddsSpareOthers
    <3> QED
      BY <3>4, <3>5
  <2>4. ASSUME NEW p \in Procs, Rename(p) PROVE InitsSpareOthers /\ AddsSpareOthers
    <3>1. p \in Procs \ Inits
      BY <2>4 DEF Rename, IInv, TypeOK, InitLabels
    <3>2. \A q \in Procs : q # p => pc'[q] = pc[q]
      BY <2>2, <2>4 DEF Rename
    <3>3. InitsSpareOthers
      BY <3>1, <3>2 DEF InitsSpareOthers, Inits
    <3>4. AddsSpareOthers
      BY <2>4, <3>1, <3>2, AddStepSpares DEF AddsSpareOthers
    <3> QED
      BY <3>3, <3>4
  <2>5. ASSUME NEW p \in Procs,
               \/ BeginInit(p) \/ LookAt(p) \/ StatNew(p) \/ CheckOwn(p)
               \/ BeginAdd(p) \/ Find(p) \/ Read(p) \/ Compare(p)
               \/ Fails(p) \/ Die(p)
        PROVE  InitsSpareOthers /\ AddsSpareOthers
    <3>1. UNCHANGED fs
      BY <2>5 DEF BeginInit, LookAt, StatNew, CheckOwn, BeginAdd, Find, Read, Compare,
         Fails, Die
    <3>2. InitsSpareOthers
      BY <3>1 DEF InitsSpareOthers
    <3>3. UNCHANGED pc \/ \E label : Goto(p, label) /\ (pc[p] # "rename" \/ label # "succeeded")
      <4>1. CASE BeginInit(p) \/ LookAt(p) \/ StatNew(p) \/ CheckOwn(p)
        BY <4>1 DEF BeginInit, LookAt, StatNew, CheckOwn
      <4>2. CASE BeginAdd(p) \/ Compare(p)
        BY <4>2 DEF BeginAdd, Compare
      <4>3. CASE Find(p) \/ Read(p)
        BY <4>3 DEF Find, Read
      <4>4. CASE Fails(p) \/ Die(p)
        BY <4>4 DEF Fails, Die
      <4> QED
        BY <2>5, <4>1, <4>2, <4>3, <4>4
    <3>4. \A q \in Procs : ~(pc[q] = "rename" /\ pc'[q] = "succeeded")
      BY <2>2, <3>3 DEF Goto, IInv, TypeOK
    <3> QED
      BY <3>2, <3>4 DEF AddsSpareOthers
  <2> QED
    BY <2>1, <2>3, <2>4, <2>5 DEF Next
<1>2. [InitsSpareOthers /\ AddsSpareOthers]_vars <=>
      [/\ \A p \in Inits : pc'[p] # pc[p] =>
            \A name \in Names : fs[name] # Absent /\ fs'[name] # fs[name] =>
                \/ fs[name].id \in local[p].made
                \/ pc[p] = "removeOwn" /\ local[p].raced
       /\ \A p \in Procs \ Inits : pc[p] = "rename" /\ pc'[p] = "succeeded" =>
            LET old == fs[Path(p)] IN
            \/ local[p].raced
            \/ /\ old # Absent
               /\ fs'[Path(p)].text = Mapped(p, old.text)]_vars
  BY DEF InitsSpareOthers, AddsSpareOthers
<1> QED
  BY <1>1, <1>2, Invariance, PTL DEF Spec, OthersWorkStays

-----------------------------------------------------------------------------
(* generate and check, which share no files with init and actions add.      *)

Versions == 0 .. MaxSourceEdits
Stages == {"identify", "payload", "lower", "write", "compare"}
Modes == {"generate", "check"}
Selections == Paths \cup {Missing}
Contents ==
    {Missing} \cup [version : Versions]
    \cup [yaml : {yaml[v] : yaml \in Descriptions, v \in Versions}, key : Versions]

Idle == [stage : {"idle"}]
Active == [stage : Stages, command : Modes, selected : Selections, loaded : Versions,
           key : Versions, payload : Versions, at : 1 .. Len(Outputs), stale : BOOLEAN,
           calm : BOOLEAN]
Over == [stage : Ended, selected : Selections, calm : BOOLEAN]

GenerationTypeOK ==
    /\ yamlOf \in Descriptions
    /\ source \in Versions
    /\ outputs \in [Paths -> Contents]
    /\ gen \in [Runs -> Idle \cup Active \cup Over]

UpToDate(path) == outputs[path] = Current(path)
Asked(r, path) == r.selected \in {Missing, path}

\* What a run that nothing has disturbed knows: it has read the source as it is
\* now, the outputs before the one it is at are what the source gives if it has
\* written them, and it has found a stale one if it was asked about one of them.
Aware(r) ==
    /\ r.stage \in Stages => r.loaded = source
    /\ r.stage \in Stages \ {"identify"} => r.key = source
    /\ r.stage \in {"lower", "write", "compare"} => r.payload = source
    /\ r.stage \in {"identify", "payload", "lower"} => r.at = 1 /\ ~r.stale
    /\ r.stage \in Stages /\ r.command = "generate" => r.selected = Missing
    /\ r.stage = "write" => r.command = "generate"
    /\ r.stage = "write" => \A i \in 1 .. r.at - 1 : UpToDate(Outputs[i])
    /\ r.stage = "compare" =>
         (r.stale <=> \E i \in 1 .. r.at - 1 : Asked(r, Outputs[i]) /\ ~UpToDate(Outputs[i]))

\* What it has said.
Truthful(r) ==
    r.stage \in {"generated", "upToDate", "stale"} =>
        (r.stage # "stale" <=> \A path \in Paths : Asked(r, path) => UpToDate(path))

RunInv(r) == r.stage # "idle" /\ r.calm => Aware(r) /\ Truthful(r)

\* The inductive invariant: a verdict is true because of what the run knew at
\* every output before.
GenerationInv == GenerationTypeOK /\ \A g \in Runs : RunInv(gen[g])

-----------------------------------------------------------------------------
(* The outputs and what a run leaves in them.                               *)

\* The outputs are those that the order of writing lists, each at some index.
LEMMA OutputsAreListed ==
    /\ Len(Outputs) \in Nat \ {0}
    /\ \A i \in 1 .. Len(Outputs) : Outputs[i] \in Paths
    /\ \A path \in Paths : \E i \in 1 .. Len(Outputs) : path = Outputs[i]
    /\ Paths \subseteq Workflows \cup Actions \cup Payload
    /\ Missing \notin Paths
<1>1. Outputs \in Seq(Workflows \cup Actions \cup Payload) /\ Outputs # <<>>
  BY GenerationAssumption
<1>2. Len(Outputs) \in Nat /\ DOMAIN Outputs = 1 .. Len(Outputs) /\ Len(Outputs) # 0
  BY <1>1
<1>3. \A i \in 1 .. Len(Outputs) : Outputs[i] \in Workflows \cup Actions \cup Payload
  BY <1>1
<1>4. Missing \notin Workflows \cup Actions \cup Payload
  BY GenerationAssumption
<1> QED
  BY <1>2, <1>3, <1>4 DEF Paths

\* A run leaves a file, whichever versions it has read.
LEMMA LeftIsContent ==
    ASSUME yamlOf \in Descriptions, NEW path \in Paths,
           NEW loaded \in Versions, NEW hashed \in Versions, NEW copied \in Versions
    PROVE  Left(path, loaded, hashed, copied) \in Contents \ {Missing}
<1>1. \A key \in Versions : /\ [yaml |-> yamlOf[loaded], key |-> key] \in Contents \ {Missing}
                            /\ [version |-> key] \in Contents \ {Missing}
  BY GenerationAssumption DEF Versions, Contents
<1>2. path \in Workflows \cup Actions \cup Payload
  BY OutputsAreListed
<1> QED
  BY <1>1, <1>2 DEF Left

-----------------------------------------------------------------------------
(* How a step may change what runs know.                                    *)

\* A run that nothing is changed for keeps what it knows.
LEMMA UndisturbedStays ==
    ASSUME NEW r, RunInv(r), UNCHANGED <<yamlOf, source, outputs>>
    PROVE  RunInv(r)'
BY DEF RunInv, Aware, Truthful, Asked, UpToDate, Current, Left

\* One that is disturbed has nothing to know any more.
LEMMA DisturbedStays ==
    ASSUME NEW r \in Idle \cup Active \cup Over
    PROVE  /\ Disturbed(r) \in Idle \cup Active \cup Over
           /\ \A s : s = Disturbed(r) => RunInv(s)'
<1>1. CASE r.stage = "idle"
  BY <1>1 DEF Disturbed, RunInv
<1>2. CASE r \in Active
  <2>1. Disturbed(r) = [r EXCEPT !.calm = FALSE] /\ Disturbed(r) \in Active
    BY <1>2 DEF Disturbed, Active, Stages
  <2>2. Disturbed(r).calm = FALSE
    BY <1>2, <2>1 DEF Active
  <2> QED
    BY <2>1, <2>2 DEF RunInv
<1>3. CASE r \in Over
  <2>1. Disturbed(r) = [r EXCEPT !.calm = FALSE] /\ Disturbed(r) \in Over
    BY <1>3 DEF Disturbed, Over, Ended
  <2>2. Disturbed(r).calm = FALSE
    BY <1>3, <2>1 DEF Over
  <2> QED
    BY <2>1, <2>2 DEF RunInv
<1> QED
  BY <1>1, <1>2, <1>3 DEF Idle

\* A run moves on alone, knowing what it must where it now is.
LEMMA RunMoves ==
    ASSUME GenerationInv, NEW g \in Runs, NEW r \in Active \cup Over, RunInv(r),
           gen' = [gen EXCEPT ![g] = r], UNCHANGED <<yamlOf, source, outputs>>
    PROVE  GenerationInv'
<1>1. GenerationTypeOK'
  BY DEF GenerationInv, GenerationTypeOK
<1>2. ASSUME NEW h \in Runs PROVE RunInv(gen[h])'
  <2> DEFINE s == gen'[h]
  <2>1. RunInv(s)
    BY DEF GenerationInv, GenerationTypeOK
  <2> HIDE DEF s
  <2>2. \A t : t = s => RunInv(t)'
    BY <2>1, UndisturbedStays
  <2> QED
    BY <2>2 DEF s, RunInv, Aware, Truthful, Asked, UpToDate
<1> QED
  BY <1>1, <1>2 DEF GenerationInv


-----------------------------------------------------------------------------
(* The actions.                                                             *)

\* What it takes to know that a run is at work.
LEMMA AtWork ==
    ASSUME GenerationInv, NEW g \in Runs, gen[g].stage \in Stages
    PROVE  gen[g] \in Active /\ RunInv(gen[g])
BY DEF GenerationInv, GenerationTypeOK, Idle, Over, Stages, Ended

\* A run starts calm and has loaded the source as it is.
LEMMA LoadKeeps ==
    ASSUME GenerationInv, NEW g \in Runs, Load(g), UNCHANGED yamlOf PROVE GenerationInv'
<1>1. PICK mode \in Modes, selected \in Selections :
         /\ mode = "generate" => selected = Missing
         /\ gen' = [gen EXCEPT ![g] =
              [stage |-> "identify", command |-> mode, selected |-> selected,
               loaded |-> source, key |-> 0, payload |-> 0, at |-> 1, stale |-> FALSE,
               calm |-> TRUE]]
  BY DEF Load, Modes, Selections
<1> DEFINE r == [stage |-> "identify", command |-> mode, selected |-> selected,
                 loaded |-> source, key |-> 0, payload |-> 0, at |-> 1, stale |-> FALSE,
                 calm |-> TRUE]
<1>2. r \in Active
  <2>1. source \in Versions /\ 0 \in Versions /\ 1 \in 1 .. Len(Outputs)
    BY OutputsAreListed, GenerationAssumption DEF GenerationInv, GenerationTypeOK, Versions
  <2> QED
    BY <2>1 DEF Active, Stages
<1>3. RunInv(r)
  BY <1>1 DEF RunInv, Aware, Truthful, Stages
<1>4. UNCHANGED <<yamlOf, source, outputs>> /\ gen' = [gen EXCEPT ![g] = r]
  BY <1>1 DEF Load
<1> HIDE DEF r
<1> QED
  BY <1>2, <1>3, <1>4, RunMoves

\* The key is that of the source as it is.
LEMMA IdentifyKeeps ==
    ASSUME GenerationInv, NEW g \in Runs, Identify(g), UNCHANGED yamlOf PROVE GenerationInv'
<1> DEFINE r == [gen[g] EXCEPT !.stage = "payload", !.key = source]
<1>1. gen[g] \in Active /\ RunInv(gen[g]) /\ gen[g].stage = "identify"
  BY AtWork DEF Identify, Stages
<1>2. r \in Active
  BY <1>1 DEF Active, Stages, GenerationInv, GenerationTypeOK
<1>3. RunInv(r)
  BY <1>1 DEF RunInv, Aware, Truthful, Stages, Active
<1>4. UNCHANGED <<yamlOf, source, outputs>> /\ gen' = [gen EXCEPT ![g] = r]
  BY DEF Identify, GenerationInv, GenerationTypeOK
<1> HIDE DEF r
<1> QED
  BY <1>2, <1>3, <1>4, RunMoves

\* So is the payload.
LEMMA ReadPayloadKeeps ==
    ASSUME GenerationInv, NEW g \in Runs, ReadPayload(g), UNCHANGED yamlOf PROVE GenerationInv'
<1> DEFINE r == [gen[g] EXCEPT !.stage = "lower", !.payload = source]
<1>1. gen[g] \in Active /\ RunInv(gen[g]) /\ gen[g].stage = "payload"
  BY AtWork DEF ReadPayload, Stages
<1>2. r \in Active
  BY <1>1 DEF Active, Stages, GenerationInv, GenerationTypeOK
<1>3. RunInv(r)
  BY <1>1 DEF RunInv, Aware, Truthful, Stages, Active
<1>4. UNCHANGED <<yamlOf, source, outputs>> /\ gen' = [gen EXCEPT ![g] = r]
  BY DEF ReadPayload, GenerationInv, GenerationTypeOK
<1> HIDE DEF r
<1> QED
  BY <1>2, <1>3, <1>4, RunMoves

\* A run that fails says nothing about the outputs.
LEMMA FailingKeeps ==
    ASSUME GenerationInv, NEW g \in Runs, gen[g] \in Active,
           gen' = [gen EXCEPT ![g] = Proceed(@, "failed")],
           UNCHANGED <<yamlOf, source, outputs>>
    PROVE  GenerationInv'
<1> DEFINE r == Proceed(gen[g], "failed")
<1>1. r \in Over /\ r.stage = "failed"
  BY DEF Proceed, Ended, Active, Over
<1>2. RunInv(r)
  BY <1>1 DEF RunInv, Aware, Truthful, Stages
<1>3. gen' = [gen EXCEPT ![g] = r]
  BY DEF GenerationInv, GenerationTypeOK
<1> HIDE DEF r
<1> QED
  BY <1>1, <1>2, <1>3, RunMoves

\* What follows on lowering has none of the outputs behind it yet.
LEMMA LowerProjectKeeps ==
    ASSUME GenerationInv, NEW g \in Runs, LowerProject(g), UNCHANGED yamlOf PROVE GenerationInv'
<1>1. gen[g] \in Active /\ RunInv(gen[g]) /\ gen[g].stage = "lower"
  BY AtWork DEF LowerProject, Stages
<1>2. UNCHANGED <<yamlOf, source, outputs>>
  BY DEF LowerProject
<1>3. CASE gen' = [gen EXCEPT ![g] = Proceed(@, "failed")]
  BY <1>1, <1>2, <1>3, FailingKeeps
<1> DEFINE stage == IF gen[g].command = "check" THEN "compare" ELSE "write"
<1>4. CASE gen' = [gen EXCEPT ![g] = Proceed(@, stage)]
  <2> DEFINE r == [gen[g] EXCEPT !.stage = stage]
  <2>1. r \in Active
    BY <1>1 DEF Active, Stages
  <2>2. gen' = [gen EXCEPT ![g] = r]
    BY <1>4 DEF Proceed, Ended, GenerationInv, GenerationTypeOK
  <2>3. RunInv(r)
    <3>1. gen[g].command \in Modes
      BY <1>1 DEF Active
    <3> QED
      BY <1>1, <3>1 DEF RunInv, Aware, Truthful, Stages, Active, Modes
  <2> HIDE DEF r
  <2> QED
    BY <1>2, <2>1, <2>2, <2>3, RunMoves
<1> QED
  BY <1>3, <1>4 DEF LowerProject


\* A run that nothing disturbed writes what the source gives, and nothing that
\* it wrote before is another then.
LEMMA WriteFileKeeps ==
    ASSUME GenerationInv, NEW g \in Runs, WriteFile(g), UNCHANGED yamlOf PROVE GenerationInv'
<1> DEFINE n == gen[g].at
           path == Outputs[n]
           stage == IF n = Len(Outputs) THEN "generated" ELSE "write"
<1>1. gen[g] \in Active /\ RunInv(gen[g]) /\ gen[g].stage = "write"
  BY AtWork DEF WriteFile, Stages
<1>2. n \in 1 .. Len(Outputs) /\ n \in Nat /\ path \in Paths
  BY <1>1, OutputsAreListed DEF Active
<1>3. UNCHANGED <<yamlOf, source>>
  BY DEF WriteFile
<1>4. CASE gen' = [gen EXCEPT ![g] = Proceed(@, "failed")] /\ UNCHANGED outputs
  BY <1>1, <1>3, <1>4, FailingKeeps
<1>5. CASE /\ outputs' = [outputs EXCEPT ![path] = Content(g, path)]
           /\ gen' = [h \in Runs |->
                IF h = g THEN Proceed([gen[g] EXCEPT !.at = @ + 1], stage)
                ELSE Disturbed(gen[h])]
  <2> DEFINE next == Proceed([gen[g] EXCEPT !.at = @ + 1], stage)
  <2>1. Content(g, path) \in Contents
    BY <1>1, <1>2, LeftIsContent DEF Content, Active, GenerationInv, GenerationTypeOK
  <2>2. outputs' \in [Paths -> Contents]
    BY <1>2, <1>5, <2>1 DEF GenerationInv, GenerationTypeOK
  <2>3. \A p \in Paths : outputs'[p] = IF p = path THEN Content(g, path) ELSE outputs[p]
    BY <1>5 DEF GenerationInv, GenerationTypeOK
  <2>4. \A p \in Paths : Current(p)' = Current(p)
    BY <1>3 DEF Current, Left
  <2>5. next \in Active \cup Over
    <3>1. CASE n = Len(Outputs)
      <4>1. next = [stage |-> "generated", selected |-> gen[g].selected,
                    calm |-> gen[g].calm]
        BY <1>1, <3>1 DEF Proceed, Ended, Active
      <4> QED
        BY <1>1, <4>1 DEF Active, Over, Ended
    <3>2. CASE n # Len(Outputs)
      <4>1. next = [gen[g] EXCEPT !.at = n + 1]
        BY <1>1, <3>2 DEF Proceed, Ended, Active
      <4>2. n + 1 \in 1 .. Len(Outputs)
        BY <1>2, <3>2, OutputsAreListed
      <4> QED
        BY <1>1, <4>1, <4>2 DEF Active
    <3> QED
      BY <3>1, <3>2
  <2>6. gen' \in [Runs -> Idle \cup Active \cup Over]
    BY <1>5, <2>5, DisturbedStays DEF GenerationInv, GenerationTypeOK
  <2>7. GenerationTypeOK'
    BY <1>3, <2>2, <2>6 DEF GenerationInv, GenerationTypeOK
  <2>8. ASSUME NEW h \in Runs PROVE RunInv(gen[h])'
    <3>1. CASE h # g
      <4>1. gen'[h] = Disturbed(gen[h]) /\ gen[h] \in Idle \cup Active \cup Over
        BY <1>5, <3>1 DEF GenerationInv, GenerationTypeOK
      <4>2. \A s : s = Disturbed(gen[h]) => RunInv(s)'
        BY <4>1, DisturbedStays
      <4> DEFINE s == gen'[h]
      <4>3. \A t : t = s => RunInv(t)'
        BY <4>1, <4>2
      <4> QED
        BY <4>3 DEF RunInv, Aware, Truthful, Asked, UpToDate
    <3>2. CASE h = g
      <4>1. gen'[h] = next
        BY <1>5, <3>2
      <4> SUFFICES ASSUME gen[g].calm PROVE RunInv(gen[h])'
        <5>1. ~gen[g].calm => next.calm = FALSE
          BY <1>1 DEF Proceed, Active
        <5> QED
          BY <4>1, <5>1 DEF RunInv
      <4>2. /\ gen[g].loaded = source /\ gen[g].key = source /\ gen[g].payload = source
            /\ gen[g].selected = Missing /\ gen[g].command = "generate"
            /\ \A i \in 1 .. n - 1 : outputs[Outputs[i]] = Current(Outputs[i])
        BY <1>1 DEF RunInv, Aware, UpToDate, Stages
      <4>3. Content(g, path) = Current(path)
        BY <4>2 DEF Content, Current
      <4>4. \A i \in 1 .. n : outputs'[Outputs[i]] = Current(Outputs[i])'
        <5> TAKE i \in 1 .. n
        <5>1. i \in 1 .. Len(Outputs) /\ Outputs[i] \in Paths
          BY <1>2, OutputsAreListed
        <5>2. CASE i = n
          BY <2>3, <2>4, <4>3, <5>1, <5>2
        <5>3. CASE i # n
          <6>1. i \in 1 .. n - 1
            BY <1>2, <5>3
          <6> QED
            BY <2>3, <2>4, <4>2, <4>3, <5>1, <6>1
        <5> QED
          BY <5>2, <5>3
      <4>5. CASE n = Len(Outputs)
        <5>1. gen'[h] = [stage |-> "generated", selected |-> Missing, calm |-> gen[g].calm]
          BY <1>1, <4>1, <4>2, <4>5 DEF Proceed, Ended, Active
        <5>2. \A p \in Paths : UpToDate(p)'
          BY <4>4, <4>5, OutputsAreListed DEF UpToDate
        <5> QED
          BY <5>1, <5>2 DEF RunInv, Aware, Truthful, Stages
      <4>6. CASE n # Len(Outputs)
        <5>1. gen'[h] = [gen[g] EXCEPT !.at = n + 1]
          BY <1>1, <4>1, <4>6 DEF Proceed, Ended, Active
        <5>2. /\ gen'[h].stage = "write" /\ gen'[h].at - 1 = n
              /\ gen'[h].loaded = source' /\ gen'[h].key = source'
              /\ gen'[h].payload = source'
              /\ gen'[h].selected = Missing /\ gen'[h].command = "generate"
          BY <1>1, <1>2, <1>3, <4>2, <5>1 DEF Active
        <5> QED
          BY <4>4, <5>2 DEF RunInv, Aware, Truthful, UpToDate, Stages
      <4> QED
        BY <4>5, <4>6
    <3> QED
      BY <3>1, <3>2
  <2> QED
    BY <2>7, <2>8 DEF GenerationInv
<1> QED
  BY <1>4, <1>5 DEF WriteFile

\* A run that nothing disturbed finds an output stale exactly if it is not what
\* the source gives: its own content is that, and no content is a missing file.
LEMMA CompareFileKeeps ==
    ASSUME GenerationInv, NEW g \in Runs, CompareFile(g), UNCHANGED yamlOf PROVE GenerationInv'
<1> DEFINE n == gen[g].at
           path == Outputs[n]
           checked == gen[g].selected \in {Missing, path}
           same == outputs[path] # Missing /\ SameBytes(outputs[path], Content(g, path))
           stale == gen[g].stale \/ (checked /\ ~same)
           stage == IF n < Len(Outputs) THEN "compare"
                    ELSE IF stale THEN "stale" ELSE "upToDate"
           r == Proceed([gen[g] EXCEPT !.at = @ + 1, !.stale = stale], stage)
<1>1. gen[g] \in Active /\ RunInv(gen[g]) /\ gen[g].stage = "compare"
  BY AtWork DEF CompareFile, Stages
<1>2. n \in 1 .. Len(Outputs) /\ n \in Nat /\ path \in Paths /\ Len(Outputs) \in Nat
  BY <1>1, OutputsAreListed DEF Active
<1>3. UNCHANGED <<yamlOf, source, outputs>> /\ gen' = [gen EXCEPT ![g] = r]
  BY DEF CompareFile
<1>4. stale \in BOOLEAN
  BY <1>1 DEF Active
<1> HIDE DEF stale
<1>5. r \in Active \cup Over
  <2>1. CASE n < Len(Outputs)
    <3>1. r = [gen[g] EXCEPT !.at = n + 1, !.stale = stale]
      BY <1>1, <2>1 DEF Proceed, Ended, Active
    <3>2. n + 1 \in 1 .. Len(Outputs)
      BY <1>2, <2>1
    <3> HIDE DEF r
    <3> QED
      BY <1>1, <1>4, <3>1, <3>2 DEF Active
  <2>2. CASE ~(n < Len(Outputs))
    <3>1. r = [stage |-> IF stale THEN "stale" ELSE "upToDate",
               selected |-> gen[g].selected, calm |-> gen[g].calm]
      BY <1>1, <2>2 DEF Proceed, Ended, Active
    <3> QED
      BY <1>1, <3>1 DEF Active, Over, Ended
  <2> QED
    BY <2>1, <2>2
<1>6. RunInv(r)
  <2> SUFFICES ASSUME gen[g].calm PROVE RunInv(r)
    <3>1. ~gen[g].calm => r.calm = FALSE
      BY <1>1 DEF Proceed, Active
    <3> QED
      BY <3>1 DEF RunInv
  <2>1. /\ gen[g].loaded = source /\ gen[g].key = source /\ gen[g].payload = source
        /\ gen[g].command = "generate" => gen[g].selected = Missing
        /\ gen[g].stale <=>
             \E i \in 1 .. n - 1 : Asked(gen[g], Outputs[i]) /\ ~UpToDate(Outputs[i])
    BY <1>1 DEF RunInv, Aware, Stages
  <2>2. same <=> UpToDate(path)
    <3>1. Content(g, path) = Current(path)
      BY <2>1 DEF Content, Current
    <3>2. Current(path) # Missing
      BY <1>2, LeftIsContent DEF Current, GenerationInv, GenerationTypeOK
    <3> QED
      BY <3>1, <3>2 DEF SameBytes, UpToDate
  <2>3. stale <=> \E i \in 1 .. n : Asked(gen[g], Outputs[i]) /\ ~UpToDate(Outputs[i])
    <3>1. \A i : i \in 1 .. n <=> i \in 1 .. n - 1 \/ i = n
      BY <1>2
    <3>2. checked <=> Asked(gen[g], path)
      BY DEF Asked
    <3> QED
      BY <2>1, <2>2, <3>1, <3>2 DEF stale
  <2>4. CASE n < Len(Outputs)
    <3>1. r = [gen[g] EXCEPT !.at = n + 1, !.stale = stale]
      BY <1>1, <2>4 DEF Proceed, Ended, Active
    <3>2. /\ r.stage = "compare" /\ r.at - 1 = n /\ r.stale = stale
          /\ r.loaded = source /\ r.key = source /\ r.payload = source
          /\ r.selected = gen[g].selected /\ r.command = gen[g].command
      <4> HIDE DEF r
      <4> QED
        BY <1>1, <1>2, <1>4, <2>1, <3>1 DEF Active
    <3> HIDE DEF r
    <3> QED
      BY <1>4, <2>1, <2>3, <3>2 DEF RunInv, Aware, Truthful, Stages, Asked
  <2>5. CASE ~(n < Len(Outputs))
    <3>1. n = Len(Outputs)
      BY <1>2, <2>5
    <3>2. r = [stage |-> IF stale THEN "stale" ELSE "upToDate",
               selected |-> gen[g].selected, calm |-> gen[g].calm]
      BY <1>1, <2>5 DEF Proceed, Ended, Active
    <3>3. stale <=> \E p \in Paths : Asked(gen[g], p) /\ ~UpToDate(p)
      BY <2>3, <3>1, OutputsAreListed
    <3>4. /\ r.stage = IF stale THEN "stale" ELSE "upToDate"
          /\ r.selected = gen[g].selected
      BY <3>2
    <3> HIDE DEF r
    <3> QED
      BY <3>3, <3>4 DEF RunInv, Aware, Truthful, Stages, Asked
  <2> QED
    BY <2>4, <2>5
<1> HIDE DEF r
<1> QED
  BY <1>3, <1>5, <1>6, RunMoves

\* An edit disturbs every run.
LEMMA EditSourceKeeps == ASSUME GenerationInv, EditSource, UNCHANGED yamlOf PROVE GenerationInv'
<1>1. \A h \in Runs : gen[h] \in Idle \cup Active \cup Over /\ gen'[h] = Disturbed(gen[h])
  BY DEF EditSource, GenerationInv, GenerationTypeOK
<1>2. gen' \in [Runs -> Idle \cup Active \cup Over]
  BY <1>1, DisturbedStays DEF EditSource
<1>3. GenerationTypeOK'
  BY <1>2, GenerationAssumption DEF EditSource, GenerationInv, GenerationTypeOK, Versions
<1>4. ASSUME NEW h \in Runs PROVE RunInv(gen[h])'
  <2> DEFINE s == gen'[h]
  <2>1. \A t : t = s => RunInv(t)'
    BY <1>1, DisturbedStays
  <2> QED
    BY <2>1 DEF RunInv, Aware, Truthful, Asked, UpToDate
<1> QED
  BY <1>3, <1>4 DEF GenerationInv

-----------------------------------------------------------------------------
(* The theorem.                                                             *)

\* The invariant holds at first and is kept by every step.
LEMMA GenerationInvariance == GenerationSpec => []GenerationInv
<1>1. GenerationInit => GenerationInv
  <2> SUFFICES ASSUME GenerationInit PROVE GenerationInv
    OBVIOUS
  <2>1. 0 \in Versions
    BY GenerationAssumption DEF Versions
  <2>2. \A path \in Paths : Left(path, 0, 0, 0) \in Contents
    BY <2>1, LeftIsContent DEF GenerationInit
  <2>3. outputs \in [Paths -> Contents]
    BY <2>2 DEF GenerationInit, Contents
  <2>4. gen \in [Runs -> Idle]
    BY DEF GenerationInit, Idle
  <2> QED
    BY <2>1, <2>3, <2>4 DEF GenerationInit, GenerationInv, GenerationTypeOK, RunInv, Idle
<1>2. GenerationInv /\ [GenerationNext]_generationVars => GenerationInv'
  <2> SUFFICES ASSUME GenerationInv, [GenerationNext]_generationVars PROVE GenerationInv'
    OBVIOUS
  <2>1. CASE UNCHANGED generationVars
    <3>1. UNCHANGED <<yamlOf, source, outputs>> /\ gen' = gen
      BY <2>1 DEF generationVars
    <3>2. ASSUME NEW h \in Runs PROVE RunInv(gen[h])'
      <4> DEFINE s == gen'[h]
      <4>1. RunInv(s)
        BY <3>1 DEF GenerationInv
      <4> HIDE DEF s
      <4>2. \A t : t = s => RunInv(t)'
        BY <3>1, <4>1, UndisturbedStays
      <4> QED
        BY <4>2 DEF s, RunInv, Aware, Truthful, Asked, UpToDate
    <3> QED
      BY <3>1, <3>2 DEF GenerationInv, GenerationTypeOK
  <2>2. ASSUME NEW g \in Runs, UNCHANGED yamlOf,
               Load(g) \/ Identify(g) \/ ReadPayload(g) \/ LowerProject(g)
               \/ WriteFile(g) \/ CompareFile(g)
        PROVE  GenerationInv'
    BY <2>2, LoadKeeps, IdentifyKeeps, ReadPayloadKeeps, LowerProjectKeeps,
       WriteFileKeeps, CompareFileKeeps
  <2> QED
    BY <2>1, <2>2, EditSourceKeeps DEF GenerationNext
<1> QED
  BY <1>1, <1>2, PTL DEF GenerationSpec

\* What generate and check say is true as long as nothing changed under them
\* (compiler/write.ts, compiler/check.ts), for any number of runs and outputs.
THEOREM VerdictsHold == GenerationSpec => []VerdictsAreTrue
<1>1. GenerationInv => VerdictsAreTrue
  BY DEF GenerationInv, RunInv, Truthful, Asked, UpToDate, VerdictsAreTrue
<1> QED
  BY <1>1, GenerationInvariance, PTL

=============================================================================
