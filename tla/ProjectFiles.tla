---------------------------- MODULE ProjectFiles ----------------------------
(***************************************************************************)
(* The commands that change a project's own files: init                    *)
(* (src/init/project.ts), which creates two of them or none, and           *)
(* actions add (src/runner/actions.ts), which maps an alias to a URL in    *)
(* the Deno configuration.  Several may run at once in one directory, and  *)
(* an editor may change or replace a file between any two of their calls.  *)
(*                                                                         *)
(* A file has an identity (its device and inode) and a text.  Of a text    *)
(* the model keeps the mappings, how many edits of the user went into it,  *)
(* and whether it is whole: init writes its files after it created them.   *)
(***************************************************************************)
EXTENDS Integers, Sequences, FiniteSets

CONSTANTS
    Procs,      \* commands
    Aliases,    \* names that imports may map
    Urls,       \* what they may be mapped to
    Commands,   \* which command a process may be
    Projects,   \* the files a directory may hold at first
    Absent,     \* no such file, or no such mapping
    MaxEdits    \* bound: edits of the user

Names == {"deno.json", "deno.jsonc", "deno.lock", "workflows.ts"}
Preflight == <<"deno.json", "deno.jsonc", "deno.lock", "workflows.ts">>
Created == <<"deno.json", "workflows.ts">>
Configs == {"deno.json", "deno.jsonc"}

Command == {[kind |-> "init"]} \cup [kind : {"add"}, alias : Aliases, url : Urls]
Text == [imports : [Aliases -> Urls \cup {Absent}], edits : 0 .. MaxEdits,
         whole : BOOLEAN]
File == [id : Nat, text : Text]
Project ==
    {files \in [Names -> File \cup {Absent}] :
       \A name \in Names : files[name] # Absent => files[name].id \in 1 .. Len(Preflight)}

Template == [imports |-> [a \in Aliases |-> Absent], edits |-> 0, whole |-> TRUE]
Torn(text) == [text EXCEPT !.whole = FALSE]

ASSUME ConstantsAssumption ==
    /\ Commands \subseteq Command
    /\ Projects \subseteq Project
    /\ Absent \notin File \cup Urls
    /\ MaxEdits \in Nat

VARIABLES
    fs,       \* the directory
    ids,      \* identities so far
    edits,    \* edits of the user so far
    command,  \* what each process runs
    pc,       \* its next step
    local     \* what it has found and made

vars == <<fs, ids, edits, command, pc, local>>

\* at: how many names it is done with; created: what init has created and
\* identified, the last first; found: the configurations add has found; text:
\* what it read; own: the identity of the file init has open.  The rest is
\* history: the identities it made, whether a call failed that its cleanup
\* depends on, and whether the file it is about to replace or remove is another
\* now.

Ids == {fs[name].id : name \in {name \in Names : fs[name] # Absent}}

Init ==
    /\ fs \in Projects
    /\ ids = Len(Preflight)
    /\ edits = 0
    /\ command \in [Procs -> Commands]
    /\ pc = [p \in Procs |-> "start"]
    /\ local = [p \in Procs |->
         [at |-> 0, created |-> <<>>, found |-> {}, text |-> Template,
          own |-> 0, made |-> {}, slipped |-> FALSE, raced |-> FALSE]]

Goto(p, step) == pc' = [pc EXCEPT ![p] = step]
Set(p, new) == local' = [local EXCEPT ![p] = new]
NameAt(p) == Created[local[p].at + 1]

\* The calls of a process that take it for granted that a name still stands
\* for what it did a call before.
Relies(p, name) ==
    \/ pc[p] = "rename" /\ name \in local[p].found
    \/ pc[p] = "removeOwn" /\ name = Head(local[p].created).name
Raced(p, files) ==
    local[p].raced \/ \E name \in Names : Relies(p, name) /\ files[name] # fs[name]

\* A process changes the directory.
Change(p, new, files) ==
    /\ fs' = files
    /\ local' = [q \in Procs |-> IF q = p THEN new
                               ELSE [local[q] EXCEPT !.raced = Raced(q, files)]]

-----------------------------------------------------------------------------
(* init.                                                                    *)

BeginInit(p) ==
    /\ pc[p] = "start"
    /\ command[p].kind = "init"
    /\ Goto(p, "preflight")
    /\ UNCHANGED <<fs, ids, edits, command, local>>

\* init.preflight looks at one name after another.
LookAt(p) ==
    /\ pc[p] = "preflight"
    /\ IF fs[Preflight[local[p].at + 1]] # Absent
       THEN Goto(p, "checkOwn") /\ UNCHANGED local
       ELSE IF local[p].at + 1 = Len(Preflight)
            THEN Goto(p, "open") /\ Set(p, [local[p] EXCEPT !.at = 0])
            ELSE Set(p, [local[p] EXCEPT !.at = @ + 1]) /\ UNCHANGED pc
    /\ UNCHANGED <<fs, ids, edits, command>>

\* Deno.open with createNew, of the next of the two files.
OpenOrTruncate(p) ==
    /\ pc[p] = "open"
    /\ Change(p, [local[p] EXCEPT !.own = ids + 1, !.made = @ \cup {ids + 1}],
              [fs EXCEPT ![NameAt(p)] = [id |-> ids + 1, text |-> Torn(Template)]])
    /\ ids' = ids + 1
    /\ Goto(p, "stat")
    /\ UNCHANGED <<edits, command>>
OpenNew(p) ==
    /\ pc[p] = "open"
    /\ IF fs[NameAt(p)] # Absent
       THEN Goto(p, "checkOwn") /\ UNCHANGED <<fs, ids, local>>
       ELSE /\ Change(p, [local[p] EXCEPT !.own = ids + 1, !.made = @ \cup {ids + 1}],
                      [fs EXCEPT ![NameAt(p)] =
                          [id |-> ids + 1, text |-> Torn(Template)]])
            /\ ids' = ids + 1
            /\ Goto(p, "stat")
    /\ UNCHANGED <<edits, command>>

StatByName(p) ==
    /\ pc[p] = "stat"
    /\ fs[NameAt(p)] # Absent
    /\ Set(p, [local[p] EXCEPT
           !.created = <<[name |-> NameAt(p), id |-> fs[NameAt(p)].id]>> \o @])
    /\ Goto(p, "write")
    /\ UNCHANGED <<fs, ids, edits, command>>

\* The open file is identified, whatever its name stands for by now ...
StatNew(p) ==
    /\ pc[p] = "stat"
    /\ \/ /\ Set(p, [local[p] EXCEPT
               !.created = <<[name |-> NameAt(p), id |-> local[p].own]>> \o @])
          /\ Goto(p, "write")
       \/ /\ Set(p, [local[p] EXCEPT !.slipped = TRUE])
          /\ Goto(p, "checkOwn")
    /\ UNCHANGED <<fs, ids, edits, command>>

\* ... and so is the file that is written, which others may read in part.  What
\* an editor has put into it meanwhile is overwritten in part.
Named(id) == {name \in Names : fs[name] # Absent /\ fs[name].id = id}
Written(text) == IF text = Torn(Template) THEN Template ELSE Torn(text)
WriteNew(p) ==
    /\ pc[p] = "write"
    /\ \/ /\ Change(p, [local[p] EXCEPT !.at = @ + 1],
                    [name \in Names |-> IF name \in Named(local[p].own)
                                         THEN [fs[name] EXCEPT !.text = Written(@)]
                                         ELSE fs[name]])
          /\ Goto(p, IF local[p].at + 1 = Len(Created) THEN "succeeded" ELSE "open")
       \/ Goto(p, "checkOwn") /\ UNCHANGED <<fs, local>>
    /\ UNCHANGED <<ids, edits, command>>

\* init.cleanup, of one file after another: a file that was replaced stays.  A
\* look that fails is one with the removal that fails.
CheckOwn(p) ==
    LET created == local[p].created
        mine == created # <<>> /\ Head(created).name \in Named(Head(created).id)
    IN  /\ pc[p] = "checkOwn"
        /\ CASE created = <<>> -> Goto(p, "failed") /\ UNCHANGED local
             [] mine -> Goto(p, "removeOwn") /\ UNCHANGED local
             [] OTHER -> /\ Set(p, [local[p] EXCEPT !.created = Tail(@)])
                         /\ UNCHANGED pc
        /\ UNCHANGED <<fs, ids, edits, command>>

RemoveLastOnly(p) ==
    /\ pc[p] = "removeOwn"
    /\ Change(p, [local[p] EXCEPT !.created = <<>>, !.raced = FALSE],
              [fs EXCEPT ![Head(local[p].created).name] = Absent])
    /\ Goto(p, "checkOwn")
    /\ UNCHANGED <<ids, edits, command>>

\* The name is removed, whatever it stands for by now.
RemoveOwn(p) ==
    LET name == Head(local[p].created).name
        rest == [local[p] EXCEPT !.created = Tail(@), !.raced = FALSE]
    IN  /\ pc[p] = "removeOwn"
        /\ \/ Change(p, rest, [fs EXCEPT ![name] = Absent])
           \/ Set(p, [rest EXCEPT !.slipped = TRUE]) /\ UNCHANGED fs
        /\ Goto(p, "checkOwn")
        /\ UNCHANGED <<ids, edits, command>>

-----------------------------------------------------------------------------
(* actions add.                                                             *)

BeginAdd(p) ==
    /\ pc[p] = "start"
    /\ command[p].kind = "add"
    /\ Goto(p, "find")
    /\ UNCHANGED <<fs, ids, edits, command, local>>

\* One configuration is looked for after the other.
Find(p) ==
    LET name == IF local[p].at = 0 THEN "deno.json" ELSE "deno.jsonc"
        found == local[p].found \cup {n \in {name} : fs[n] # Absent}
    IN  /\ pc[p] = "find"
        /\ Set(p, [local[p] EXCEPT !.at = @ + 1, !.found = found])
        /\ CASE local[p].at = 0 -> UNCHANGED pc
             [] local[p].at = 1 /\ Cardinality(found) = 1 -> Goto(p, "read")
             [] OTHER -> Goto(p, "failed")
        /\ UNCHANGED <<fs, ids, edits, command>>

Path(p) == CHOOSE name \in local[p].found : TRUE
Mapped(p, text) == [text EXCEPT !.imports[command[p].alias] = command[p].url]

\* An alias that is mapped already, there or elsewhere, ends the command, and
\* so does a text that is missing or not whole.
Read(p) ==
    LET file == fs[Path(p)] IN
    /\ pc[p] = "read"
    /\ IF file = Absent \/ ~file.text.whole THEN Goto(p, "failed") /\ UNCHANGED local
       ELSE CASE file.text.imports[command[p].alias] = command[p].url ->
                   Goto(p, "succeeded") /\ UNCHANGED local
              [] file.text.imports[command[p].alias] \notin {Absent, command[p].url} ->
                   Goto(p, "failed") /\ UNCHANGED local
              [] OTHER -> Goto(p, "compare") /\ Set(p, [local[p] EXCEPT !.text = file.text])
    /\ UNCHANGED <<fs, ids, edits, command>>

\* The new text is in a temporary file; the old one is read once more.
CompareNothing(p) ==
    /\ pc[p] = "compare"
    /\ Goto(p, IF fs[Path(p)] # Absent THEN "rename" ELSE "failed")
    /\ UNCHANGED <<fs, ids, edits, command, local>>
Compare(p) ==
    LET file == fs[Path(p)] IN
    /\ pc[p] = "compare"
    /\ Goto(p, IF file # Absent /\ file.text = local[p].text THEN "rename" ELSE "failed")
    /\ UNCHANGED <<fs, ids, edits, command, local>>

Rename(p) ==
    /\ pc[p] = "rename"
    /\ Change(p, local[p], [fs EXCEPT ![Path(p)] =
                               [id |-> ids + 1, text |-> Mapped(p, local[p].text)]])
    /\ ids' = ids + 1
    /\ Goto(p, "succeeded")
    /\ UNCHANGED <<edits, command>>

-----------------------------------------------------------------------------
(* Failures and the user.                                                   *)

\* Other calls that fail: init goes on to its cleanup, add leaves.
Fails(p) ==
    /\ \/ pc[p] \in {"find", "read", "compare", "rename"} /\ Goto(p, "failed")
       \/ pc[p] \in {"preflight", "open"} /\ Goto(p, "checkOwn")
    /\ UNCHANGED <<fs, ids, edits, command, local>>

Die(p) ==
    /\ pc[p] \notin {"succeeded", "failed", "dead"}
    /\ Goto(p, "dead")
    /\ UNCHANGED <<fs, ids, edits, command, local>>

\* An editor writes into the file, or puts a new one in its place.
Edited(name) == [fs[name].text EXCEPT !.edits = edits + 1, !.whole = TRUE]
Save(id, name) ==
    LET files == [fs EXCEPT ![name] = [id |-> id, text |-> Edited(name)]] IN
    /\ edits < MaxEdits
    /\ fs[name] # Absent
    /\ edits' = edits + 1
    /\ fs' = files
    /\ local' = [q \in Procs |-> [local[q] EXCEPT !.raced = Raced(q, files)]]
    /\ UNCHANGED <<command, pc>>
EditInPlace == \E name \in Names :
    /\ fs[name] # Absent
    /\ Save(fs[name].id, name)
    /\ UNCHANGED ids
Replace == \E name \in Names :
    /\ Save(ids + 1, name)
    /\ ids' = ids + 1

Next ==
    \/ \E p \in Procs :
         \/ BeginInit(p) \/ LookAt(p) \/ OpenNew(p) \/ StatNew(p) \/ WriteNew(p)
         \/ CheckOwn(p) \/ RemoveOwn(p)
         \/ BeginAdd(p) \/ Find(p) \/ Read(p) \/ Compare(p) \/ Rename(p)
         \/ Fails(p) \/ Die(p)
    \/ EditInPlace \/ Replace

Spec == Init /\ [][Next]_vars

-----------------------------------------------------------------------------
(* Properties.                                                              *)

Inits == {p \in Procs : command[p].kind = "init"}

\* Nobody's work is lost.  Init changes and removes only files it created
\* itself, except between two calls of its cleanup: one of these may have been
\* replaced after it looked for the last time.  An add that replaces the
\* configuration keeps every mapping and edit in it, unless it changed after
\* the comparison.
OthersWorkStays ==
    [][/\ \A p \in Inits : pc'[p] # pc[p] =>
            \A name \in Names : fs[name] # Absent /\ fs'[name] # fs[name] =>
                \/ fs[name].id \in local[p].made
                \/ pc[p] = "removeOwn" /\ local[p].raced
       /\ \A p \in Procs \ Inits : pc[p] = "rename" /\ pc'[p] = "succeeded" =>
            LET old == fs[Path(p)] IN
            \/ local[p].raced
            \/ /\ old # Absent
               /\ fs'[Path(p)].text = Mapped(p, old.text)]_vars

\* An init creates all of its files or none.  One that fails leaves none of
\* them behind, if the calls that its cleanup depends on succeed; of several at
\* most one succeeds, and no other takes its files away while cleaning up.
InitIsAllOrNothing ==
    /\ \A p \in Inits : pc[p] = "failed" /\ ~local[p].slipped =>
         Ids \cap local[p].made = {}
    /\ Cardinality({p \in Inits : pc[p] = "succeeded"}) <= 1
    /\ \A p \in Inits : pc[p] = "succeeded" =>
         fs["deno.json"] # Absent /\ fs["workflows.ts"] # Absent

=============================================================================
