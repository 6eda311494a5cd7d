-------------------------- MODULE PublishedRuntimes --------------------------
(***************************************************************************)
(* What the runner-local store promises its readers: a runtime path gets   *)
(* its content once, before anyone is told of the path, and the content    *)
(* stays for as long as the path can be in use.  Task steps execute the    *)
(* path they were told of, long after the command that prepared it ended.  *)
(***************************************************************************)
CONSTANTS
    Readers,    \* whoever is told a runtime path
    Paths,      \* the paths a runtime can be published at
    Artifacts,  \* the contents a compiler run can produce
    Nothing,    \* content of a path not published yet
    NoPath      \* held by a reader that was told nothing

VARIABLES
    content,  \* what was published at each path
    held      \* the path each reader was told

vars == <<content, held>>

Init ==
    /\ content = [path \in Paths |-> Nothing]
    /\ held = [r \in Readers |-> NoPath]

Publish(path, a) ==
    /\ content[path] = Nothing
    /\ content' = [content EXCEPT ![path] = a]

Tell(r, path) ==
    /\ content'[path] \in Artifacts
    /\ held' = [held EXCEPT ![r] = path]

Forget(r) ==
    /\ held' = [held EXCEPT ![r] = NoPath]
    /\ UNCHANGED content

Next ==
    \/ \E path \in Paths, a \in Artifacts : Publish(path, a) /\ UNCHANGED held
    \/ \E r \in Readers, path \in Paths : Tell(r, path) /\ UNCHANGED content
    \/ \E r \in Readers, path \in Paths, a \in Artifacts :
           Publish(path, a) /\ Tell(r, path)
    \/ \E r \in Readers : Forget(r)

Spec == Init /\ [][Next]_vars

=============================================================================
