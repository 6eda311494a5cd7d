--------------------------- MODULE MCProjectFiles ---------------------------
(* The commands of a project, in two parts that share no files and so are   *)
(* checked one beside the other: init and actions add in an empty directory *)
(* or one with a configuration of either name; generate and check with a    *)
(* workflow, a composite action and its payload, and an edit that changes   *)
(* the YAML or the body of a task only.                                     *)
EXTENDS ProjectFiles, Generation, TLC, Functions

CONSTANTS a, u, v, workflow, action, payload

Empty == [name \in Names |-> Absent]
With(name) == [Empty EXCEPT ![name] = [id |-> 1, text |-> Template]]
MCProjects == {Empty, With("deno.json"), With("deno.jsonc"), With("workflows.ts")}
MCCommands == {[kind |-> "init"], [kind |-> "add", alias |-> a, url |-> u],
               [kind |-> "add", alias |-> a, url |-> v]}
MCOutputs == <<workflow, action, payload>>
MCDescriptions == {[version \in 0 .. 1 |-> 0], [version \in 0 .. 1 |-> version]}
Symmetry == Permutations(Procs) \cup Permutations(Urls) \cup Permutations(Runs)

VARIABLE part   \* "files" or "generation"

MCInit ==
    /\ Init
    /\ GenerationInit
    /\ part \in {"files", "generation"}
    /\ part = "files" => Range(outputs) = {Missing} /\ yamlOf = [version \in 0 .. 1 |-> 0]
    /\ part = "generation" => fs = Empty /\ command = [p \in Procs |-> [kind |-> "init"]]
MCNext ==
    /\ UNCHANGED part
    /\ \/ part = "files" /\ Next /\ UNCHANGED generationVars
       \/ part = "generation" /\ GenerationNext /\ UNCHANGED vars
MCSpec == MCInit /\ [][MCNext]_<<vars, generationVars, part>>

=============================================================================
