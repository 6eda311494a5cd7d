------------------------------ MODULE Generation ------------------------------
(***************************************************************************)
(* generate and generate --check (src/compiler/generator.ts, write.ts,     *)
(* check.ts).  Each run reads the source three times: Deno loads the        *)
(* entrypoint, its modules are hashed for the key in the YAML, and they    *)
(* are read again for the payload of composite actions.  The outputs are   *)
(* then replaced, or compared, one at a time, without a lock, while the    *)
(* source is edited and other runs do the same.                            *)
(*                                                                         *)
(* A version of the source is the number of edits; those that change the   *)
(* body of a task only give the same YAML under another key.               *)
(***************************************************************************)
EXTENDS Naturals, Sequences

CONSTANTS
    Runs,          \* runs of the command
    Workflows, Actions, Payload, \* paths of the outputs, by kind
    Outputs,       \* all of them, in the order they are written
    Descriptions,  \* the YAML that every version of the source may describe
    Missing,       \* no file, no choice
    MaxSourceEdits \* bound: edits of the source

ASSUME GenerationAssumption ==
    /\ MaxSourceEdits \in Nat
    /\ \A yaml \in Descriptions : DOMAIN yaml = 0 .. MaxSourceEdits
    /\ Outputs \in Seq(Workflows \cup Actions \cup Payload)
    /\ Outputs # <<>>   \* a project has at least one workflow or action
    /\ Missing \notin Workflows \cup Actions \cup Payload
    /\ \A yaml \in Descriptions, loaded, key \in 0 .. MaxSourceEdits :
         Missing \notin {[yaml |-> yaml[loaded], key |-> key], [version |-> key]}

VARIABLES
    yamlOf,    \* which of them, for good
    source,    \* the version of the source now
    outputs,   \* the content of every output
    gen        \* every run

generationVars == <<yamlOf, source, outputs, gen>>

Paths == {Outputs[i] : i \in DOMAIN Outputs}

\* What a run leaves in a workflow, an action and a file of the payload when it
\* has loaded, hashed and copied these versions.
Left(path, loaded, hashed, copied) ==
    CASE path \in Workflows -> [yaml |-> yamlOf[loaded], key |-> hashed]
      [] path \in Actions   -> [yaml |-> yamlOf[loaded], key |-> copied]
      [] path \in Payload   -> [version |-> copied]

\* Some outputs are there and up to date.
GenerationInit ==
    /\ yamlOf \in Descriptions
    /\ source = 0
    /\ \E there \in SUBSET Paths : outputs =
         [path \in Paths |-> IF path \in there THEN Left(path, 0, 0, 0) ELSE Missing]
    /\ gen = [g \in Runs |-> [stage |-> "idle"]]

Ended == {"generated", "upToDate", "stale", "failed"}
Proceed(r, stage) ==
    IF stage \in Ended THEN [stage |-> stage, selected |-> r.selected, calm |-> r.calm]
    ELSE [r EXCEPT !.stage = stage]

\* History: the source or an output changed under a run.
Disturbed(r) == IF r.stage = "idle" THEN r ELSE [r EXCEPT !.calm = FALSE]

-----------------------------------------------------------------------------

\* Deno loads the entrypoint; the project must be one that project() made.
Load(g) == \E command \in {"generate", "check"}, selected \in Paths \cup {Missing} :
    /\ gen[g].stage = "idle"
    /\ command = "generate" => selected = Missing   \* --output requires --check
    /\ gen' = [gen EXCEPT ![g] =
         [stage |-> "identify", command |-> command, selected |-> selected,
          loaded |-> source, key |-> 0, payload |-> 0, at |-> 1, stale |-> FALSE,
          calm |-> TRUE]]
    /\ UNCHANGED <<source, outputs>>

\* The modules of the entrypoint's graph are hashed.
Identify(g) ==
    /\ gen[g].stage = "identify"
    /\ gen' = [gen EXCEPT ![g].stage = "payload", ![g].key = source]
    /\ UNCHANGED <<source, outputs>>

\* The payload's files are read, relocated and hashed from what was read.
ReadPayload(g) ==
    /\ gen[g].stage = "payload"
    /\ gen' = [gen EXCEPT ![g].stage = "lower", ![g].payload = source]
    /\ UNCHANGED <<source, outputs>>

Content(g, path) == Left(path, gen[g].loaded, gen[g].key, gen[g].payload)

\* What a run gives when nothing changes.
Current(path) == Left(path, source, source, source)

\* Lowering may reject the project, and two outputs may resolve to one file.
LowerProject(g) ==
    /\ gen[g].stage = "lower"
    /\ \E stage \in {IF gen[g].command = "check" THEN "compare" ELSE "write", "failed"} :
         gen' = [gen EXCEPT ![g] = Proceed(@, stage)]
    /\ UNCHANGED <<source, outputs>>

\* A file is written under a fresh name and renamed.  The run may fail, or be
\* killed, at any of the files before.
WriteFile(g) ==
    LET path == Outputs[gen[g].at]
        last == gen[g].at = Len(Outputs)
        stage == IF last THEN "generated" ELSE "write"
    IN  /\ gen[g].stage = "write"
        /\ \/ /\ outputs' = [outputs EXCEPT ![path] = Content(g, path)]
              /\ gen' = [h \in Runs |->
                   IF h = g THEN Proceed([gen[g] EXCEPT !.at = @ + 1], stage)
                   ELSE Disturbed(gen[h])]
           \/ gen' = [gen EXCEPT ![g] = Proceed(@, "failed")] /\ UNCHANGED outputs
        /\ UNCHANGED source

SameYaml(actual, expected) ==
    IF "yaml" \in DOMAIN expected THEN actual.yaml = expected.yaml ELSE actual = expected

\* Contents are compared byte by byte.
SameBytes(actual, expected) == actual = expected

\* A file that is selected, or any if none is, is read and compared.
CompareFile(g) ==
    LET path == Outputs[gen[g].at]
        checked == gen[g].selected \in {Missing, path}
        same == outputs[path] # Missing /\ SameBytes(outputs[path], Content(g, path))
        stale == gen[g].stale \/ (checked /\ ~same)
        stage == IF gen[g].at < Len(Outputs) THEN "compare"
                 ELSE IF stale THEN "stale" ELSE "upToDate"
    IN  /\ gen[g].stage = "compare"
        /\ gen' = [gen EXCEPT ![g] =
             Proceed([gen[g] EXCEPT !.at = @ + 1, !.stale = stale], stage)]
        /\ UNCHANGED <<source, outputs>>

EditSource ==
    /\ source < MaxSourceEdits
    /\ source' = source + 1
    /\ gen' = [g \in Runs |-> Disturbed(gen[g])]
    /\ UNCHANGED outputs

GenerationNext ==
    /\ \/ \E g \in Runs :
            \/ Load(g) \/ Identify(g) \/ ReadPayload(g) \/ LowerProject(g)
            \/ WriteFile(g) \/ CompareFile(g)
       \/ EditSource
    /\ UNCHANGED yamlOf

GenerationSpec == GenerationInit /\ [][GenerationNext]_generationVars

-----------------------------------------------------------------------------
(* Properties.                                                              *)

\* What a run says is true as long as nobody else has changed the source or an
\* output since it loaded the project: after generate every output is what the
\* source gives, and check passes exactly if every output it was asked about is,
\* whichever runs died, failed or mixed their files before.
VerdictsAreTrue == \A g \in Runs :
    gen[g].stage \in {"generated", "upToDate", "stale"} /\ gen[g].calm =>
        (gen[g].stage # "stale" <=>
         \A path \in Paths : gen[g].selected \in {Missing, path} =>
             outputs[path] = Current(path))

=============================================================================
