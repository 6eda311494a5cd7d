------------------------------ MODULE MCTaskFlow ------------------------------
(* Two outputs, of which one may be declared optional, and producers with    *)
(* and without a condition and continueOnError, in jobs that tolerate failure *)
(* or not; the consumer, in the same job or the next, reads one of them.     *)
EXTENDS TaskConditions

CONSTANTS WithFalse  \* whether producers may say continueOnError: false

MCRefs == {"o", "u"}
Define(conditional, coe, jobCoe) ==
    [if |-> conditional, continueOnError |-> coe, jobContinueOnError |-> jobCoe,
     required |-> [ref \in MCRefs |-> ref = "o"],
     contract |-> [ref \in MCRefs |-> IF ref = "o" THEN "json" ELSE "text"]]
MCProducers ==
    IF WithFalse THEN {Define(conditional, "false", "false") : conditional \in BOOLEAN}
    ELSE {Define(FALSE, "unset", "expression"), Define(TRUE, "unset", "false"),
          Define(FALSE, "expression", "true")}
Read(place, from, computed, contract) ==
    [place |-> place, from |-> from, computed |-> computed, contract |-> contract]
MCConsumers == {Read("job", "o", FALSE, Unset), Read("needs", "o", FALSE, Unset),
                Read("job", "o", FALSE, "text"), Read("job", "u", TRUE, Unset),
                Read("needs", "u", FALSE, "text")}
MCRawTexts == {<<"failure", "(", ")", "||", "u">>, <<"u", "||", "o">>}

=============================================================================
