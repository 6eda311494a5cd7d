------------------------- MODULE MCScenarioWorkflow -------------------------
(* What TLC interprets, in two parts that are checked one beside the other: *)
(* workflows, chains, forks and gathers with every condition somewhere      *)
(* below a job that may fail; and the fields of a workflow, with every      *)
(* reference that their types offer, whose scenario has all fixtures, none, *)
(* or all but one.                                                          *)
EXTENDS ScenarioWorkflow, FieldEvaluation

CONSTANTS a, b, c

Chain == [j \in Jobs |-> CASE j = a -> {} [] j = b -> {a} [] OTHER -> {b}]
Fork == [j \in Jobs |-> IF j = a THEN {} ELSE {a}]
Gather == [j \in Jobs |-> IF j = c THEN {a, b} ELSE {}]

Shape(needs, ofB, ofC, calls, matrix) ==
    [order |-> <<a, b, c>>, needs |-> needs,
     cond |-> [j \in Jobs |-> CASE j = a -> "" [] j = b -> ofB [] OTHER -> ofC],
     calls |-> calls, matrix |-> matrix]

AFlow == [Shape(Chain, "", "", {}, {}) EXCEPT !.order = <<a, c, b>>]
MCFlows ==
    {Shape(Chain, ofB, ofC, {}, {a}) : ofB \in {"", "always"}, ofC \in {"", "failure"}}
    \cup {Shape(Gather, "expression", ofC, {}, {b}) : ofC \in {"", "cancelled"}}
    \cup {Shape(Fork, "", "failure", {b}, {b}),
          Shape(Chain, "", "cancelled", {a}, {a})}
    \cup {AFlow}

MCSupplies == {Fixtures, {}} \cup {Fixtures \ {f} : f \in Fixtures}
AField == [field |-> "name", reference |-> Reference("github", "sha"), at |-> 0]

-----------------------------------------------------------------------------

VARIABLE part   \* "workflow" or "fields"

MCInit ==
    /\ Init
    /\ FieldInit
    /\ part \in {"workflow", "fields"}
    /\ part = "workflow" => choice = AField /\ supplied = Fixtures
    /\ part = "fields" => flow = AFlow
MCNext ==
    /\ UNCHANGED part
    /\ \/ part = "workflow" /\ Next /\ UNCHANGED fieldVars
       \/ part = "fields" /\ FieldNext /\ UNCHANGED vars
MCSpec == MCInit /\ [][MCNext]_<<vars, fieldVars, part>>

=============================================================================
