---------------------------- MODULE MCScenarioJob ----------------------------
(* The jobs that TLC interprets: every legal sequence of three steps from a *)
(* small alphabet, and longer ones for what takes more steps to happen.     *)
EXTENDS ScenarioJob

CONSTANTS f, g, b, c, p, q

Run(id, background, cond, tolerate) ==
    [kind |-> "exec", id |-> id, background |-> background, cond |-> cond,
     tolerate |-> tolerate]
WaitFor(ids) == [kind |-> "wait", targets |-> ids]
WaitAll == [kind |-> "wait-all", targets |-> {}]
CancelOf(id) == [kind |-> "cancel", targets |-> {id}]
Parallel == [kind |-> "parallel",
             children |-> <<Run(p, FALSE, "expression", FALSE), Run(q, FALSE, "", FALSE)>>]

Foreground == Run(f, FALSE, "", TRUE)
Cleanup == Run(g, FALSE, "always", FALSE)
Background == Run(b, TRUE, "", FALSE)
Other == Run(c, TRUE, "failure", FALSE)

Alphabet == {Foreground, Cleanup, Background, Parallel, WaitFor({b}), WaitAll,
             CancelOf(b)}

MCPrograms ==
    {job \in UNION {[1 .. n -> Alphabet] : n \in 1 .. 3} : Legal(job)}
    \cup {<<Background, Run(c, TRUE, "", FALSE), WaitFor({c}), Foreground, WaitFor({b})>>,
          <<Background, Parallel, Foreground, WaitAll>>,
          <<Background, WaitFor({b}), Other, CancelOf(c), Run(g, FALSE, "failure", FALSE)>>,
          <<Foreground, Run(g, FALSE, "cancelled", FALSE), Background, CancelOf(b)>>,
          <<Background, Run(c, TRUE, "", FALSE), CancelOf(b), WaitFor({b, c})>>}

=============================================================================
