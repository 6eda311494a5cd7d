---------------------------- MODULE MCTypeService ----------------------------
(* The instances of TypeService that TLC checks: releases with one request  *)
(* after them, or a deployed service with several requests.                 *)
EXTENDS TypeService, TLC

Instances ==
    {[requests |-> 1, ticks |-> 0, faults |-> 2, releasing |-> TRUE],
     [requests |-> 3, ticks |-> 1, faults |-> 0, releasing |-> FALSE],
     [requests |-> 2, ticks |-> 2, faults |-> 1, releasing |-> FALSE]}
Symmetry ==
    Permutations(Runs) \cup Permutations(Versions) \cup Permutations(Commits)
    \cup Permutations(Requests) \cup Permutations(Shas)

=============================================================================
