--------------------------- MODULE MCPrepareBridge ---------------------------
(* The instance of PrepareBridge that TLC checks: the tools of one of two   *)
(* jobs may fail.  A temporal property is checked, so there is no symmetry. *)
EXTENDS PrepareBridge

=============================================================================
