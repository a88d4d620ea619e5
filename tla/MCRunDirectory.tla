--------------------------- MODULE MCRunDirectory ---------------------------
(* Instances of RunDirectory: a rejection and an acceptance, and another       *)
(* rejection that differs from the first by its reasons only.                 *)
EXTENDS RunDirectory

MCDecisions ==
  {[status |-> "ACCEPTED", reasons |-> {}],
   [status |-> "REJECTED", reasons |-> {"gate"}],
   [status |-> "REJECTED", reasons |-> {"scope"}]}
=============================================================================
