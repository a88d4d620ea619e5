----------------------------- MODULE MCRunRecord -----------------------------
(* Instances of RunRecord: two rejections that differ only by their reasons,  *)
(* so that a record stating one and a journal closing on the other would be   *)
(* told apart.                                                                *)
EXTENDS RunRecord

MCDecisions ==
  {[status |-> "ACCEPTED", reasons |-> {}],
   [status |-> "REJECTED", reasons |-> {"gate"}],
   [status |-> "REJECTED", reasons |-> {"scope"}],
   [status |-> "ESCALATED", reasons |-> {"review"}]}
=============================================================================
