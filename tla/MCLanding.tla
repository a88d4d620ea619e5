------------------------------ MODULE MCLanding ------------------------------
(* Instances of Landing: two accepted runs, a rejected one and one accepted over *)
(* no change, measured on the same commit.                                     *)
EXTENDS Landing

MCDecision ==
  [r \in Runs |-> IF r = "r3" THEN [status |-> "REJECTED", reasons |-> {"gate"}]
                  ELSE [status |-> "ACCEPTED", reasons |-> {}]]
=============================================================================
