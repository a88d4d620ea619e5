---------------------------- MODULE Verification ----------------------------
(***************************************************************************)
(* What `codeservo verify` concludes from a run directory alone              *)
(* (evidence/verify.py), for the part that relates the record to the         *)
(* journal.  An event is [sequence, type, decision]; its link to the event   *)
(* before it and its digest hold exactly when its sequence does, because the *)
(* writer draws both from the same in-memory tail.                           *)
(***************************************************************************)
EXTENDS Naturals, Sequences

Running == [status |-> "RUNNING", reasons |-> {}]

\* evidence.json before it is first written, and caught between the truncation
\* and the write of write_json: verify_run raises on both.
Absent == [readable |-> FALSE, why |-> "absent"]
Torn   == [readable |-> FALSE, why |-> "torn"]

\* The record as it is read back: the decision it states, the iterations it
\* holds and the number of events its events block counts.
Written(decision, iterations, count) ==
  [readable |-> TRUE, decision |-> decision, iterations |-> iterations, count |-> count]

ChainHolds(journal) == \A i \in DOMAIN journal : journal[i].sequence = i

Closings(journal) == {i \in DOMAIN journal : journal[i].type = "run.finished"}

\* How many events the decision closed: through the first run.finished, or all.
ClosedCount(journal) ==
  IF Closings(journal) = {} THEN Len(journal)
  ELSE CHOOSE i \in Closings(journal) : \A j \in Closings(journal) : i <= j

DecisionAgrees(evidence, journal) ==
  LET closed == ClosedCount(journal)
  IN  /\ closed >= 2
      /\ journal[closed].type = "run.finished"
      /\ journal[closed].decision.status = evidence.decision.status
      /\ journal[closed - 1].type = "decision.recorded"
      /\ journal[closed - 1].decision = evidence.decision

\* What may follow the decision: nothing, or the landing of an accepted run.
LandingAgrees(evidence, journal) ==
  LET closed == ClosedCount(journal)
  IN  \/ Len(journal) = closed
      \/ /\ Len(journal) = closed + 1
         /\ journal[Len(journal)].type = "run.landed"
         /\ evidence.decision.status = "ACCEPTED"

\* The verdict of verify_run; UNREADABLE stands for the VerificationError it
\* raises when there is no record to read.
Verdict(evidence, journal) ==
  IF ~evidence.readable THEN "UNREADABLE"
  ELSE IF ~ChainHolds(journal) THEN "INVALID"
  ELSE IF evidence.decision.status = "RUNNING" THEN "INCOMPLETE"
  ELSE IF /\ evidence.count = ClosedCount(journal)
          /\ DecisionAgrees(evidence, journal)
          /\ LandingAgrees(evidence, journal) THEN "VALID"
  ELSE "INVALID"
=============================================================================
