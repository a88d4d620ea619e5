------------------------------- MODULE Answers -------------------------------
(***************************************************************************)
(* A reviewer assembling its answer, one item at a time: criteria of the task,*)
(* whether they were left to it or not, and identifiers the task never        *)
(* declared.  Every answer of at most MaxItems items is a state.             *)
(***************************************************************************)
EXTENDS ReviewDecision

CONSTANTS MaxItems, Undeclared, Severities

VARIABLE review

\* The reviewer reports one more criterion, declared or not, asked or not.
ReportCriterion ==
  /\ Len(review.criteria) < MaxItems
  /\ \E c \in TaskCriteria \cup Undeclared, s \in Statuses :
       review' = [review EXCEPT !.criteria = Append(@, [id |-> c, status |-> s])]

\* The reviewer raises a finding of a severity it has not used yet.
RaiseFinding ==
  \E s \in Severities \ review.findings :
    review' = [review EXCEPT !.findings = @ \cup {s}]

AnswersInit == review = [criteria |-> <<>>, findings |-> {}]

AnswersNext == ReportCriterion \/ RaiseFinding

AnswersSpec == AnswersInit /\ [][AnswersNext]_review

\* Every fault the controller ends the run for is named by the reasons the
\* run is rejected with (review_candidate raises Rejection(reasons)).
FaultsAreNamed == FaultIsAReason(review)

\* Acceptance rests on two functions both returning nothing: that happens exactly
\* for an answer that satisfied every criterion left to the reviewer, without a
\* spurious objection to one that did.
SilentExactlyWhenSatisfied ==
  SilenceMeansSatisfied(review) /\ SatisfiedMeansSilence(review)

\* Every objection of a well-formed answer reaches the actuator.
ObjectionsAreFedBack == ObjectionIsFedBack(review)
=============================================================================
