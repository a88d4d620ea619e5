--------------------------- MODULE ReviewDecision ---------------------------
(***************************************************************************)
(* The acceptance rules the controller applies to what the reviewer         *)
(* returned (controller/decision.py).  A review is an answer of the         *)
(* reviewer as the controller parsed it: the list of criteria it reports,   *)
(* each with a status, and the severities of the findings it raises.  A     *)
(* reason is a pair <<kind, subject>>: the wording is left out, what the    *)
(* reason is about is kept.                                                 *)
(***************************************************************************)
EXTENDS Naturals, Sequences

CONSTANTS
  Reviewed,   \* ids of the criteria the task leaves to the reviewer
  Gated,      \* ids of the criteria the task gives to a gate
  Blocking    \* severities the constitution declares blocking

\* load_task refuses a criterion declared twice: one verification each.
ASSUME CriteriaAssumption == Reviewed \cap Gated = {}

Statuses == {"satisfied", "not_satisfied", "not_verifiable", "unrecognised"}

TaskCriteria == Reviewed \cup Gated

Ids(review) == {review.criteria[i].id : i \in DOMAIN review.criteria}

\* Only the last of two items naming one criterion survives in the mapping
\* the code builds from the list.
LastReport(review, c) ==
  CHOOSE i \in DOMAIN review.criteria :
    /\ review.criteria[i].id = c
    /\ \A j \in DOMAIN review.criteria : review.criteria[j].id = c => j <= i

Reported(review, c) == review.criteria[LastReport(review, c)].status

Duplicated(review) ==
  {review.criteria[i].id : i \in
     {k \in DOMAIN review.criteria :
        \E j \in DOMAIN review.criteria :
          j < k /\ review.criteria[j].id = review.criteria[k].id}}

BlockingFindings(review) ==
  {<<"finding", s>> : s \in review.findings \cap Blocking}

-----------------------------------------------------------------------------
(* Mutated forms, used only to show that a property notices them.           *)

\* A criterion the reviewer could not verify taken for a satisfied one.
EscalationsWithoutUnverified(review) ==
  {<<"contradicts", c>> :
     c \in {g \in Gated \cap Ids(review) : Reported(review, g) = "not_satisfied"}}

\* The feedback without the findings.
FeedbackWithoutFindings(review) ==
  {<<"criterion", c>> :
     c \in {r \in Reviewed \cap Ids(review) : Reported(review, r) # "satisfied"}}

\* The reasons without the unknown criteria.
DecisionWithoutUnknown(review) ==
  {<<"duplicated", c>> : c \in Duplicated(review)}
    \cup {<<"missing", c>> : c \in Reviewed \ Ids(review)}
    \cup {<<"criterion", c>> :
            c \in {r \in Reviewed \cap Ids(review) :
                     Reported(review, r) \notin {"satisfied", "not_verifiable"}}}
    \cup BlockingFindings(review)

-----------------------------------------------------------------------------

\* What the reviewer got wrong about the criteria it was asked to decide: a
\* fault of the sensor, never fed back.
ReviewFaults(review) ==
  {<<"duplicated", c>> : c \in Duplicated(review)}
    \cup {<<"missing", c>> : c \in Reviewed \ Ids(review)}
    \cup {<<"unknown", c>> : c \in Ids(review) \ TaskCriteria}

\* Why the review decided against the candidate, if it did.
ReviewReasons(review) ==
  {<<"duplicated", c>> : c \in Duplicated(review)}
    \cup {<<"missing", c>> : c \in Reviewed \ Ids(review)}
    \cup {<<"criterion", c>> :
            c \in {r \in Reviewed \cap Ids(review) :
                     Reported(review, r) \notin {"satisfied", "not_verifiable"}}}
    \cup {<<"unknown", c>> : c \in Ids(review) \ TaskCriteria}
    \cup BlockingFindings(review)

\* What the review leaves to a person: a criterion nobody could verify, and a
\* gate that passed contradicted by the reviewer.
ReviewEscalations(review) ==
  {<<"not_verifiable", c>> :
     c \in {r \in Reviewed \cap Ids(review) : Reported(review, r) = "not_verifiable"}}
    \cup {<<"contradicts", c>> :
            c \in {g \in Gated \cap Ids(review) : Reported(review, g) = "not_satisfied"}}

\* What the actuator is told of it.
ReviewFeedback(review) ==
  {<<"criterion", c>> :
     c \in {r \in Reviewed \cap Ids(review) : Reported(review, r) # "satisfied"}}
    \cup BlockingFindings(review)

-----------------------------------------------------------------------------
(* What the rules promise of one answer.                                    *)

\* The reviewer answered exactly what it was asked, and every answer is yes.
FullySatisfied(review) ==
  /\ \A c \in Reviewed : \E i \in DOMAIN review.criteria : review.criteria[i].id = c
  /\ \A i \in DOMAIN review.criteria :
       LET item == review.criteria[i]
       IN  /\ item.id \in TaskCriteria
           /\ item.id \in Reviewed => item.status = "satisfied"
           /\ item.id \in Gated => item.status # "not_satisfied"
           /\ \A j \in DOMAIN review.criteria : review.criteria[j].id = item.id => j = i
  /\ review.findings \cap Blocking = {}

\* A misreported review ends the run as Rejection(reasons), with the reasons
\* review_decision computed on its own: each fault must be one of them, or the
\* run would be rejected without saying what the reviewer got wrong.
FaultIsAReason(review) == ReviewFaults(review) \subseteq ReviewReasons(review)

\* A candidate is accepted on the silence of both functions: only a review
\* that found everything satisfied may stay silent.
SilenceMeansSatisfied(review) ==
  ReviewReasons(review) = {} /\ ReviewEscalations(review) = {} => FullySatisfied(review)

\* The converse: a review that found everything satisfied neither objects nor
\* leaves anything to a person.
SatisfiedMeansSilence(review) ==
  FullySatisfied(review) => ReviewReasons(review) = {} /\ ReviewEscalations(review) = {}

\* Unless the review is a broken sensor, everything it decided against the
\* candidate is spelled out for the actuator: no iteration is spent on an
\* objection nobody was told about.
ObjectionIsFedBack(review) ==
  ReviewFaults(review) = {} => ReviewReasons(review) \subseteq ReviewFeedback(review)
=============================================================================
