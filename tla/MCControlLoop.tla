---------------------------- MODULE MCControlLoop ----------------------------
(* Instances of ControlLoop: small constitutions, and the reviews that tell    *)
(* the acceptance rules apart.                                                 *)
EXTENDS ControlLoop

Gate(name, phase, onBaseline, task, format, ratchet) ==
  [name |-> name, phase |-> phase, baseline |-> onBaseline, task |-> task,
   format |-> format, ratchet |-> ratchet]

\* Two quick gates, so that one may undo what the other did to the tree, and a
\* full gate that the baseline measures too.
PlainConstitution ==
  <<Gate("lint", "quick", FALSE, FALSE, "exit-code", "none"),
    Gate("unit", "quick", FALSE, FALSE, "exit-code", "none"),
    Gate("acceptance", "full", TRUE, TRUE, "exit-code", "none")>>

\* Gates that write documents, one held to the baseline by a ratchet.
DocumentConstitution ==
  <<Gate("coverage", "quick", TRUE, FALSE, "codeservo-json", "at_least"),
    Gate("suite", "full", TRUE, FALSE, "reports", "at_most")>>

Answer(statuses, findings) ==
  [criteria |-> [i \in DOMAIN statuses |-> [id |-> statuses[i][1], status |-> statuses[i][2]]],
   findings |-> findings]

MCReviews ==
  {Answer(<<<<"AC1", "satisfied">>>>, {}),
   Answer(<<<<"AC1", "satisfied">>>>, {"major"}),
   Answer(<<<<"AC1", "not_satisfied">>>>, {}),
   Answer(<<<<"AC1", "not_verifiable">>>>, {}),
   Answer(<<<<"AC1", "satisfied">>, <<"AC2", "not_satisfied">>>>, {}),
   Answer(<<>>, {})}

\* A fault, an objection, an escalation and a satisfied answer, where the
\* instance is large already.
FewReviews ==
  {Answer(<<<<"AC1", "satisfied">>>>, {}),
   Answer(<<<<"AC1", "not_satisfied">>>>, {}),
   Answer(<<<<"AC1", "not_verifiable">>>>, {}),
   Answer(<<>>, {})}
=============================================================================
