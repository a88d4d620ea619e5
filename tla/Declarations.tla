---------------------------- MODULE Declarations ----------------------------
(***************************************************************************)
(* How the two control inputs of a run are read before anything is frozen:    *)
(* a constitution, gate by gate (policies/constitution.py), a task, criterion *)
(* by criterion (domain/task.py), and the two held to each other              *)
(* (undeclared_gates in controller/context.py).  They are files people write: *)
(* every refusal of a reader is a conjunct here, and what it accepts is what  *)
(* the rest of the controller is written against.                             *)
(***************************************************************************)
EXTENDS Constitutions, FiniteSets

CONSTANTS
  GateItems,      \* the [[gate]] tables a constitution may hold
  CriterionLines, \* the criterion lines a task may hold
  MaxGates, MaxCriteria   \* bounds on each

GateItem == [name : STRING, says : SUBSET {"command", "task"}, phase : Phases, baseline : BOOLEAN,
             sensor : {"none", "empty", "named"}, format : Formats,
             reports : {"none", "inside", "outside"},
             ratchet : {"none", "no metric", "at_most", "at_least"}]

\* How a criterion's line ends: with nothing of note, with a verification, with one
\* spelled wrong or naming no gate, or with braces that are the criterion's own;
\* behind it, another one may stand.
Verifications == {"none", "review", "gate", "no gate", "misspelt", "its own braces"}

CriterionLine == [id : STRING, ends : Verifications, gate : STRING, states : BOOLEAN,
                  before : Verifications]

ASSUME DeclarationsAssumption ==
  /\ GateItems \subseteq GateItem /\ CriterionLines \subseteq CriterionLine
  /\ MaxGates \in Nat /\ MaxCriteria \in Nat

VARIABLES
  execution,  \* what [execution] declares
  gates,      \* the [[gate]] tables, in order
  criteria    \* the criterion lines of the task, in order

declarationVars == <<execution, gates, criteria>>

-----------------------------------------------------------------------------
(* Mutated forms, used only to show that a property notices them.           *)

\* A ratchet wherever a document is written.
RatchetsWithoutBaseline(item) ==
  item.ratchet # "none" => item.format # "exit-code" /\ item.ratchet # "no metric"

-----------------------------------------------------------------------------
(* One gate.                                                                 *)

\* _execution: a provider without its manifest and its lockfile is refused.
ReadableExecution == execution # "no lockfile"

\* _measurement: a command or a task, and a task only through a provider.
Measures(item) == Cardinality(item.says) = 1 /\ ("task" \in item.says => execution = "declared")

\* _sensor: a gate outside the baseline runs a frozen sensor, one inside it none.
SensorOf(item) == item.sensor # "empty" /\ (item.baseline <=> item.sensor = "none")

\* _reports: a pattern under the tree where the document is projected, none elsewhere.
ReportsOf(item) == item.reports = IF item.format = "reports" THEN "inside" ELSE "none"

\* _ratchets: two documents to compare, and a metric to compare in them.
RatchetOf(item) ==
  item.ratchet # "none" => /\ item.format # "exit-code" /\ item.baseline
                           /\ item.ratchet # "no metric"

ReadableGate(item) == Measures(item) /\ SensorOf(item) /\ ReportsOf(item) /\ RatchetOf(item)

\* load_constitution: every gate readable, no name twice, no phase without a gate.
ReadableConstitution ==
  /\ ReadableExecution
  /\ \A i \in DOMAIN gates : ReadableGate(gates[i])
  /\ \A i, j \in DOMAIN gates : gates[i].name = gates[j].name => i = j
  /\ \A phase \in Phases : \E i \in DOMAIN gates : gates[i].phase = phase

\* The gates as the run holds them.
Read(item) == [name |-> item.name, phase |-> item.phase, baseline |-> item.baseline,
               task |-> "task" \in item.says, format |-> item.format, ratchet |-> item.ratchet]

-----------------------------------------------------------------------------
(* One criterion.                                                            *)

IsVerification(ending) == ending \in {"review", "gate"}

\* _verification and _criterion: an ending that opens like a verification is one or
\* is refused, two of them are refused, and something is left to state.
ReadableCriterion(line) ==
  /\ line.ends \notin {"no gate", "misspelt"}
  /\ IsVerification(line.ends) => line.before \in {"none", "its own braces"} /\ line.states

\* The gate that decides it, or nothing when the reviewer does.
Decides(line) == IF line.ends = "gate" THEN {line.gate} ELSE {}

ReadableTask ==
  /\ criteria # <<>>
  /\ \A i \in DOMAIN criteria : ReadableCriterion(criteria[i])
  /\ \A i, j \in DOMAIN criteria : criteria[i].id = criteria[j].id => i = j

\* undeclared_gates: none.
GatesDeclared == \A i \in DOMAIN criteria :
  \A gate \in Decides(criteria[i]) : \E j \in DOMAIN gates : gates[j].name = gate

Accepted == ReadableTask /\ ReadableConstitution /\ GatesDeclared

-----------------------------------------------------------------------------

DeclarationsInit ==
  /\ execution \in {"none", "declared", "no lockfile"}
  /\ gates = <<>> /\ criteria = <<>>

\* A reader stops at the first gate, or criterion, it refuses: nothing is written
\* behind one.
DeclareGate ==
  /\ criteria = <<>> /\ Len(gates) < MaxGates
  /\ \A i \in DOMAIN gates : ReadableGate(gates[i])
  /\ \E item \in GateItems : gates' = Append(gates, item)
  /\ UNCHANGED <<execution, criteria>>

StateCriterion ==
  /\ ReadableConstitution /\ Len(criteria) < MaxCriteria
  /\ \A i \in DOMAIN criteria : ReadableCriterion(criteria[i])
  /\ \E line \in CriterionLines : criteria' = Append(criteria, line)
  /\ UNCHANGED <<execution, gates>>

DeclarationsNext == DeclareGate \/ StateCriterion

DeclarationsSpec == DeclarationsInit /\ [][DeclarationsNext]_declarationVars

-----------------------------------------------------------------------------

\* What the readers accept between them leaves no control mute and no criterion to
\* nobody: the gates are the constitution the controller's phases assume, each
\* with something to run and one that answers where the controller looks; every
\* ratchet has its two documents; every gate the baseline leaves out is a frozen
\* sensor's; and a criterion its line gives to a gate is decided by one declared
\* gate, the reviewer being left only those that name no verification or ask for
\* it (constitution.py:192-201, 237-245, task.py:24-27, context.py:54-62).
AcceptedLeavesNoControlMute ==
  Accepted =>
    /\ IsConstitution([i \in DOMAIN gates |-> Read(gates[i])])
    /\ \A i \in DOMAIN gates :
         /\ "task" \in gates[i].says => execution = "declared"
         /\ ~gates[i].baseline => gates[i].sensor = "named"
         /\ gates[i].ratchet # "none" => gates[i].reports # "outside" /\ gates[i].sensor = "none"
         /\ gates[i].format = "reports" => gates[i].reports = "inside"
    /\ \A i \in DOMAIN criteria :
         IF criteria[i].ends = "gate"
         THEN Cardinality({j \in DOMAIN gates : gates[j].name \in Decides(criteria[i])}) = 1
         ELSE Decides(criteria[i]) = {} /\ criteria[i].ends \notin {"no gate", "misspelt"}
=============================================================================
