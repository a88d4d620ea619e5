----------------------------- MODULE GateResults -----------------------------
(***************************************************************************)
(* What a gate's measurement can be (sensors/gates.py, observations.py) and  *)
(* what the controller reads in a phase's results (controller/               *)
(* gate_results.py, ratchet.py).  A gate is a position in the constitution;   *)
(* a document is reduced to how it classifies and to the one metric a ratchet *)
(* may read in it.                                                            *)
(***************************************************************************)
EXTENDS Constitutions

CONSTANTS
  Constitution,  \* the declared gates, in order: [name, phase, baseline, task,
                 \* format, ratchet]; task: it measures through the provider
  Metrics,       \* the values a metric takes, a set of integers
  NoMetric       \* a document without the metric, or no readable document

Occasions == {"baseline", "quick", "full"}

\* What the constitution's reader accepts.
ASSUME ConstitutionAssumption == IsConstitution(Constitution)

ASSUME MetricsAssumption == Metrics \subseteq Int /\ NoMetric \notin Int

Gates == DOMAIN Constitution

Endings == {"zero", "nonzero", "timeout"}

Classes == {"unset", "valid", "absent", "invalid", "contradicted"}

Result == [gate : Gates, ending : Endings, document : Classes, metric : Metrics \cup {NoMetric}]

\* The gates measured on one occasion: those declaring the phase, or, at the
\* baseline, those declaring baseline whatever their phase.
GatesOf(occasion) ==
  {g \in Gates : IF occasion = "baseline" THEN Constitution[g].baseline
                                          ELSE Constitution[g].phase = occasion}

Passed(result) == result.ending = "zero"

\* How what a gate left classifies against its exit code.  Only a document the
\* gate wrote itself can contradict it: a projection carries the exit code.  A
\* gate that failed before its tool reported anything projects a document.
DocumentsOf(gate, ending) ==
  CASE Constitution[gate].format = "exit-code"      -> {"unset"}
    [] Constitution[gate].format = "codeservo-json" -> Classes \ {"unset"}
    [] Constitution[gate].format = "reports"        ->
         {"valid", "invalid"} \cup (IF ending = "zero" THEN {"absent"} ELSE {})

Measurements(gate) ==
  {r \in Result : /\ r.gate = gate
                  /\ r.document \in DocumentsOf(gate, r.ending)
                  /\ r.document # "valid" => r.metric = NoMetric}

\* One measurement of every gate of the occasion, in the constitution's order.
Complete(results, occasion) ==
  GatesOf(occasion) = {results[k].gate : k \in DOMAIN results}

NextGate(results, occasion) ==
  {g \in GatesOf(occasion) : /\ \A k \in DOMAIN results : results[k].gate < g
                             /\ \A h \in GatesOf(occasion) :
                                  h < g => \E k \in DOMAIN results : results[k].gate = h}

-----------------------------------------------------------------------------
(* Mutated forms, used only to show that a property notices them.           *)

\* A timeout excusing any document.
SensorFaultsExcusingTimeouts(results) ==
  {<<"sensor error", Constitution[results[k].gate].name>> :
     k \in {j \in DOMAIN results : /\ results[j].document \notin {"unset", "valid"}
                                   /\ results[j].ending # "timeout"}}

\* A ratchet read the wrong way round.
HoldsSwapped(direction, was, now) == IF direction = "at_most" THEN was <= now ELSE was >= now

-----------------------------------------------------------------------------
\* A gate whose document is unreadable is a broken sensor.  A timeout excuses
\* only a document that was never written.
SensorFaults(results) ==
  {<<"sensor error", Constitution[results[k].gate].name>> :
     k \in {j \in DOMAIN results :
              /\ results[j].document \notin {"unset", "valid"}
              /\ ~(results[j].document = "absent" /\ results[j].ending = "timeout")}}

AllPassed(results) == \A k \in DOMAIN results : Passed(results[k])

Failures(results) ==
  {<<"gate failed", Constitution[results[k].gate].name>> :
     k \in {j \in DOMAIN results : ~Passed(results[j])}}

Holds(direction, was, now) == IF direction = "at_most" THEN now <= was ELSE now >= was

\* A ratchet is read over a gate that passed, between two documents that both
\* carry the metric; anything less and it is silent.
BrokenRatchets(baseline, candidate) ==
  {<<"ratchet broken", Constitution[candidate[k].gate].name>> :
     k \in {j \in DOMAIN candidate :
              LET gate == candidate[j].gate
              IN  /\ Constitution[gate].ratchet # "none"
                  /\ Passed(candidate[j])
                  /\ candidate[j].metric # NoMetric
                  /\ \E b \in DOMAIN baseline :
                       /\ baseline[b].gate = gate
                       /\ baseline[b].metric # NoMetric
                       /\ ~Holds(Constitution[gate].ratchet, baseline[b].metric,
                                 candidate[j].metric)}}

\* Why a phase decided against the candidate; the actuator is told the same.
Objections(baseline, candidate) ==
  Failures(candidate) \cup BrokenRatchets(baseline, candidate)
=============================================================================
