---------------------------- MODULE Constitutions ----------------------------
(***************************************************************************)
(* What a run assumes of the two declarations it is given once their readers  *)
(* accepted them: the gates of a constitution (policies/constitution.py) and  *)
(* the criteria of a task (domain/task.py).                                   *)
(***************************************************************************)
EXTENDS Integers, Sequences

\* Three of the declared formats are read from reports in the same way.
Formats == {"exit-code", "codeservo-json", "reports"}

Phases == {"quick", "full"}

DeclaredGate == [name : STRING, phase : Phases, baseline : BOOLEAN, task : BOOLEAN,
                 format : Formats, ratchet : {"none", "at_most", "at_least"}]

\* The reader refuses two gates of one name, a phase without a gate, and a ratchet
\* on a gate that is not measured at the baseline or that writes no document.
IsConstitution(gates) ==
  /\ gates \in Seq(DeclaredGate)
  /\ \A i, j \in DOMAIN gates : gates[i].name = gates[j].name => i = j
  /\ \A phase \in Phases : \E i \in DOMAIN gates : gates[i].phase = phase
  /\ \A i \in DOMAIN gates : gates[i].ratchet # "none" =>
       gates[i].baseline /\ gates[i].format # "exit-code"
=============================================================================
