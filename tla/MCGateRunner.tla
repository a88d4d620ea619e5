----------------------------- MODULE MCGateRunner -----------------------------
(* Instances of GateRunner: a gate that is measured twice over its own stale   *)
(* reports, with a gate that writes its document in between.                  *)
EXTENDS GateRunner

Gate(name, format) ==
  [name |-> name, phase |-> "quick", baseline |-> TRUE, task |-> FALSE, format |-> format,
   ratchet |-> "none"]

MCConstitution ==
  <<Gate("suite", "reports"), Gate("adapter", "codeservo-json"),
    [Gate("build", "exit-code") EXCEPT !.phase = "full"]>>

MCSchedule == <<1, 2, 3, 1>>

MCMatched == <<Reports, {}, {}>>
=============================================================================
