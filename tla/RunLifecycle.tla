---------------------------- MODULE RunLifecycle ----------------------------
(***************************************************************************)
(* What a run promises whoever asked for it, whatever happens to the         *)
(* controller: it is decided at most once, the journal closes on that        *)
(* decision before the record states it, the record never states another,    *)
(* and a run that is over changes no more.                                   *)
(***************************************************************************)
CONSTANTS Decisions, Undecided

VARIABLES
  stage,    \* "open", "decided" or "over"
  closed,   \* the decision the journal closed on, or Undecided
  stated    \* the decision the record states, or Undecided

vars == <<stage, closed, stated>>

Init == stage = "open" /\ closed = Undecided /\ stated = Undecided

Decide ==
  /\ stage = "open"
  /\ stage' = "decided"
  /\ closed' \in Decisions
  /\ UNCHANGED stated

State ==
  /\ stage = "decided"
  /\ stage' = "over"
  /\ stated' = closed
  /\ UNCHANGED closed

\* The controller stops short of its own end, possibly in the very step that
\* closed the journal; nothing is stated by it.
Stop ==
  /\ stage # "over"
  /\ stage' = "over"
  /\ closed' = closed \/ (stage = "open" /\ closed' \in Decisions)
  /\ UNCHANGED stated

Next == Decide \/ State \/ Stop

Spec == Init /\ [][Next]_vars
=============================================================================
