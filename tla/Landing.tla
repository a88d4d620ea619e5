------------------------------- MODULE Landing -------------------------------
(***************************************************************************)
(* `codeservo land` (controller/landing.py): several invocations, of the      *)
(* same run or of others, against one repository and one register, each of   *)
(* which may be killed between any two of its steps.  Commits are their      *)
(* positions in the history, 0 being the commit every run measured; a commit *)
(* is the changes it holds, in the order they were made: a change made twice  *)
(* is not the change that was measured.                                      *)
(***************************************************************************)
EXTENDS Verification, FiniteSets, Functions

CONSTANTS
  Runs,       \* runs of one repository, frozen to the same base commit
  Decision,   \* the decision of each run, [status, reasons]
  Empty,      \* the runs whose patch is empty
  Landers,    \* invocations of `codeservo land`
  Foreign,    \* a change of the operator's own
  Twins,      \* whether two invocations of one run may be under way at once
  Reapplies   \* whether a patch may apply where its change is already made

ASSUME LandingAssumption ==
  /\ Twins \in BOOLEAN /\ Reapplies \in BOOLEAN
  /\ Foreign \notin Runs /\ Empty \subseteq Runs
  /\ \A r \in Runs : Decision[r].status \in {"ACCEPTED", "REJECTED", "ESCALATED"}

VARIABLES
  pc,        \* where each invocation is
  target,    \* the run it was asked to land
  held,      \* what it read and not yet used: the commit it made, the tail it resumed
  history,   \* the commits made since the base, each a sequence of changes
  index,     \* the changes in the working tree and index, not committed
  journal,   \* events.jsonl of each run
  register,  \* the runs whose findings each line of the register names
  crowded    \* history: two invocations were under way at once

vars == <<pc, target, held, history, index, journal, register, crowded>>
repo == <<history, index>>

Ended == {"landed", "refused", "killed"}
Active == {l \in Landers : pc[l] \notin Ended \cup {"idle"}}

Closing(d) ==
  <<[sequence |-> 1, type |-> "decision.recorded", decision |-> d, commit |-> 0],
    [sequence |-> 2, type |-> "run.finished", decision |-> d, commit |-> 0]>>

Evidence(run) == Written(Decision[run], 1, 2)

NothingHeld == [commit |-> 0, tail |-> 0]

Init ==
  /\ pc = [l \in Landers |-> "idle"]
  /\ target \in [Landers -> Runs]
  /\ held = [l \in Landers |-> NothingHeld]
  /\ history = <<>> /\ index = <<>>
  /\ journal = [r \in Runs |-> Closing(Decision[r])]
  /\ register = <<>> /\ crowded = FALSE

-----------------------------------------------------------------------------
(* Mutated forms, used only to show that a property notices them.           *)

\* A repository that moved on taken for the one the run measured.
HeadIgnored(l) ==
  /\ pc[l] = "verified"
  /\ pc' = [pc EXCEPT ![l] = "head checked"]
  /\ UNCHANGED <<target, held, repo, journal, register>>

\* The findings registered before the journal says the run landed.
RegisteredEarly(l) ==
  /\ pc[l] = "named"
  /\ register' = Append(register, target[l])
  /\ held' = [held EXCEPT ![l].tail = Len(journal[target[l]])]
  /\ pc' = [pc EXCEPT ![l] = "resumed"]
  /\ UNCHANGED <<target, repo, journal>>

\* An event numbered by the tail resumed instead of after it.
NumberedAtTail(l) == held[l].tail

-----------------------------------------------------------------------------

\* The first three refusals of land: what verify_run and the record say.
Landable(run) ==
  /\ Verdict(Evidence(run), journal[run]) = "VALID"
  /\ Decision[run].status = "ACCEPTED"
  /\ Len(journal[run]) = 2

Refuse(l) == pc' = [pc EXCEPT ![l] = "refused"] /\ UNCHANGED <<target, held, journal, register>>

MayStart(l) == Twins \/ \A m \in Active : target[m] # target[l]

Verify(l) ==
  /\ pc[l] = "idle" /\ MayStart(l)
  /\ UNCHANGED repo
  /\ IF Landable(target[l])
     THEN pc' = [pc EXCEPT ![l] = "verified"] /\ UNCHANGED <<target, held, journal, register>>
     ELSE Refuse(l)

CheckHead(l) ==
  /\ pc[l] = "verified"
  /\ UNCHANGED repo
  /\ IF history = <<>>
     THEN pc' = [pc EXCEPT ![l] = "head checked"] /\ UNCHANGED <<target, held, journal, register>>
     ELSE Refuse(l)

\* No uncommitted work, and something in the patch.
CheckClean(l) ==
  /\ pc[l] = "head checked"
  /\ UNCHANGED repo
  /\ IF index = <<>> /\ target[l] \notin Empty
     THEN pc' = [pc EXCEPT ![l] = "clean"] /\ UNCHANGED <<target, held, journal, register>>
     ELSE Refuse(l)

Present(change) ==
  change \in Range(index) \/ \E i \in DOMAIN history : change \in Range(history[i])

\* git apply --index: all of the patch or nothing, over what the tree holds now.
\* It applies to the tree it was taken from.  Over other changes it may not; over
\* its own it may, at an offset, wherever the lines it expects stand again.
Apply(l) ==
  /\ pc[l] = "clean"
  /\ UNCHANGED history
  /\ \/ /\ Present(target[l]) => Reapplies
        /\ index' = Append(index, target[l])
        /\ pc' = [pc EXCEPT ![l] = "applied"]
        /\ UNCHANGED <<target, held, journal, register>>
     \/ /\ index # <<>> \/ history # <<>>
        /\ Refuse(l) /\ UNCHANGED index

\* git commit takes whatever the index holds.  One that fails (a hook, an
\* identity, an index already committed by another) leaves the patch applied.
Commit(l) ==
  /\ pc[l] = "applied"
  /\ \/ /\ index # <<>>
        /\ history' = Append(history, index) /\ index' = <<>>
        /\ pc' = [pc EXCEPT ![l] = "committed"]
        /\ UNCHANGED <<target, held, journal, register>>
     \/ Refuse(l) /\ UNCHANGED repo

\* git rev-parse HEAD, after the commit: the commit the journal will name.
NameCommit(l) ==
  /\ pc[l] = "committed"
  /\ held' = [held EXCEPT ![l].commit = Len(history)]
  /\ pc' = [pc EXCEPT ![l] = "named"]
  /\ UNCHANGED <<target, repo, journal, register>>

\* Journal.resume: the tail, once the chain was replayed.
Resume(l) ==
  /\ pc[l] = "named"
  /\ UNCHANGED repo
  /\ IF ChainHolds(journal[target[l]])
     THEN /\ held' = [held EXCEPT ![l].tail = Len(journal[target[l]])]
          /\ pc' = [pc EXCEPT ![l] = "resumed"]
          /\ UNCHANGED <<target, journal, register>>
     ELSE Refuse(l)

NextSequence(l) == held[l].tail + 1

RecordLanding(l) ==
  /\ pc[l] = "resumed"
  /\ journal' = [journal EXCEPT ![target[l]] =
       Append(@, [sequence |-> NextSequence(l), type |-> "run.landed", decision |-> Running,
                  commit |-> held[l].commit])]
  /\ pc' = [pc EXCEPT ![l] = "recorded"]
  /\ UNCHANGED <<target, held, repo, register>>

Register(l) ==
  /\ pc[l] = "recorded"
  /\ register' = Append(register, target[l])
  /\ pc' = [pc EXCEPT ![l] = "landed"]
  /\ UNCHANGED <<target, held, repo, journal>>

Land(l) ==
  \/ Verify(l) \/ CheckHead(l) \/ CheckClean(l) \/ Apply(l) \/ Commit(l) \/ NameCommit(l)
  \/ Resume(l) \/ RecordLanding(l) \/ Register(l)

Kill(l) ==
  /\ l \in Active
  /\ pc' = [pc EXCEPT ![l] = "killed"]
  /\ UNCHANGED <<target, held, repo, journal, register>>

\* The operator edits, discards or commits in the repository, while nothing is
\* being landed there.
OperatorActs ==
  /\ Active = {}
  /\ \/ Foreign \notin Range(index) /\ index' = Append(index, Foreign) /\ UNCHANGED history
     \/ index' = <<>> /\ UNCHANGED history
     \/ /\ index # <<>> /\ Len(history) < Cardinality(Landers)
        /\ history' = Append(history, index) /\ index' = <<>>
  /\ UNCHANGED <<pc, target, held, journal, register>>

Next ==
  /\ OperatorActs \/ \E l \in Landers : Land(l) \/ Kill(l)
  /\ crowded' = (crowded \/ \E l, m \in Active' : l # m)

Spec == Init /\ [][Next]_vars

-----------------------------------------------------------------------------
Landings(run) == {i \in DOMAIN journal[run] : journal[run][i].type = "run.landed"}

\* The commit a run is said to have landed as holds that run's patch once and
\* nothing else, directly on the commit the run measured, and the run was accepted
\* with something to land.
LandedAsMeasured ==
  \A r \in Runs : \A i \in Landings(r) :
    /\ journal[r][i].commit = 1 /\ history # <<>> /\ history[1] = <<r>>
    /\ Decision[r].status = "ACCEPTED" /\ r \notin Empty

\* It is so, wherever invocations were killed and whatever the operator did between
\* them, as long as no two were ever under way at once.
LandedAloneAsMeasured == ~crowded => LandedAsMeasured

\* Landing never spoils a run directory: whatever was killed, it verifies.
LandingVerifies == \A r \in Runs : Verdict(Evidence(r), journal[r]) = "VALID"

\* The findings of a run are registered once at most, after the journal said it
\* landed.
RegisteredOnce ==
  /\ \A i \in DOMAIN register : Landings(register[i]) # {}
  /\ \A i, j \in DOMAIN register : register[i] = register[j] => i = j

\* A run already landed is not landed again.
LandedOnce == \A r \in Runs : Cardinality(Landings(r)) <= 1
=============================================================================
