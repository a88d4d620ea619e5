------------------------------ MODULE RunRecord ------------------------------
(***************************************************************************)
(* The directory one run leaves behind: evidence.json and events.jsonl, as   *)
(* controller/record.py and evidence/journal.py write them, driven the way   *)
(* controller/run.py and the phases drive them.  What the controller         *)
(* measures is left out: it appends transitions, persists, opens and keeps   *)
(* iterations, and decides, in any order the code allows.  What may go wrong *)
(* is not: an exception or an interrupt strikes before or within any write,  *)
(* and the process may be killed at any point.                               *)
(***************************************************************************)
EXTENDS Verification

CONSTANTS
  Decisions,      \* what a run may be decided as, a set of [status, reasons]
  Accidents,      \* which accidents may happen, a subset of AccidentKinds
  MaxTransitions, \* bound on the journal while the run measures
  MaxIterations   \* bound on the iterations, the run's own budget

AccidentKinds == {"error", "error in append", "error in write", "kill"}

ASSUME DecisionsAssumption ==
  \A d \in Decisions : d.status \in {"ACCEPTED", "REJECTED", "ESCALATED"}
ASSUME AccidentsAssumption == Accidents \subseteq AccidentKinds
ASSUME BoundsAssumption == MaxTransitions \in Nat /\ MaxIterations \in Nat

VARIABLES
  pc,        \* where the controller is
  ending,    \* Running, the decision in flight, or Failed
  journal,   \* events.jsonl
  sequence,  \* Journal._sequence, the tail the writer chains on
  document,  \* RunRecord.document: [decision, iterations]
  attempt,   \* whether RunRecord.attempt holds an iteration
  evidence   \* evidence.json

vars == <<pc, ending, journal, sequence, document, attempt, evidence>>

Failed == [status |-> "failed", reasons |-> {}]

Opening == <<"run.started", "inputs.frozen", "inference.profiles_frozen">>

Event(n, type, decision) == [sequence |-> n, type |-> type, decision |-> decision]

Closing == {"closing", "recording", "finishing", "writing"}

Ended == {"returned", "raised", "killed"}

Init ==
  /\ pc = "preparing"
  /\ ending = Running
  /\ journal = <<>>
  /\ sequence = 0
  /\ document = [decision |-> Running, iterations |-> 0]
  /\ attempt = FALSE
  /\ evidence = Absent

-----------------------------------------------------------------------------
(* Mutated forms, used only to show that a property notices them.           *)

\* An event numbered by the tail itself instead of the event after it.
RecordAtTail(type, decision) ==
  /\ journal' = Append(journal, Event(sequence, type, decision))
  /\ sequence' = sequence + 1

\* The attempt cleared without joining the iterations kept.
DropAttempt == attempt' = FALSE /\ UNCHANGED document

\* The decision stated without its reasons.
StateStatusOnly ==
  /\ pc = "closing"
  /\ document' = [document EXCEPT !.decision = [ending EXCEPT !.reasons = {}]]
  /\ pc' = "recording"
  /\ UNCHANGED <<ending, journal, sequence, attempt, evidence>>

\* The record written before the journal closed on the decision.
RecordFirst ==
  /\ pc = "finishing"
  /\ evidence' = Written(document.decision, document.iterations, sequence)
  /\ pc' = "writing"
  /\ UNCHANGED <<ending, journal, sequence, document, attempt>>

\* An abort that states a status of its own.
AbortAsFailed ==
  /\ pc = "aborting"
  /\ journal' = Append(journal, Event(sequence + 1, "run.aborted", Failed))
  /\ sequence' = sequence + 1
  /\ pc' = "raised"
  /\ UNCHANGED <<ending, document, attempt, evidence>>

-----------------------------------------------------------------------------

\* Journal.record: append one line, then move the tail to it.
Record(type, decision) ==
  /\ journal' = Append(journal, Event(sequence + 1, type, decision))
  /\ sequence' = sequence + 1

\* RunRecord.written: an iteration in progress is written as far as it got.
Rendered ==
  Written(document.decision, document.iterations + (IF attempt THEN 1 ELSE 0), sequence)

\* RunRecord.keep.
Keep ==
  /\ document' = [document EXCEPT !.iterations = @ + (IF attempt THEN 1 ELSE 0)]
  /\ attempt' = FALSE

\* Where control goes once a phase ended this way and its iteration, if any,
\* was kept: the handlers of run().
Handler(end) ==
  IF end = Running THEN "running" ELSE IF end = Failed THEN "aborting" ELSE "closing"

-----------------------------------------------------------------------------
(* prepare(): three events and the skeleton, outside the try of run().      *)

OpenJournal ==
  /\ pc = "preparing" /\ sequence < Len(Opening)
  /\ Record(Opening[sequence + 1], Running)
  /\ UNCHANGED <<pc, ending, document, attempt, evidence>>

WriteSkeleton ==
  /\ pc = "preparing" /\ sequence = Len(Opening)
  /\ evidence' = Rendered
  /\ pc' = "running"
  /\ UNCHANGED <<ending, journal, sequence, document, attempt>>

(* The phases, inside the try of run().                                     *)

Transition ==
  /\ pc = "running" /\ sequence < Len(Opening) + MaxTransitions
  /\ Record("transition", Running)
  /\ UNCHANGED <<pc, ending, document, attempt, evidence>>

Persist ==
  /\ pc = "running"
  /\ evidence' = Rendered
  /\ UNCHANGED <<pc, ending, journal, sequence, document, attempt>>

StartIteration ==
  /\ pc = "running" /\ ~attempt /\ document.iterations < MaxIterations
  /\ attempt' = TRUE
  /\ UNCHANGED <<pc, ending, journal, sequence, document, evidence>>

\* An iteration that only wants another one leaves through its finally.
ReturnIteration ==
  /\ pc = "running" /\ attempt
  /\ pc' = "keeping"
  /\ UNCHANGED <<ending, journal, sequence, document, attempt, evidence>>

\* A control speaks: a Rejection or an Escalation raised anywhere, or converge
\* returning, which it does between iterations.
Decide ==
  /\ pc = "running"
  /\ \E d \in Decisions :
       /\ d.status = "ACCEPTED" => ~attempt
       /\ ending' = d
  /\ pc' = IF attempt THEN "keeping" ELSE "closing"
  /\ UNCHANGED <<journal, sequence, document, attempt, evidence>>

\* The finally of _iterate: keep the attempt, persist.
KeepIteration ==
  /\ pc = "keeping"
  /\ Keep
  /\ evidence' = Written(document.decision, document'.iterations, sequence)
  /\ pc' = Handler(ending)
  /\ UNCHANGED <<ending, journal, sequence>>

(* RunRecord.close(), outside the try: the decision is stated in memory,     *)
(* then closes the journal, then reaches the record.                         *)

StateDecision ==
  /\ pc = "closing"
  /\ document' = [document EXCEPT !.decision = ending]
  /\ pc' = "recording"
  /\ UNCHANGED <<ending, journal, sequence, attempt, evidence>>

RecordDecision ==
  /\ pc = "recording"
  /\ Record("decision.recorded", document.decision)
  /\ pc' = "finishing"
  /\ UNCHANGED <<ending, document, attempt, evidence>>

FinishJournal ==
  /\ pc = "finishing"
  /\ Record("run.finished", document.decision)
  /\ pc' = "writing"
  /\ UNCHANGED <<ending, document, attempt, evidence>>

WriteRecord ==
  /\ pc = "writing"
  /\ evidence' = Rendered
  /\ pc' = "returned"
  /\ UNCHANGED <<ending, journal, sequence, document, attempt>>

\* RunRecord.abort(): the journal says what ended the run, the record does not.
Abort ==
  /\ pc = "aborting"
  /\ Record("run.aborted", Running)
  /\ pc' = "raised"
  /\ UNCHANGED <<ending, document, attempt, evidence>>

Controller ==
  \/ OpenJournal \/ WriteSkeleton
  \/ Transition \/ Persist \/ StartIteration \/ ReturnIteration \/ Decide \/ KeepIteration
  \/ StateDecision \/ RecordDecision \/ FinishJournal \/ WriteRecord
  \/ Abort

-----------------------------------------------------------------------------
(* Accidents.                                                                *)

\* Where an exception that is neither a Rejection nor an Escalation lands.
\* Nothing catches one raised by prepare, by close or by abort.
Rescue ==
  CASE pc = "running" -> IF attempt THEN "keeping" ELSE "aborting"
    [] pc = "keeping" -> "aborting"
    [] OTHER          -> "raised"

\* What is in flight then.  The close has no handler: the run ends with the
\* decision it had reached.
Thrown == IF pc \in Closing THEN ending ELSE Failed

\* The line the controller is about to append, as the set of its events.
NextLine ==
  CASE pc = "preparing" /\ sequence < Len(Opening) -> {<<Opening[sequence + 1], Running>>}
    [] pc = "running"   -> {<<"transition", Running>>}
    [] pc = "recording" -> {<<"decision.recorded", document.decision>>}
    [] pc = "finishing" -> {<<"run.finished", document.decision>>}
    [] pc = "aborting"  -> {<<"run.aborted", Running>>}
    [] OTHER            -> {}

\* Whether the controller may be writing evidence.json.
WritesRecord ==
  \/ pc \in {"running", "keeping", "writing"}
  \/ pc = "preparing" /\ sequence = Len(Opening)

Error ==
  /\ "error" \in Accidents /\ pc \notin Ended
  /\ pc' = Rescue
  /\ ending' = Thrown
  /\ UNCHANGED <<journal, sequence, document, attempt, evidence>>

\* The line is in the file and the tail was not moved to it.
ErrorInAppend ==
  /\ "error in append" \in Accidents
  /\ \E line \in NextLine :
       journal' = Append(journal, Event(sequence + 1, line[1], line[2]))
  /\ pc' = Rescue
  /\ ending' = Thrown
  /\ UNCHANGED <<sequence, document, attempt, evidence>>

\* The file was truncated and not written again.
ErrorInWrite ==
  /\ "error in write" \in Accidents /\ WritesRecord
  /\ evidence' = Torn
  /\ IF pc = "keeping" THEN Keep ELSE UNCHANGED <<document, attempt>>
  /\ pc' = Rescue
  /\ ending' = Thrown
  /\ UNCHANGED <<journal, sequence>>

Kill ==
  /\ "kill" \in Accidents /\ pc \notin Ended
  /\ evidence' = evidence \/ (WritesRecord /\ evidence' = Torn)
  /\ pc' = "killed"
  /\ UNCHANGED <<ending, journal, sequence, document, attempt>>

Terminated == pc \in Ended /\ UNCHANGED vars

Next == Controller \/ Error \/ ErrorInAppend \/ ErrorInWrite \/ Kill \/ Terminated

Spec == Init /\ [][Next]_vars

-----------------------------------------------------------------------------
Outcomes == Decisions \cup {Running, Failed}

EventTypes ==
  {"run.started", "inputs.frozen", "inference.profiles_frozen", "transition",
   "decision.recorded", "run.finished", "run.aborted"}

Events == [sequence : Nat, type : EventTypes, decision : Decisions \cup {Running}]

Records ==
  [readable : {TRUE}, decision : Decisions \cup {Running}, iterations : Nat, count : Nat]

TypeOK ==
  /\ pc \in {"preparing", "running", "keeping", "aborting"} \cup Closing \cup Ended
  /\ ending \in Outcomes
  /\ journal \in Seq(Events)
  /\ sequence \in Nat
  /\ document \in [decision : Decisions \cup {Running}, iterations : Nat]
  /\ attempt \in BOOLEAN
  /\ evidence \in Records \cup {Absent, Torn}

Last == journal[Len(journal)]

\* A record that states a decision has a journal that closed on that very
\* decision, and its events block describes that whole journal (close writes
\* the record last, so no crash leaves a status the chain does not hold).
RecordFollowsJournal ==
  evidence.readable /\ evidence.decision # Running =>
    /\ Len(journal) >= 2
    /\ Last.type = "run.finished" /\ Last.decision = evidence.decision
    /\ journal[Len(journal) - 1].type = "decision.recorded"
    /\ journal[Len(journal) - 1].decision = evidence.decision
    /\ evidence.count = Len(journal)

\* Whatever was interrupted, a directory verifies VALID exactly when close()
\* returned, and it holds the decision the controls reached.
ValidIsTheDecision ==
  /\ Verdict(evidence, journal) = "VALID" <=> pc = "returned"
  /\ pc = "returned" => evidence.decision = ending

\* The controller never makes a directory that reads as tampered with, but in
\* one case: an append struck after its line was written, then run.aborted
\* numbered and chained by the tail that was never moved.
InvalidOnlyAfterHalfAppend ==
  Verdict(evidence, journal) = "INVALID" =>
    /\ Last.type = "run.aborted"
    /\ Len(journal) = sequence + 1 \/ Len(journal) = sequence + 2

\* The record never counts events the journal does not hold.
RecordNeverAhead == evidence.readable => evidence.count <= Len(journal)

\* Neither history is rewritten.  The journal is append-only, and nothing the
\* controller does follows the event that closed it or said why it stopped; an
\* iteration the record once held stays in every later record that can be read,
\* however that iteration ended.
JournalGrows ==
  /\ Len(journal) <= Len(journal')
  /\ \A i \in DOMAIN journal : journal'[i] = journal[i]
  /\ journal' # journal /\ journal # <<>> => Last.type \notin {"run.finished", "run.aborted"}

IterationsStay ==
  evidence.readable /\ evidence'.readable => evidence'.iterations >= evidence.iterations

HistoryIsKept == [][JournalGrows /\ IterationsStay]_vars

-----------------------------------------------------------------------------
(* The lifecycle it implements.                                              *)

ClosedOn == IF Closings(journal) = {} THEN Running ELSE journal[ClosedCount(journal)].decision

Lifecycle == INSTANCE RunLifecycle WITH
  Undecided <- Running,
  stage <- IF pc \in Ended THEN "over" ELSE IF pc = "writing" THEN "decided" ELSE "open",
  closed <- ClosedOn,
  stated <- IF evidence.readable THEN evidence.decision ELSE Running

\* Every run is decided at most once, by its journal first, and is over once.
ImplementsLifecycle == Lifecycle!Spec
=============================================================================
