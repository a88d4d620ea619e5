--------------------------- MODULE RunRecordProofs ---------------------------
(***************************************************************************)
(* What holds of every run directory, for any set of decisions, any accidents *)
(* and any bounds.  Inv adds to the properties what each location of the     *)
(* controller knows: that the decision stays out of the document until the    *)
(* close, that the tail in memory is the journal's outside of a failing run,  *)
(* and that the journal is open until its closing event.                      *)
(***************************************************************************)
EXTENDS RunRecord, SequenceTheorems, TLAPS

Open == {"preparing", "running", "keeping", "aborting", "closing"}

\* What the exception in flight and the document say at each location.
Control ==
  /\ pc \in {"preparing", "running"} => ending = Running
  /\ pc \in Closing => ending \in Decisions
  /\ pc \in Closing \ {"closing"} => document.decision = ending
  /\ pc \in Open => document.decision = Running

\* A half-appended line is only ever behind a run that is failing.
TailHolds ==
  /\ pc \in {"preparing", "running"} \cup Closing => sequence = Len(journal)
  /\ pc = "keeping" /\ ending # Failed => sequence = Len(journal)

Final == {"run.finished", "run.aborted"}

\* The journal is open until the event that closes it, which is its last.
FinalIsLast ==
  /\ pc \notin {"writing"} \cup Ended => \A i \in DOMAIN journal : journal[i].type \notin Final
  /\ \A i \in DOMAIN journal : journal[i].type \in Final => i = Len(journal)

\* The decision recorded, then the journal finished on it.
DecisionRecorded ==
  /\ pc = "finishing" =>
       /\ Len(journal) >= 1
       /\ Last.type = "decision.recorded" /\ Last.decision = document.decision
  /\ pc = "writing" =>
       /\ Len(journal) >= 2
       /\ Last.type = "run.finished" /\ Last.decision = document.decision
       /\ journal[Len(journal) - 1].type = "decision.recorded"
       /\ journal[Len(journal) - 1].decision = document.decision

\* The chain holds while no line was half-appended, and the tail never runs
\* ahead of the file.
ChainFollowsTail ==
  /\ sequence = Len(journal) => ChainHolds(journal)
  /\ sequence <= Len(journal)

\* A half-appended line keeps the chain; the abort that follows it does not.
HalfAppend ==
  /\ Len(journal) <= sequence + 2
  /\ pc \notin Ended => Len(journal) <= sequence + 1 /\ ChainHolds(journal)
  /\ ~ChainHolds(journal) => Last.type = "run.aborted"

\* The record never counts an event, nor an iteration, that was not there.
RecordFollowsMemory ==
  evidence.readable =>
    /\ evidence.count <= sequence
    /\ evidence.iterations <= document.iterations + (IF attempt THEN 1 ELSE 0)

\* The record states a decision only once close returned.
StatedAtTheEnd == evidence.readable /\ evidence.decision # Running => pc = "returned"

\* What close leaves behind when it returns.
Returned ==
  pc = "returned" =>
    /\ evidence.readable /\ evidence.decision = ending /\ ending \in Decisions
    /\ sequence = Len(journal)

Inv ==
  /\ TypeOK
  /\ Control /\ TailHolds /\ FinalIsLast /\ DecisionRecorded
  /\ ChainFollowsTail /\ HalfAppend /\ RecordFollowsMemory
  /\ Returned
  /\ StatedAtTheEnd /\ RecordFollowsJournal

-----------------------------------------------------------------------------

\* No decision is Running or Failed, which only stand for the want of one.
LEMMA Outside == Running \notin Decisions /\ Failed \notin Decisions /\ Running # Failed
  BY DecisionsAssumption DEF Running, Failed

\* What one append does to the journal, read by its indices.
LEMMA Appending ==
  ASSUME journal \in Seq(Events), sequence \in Nat,
         NEW type \in EventTypes, NEW d \in Decisions \cup {Running},
         journal' = Append(journal, Event(sequence + 1, type, d))
  PROVE  /\ journal' \in Seq(Events)
         /\ Len(journal') = Len(journal) + 1
         /\ Len(journal) \in Nat
         /\ DOMAIN journal = 1..Len(journal)
         /\ DOMAIN journal' = 1..(Len(journal) + 1)
         /\ \A i \in 1..Len(journal) : journal'[i] = journal[i]
         /\ journal'[Len(journal) + 1] = Event(sequence + 1, type, d)
<1> DEFINE event == Event(sequence + 1, type, d)
<1>1. event \in Events
  BY DEF Event, Events
<1>2. journal' = Append(journal, event)
  OBVIOUS
<1> HIDE DEF event
<1>3. /\ Append(journal, event) \in Seq(Events)
      /\ Len(Append(journal, event)) = Len(journal) + 1
      /\ \A i \in 1..Len(journal) : Append(journal, event)[i] = journal[i]
      /\ Append(journal, event)[Len(journal) + 1] = event
  BY <1>1, AppendProperties
<1>4. Len(journal) \in Nat /\ DOMAIN journal = 1..Len(journal)
  BY LenProperties
<1>5. DOMAIN journal' = 1..(Len(journal) + 1)
  BY <1>3, LenProperties
<1> QED
  BY <1>3, <1>4, <1>5 DEF event

LEMMA Initially == Init => Inv
<1> SUFFICES ASSUME Init PROVE Inv
  OBVIOUS
<1>1. TypeOK
  BY Outside, EmptySeq DEF Init, TypeOK, Outcomes, Closing, Ended
<1>2. Len(journal) = 0 /\ DOMAIN journal = {}
  BY EmptySeq, LenProperties DEF Init
<1> QED
  BY <1>1, <1>2 DEF Init, Inv, Control, TailHolds, FinalIsLast, DecisionRecorded,
    ChainFollowsTail, HalfAppend, ChainHolds, RecordFollowsMemory, Returned, StatedAtTheEnd, RecordFollowsJournal,
    Open, Closing, Ended, Absent

\* Before the close returns, the record states no decision.
LEMMA Unstated ==
  ASSUME Inv, pc # "returned"
  PROVE  ~(evidence.readable /\ evidence.decision # Running)
  BY DEF Inv, StatedAtTheEnd

LEMMA Counting ==
  ASSUME TypeOK
  PROVE  /\ document.decision \in Decisions \cup {Running}
         /\ document.iterations \in Nat
         /\ document.iterations + (IF attempt THEN 1 ELSE 0) \in Nat
         /\ evidence.readable => evidence.count \in Nat /\ evidence.iterations \in Nat
<1>1. CASE evidence \in Records
  BY <1>1 DEF TypeOK, Records
<1>2. CASE evidence \in {Absent, Torn}
  BY <1>2 DEF TypeOK, Absent, Torn
<1> QED
  BY <1>1, <1>2 DEF TypeOK

\* The chain holds over one more event when that event follows the last one.
LEMMA Chaining ==
  ASSUME NEW n \in Nat, NEW old, NEW new, DOMAIN old = 1..n, DOMAIN new = 1..(n + 1),
         \A i \in 1..n : new[i] = old[i],
         new[n + 1].sequence = n + 1, ChainHolds(old)
  PROVE  ChainHolds(new)
  BY DEF ChainHolds

\* What one line appended to an open journal keeps true, the tail moved or not.
LEMMA Appended ==
  ASSUME Inv, pc \notin {"writing"} \cup Ended,
         NEW type \in EventTypes, NEW d \in Decisions \cup {Running},
         journal' = Append(journal, Event(sequence + 1, type, d)),
         sequence' = sequence \/ sequence' = sequence + 1,
         UNCHANGED <<document, attempt, evidence>>
  PROVE  /\ journal' \in Seq(Events) /\ sequence' \in Nat
         /\ Len(journal) \in Nat /\ Len(journal') = Len(journal) + 1
         /\ \A i \in 1..Len(journal) : journal'[i] = journal[i]
         /\ Last' = Event(sequence + 1, type, d)
         /\ ChainFollowsTail' /\ RecordFollowsMemory'
         /\ sequence = Len(journal) => ChainHolds(journal')
         /\ \A i \in DOMAIN journal' : journal'[i].type \in Final => i = Len(journal')
         /\ type \notin Final => \A i \in DOMAIN journal' : journal'[i].type \notin Final
<1> DEFINE event == Event(sequence + 1, type, d)
<1>1. journal \in Seq(Events) /\ sequence \in Nat
  BY DEF Inv, TypeOK
<1>2. /\ journal' \in Seq(Events)
      /\ Len(journal') = Len(journal) + 1 /\ Len(journal) \in Nat
      /\ DOMAIN journal = 1..Len(journal)
      /\ DOMAIN journal' = 1..(Len(journal) + 1)
      /\ \A i \in 1..Len(journal) : journal'[i] = journal[i]
      /\ journal'[Len(journal) + 1] = event
  BY <1>1, Appending
<1>3. event.sequence = sequence + 1 /\ event.type = type
  BY DEF Event
<1> HIDE DEF event
<1>9. sequence \in Nat /\ Len(journal) \in Nat /\ Len(journal') = Len(journal) + 1
  BY <1>1, <1>2
<1>4. ASSUME sequence = Len(journal) PROVE ChainHolds(journal')
  <2>1. (journal'[Len(journal) + 1]).sequence = Len(journal) + 1
    BY <1>4, <1>2, <1>3
  <2>2. ChainHolds(journal)
    BY <1>4 DEF Inv, ChainFollowsTail
  <2> QED
    BY <2>1, <2>2, <1>2, Chaining
<1>11. sequence = Len(journal) => ChainHolds(journal')
  BY <1>4
<1>10. ChainFollowsTail'
  <2>1. sequence <= Len(journal)
    BY DEF Inv, ChainFollowsTail
  <2>2. sequence' <= Len(journal')
    BY <2>1, <1>9
  <2>3. sequence' = Len(journal') => sequence = Len(journal)
    BY <2>1, <1>9
  <2> QED
    BY <2>2, <2>3, <1>11 DEF ChainFollowsTail
<1>5. RecordFollowsMemory'
  <2>1. evidence.readable => evidence.count \in Nat
    BY Counting DEF Inv
  <2>2. sequence <= sequence'
    BY <1>1
  <2> QED
    BY <1>1, <2>1, <2>2 DEF Inv, RecordFollowsMemory
<1>6. \A i \in 1..Len(journal) : journal'[i].type \notin Final
  BY <1>2 DEF Inv, FinalIsLast
<1>7. /\ \A i \in DOMAIN journal' : journal'[i].type \in Final => i = Len(journal')
      /\ type \notin Final => \A i \in DOMAIN journal' : journal'[i].type \notin Final
  BY <1>2, <1>3, <1>6
<1>8. Last' = Event(sequence + 1, type, d)
  BY <1>2 DEF Last, event
<1>12. /\ journal' \in Seq(Events) /\ sequence' \in Nat
       /\ Len(journal) \in Nat /\ Len(journal') = Len(journal) + 1
  BY <1>2, <1>9
<1>13. \A i \in 1..Len(journal) : journal'[i] = journal[i]
  BY <1>2
<1> QED
  BY <1>5, <1>7, <1>8, <1>10, <1>11, <1>12, <1>13

LEMMA Inductive == Inv /\ [Next]_vars => Inv'
<1> SUFFICES ASSUME Inv, [Next]_vars PROVE Inv'
  OBVIOUS
<1>1. CASE WriteSkeleton
  <2>1. TypeOK'
    BY <1>1, Outside, Counting DEF Inv, TypeOK, Control, WriteSkeleton, Rendered, Written, Records, Outcomes, Closing, Ended
  <2>2. Control' /\ TailHolds'
    BY <1>1, Outside DEF Inv, TypeOK, Control, TailHolds, WriteSkeleton, Rendered, Outcomes, Open, Closing, Ended
  <2>3. FinalIsLast' /\ DecisionRecorded'
    BY <1>1 DEF Inv, TypeOK, FinalIsLast, DecisionRecorded, Last, WriteSkeleton, Rendered, Closing, Ended
  <2>4. ChainFollowsTail' /\ RecordFollowsMemory'
    BY <1>1, Counting DEF Inv, TypeOK, ChainFollowsTail, RecordFollowsMemory, WriteSkeleton, Rendered, Written, Torn, Absent
  <2>5. StatedAtTheEnd' /\ RecordFollowsJournal'
    BY <1>1, Unstated DEF Inv, TypeOK, Control, TailHolds, DecisionRecorded, StatedAtTheEnd, RecordFollowsJournal, Last,
      WriteSkeleton, Rendered, Open, Closing, Ended, Written, Torn, Absent
  <2>6. HalfAppend' /\ Returned'
    BY <1>1, Outside DEF Inv, TypeOK, Control, TailHolds, HalfAppend, Returned, Last, WriteSkeleton, Rendered, Closing, Ended, Written
  <2> QED
    BY <2>1, <2>2, <2>3, <2>4, <2>5, <2>6 DEF Inv
<1>2. CASE Persist
  <2>1. TypeOK'
    BY <1>2, Outside, Counting DEF Inv, TypeOK, Control, Persist, Rendered, Written, Records, Outcomes, Closing, Ended
  <2>2. Control' /\ TailHolds'
    BY <1>2, Outside DEF Inv, TypeOK, Control, TailHolds, Persist, Rendered, Outcomes, Open, Closing, Ended
  <2>3. FinalIsLast' /\ DecisionRecorded'
    BY <1>2 DEF Inv, TypeOK, FinalIsLast, DecisionRecorded, Last, Persist, Rendered, Closing, Ended
  <2>4. ChainFollowsTail' /\ RecordFollowsMemory'
    BY <1>2, Counting DEF Inv, TypeOK, ChainFollowsTail, RecordFollowsMemory, Persist, Rendered, Written, Torn, Absent
  <2>5. StatedAtTheEnd' /\ RecordFollowsJournal'
    BY <1>2, Unstated DEF Inv, TypeOK, Control, TailHolds, DecisionRecorded, StatedAtTheEnd, RecordFollowsJournal, Last,
      Persist, Rendered, Open, Closing, Ended, Written, Torn, Absent
  <2>6. HalfAppend' /\ Returned'
    BY <1>2, Outside DEF Inv, TypeOK, Control, TailHolds, HalfAppend, Returned, Last, Persist, Rendered, Closing, Ended, Written
  <2> QED
    BY <2>1, <2>2, <2>3, <2>4, <2>5, <2>6 DEF Inv
<1>3. CASE StartIteration
  <2>1. TypeOK'
    BY <1>3, Outside, Counting DEF Inv, TypeOK, Control, StartIteration, Outcomes, Closing, Ended
  <2>2. Control' /\ TailHolds'
    BY <1>3, Outside DEF Inv, TypeOK, Control, TailHolds, StartIteration, Outcomes, Open, Closing, Ended
  <2>3. FinalIsLast' /\ DecisionRecorded'
    BY <1>3 DEF Inv, TypeOK, FinalIsLast, DecisionRecorded, Last, StartIteration, Closing, Ended
  <2>4. ChainFollowsTail' /\ RecordFollowsMemory'
    BY <1>3, Counting DEF Inv, TypeOK, ChainFollowsTail, RecordFollowsMemory, StartIteration, Written, Torn, Absent
  <2>5. StatedAtTheEnd' /\ RecordFollowsJournal'
    BY <1>3, Unstated DEF Inv, TypeOK, Control, TailHolds, DecisionRecorded, StatedAtTheEnd, RecordFollowsJournal, Last,
      StartIteration, Open, Closing, Ended, Written, Torn, Absent
  <2>6. HalfAppend' /\ Returned'
    BY <1>3, Outside DEF Inv, TypeOK, Control, TailHolds, HalfAppend, Returned, Last, StartIteration, Closing, Ended, Written
  <2> QED
    BY <2>1, <2>2, <2>3, <2>4, <2>5, <2>6 DEF Inv
<1>4. CASE ReturnIteration
  <2>1. TypeOK'
    BY <1>4, Outside, Counting DEF Inv, TypeOK, Control, ReturnIteration, Outcomes, Closing, Ended
  <2>2. Control' /\ TailHolds'
    BY <1>4, Outside DEF Inv, TypeOK, Control, TailHolds, ReturnIteration, Outcomes, Open, Closing, Ended
  <2>3. FinalIsLast' /\ DecisionRecorded'
    BY <1>4 DEF Inv, TypeOK, FinalIsLast, DecisionRecorded, Last, ReturnIteration, Closing, Ended
  <2>4. ChainFollowsTail' /\ RecordFollowsMemory'
    BY <1>4, Counting DEF Inv, TypeOK, ChainFollowsTail, RecordFollowsMemory, ReturnIteration, Written, Torn, Absent
  <2>5. StatedAtTheEnd' /\ RecordFollowsJournal'
    BY <1>4, Unstated DEF Inv, TypeOK, Control, TailHolds, DecisionRecorded, StatedAtTheEnd, RecordFollowsJournal, Last,
      ReturnIteration, Open, Closing, Ended, Written, Torn, Absent
  <2>6. HalfAppend' /\ Returned'
    BY <1>4, Outside DEF Inv, TypeOK, Control, TailHolds, HalfAppend, Returned, Last, ReturnIteration, Closing, Ended, Written
  <2> QED
    BY <2>1, <2>2, <2>3, <2>4, <2>5, <2>6 DEF Inv
<1>5. CASE Decide
  <2>1. TypeOK'
    BY <1>5, Outside, Counting DEF Inv, TypeOK, Control, Decide, Outcomes, Closing, Ended
  <2>2. Control' /\ TailHolds'
    BY <1>5, Outside DEF Inv, TypeOK, Control, TailHolds, Decide, Outcomes, Open, Closing, Ended
  <2>3. FinalIsLast' /\ DecisionRecorded'
    BY <1>5 DEF Inv, TypeOK, FinalIsLast, DecisionRecorded, Last, Decide, Closing, Ended
  <2>4. ChainFollowsTail' /\ RecordFollowsMemory'
    BY <1>5, Counting DEF Inv, TypeOK, ChainFollowsTail, RecordFollowsMemory, Decide, Written, Torn, Absent
  <2>5. StatedAtTheEnd' /\ RecordFollowsJournal'
    BY <1>5, Unstated DEF Inv, TypeOK, Control, TailHolds, DecisionRecorded, StatedAtTheEnd, RecordFollowsJournal, Last,
      Decide, Open, Closing, Ended, Written, Torn, Absent
  <2>6. HalfAppend' /\ Returned'
    BY <1>5, Outside DEF Inv, TypeOK, Control, TailHolds, HalfAppend, Returned, Last, Decide, Closing, Ended, Written
  <2> QED
    BY <2>1, <2>2, <2>3, <2>4, <2>5, <2>6 DEF Inv
<1>6. CASE KeepIteration
  <2>1. TypeOK'
    BY <1>6, Outside, Counting DEF Inv, TypeOK, Control, KeepIteration, Keep, Handler, Written, Records, Outcomes, Closing, Ended
  <2>2. Control' /\ TailHolds'
    BY <1>6, Outside DEF Inv, TypeOK, Control, TailHolds, KeepIteration, Keep, Handler, Outcomes, Open, Closing, Ended
  <2>3. FinalIsLast' /\ DecisionRecorded'
    BY <1>6 DEF Inv, TypeOK, FinalIsLast, DecisionRecorded, Last, KeepIteration, Keep, Handler, Closing, Ended
  <2>4. ChainFollowsTail' /\ RecordFollowsMemory'
    BY <1>6, Counting DEF Inv, TypeOK, ChainFollowsTail, RecordFollowsMemory, KeepIteration, Keep, Handler, Written, Torn, Absent
  <2>5. StatedAtTheEnd' /\ RecordFollowsJournal'
    BY <1>6, Unstated DEF Inv, TypeOK, Control, TailHolds, DecisionRecorded, StatedAtTheEnd, RecordFollowsJournal, Last,
      KeepIteration, Keep, Handler, Open, Closing, Ended, Written, Torn, Absent
  <2>6. HalfAppend' /\ Returned'
    BY <1>6, Outside DEF Inv, TypeOK, Control, TailHolds, HalfAppend, Returned, Last, KeepIteration, Keep, Handler, Closing, Ended, Written
  <2> QED
    BY <2>1, <2>2, <2>3, <2>4, <2>5, <2>6 DEF Inv
<1>7. CASE StateDecision
  <2>1. TypeOK'
    BY <1>7, Outside, Counting DEF Inv, TypeOK, Control, StateDecision, Outcomes, Closing, Ended
  <2>2. Control' /\ TailHolds'
    BY <1>7, Outside DEF Inv, TypeOK, Control, TailHolds, StateDecision, Outcomes, Open, Closing, Ended
  <2>3. FinalIsLast' /\ DecisionRecorded'
    BY <1>7 DEF Inv, TypeOK, FinalIsLast, DecisionRecorded, Last, StateDecision, Closing, Ended
  <2>4. ChainFollowsTail' /\ RecordFollowsMemory'
    BY <1>7, Counting DEF Inv, TypeOK, ChainFollowsTail, RecordFollowsMemory, StateDecision, Written, Torn, Absent
  <2>5. StatedAtTheEnd' /\ RecordFollowsJournal'
    BY <1>7, Unstated DEF Inv, TypeOK, Control, TailHolds, DecisionRecorded, StatedAtTheEnd, RecordFollowsJournal, Last,
      StateDecision, Open, Closing, Ended, Written, Torn, Absent
  <2>6. HalfAppend' /\ Returned'
    BY <1>7, Outside DEF Inv, TypeOK, Control, TailHolds, HalfAppend, Returned, Last, StateDecision, Closing, Ended, Written
  <2> QED
    BY <2>1, <2>2, <2>3, <2>4, <2>5, <2>6 DEF Inv
<1>8. CASE WriteRecord
  <2>1. TypeOK'
    BY <1>8, Outside, Counting DEF Inv, TypeOK, Control, WriteRecord, Rendered, Written, Records, Outcomes, Closing, Ended
  <2>2. Control' /\ TailHolds'
    BY <1>8, Outside DEF Inv, TypeOK, Control, TailHolds, WriteRecord, Rendered, Outcomes, Open, Closing, Ended
  <2>3. FinalIsLast' /\ DecisionRecorded'
    BY <1>8 DEF Inv, TypeOK, FinalIsLast, DecisionRecorded, Last, WriteRecord, Rendered, Closing, Ended
  <2>4. ChainFollowsTail' /\ RecordFollowsMemory'
    BY <1>8, Counting DEF Inv, TypeOK, ChainFollowsTail, RecordFollowsMemory, WriteRecord, Rendered, Written, Torn, Absent
  <2>5. StatedAtTheEnd' /\ RecordFollowsJournal'
    BY <1>8, Unstated DEF Inv, TypeOK, Control, TailHolds, DecisionRecorded, StatedAtTheEnd, RecordFollowsJournal, Last,
      WriteRecord, Rendered, Open, Closing, Ended, Written, Torn, Absent
  <2>6. HalfAppend' /\ Returned'
    BY <1>8, Outside DEF Inv, TypeOK, Control, TailHolds, HalfAppend, Returned, Last, WriteRecord, Rendered, Closing, Ended, Written
  <2> QED
    BY <2>1, <2>2, <2>3, <2>4, <2>5, <2>6 DEF Inv
<1>9. CASE Error
  <2>1. TypeOK'
    BY <1>9, Outside, Counting DEF Inv, TypeOK, Control, Error, Rescue, Thrown, Outcomes, Closing, Ended
  <2>2. Control' /\ TailHolds'
    BY <1>9, Outside DEF Inv, TypeOK, Control, TailHolds, Error, Rescue, Thrown, Outcomes, Open, Closing, Ended
  <2>3. FinalIsLast' /\ DecisionRecorded'
    BY <1>9 DEF Inv, TypeOK, FinalIsLast, DecisionRecorded, Last, Error, Rescue, Thrown, Closing, Ended
  <2>4. ChainFollowsTail' /\ RecordFollowsMemory'
    BY <1>9, Counting DEF Inv, TypeOK, ChainFollowsTail, RecordFollowsMemory, Error, Rescue, Thrown, Written, Torn, Absent
  <2>5. StatedAtTheEnd' /\ RecordFollowsJournal'
    BY <1>9, Unstated DEF Inv, TypeOK, Control, TailHolds, DecisionRecorded, StatedAtTheEnd, RecordFollowsJournal, Last,
      Error, Rescue, Thrown, Open, Closing, Ended, Written, Torn, Absent
  <2>6. HalfAppend' /\ Returned'
    BY <1>9, Outside DEF Inv, TypeOK, Control, TailHolds, HalfAppend, Returned, Last, Error, Rescue, Thrown, Closing, Ended, Written
  <2> QED
    BY <2>1, <2>2, <2>3, <2>4, <2>5, <2>6 DEF Inv
<1>10. CASE ErrorInWrite
  <2>1. TypeOK'
    BY <1>10, Outside, Counting DEF Inv, TypeOK, Control, ErrorInWrite, Rescue, Thrown, Keep, WritesRecord, Outcomes, Closing, Ended
  <2>2. Control' /\ TailHolds'
    BY <1>10, Outside DEF Inv, TypeOK, Control, TailHolds, ErrorInWrite, Rescue, Thrown, Keep, WritesRecord, Outcomes, Open, Closing, Ended
  <2>3. FinalIsLast' /\ DecisionRecorded'
    BY <1>10 DEF Inv, TypeOK, FinalIsLast, DecisionRecorded, Last, ErrorInWrite, Rescue, Thrown, Keep, WritesRecord, Closing, Ended
  <2>4. ChainFollowsTail' /\ RecordFollowsMemory'
    BY <1>10, Counting DEF Inv, TypeOK, ChainFollowsTail, RecordFollowsMemory, ErrorInWrite, Rescue, Thrown, Keep, WritesRecord, Written, Torn, Absent
  <2>5. StatedAtTheEnd' /\ RecordFollowsJournal'
    BY <1>10, Unstated DEF Inv, TypeOK, Control, TailHolds, DecisionRecorded, StatedAtTheEnd, RecordFollowsJournal, Last,
      ErrorInWrite, Rescue, Thrown, Keep, WritesRecord, Open, Closing, Ended, Written, Torn, Absent
  <2>6. HalfAppend' /\ Returned'
    BY <1>10, Outside DEF Inv, TypeOK, Control, TailHolds, HalfAppend, Returned, Last, ErrorInWrite, Rescue, Thrown, Keep, WritesRecord, Closing, Ended, Written
  <2> QED
    BY <2>1, <2>2, <2>3, <2>4, <2>5, <2>6 DEF Inv
<1>11. CASE Kill
  <2>1. TypeOK'
    BY <1>11, Outside, Counting DEF Inv, TypeOK, Control, Kill, WritesRecord, Outcomes, Closing, Ended
  <2>2. Control' /\ TailHolds'
    BY <1>11, Outside DEF Inv, TypeOK, Control, TailHolds, Kill, WritesRecord, Outcomes, Open, Closing, Ended
  <2>3. FinalIsLast' /\ DecisionRecorded'
    BY <1>11 DEF Inv, TypeOK, FinalIsLast, DecisionRecorded, Last, Kill, WritesRecord, Closing, Ended
  <2>4. ChainFollowsTail' /\ RecordFollowsMemory'
    BY <1>11, Counting DEF Inv, TypeOK, ChainFollowsTail, RecordFollowsMemory, Kill, WritesRecord, Written, Torn, Absent
  <2>5. StatedAtTheEnd' /\ RecordFollowsJournal'
    BY <1>11, Unstated DEF Inv, TypeOK, Control, TailHolds, DecisionRecorded, StatedAtTheEnd, RecordFollowsJournal, Last,
      Kill, WritesRecord, Open, Closing, Ended, Written, Torn, Absent
  <2>6. HalfAppend' /\ Returned'
    BY <1>11, Outside DEF Inv, TypeOK, Control, TailHolds, HalfAppend, Returned, Last, Kill, WritesRecord, Closing, Ended, Written
  <2> QED
    BY <2>1, <2>2, <2>3, <2>4, <2>5, <2>6 DEF Inv
<1>12. CASE OpenJournal
  <2>1. pc \notin {"writing"} \cup Ended /\ pc # "returned"
    BY <1>12 DEF OpenJournal, Ended
  <2>2. Opening[sequence + 1] \in EventTypes /\ Running \in Decisions \cup {Running}
    BY <1>12, Counting DEF OpenJournal, Opening, EventTypes, Inv, TypeOK
  <2>3. /\ journal' = Append(journal, Event(sequence + 1, Opening[sequence + 1], Running))
        /\ sequence' = sequence + 1
        /\ UNCHANGED <<document, attempt, evidence>>
    BY <1>12 DEF OpenJournal, Record
  <2>4. /\ journal' \in Seq(Events) /\ sequence' \in Nat
        /\ Len(journal) \in Nat /\ Len(journal') = Len(journal) + 1
        /\ \A i \in 1..Len(journal) : journal'[i] = journal[i]
        /\ Last' = Event(sequence + 1, Opening[sequence + 1], Running)
        /\ ChainFollowsTail' /\ RecordFollowsMemory'
        /\ sequence = Len(journal) => ChainHolds(journal')
        /\ \A i \in DOMAIN journal' : journal'[i].type \in Final => i = Len(journal')
        /\ Opening[sequence + 1] \notin Final => \A i \in DOMAIN journal' : journal'[i].type \notin Final
    BY <2>1, <2>2, <2>3, Appended
  <2>5. TypeOK'
    BY <1>12, <2>4 DEF Inv, TypeOK, OpenJournal, Closing, Ended
  <2>6. Control' /\ TailHolds'
    BY <1>12, <2>3, <2>4 DEF Inv, TypeOK, Control, TailHolds, OpenJournal, Open, Closing, Ended
  <2>7. FinalIsLast' /\ DecisionRecorded'
    BY <1>12, <2>2, <2>3, <2>4 DEF Inv, TypeOK, FinalIsLast, DecisionRecorded, Last, Event, OpenJournal, Opening, Final, Ended
  <2>8. StatedAtTheEnd' /\ RecordFollowsJournal'
    BY <2>1, <2>3, Unstated DEF StatedAtTheEnd, RecordFollowsJournal
  <2>9. Len(journal') <= sequence' + 2 /\ (pc' \notin Ended => Len(journal') <= sequence' + 1)
    BY <1>12, <2>1, <2>3, <2>4 DEF Inv, TypeOK, HalfAppend, OpenJournal, Ended
  <2>10. HalfAppend' /\ Returned'
    BY <1>12, <2>4, <2>9 DEF Inv, TailHolds, HalfAppend, Returned, OpenJournal, Event, Closing, Ended
  <2> QED
    BY <2>4, <2>5, <2>6, <2>7, <2>8, <2>10 DEF Inv
<1>13. CASE Transition
  <2>1. pc \notin {"writing"} \cup Ended /\ pc # "returned"
    BY <1>13 DEF Transition, Ended
  <2>2. "transition" \in EventTypes /\ Running \in Decisions \cup {Running}
    BY <1>13, Counting DEF Transition, Opening, EventTypes, Inv, TypeOK
  <2>3. /\ journal' = Append(journal, Event(sequence + 1, "transition", Running))
        /\ sequence' = sequence + 1
        /\ UNCHANGED <<document, attempt, evidence>>
    BY <1>13 DEF Transition, Record
  <2>4. /\ journal' \in Seq(Events) /\ sequence' \in Nat
        /\ Len(journal) \in Nat /\ Len(journal') = Len(journal) + 1
        /\ \A i \in 1..Len(journal) : journal'[i] = journal[i]
        /\ Last' = Event(sequence + 1, "transition", Running)
        /\ ChainFollowsTail' /\ RecordFollowsMemory'
        /\ sequence = Len(journal) => ChainHolds(journal')
        /\ \A i \in DOMAIN journal' : journal'[i].type \in Final => i = Len(journal')
        /\ "transition" \notin Final => \A i \in DOMAIN journal' : journal'[i].type \notin Final
    BY <2>1, <2>2, <2>3, Appended
  <2>5. TypeOK'
    BY <1>13, <2>4 DEF Inv, TypeOK, Transition, Closing, Ended
  <2>6. Control' /\ TailHolds'
    BY <1>13, <2>3, <2>4 DEF Inv, TypeOK, Control, TailHolds, Transition, Open, Closing, Ended
  <2>7. FinalIsLast' /\ DecisionRecorded'
    BY <1>13, <2>2, <2>3, <2>4 DEF Inv, TypeOK, FinalIsLast, DecisionRecorded, Last, Event, Transition, Opening, Final, Ended
  <2>8. StatedAtTheEnd' /\ RecordFollowsJournal'
    BY <2>1, <2>3, Unstated DEF StatedAtTheEnd, RecordFollowsJournal
  <2>9. Len(journal') <= sequence' + 2 /\ (pc' \notin Ended => Len(journal') <= sequence' + 1)
    BY <1>13, <2>1, <2>3, <2>4 DEF Inv, TypeOK, HalfAppend, Transition, Ended
  <2>10. HalfAppend' /\ Returned'
    BY <1>13, <2>4, <2>9 DEF Inv, TailHolds, HalfAppend, Returned, Transition, Event, Closing, Ended
  <2> QED
    BY <2>4, <2>5, <2>6, <2>7, <2>8, <2>10 DEF Inv
<1>14. CASE RecordDecision
  <2>1. pc \notin {"writing"} \cup Ended /\ pc # "returned"
    BY <1>14 DEF RecordDecision, Ended
  <2>2. "decision.recorded" \in EventTypes /\ document.decision \in Decisions \cup {Running}
    BY <1>14, Counting DEF RecordDecision, Opening, EventTypes, Inv, TypeOK
  <2>3. /\ journal' = Append(journal, Event(sequence + 1, "decision.recorded", document.decision))
        /\ sequence' = sequence + 1
        /\ UNCHANGED <<document, attempt, evidence>>
    BY <1>14 DEF RecordDecision, Record
  <2>4. /\ journal' \in Seq(Events) /\ sequence' \in Nat
        /\ Len(journal) \in Nat /\ Len(journal') = Len(journal) + 1
        /\ \A i \in 1..Len(journal) : journal'[i] = journal[i]
        /\ Last' = Event(sequence + 1, "decision.recorded", document.decision)
        /\ ChainFollowsTail' /\ RecordFollowsMemory'
        /\ sequence = Len(journal) => ChainHolds(journal')
        /\ \A i \in DOMAIN journal' : journal'[i].type \in Final => i = Len(journal')
        /\ "decision.recorded" \notin Final => \A i \in DOMAIN journal' : journal'[i].type \notin Final
    BY <2>1, <2>2, <2>3, Appended
  <2>5. TypeOK'
    BY <1>14, <2>4 DEF Inv, TypeOK, RecordDecision, Closing, Ended
  <2>6. Control' /\ TailHolds'
    BY <1>14, <2>3, <2>4 DEF Inv, TypeOK, Control, TailHolds, RecordDecision, Open, Closing, Ended
  <2>7. FinalIsLast' /\ DecisionRecorded'
    BY <1>14, <2>2, <2>3, <2>4 DEF Inv, TypeOK, FinalIsLast, DecisionRecorded, Last, Event, RecordDecision, Opening, Final, Ended
  <2>8. StatedAtTheEnd' /\ RecordFollowsJournal'
    BY <2>1, <2>3, Unstated DEF StatedAtTheEnd, RecordFollowsJournal
  <2>9. Len(journal') <= sequence' + 2 /\ (pc' \notin Ended => Len(journal') <= sequence' + 1)
    BY <1>14, <2>1, <2>3, <2>4 DEF Inv, TypeOK, HalfAppend, RecordDecision, Ended
  <2>10. HalfAppend' /\ Returned'
    BY <1>14, <2>4, <2>9 DEF Inv, TailHolds, HalfAppend, Returned, RecordDecision, Event, Closing, Ended
  <2> QED
    BY <2>4, <2>5, <2>6, <2>7, <2>8, <2>10 DEF Inv
<1>15. CASE FinishJournal
  <2>1. pc \notin {"writing"} \cup Ended /\ pc # "returned"
    BY <1>15 DEF FinishJournal, Ended
  <2>2. "run.finished" \in EventTypes /\ document.decision \in Decisions \cup {Running}
    BY <1>15, Counting DEF FinishJournal, Opening, EventTypes, Inv, TypeOK
  <2>3. /\ journal' = Append(journal, Event(sequence + 1, "run.finished", document.decision))
        /\ sequence' = sequence + 1
        /\ UNCHANGED <<document, attempt, evidence>>
    BY <1>15 DEF FinishJournal, Record
  <2>4. /\ journal' \in Seq(Events) /\ sequence' \in Nat
        /\ Len(journal) \in Nat /\ Len(journal') = Len(journal) + 1
        /\ \A i \in 1..Len(journal) : journal'[i] = journal[i]
        /\ Last' = Event(sequence + 1, "run.finished", document.decision)
        /\ ChainFollowsTail' /\ RecordFollowsMemory'
        /\ sequence = Len(journal) => ChainHolds(journal')
        /\ \A i \in DOMAIN journal' : journal'[i].type \in Final => i = Len(journal')
        /\ "run.finished" \notin Final => \A i \in DOMAIN journal' : journal'[i].type \notin Final
    BY <2>1, <2>2, <2>3, Appended
  <2>5. TypeOK'
    BY <1>15, <2>4 DEF Inv, TypeOK, FinishJournal, Closing, Ended
  <2>6. Control' /\ TailHolds'
    BY <1>15, <2>3, <2>4 DEF Inv, TypeOK, Control, TailHolds, FinishJournal, Open, Closing, Ended
  <2>7. FinalIsLast' /\ DecisionRecorded'
    BY <1>15, <2>2, <2>3, <2>4 DEF Inv, TypeOK, FinalIsLast, DecisionRecorded, Last, Event, FinishJournal, Opening, Final, Ended
  <2>8. StatedAtTheEnd' /\ RecordFollowsJournal'
    BY <2>1, <2>3, Unstated DEF StatedAtTheEnd, RecordFollowsJournal
  <2>9. Len(journal') <= sequence' + 2 /\ (pc' \notin Ended => Len(journal') <= sequence' + 1)
    BY <1>15, <2>1, <2>3, <2>4 DEF Inv, TypeOK, HalfAppend, FinishJournal, Ended
  <2>10. HalfAppend' /\ Returned'
    BY <1>15, <2>4, <2>9 DEF Inv, TailHolds, HalfAppend, Returned, FinishJournal, Event, Closing, Ended
  <2> QED
    BY <2>4, <2>5, <2>6, <2>7, <2>8, <2>10 DEF Inv
<1>16. CASE Abort
  <2>1. pc \notin {"writing"} \cup Ended /\ pc # "returned"
    BY <1>16 DEF Abort, Ended
  <2>2. "run.aborted" \in EventTypes /\ Running \in Decisions \cup {Running}
    BY <1>16, Counting DEF Abort, Opening, EventTypes, Inv, TypeOK
  <2>3. /\ journal' = Append(journal, Event(sequence + 1, "run.aborted", Running))
        /\ sequence' = sequence + 1
        /\ UNCHANGED <<document, attempt, evidence>>
    BY <1>16 DEF Abort, Record
  <2>4. /\ journal' \in Seq(Events) /\ sequence' \in Nat
        /\ Len(journal) \in Nat /\ Len(journal') = Len(journal) + 1
        /\ \A i \in 1..Len(journal) : journal'[i] = journal[i]
        /\ Last' = Event(sequence + 1, "run.aborted", Running)
        /\ ChainFollowsTail' /\ RecordFollowsMemory'
        /\ sequence = Len(journal) => ChainHolds(journal')
        /\ \A i \in DOMAIN journal' : journal'[i].type \in Final => i = Len(journal')
        /\ "run.aborted" \notin Final => \A i \in DOMAIN journal' : journal'[i].type \notin Final
    BY <2>1, <2>2, <2>3, Appended
  <2>5. TypeOK'
    BY <1>16, <2>4 DEF Inv, TypeOK, Abort, Closing, Ended
  <2>6. Control' /\ TailHolds'
    BY <1>16, <2>3, <2>4 DEF Inv, TypeOK, Control, TailHolds, Abort, Open, Closing, Ended
  <2>7. FinalIsLast' /\ DecisionRecorded'
    BY <1>16, <2>2, <2>3, <2>4 DEF Inv, TypeOK, FinalIsLast, DecisionRecorded, Last, Event, Abort, Opening, Final, Ended
  <2>8. StatedAtTheEnd' /\ RecordFollowsJournal'
    BY <2>1, <2>3, Unstated DEF StatedAtTheEnd, RecordFollowsJournal
  <2>9. Len(journal') <= sequence' + 2 /\ (pc' \notin Ended => Len(journal') <= sequence' + 1)
    BY <1>16, <2>1, <2>3, <2>4 DEF Inv, TypeOK, HalfAppend, Abort, Ended
  <2>10. HalfAppend' /\ Returned'
    BY <1>16, <2>4, <2>9 DEF Inv, TailHolds, HalfAppend, Returned, Abort, Event, Closing, Ended
  <2> QED
    BY <2>4, <2>5, <2>6, <2>7, <2>8, <2>10 DEF Inv
<1>17. CASE ErrorInAppend
  <2>1. PICK line \in NextLine :
          journal' = Append(journal, Event(sequence + 1, line[1], line[2]))
    BY <1>17 DEF ErrorInAppend
  <2>2. pc \notin {"writing"} \cup Ended /\ pc # "returned"
    BY <2>1 DEF NextLine, Ended
  <2>3. line[1] \in EventTypes /\ line[2] \in Decisions \cup {Running}
    BY <2>1, Counting DEF NextLine, Opening, EventTypes, Inv, TypeOK
  <2>4. sequence' = sequence /\ UNCHANGED <<document, attempt, evidence>>
    BY <1>17 DEF ErrorInAppend
  <2>5. /\ journal' \in Seq(Events) /\ sequence' \in Nat
        /\ Len(journal) \in Nat /\ Len(journal') = Len(journal) + 1
        /\ Last' = Event(sequence + 1, line[1], line[2])
        /\ ChainFollowsTail' /\ RecordFollowsMemory'
        /\ sequence = Len(journal) => ChainHolds(journal')
        /\ \A i \in DOMAIN journal' : journal'[i].type \in Final => i = Len(journal')
        /\ line[1] \notin Final => \A i \in DOMAIN journal' : journal'[i].type \notin Final
    BY <2>1, <2>2, <2>3, <2>4, Appended
  <2>6. pc \in Closing \/ pc = "aborting" => pc' = "raised"
    BY <1>17, <2>2 DEF ErrorInAppend, Rescue, Closing
  <2>7. pc \notin Closing => ending' = Failed
    BY <1>17 DEF ErrorInAppend, Thrown
  <2>8. pc' \in {"keeping", "aborting", "raised"}
    BY <1>17 DEF ErrorInAppend, Rescue
  <2>9. TypeOK'
    BY <1>17, <2>2, <2>4, <2>5, <2>8 DEF Inv, TypeOK, ErrorInAppend, Thrown, Outcomes, Closing, Ended
  <2>10. Control' /\ TailHolds'
    BY <1>17, <2>4, <2>6, <2>7, <2>8, Outside DEF Inv, TypeOK, Control, TailHolds, ErrorInAppend, Rescue, Open, Closing, Ended
  <2>11. pc' # "raised" => line[1] \notin Final
    <3>1. CASE pc = "preparing"
      BY <3>1, <1>17 DEF ErrorInAppend, Rescue
    <3>2. CASE pc = "running"
      BY <3>2, <2>1 DEF NextLine, Final
    <3> QED
      BY <3>1, <3>2, <2>1, <2>6 DEF NextLine, Closing
  <2>12. FinalIsLast' /\ DecisionRecorded'
    BY <2>5, <2>8, <2>11 DEF FinalIsLast, DecisionRecorded, Ended
  <2>13. StatedAtTheEnd' /\ RecordFollowsJournal'
    BY <2>2, <2>4, Unstated DEF StatedAtTheEnd, RecordFollowsJournal
  <2>14. HalfAppend' /\ Returned'
    <3>1. CASE pc = "aborting"
      <4>1. line[1] = "run.aborted" /\ pc' = "raised" /\ Len(journal) <= sequence + 1
        BY <3>1, <2>1, <2>6 DEF NextLine, Inv, HalfAppend, Ended
      <4>2. Len(journal') <= sequence' + 2 /\ Last'.type = "run.aborted"
        BY <4>1, <2>4, <2>5 DEF Event
      <4> QED
        BY <4>1, <4>2 DEF HalfAppend, Returned, Ended
    <3>2. CASE pc # "aborting"
      <4>1. pc \in {"preparing", "running"} \cup Closing
        BY <3>2, <2>1 DEF NextLine, Closing
      <4>2. sequence = Len(journal)
        BY <4>1 DEF Inv, TailHolds
      <4>3. Len(journal') <= sequence' + 1 /\ Len(journal') <= sequence' + 2
        BY <4>2, <2>4, <2>5
      <4> QED
        BY <4>2, <4>3, <2>5, <2>8 DEF HalfAppend, Returned
    <3> QED
      BY <3>1, <3>2
  <2> QED
    BY <2>5, <2>9, <2>10, <2>12, <2>13, <2>14 DEF Inv
<1>18. CASE UNCHANGED vars
  BY <1>18 DEF vars, Inv, TypeOK, Control, TailHolds, FinalIsLast, DecisionRecorded,
      ChainFollowsTail, HalfAppend, ChainHolds, RecordFollowsMemory, Returned, StatedAtTheEnd, RecordFollowsJournal,
      Open, Closing, Ended, Final, Last, Written, Rendered
<1> QED
  BY <1>1, <1>2, <1>3, <1>4, <1>5, <1>6, <1>7, <1>8, <1>9, <1>10, <1>11, <1>12, <1>13, <1>14, <1>15, <1>16, <1>17, <1>18 DEF Next, Controller, Terminated

-----------------------------------------------------------------------------

\* The inductive invariant holds of every run: its locations, its tail and its
\* record agree as the definitions above say (controller/run.py, record.py).
THEOREM Invariance == Spec => []Inv
<1>1. Init => Inv
  BY Initially
<1>2. Inv /\ [Next]_vars => Inv'
  BY Inductive
<1> QED
  BY <1>1, <1>2, PTL DEF Spec

\* Every variable of a run stays of its type, whatever is decided, whatever
\* goes wrong and however long the run is.
THEOREM TypeCorrect == Spec => []TypeOK
<1>1. Inv => TypeOK
  BY DEF Inv
<1> QED
  BY <1>1, Invariance, PTL

\* close() states a decision in evidence.json only over a journal that closed on
\* that very decision and that the events block counts whole.
THEOREM RecordIsTheJournals == Spec => []RecordFollowsJournal
<1>1. Inv => RecordFollowsJournal
  BY DEF Inv
<1> QED
  BY <1>1, Invariance, PTL

\* No persist() counts an event that Journal.record has not put in the file.
THEOREM NeverAhead == Spec => []RecordNeverAhead
<1>1. Inv => RecordNeverAhead
  <2> SUFFICES ASSUME Inv, evidence.readable PROVE evidence.count <= Len(journal)
    BY DEF RecordNeverAhead
  <2>1. evidence.count \in Nat /\ sequence \in Nat /\ Len(journal) \in Nat
    BY Counting, LenProperties DEF Inv, TypeOK
  <2>2. evidence.count <= sequence /\ sequence <= Len(journal)
    BY DEF Inv, RecordFollowsMemory, ChainFollowsTail
  <2> QED
    BY <2>1, <2>2
<1> QED
  BY <1>1, Invariance, PTL

-----------------------------------------------------------------------------

\* The journal that closed did so on its last event.
LEMMA ClosedAtItsEnd ==
  ASSUME Inv
  PROVE  /\ Closings(journal) = {} => ClosedCount(journal) = Len(journal)
         /\ Closings(journal) # {} =>
              ClosedCount(journal) = Len(journal) /\ Last.type = "run.finished"
<1>1. \A i \in Closings(journal) : i = Len(journal) /\ journal[i].type = "run.finished"
  BY DEF Inv, FinalIsLast, Closings, Final
<1>2. CASE Closings(journal) = {}
  BY <1>2 DEF ClosedCount
<1>3. CASE Closings(journal) # {}
  <2>1. PICK i \in Closings(journal) : TRUE
    BY <1>3
  <2>2. Closings(journal) = {Len(journal)}
    BY <1>1, <2>1
  <2>3. \A j \in Closings(journal) : Len(journal) <= j
    BY <2>2, LenProperties DEF Inv, TypeOK
  <2>4. ClosedCount(journal) \in Closings(journal)
    BY <1>3, <2>2, <2>3 DEF ClosedCount
  <2> QED
    BY <1>1, <1>3, <2>4 DEF Last
<1> QED
  BY <1>2, <1>3

\* What close() leaves behind when it returns verifies.
LEMMA StatedVerifies ==
  ASSUME Inv, pc = "returned"
  PROVE  Verdict(evidence, journal) = "VALID"
<1>1. evidence.readable /\ evidence.decision \in Decisions /\ sequence = Len(journal)
  BY DEF Inv, Returned
<1>2. evidence.decision # Running /\ evidence.decision.status # "RUNNING"
  BY <1>1, Outside, DecisionsAssumption
<1>3. ChainHolds(journal)
  BY <1>1 DEF Inv, ChainFollowsTail
<1>4. /\ Len(journal) >= 2
      /\ Last.type = "run.finished" /\ Last.decision = evidence.decision
      /\ journal[Len(journal) - 1].type = "decision.recorded"
      /\ journal[Len(journal) - 1].decision = evidence.decision
      /\ evidence.count = Len(journal)
  BY <1>1, <1>2 DEF Inv, RecordFollowsJournal
<1>5. ClosedCount(journal) = Len(journal)
  BY ClosedAtItsEnd
<1>6. DecisionAgrees(evidence, journal)
  BY <1>4, <1>5 DEF DecisionAgrees, Last
<1>7. LandingAgrees(evidence, journal)
  BY <1>5 DEF LandingAgrees
<1> QED
  BY <1>1, <1>2, <1>3, <1>4, <1>5, <1>6, <1>7 DEF Verdict

\* A directory verifies exactly when close() finished it, whatever it went through,
\* and it holds the decision the controls reached: no crash leaves another one that
\* passes for it.
THEOREM ValidIsDecided == Spec => []ValidIsTheDecision
<1>1. Inv => ValidIsTheDecision
  <2> SUFFICES ASSUME Inv PROVE ValidIsTheDecision
    OBVIOUS
  <2>1. ASSUME Verdict(evidence, journal) = "VALID"
        PROVE  pc = "returned" /\ evidence.decision = ending
    <3>1. evidence.readable /\ evidence.decision.status # "RUNNING"
      BY <2>1 DEF Verdict
    <3>2. evidence.decision # Running
      BY <3>1 DEF Running
    <3> QED
      BY <3>1, <3>2 DEF Inv, StatedAtTheEnd, Returned
  <2>2. ASSUME pc = "returned" PROVE Verdict(evidence, journal) = "VALID"
    BY <2>2, StatedVerifies
  <2> QED
    BY <2>1, <2>2 DEF ValidIsTheDecision
<1> QED
  BY <1>1, Invariance, PTL

\* The only directory of the controller's own making that verifies INVALID is
\* the one of an abort recorded after a half-appended line.
THEOREM InvalidIsAHalfAppend == Spec => []InvalidOnlyAfterHalfAppend
<1>1. Inv => InvalidOnlyAfterHalfAppend
  <2> SUFFICES ASSUME Inv, Verdict(evidence, journal) = "INVALID"
               PROVE  /\ Last.type = "run.aborted"
                      /\ Len(journal) = sequence + 1 \/ Len(journal) = sequence + 2
    BY DEF InvalidOnlyAfterHalfAppend
  <2>1. pc # "returned"
    BY StatedVerifies
  <2>2. evidence.readable
    BY DEF Verdict
  <2>3. evidence.decision = Running
    BY <2>1, <2>2, Unstated
  <2>4. ~ChainHolds(journal)
    BY <2>2, <2>3 DEF Verdict, Running
  <2>5. sequence \in Nat /\ Len(journal) \in Nat
    BY LenProperties DEF Inv, TypeOK
  <2>6. sequence # Len(journal) /\ sequence <= Len(journal) /\ Len(journal) <= sequence + 2
    BY <2>4 DEF Inv, ChainFollowsTail, HalfAppend
  <2> QED
    BY <2>4, <2>5, <2>6 DEF Inv, HalfAppend
<1> QED
  BY <1>1, Invariance, PTL

-----------------------------------------------------------------------------

\* Every step leaves the journal alone or appends one line to an open one.
LEMMA Stepping ==
  ASSUME Inv, [Next]_vars
  PROVE  \/ journal' = journal
         \/ /\ pc \notin {"writing"} \cup Ended
            /\ \E event \in Events : journal' = Append(journal, event)
<1>1. CASE UNCHANGED vars
  BY <1>1 DEF vars
<1>2. ASSUME NEW type \in EventTypes, NEW d \in Decisions \cup {Running}
      PROVE  Event(sequence + 1, type, d) \in Events
  BY DEF Event, Events, Inv, TypeOK
<1>3. CASE OpenJournal
  <2>1. Opening[sequence + 1] \in EventTypes
    BY <1>3 DEF OpenJournal, Opening, EventTypes, Inv, TypeOK
  <2> QED
    BY <1>2, <1>3, <2>1 DEF OpenJournal, Record, Ended
<1>4. CASE Transition
  BY <1>2, <1>4 DEF Transition, Record, EventTypes, Ended
<1>5. CASE RecordDecision
  BY <1>2, <1>5, Counting DEF RecordDecision, Record, EventTypes, Ended, Inv
<1>6. CASE FinishJournal
  BY <1>2, <1>6, Counting DEF FinishJournal, Record, EventTypes, Ended, Inv
<1>7. CASE Abort
  BY <1>2, <1>7 DEF Abort, Record, EventTypes, Ended
<1>8. CASE ErrorInAppend
  <2>1. PICK line \in NextLine :
          journal' = Append(journal, Event(sequence + 1, line[1], line[2]))
    BY <1>8 DEF ErrorInAppend
  <2>2. pc \notin {"writing"} \cup Ended
    BY <2>1 DEF NextLine, Ended
  <2>3. line[1] \in EventTypes /\ line[2] \in Decisions \cup {Running}
    BY <2>1, Counting DEF NextLine, Opening, EventTypes, Inv, TypeOK
  <2> QED
    BY <1>2, <2>1, <2>2, <2>3
<1>9. CASE WriteSkeleton \/ Persist \/ StartIteration \/ ReturnIteration \/ Decide
             \/ KeepIteration \/ StateDecision \/ WriteRecord
             \/ Error \/ ErrorInWrite \/ Kill \/ Terminated
  BY <1>9 DEF WriteSkeleton, Persist, StartIteration, ReturnIteration, Decide,
    KeepIteration, StateDecision, WriteRecord, Error, ErrorInWrite, Kill, Terminated, vars
<1> QED
  BY <1>1, <1>3, <1>4, <1>5, <1>6, <1>7, <1>8, <1>9 DEF Next, Controller

\* Journal.record only ever appends, and no line follows run.finished or
\* run.aborted.
LEMMA AppendOnly ==
  ASSUME Inv, [Next]_vars
  PROVE  JournalGrows
<1>1. journal \in Seq(Events) /\ Len(journal) \in Nat /\ DOMAIN journal = 1..Len(journal)
  BY LenProperties DEF Inv, TypeOK
<1>2. CASE journal' = journal
  BY <1>1, <1>2 DEF JournalGrows
<1>3. ASSUME pc \notin {"writing"} \cup Ended,
             NEW event \in Events, journal' = Append(journal, event)
      PROVE  JournalGrows
  <2>1. /\ Len(Append(journal, event)) = Len(journal) + 1
        /\ \A i \in 1..Len(journal) : Append(journal, event)[i] = journal[i]
    BY <1>1, AppendProperties
  <2>2. journal # <<>> => Len(journal) \in DOMAIN journal
    BY <1>1, EmptySeq
  <2>3. \A i \in DOMAIN journal : journal[i].type \notin Final
    BY <1>3 DEF Inv, FinalIsLast
  <2>4. journal # <<>> => Last.type \notin {"run.finished", "run.aborted"}
    BY <2>2, <2>3 DEF Last, Final
  <2>5. /\ Len(journal) <= Len(journal')
        /\ \A i \in DOMAIN journal : journal'[i] = journal[i]
    BY <1>1, <1>3, <2>1
  <2> QED
    BY <2>4, <2>5 DEF JournalGrows
<1> QED
  BY <1>2, <1>3, Stepping

\* keep() and written() never lose an iteration the record already holds.
LEMMA IterationsKept ==
  ASSUME Inv, [Next]_vars
  PROVE  IterationsStay
<1>1. /\ document.iterations \in Nat
      /\ document.iterations + (IF attempt THEN 1 ELSE 0) \in Nat
      /\ evidence.readable => evidence.iterations \in Nat
  BY Counting DEF Inv
<1>2. evidence.readable =>
        evidence.iterations <= document.iterations + (IF attempt THEN 1 ELSE 0)
  BY DEF Inv, RecordFollowsMemory
<1>3. CASE evidence' = evidence
  BY <1>1, <1>3 DEF IterationsStay
<1>4. CASE WriteSkeleton \/ Persist \/ WriteRecord
  <2>1. evidence'.iterations = document.iterations + (IF attempt THEN 1 ELSE 0)
    BY <1>4 DEF WriteSkeleton, Persist, WriteRecord, Rendered, Written
  <2> QED
    BY <1>1, <1>2, <2>1 DEF IterationsStay
<1>5. CASE KeepIteration
  <2>1. evidence'.iterations = document.iterations + (IF attempt THEN 1 ELSE 0)
    BY <1>5 DEF KeepIteration, Keep, Written, Inv, TypeOK
  <2> QED
    BY <1>1, <1>2, <2>1 DEF IterationsStay
<1>6. CASE evidence' = Torn
  BY <1>6 DEF Torn, IterationsStay
<1>7. evidence' = evidence \/ evidence' = Torn
      \/ WriteSkeleton \/ Persist \/ WriteRecord \/ KeepIteration
  BY DEF Next, Controller, vars, OpenJournal, Transition, StartIteration, ReturnIteration,
    Decide, StateDecision, RecordDecision, FinishJournal, Abort,
    Error, ErrorInAppend, ErrorInWrite, Kill, Terminated
<1> QED
  BY <1>3, <1>4, <1>5, <1>6, <1>7

\* No step of a run rewrites what the journal said or what the record held.
THEOREM HistoryKept == Spec => HistoryIsKept
<1>1. Inv /\ [Next]_vars => JournalGrows /\ IterationsStay
  BY AppendOnly, IterationsKept
<1>2. Inv /\ [Next]_vars => [JournalGrows /\ IterationsStay]_vars
  BY <1>1
<1> QED
  BY <1>2, Invariance, PTL DEF Spec, HistoryIsKept

-----------------------------------------------------------------------------
(* The run implements the lifecycle.                                         *)

Stage == IF pc \in Ended THEN "over" ELSE IF pc = "writing" THEN "decided" ELSE "open"

Stated == IF evidence.readable THEN evidence.decision ELSE Running

\* What the mapping makes of a state.
Mapping ==
  /\ pc # "returned" => Stated = Running
  /\ pc = "returned" => Stated = ending /\ ClosedOn = ending
  /\ Stage = "open" => ClosedOn = Running
  /\ Stage = "decided" => ClosedOn = ending /\ ending \in Decisions
  /\ ClosedOn \in Decisions \cup {Running}

LEMMA Mapped == Inv => Mapping
<1> SUFFICES ASSUME Inv PROVE Mapping
  OBVIOUS
<1>1. pc # "returned" => Stated = Running
  BY Unstated DEF Stated
<1>2. /\ Closings(journal) # {} => ClosedOn = Last.decision
      /\ Closings(journal) = {} => ClosedOn = Running
  BY ClosedAtItsEnd DEF ClosedOn, Last
<1>3. Stage = "open" => Closings(journal) = {}
  BY DEF Stage, Inv, FinalIsLast, Final, Closings
<1>4. ASSUME Len(journal) >= 2, Last.type = "run.finished" PROVE Closings(journal) # {}
  <2>1. Len(journal) \in DOMAIN journal
    BY <1>4, LenProperties DEF Inv, TypeOK
  <2> QED
    BY <1>4, <2>1 DEF Closings, Last
<1>5. ClosedOn \in Decisions \cup {Running}
  <2>1. CASE journal = <<>>
    BY <1>2, <2>1 DEF Closings
  <2>2. CASE journal # <<>>
    <3>1. Len(journal) \in 1..Len(journal)
      BY <2>2, LenProperties, EmptySeq DEF Inv, TypeOK
    <3>2. Last \in Events
      BY <3>1, ElementOfSeq DEF Inv, TypeOK, Last
    <3> QED
      BY <1>2, <3>2 DEF Events
  <2> QED
    BY <2>1, <2>2
<1>6. pc = "returned" => Stated = ending /\ ClosedOn = ending
  <2> SUFFICES ASSUME pc = "returned" PROVE Stated = ending /\ ClosedOn = ending
    OBVIOUS
  <2>1. evidence.readable /\ evidence.decision = ending /\ ending # Running
    BY Outside DEF Inv, Returned
  <2>2. ClosedOn = ending
    BY <1>2, <1>4, <2>1 DEF Inv, RecordFollowsJournal
  <2> QED
    BY <2>1, <2>2 DEF Stated
<1>7. pc = "writing" => ClosedOn = ending /\ ending \in Decisions
  <2> SUFFICES ASSUME pc = "writing" PROVE ClosedOn = ending /\ ending \in Decisions
    OBVIOUS
  <2>1. ending \in Decisions /\ document.decision = ending
    BY DEF Inv, Control, Closing
  <2>2. ClosedOn = ending
    BY <1>2, <1>4, <2>1 DEF Inv, DecisionRecorded
  <2> QED
    BY <2>1, <2>2
<1>8. Stage = "open" => ClosedOn = Running
  BY <1>2, <1>3
<1>9. Stage = "decided" => pc = "writing"
  BY DEF Stage
<1> QED
  BY <1>1, <1>5, <1>6, <1>7, <1>8, <1>9 DEF Mapping

\* Where a step can go, in the lifecycle's terms.
LEMMA Moves ==
  ASSUME Inv, [Next]_vars
  PROVE  /\ Stage = "over" => UNCHANGED vars
         /\ Stage = "open" => pc' # "returned"
         /\ Stage = "decided" =>
              \/ UNCHANGED vars
              \/ journal' = journal /\ ending' = ending /\ pc' \in Ended
<1>1. CASE UNCHANGED vars
  BY <1>1 DEF vars, Stage, Ended
<1>2. CASE Controller
  BY <1>2 DEF Controller, Stage, Ended, OpenJournal, WriteSkeleton, Transition, Persist,
    StartIteration, ReturnIteration, Decide, KeepIteration, Handler, StateDecision,
    RecordDecision, FinishJournal, WriteRecord, Abort
<1>3. CASE Error \/ ErrorInAppend \/ ErrorInWrite \/ Kill
  BY <1>3 DEF Error, ErrorInAppend, ErrorInWrite, Kill, Rescue, Thrown, NextLine, WritesRecord,
    Stage, Ended, Closing
<1> QED
  BY <1>1, <1>2, <1>3 DEF Next, Terminated

\* The journal closes on a decision before the record states it, at most once,
\* and the record states no other: RunRecord implements RunLifecycle.
THEOREM RefinesLifecycle == Spec => ImplementsLifecycle
<1>1. Init => Lifecycle!Init
  <2> SUFFICES ASSUME Init PROVE Lifecycle!Init
    OBVIOUS
  <2>1. Stage = "open" /\ Stated = Running
    BY DEF Init, Stage, Stated, Ended, Absent
  <2>2. ClosedOn = Running
    BY <2>1, Initially, Mapped DEF Mapping
  <2> QED
    BY <2>1, <2>2 DEF Lifecycle!Init, Stage, Stated
<1>2. Inv /\ Mapping /\ Mapping' /\ [Next]_vars => [Lifecycle!Next]_(Lifecycle!vars)
  <2> SUFFICES ASSUME Inv, Mapping, Mapping', [Next]_vars
               PROVE  [Lifecycle!Next]_(Lifecycle!vars)
    OBVIOUS
  <2> USE DEF Lifecycle!vars, Lifecycle!Next, Lifecycle!Decide, Lifecycle!State, Lifecycle!Stop
  <2>1. CASE UNCHANGED vars
    BY <2>1 DEF vars, ClosedOn, ClosedCount, Closings
  <2>2. CASE Stage = "open"
    <3>1. Stated = Running /\ ClosedOn = Running /\ Stated' = Running
      BY <2>2, Moves DEF Mapping, Stage, Ended
    <3>2. CASE Stage' = "open"
      BY <2>2, <3>1, <3>2 DEF Mapping, Stage, Stated
    <3>3. CASE Stage' = "decided"
      BY <2>2, <3>1, <3>3 DEF Mapping, Stage, Stated
    <3>4. CASE Stage' = "over"
      BY <2>2, <3>1, <3>4 DEF Mapping, Stage, Stated
    <3> QED
      BY <3>2, <3>3, <3>4 DEF Stage
  <2>3. CASE Stage = "decided" /\ ~UNCHANGED vars
    <3>1. journal' = journal /\ ending' = ending /\ Stage' = "over"
      BY <2>3, Moves DEF Stage
    <3>2. ClosedOn' = ClosedOn /\ Stated = Running
      BY <2>3, <3>1 DEF ClosedOn, ClosedCount, Closings, Mapping, Stage, Ended
    <3>3. CASE pc' = "returned"
      BY <2>3, <3>1, <3>2, <3>3 DEF Mapping, Stage, Stated
    <3>4. CASE pc' # "returned"
      BY <2>3, <3>1, <3>2, <3>4 DEF Mapping, Stage, Stated
    <3> QED
      BY <3>3, <3>4
  <2>4. Stage = "over" => UNCHANGED vars
    BY Moves
  <2> QED
    BY <2>1, <2>2, <2>3, <2>4 DEF Stage
<1> QED
  BY <1>1, <1>2, Mapped, Invariance, PTL DEF Spec, ImplementsLifecycle, Lifecycle!Spec
=============================================================================
