------------------------- MODULE RunDirectoryProofs -------------------------
(***************************************************************************)
(* Proofs about RunDirectory, for any decisions, any artefacts and blocks and *)
(* any number of edits: what an edited directory may still verify as, and     *)
(* that Verification says of it what the verification in full says.           *)
(***************************************************************************)
EXTENDS RunDirectory, SequenceTheorems, FiniteSetTheorems, WellFoundedInduction, TLAPS

-----------------------------------------------------------------------------
(* Events and digests.                                                       *)

\* A digest is of one value.
LEMMA DigestOfOne ==
  ASSUME NEW value, NEW other, Digest(value) = Digest(other)
  PROVE  value = other
<1>1. Digest(value)[2] = value /\ Digest(other)[2] = other
  BY DEF Digest
<1> QED
  BY <1>1

\* No digest is the absence of one.
LEMMA DigestIsOne ==
  ASSUME NEW value
  PROVE  Digest(value) # NoDigest
<1>1. Len(Digest(value)) = 2 /\ Len(NoDigest) = 0
  BY DEF Digest, NoDigest
<1> QED
  BY <1>1

Statuses == {"ACCEPTED", "REJECTED", "ESCALATED"}

\* A decision, or none yet: what an event carries and the record states.
LEMMA DecisionShape ==
  ASSUME NEW d \in Decisions \cup {Coarse!Running}
  PROVE  /\ d = [status |-> d.status, reasons |-> d.reasons]
         /\ d \in Decisions => d.status \in Statuses
  BY DecisionsAssumption DEF Coarse!Running, Statuses

Payload(p) ==
  /\ p = [decision |-> p.decision, base |-> p.base, patch |-> p.patch, commit |-> p.commit]
  /\ p.decision \in Decisions \cup {Coarse!Running}

\* An event has its six fields.
Event(e) ==
  /\ e = [run |-> e.run, sequence |-> e.sequence, type |-> e.type, payload |-> e.payload,
          previous |-> e.previous, sha |-> e.sha]
  /\ Payload(e.payload)

\* events.jsonl, however edited.
Events(events) ==
  /\ Len(events) \in Nat /\ events = [i \in 1 .. Len(events) |-> events[i]]
  /\ \A i \in 1 .. Len(events) : Event(events[i])

\* The three payloads, field by field.
LEMMA PayloadFields ==
  ASSUME NEW d, NEW base, NEW patch
  PROVE  /\ NoPayload = [decision |-> Coarse!Running, base |-> "none", patch |-> NoDigest,
                         commit |-> FALSE]
         /\ Deciding(d) = [decision |-> d, base |-> "none", patch |-> NoDigest, commit |-> FALSE]
         /\ Landing(base, patch) = [decision |-> Coarse!Running, base |-> base, patch |-> patch,
                                    commit |-> TRUE]
<1> DEFINE Payloads == [decision : {Coarse!Running, d}, base : {"none", base},
                        patch : {NoDigest, patch}, commit : BOOLEAN]
<1>1. NoPayload = [decision |-> Coarse!Running, base |-> "none", patch |-> NoDigest,
                   commit |-> FALSE]
  BY DEF NoPayload
<1>2. NoPayload \in Payloads
  BY <1>1
<1>3. \A p \in Payloads : p = [decision |-> p.decision, base |-> p.base, patch |-> p.patch,
                               commit |-> p.commit]
  OBVIOUS
<1>4. /\ Deciding(d) \in Payloads /\ Deciding(d).decision = d /\ Deciding(d).base = "none"
      /\ Deciding(d).patch = NoDigest /\ Deciding(d).commit = FALSE
  BY <1>1, <1>2 DEF Deciding
<1>5. /\ Landing(base, patch) \in Payloads /\ Landing(base, patch).decision = Coarse!Running
      /\ Landing(base, patch).base = base /\ Landing(base, patch).patch = patch
      /\ Landing(base, patch).commit = TRUE
  <2> DEFINE a == [NoPayload EXCEPT !.base = base]
             b == [a EXCEPT !.patch = patch]
  <2>1. a \in Payloads /\ a.decision = Coarse!Running /\ a.base = base
    BY <1>1, <1>2
  <2>2. Landing(base, patch) = [b EXCEPT !.commit = TRUE]
    BY DEF Landing
  <2> HIDE DEF a
  <2>3. b \in Payloads /\ b.decision = Coarse!Running /\ b.base = base /\ b.patch = patch
    BY <2>1
  <2> HIDE DEF b
  <2> QED
    BY <2>2, <2>3
<1> HIDE DEF Payloads
<1> QED
  BY <1>1, <1>3, <1>4, <1>5

LEMMA PayloadsAre ==
  /\ Payload(NoPayload)
  /\ \A d \in Decisions : Payload(Deciding(d))
  /\ \A base, patch : Payload(Landing(base, patch))
<1>1. ASSUME NEW d \in Decisions, NEW base, NEW patch
      PROVE  Payload(NoPayload) /\ Payload(Deciding(d)) /\ Payload(Landing(base, patch))
  BY PayloadFields DEF Payload
<1>2. Payload(NoPayload) /\ \A base, patch : Payload(Landing(base, patch))
  BY PayloadFields DEF Payload
<1> QED
  BY <1>1, <1>2

\* What Journal.record writes: the fields it was given, chained.
LEMMA SignedIs ==
  ASSUME NEW sequence \in Nat, NEW head, NEW type, NEW payload
  PROVE  LET e == Signed(sequence, head, type, payload)
         IN  /\ e.run = "this" /\ e.sequence = sequence + 1 /\ e.type = type
             /\ e.payload = payload /\ e.previous = head /\ e.sha = EventDigest(e)
             /\ Payload(payload) => Event(e)
<1> DEFINE e == Signed(sequence, head, type, payload)
<1>1. e = [run |-> "this", sequence |-> sequence + 1, type |-> type, payload |-> payload,
           previous |-> head, sha |-> e.sha]
  BY DEF Signed
<1>2. e.sha = Digest([run |-> "this", sequence |-> sequence + 1, type |-> type,
                      payload |-> payload, previous |-> head])
  BY DEF Signed
<1> HIDE DEF e
<1>3. /\ e.run = "this" /\ e.sequence = sequence + 1 /\ e.type = type
      /\ e.payload = payload /\ e.previous = head
  BY <1>1
<1>4. e.sha = EventDigest(e)
  BY <1>2, <1>3 DEF EventDigest, Unsigned
<1>5. Payload(payload) => Event(e)
  BY <1>1, <1>3 DEF Event
<1> QED
  BY <1>3, <1>4, <1>5 DEF e

\* A journal and its events as a sequence.
LEMMA EventsAreASeq ==
  ASSUME NEW events, Events(events)
  PROVE  /\ events \in Seq({events[i] : i \in 1 .. Len(events)})
         /\ DOMAIN events = 1 .. Len(events) /\ Len(events) \in Nat
<1>1. DOMAIN events = 1 .. Len(events)
  BY DEF Events
<1>2. events \in [1 .. Len(events) -> {events[i] : i \in 1 .. Len(events)}]
  BY DEF Events
<1> QED
  BY <1>1, <1>2, SeqDef DEF Events

\* The converse, for any sequence of events.
LEMMA SeqIsEvents ==
  ASSUME NEW S, NEW events \in Seq(S), \A e \in S : Event(e)
  PROVE  Events(events)
<1>1. Len(events) \in Nat /\ DOMAIN events = 1 .. Len(events)
      /\ \A i \in 1 .. Len(events) : events[i] \in S
  BY LenProperties, ElementOfSeq
<1>2. events = [i \in 1 .. Len(events) |-> events[i]]
  BY <1>1, SeqDef
<1> QED
  BY <1>1, <1>2 DEF Events

-----------------------------------------------------------------------------
(* The first end of a run.                                                   *)

\* A journal closed through its first run.finished, or whole.
LEMMA ClosedIs ==
  ASSUME NEW events, Len(events) \in Nat, DOMAIN events = 1 .. Len(events)
  PROVE  LET closed == Coarse!ClosedCount(events)
         IN  \/ /\ closed = Len(events)
                /\ \A i \in 1 .. Len(events) : events[i].type # "run.finished"
             \/ /\ closed \in 1 .. Len(events) /\ events[closed].type = "run.finished"
                /\ \A i \in 1 .. closed - 1 : events[i].type # "run.finished"
<1> DEFINE closings == Coarse!Closings(events)
<1>1. closings = {i \in 1 .. Len(events) : events[i].type = "run.finished"}
  BY DEF Coarse!Closings
<1>2. CASE closings = {}
  <2>1. Coarse!ClosedCount(events) = Len(events)
    BY <1>2 DEF Coarse!ClosedCount
  <2> QED
    BY <1>1, <1>2, <2>1
<1>3. CASE closings # {}
  <2> DEFINE below == {ss \in Nat \X Nat : ss[1] < ss[2]}
  <2>1. IsWellFoundedOn(below, Nat)
    BY NatLessThanWellFounded DEF OpToRel
  <2>2. \A x, y \in Nat : y < x => <<y, x>> \in below
    OBVIOUS
  <2>3. closings \subseteq Nat
    BY <1>1
  <2> HIDE DEF below
  <2>4. PICK first \in closings : \A i \in closings : <<i, first>> \notin below
    BY <1>3, <2>1, <2>3, WFMin, Zenon
  <2>5. \A i \in closings : first <= i
    <3> HIDE DEF closings
    <3>1. \A i \in closings : i \in Nat /\ first \in Nat /\ ~(i < first)
      BY <2>2, <2>3, <2>4
    <3> QED
      BY <3>1
  <2>6. Coarse!ClosedCount(events) = CHOOSE i \in closings : \A j \in closings : i <= j
    BY <1>3 DEF Coarse!ClosedCount
  <2> DEFINE closed == CHOOSE i \in closings : \A j \in closings : i <= j
  <2>7. closed \in closings /\ \A j \in closings : closed <= j
    BY <2>5
  <2> HIDE DEF closed
  <2>8. closed \in 1 .. Len(events) /\ events[closed].type = "run.finished"
    BY <1>1, <2>7
  <2>9. \A i \in 1 .. closed - 1 : events[i].type # "run.finished"
    BY <1>1, <2>7, <2>8
  <2>10. Coarse!ClosedCount(events) = closed
    BY <2>6 DEF closed
  <2> QED
    BY <2>8, <2>9, <2>10
<1> QED
  BY <1>2, <1>3

\* The events a decided run closed with are the beginning of any journal that
\* closes where they do.
LEMMA ClosedPrefix ==
  ASSUME NEW events, Events(events), NEW n \in Nat, NEW closing, Len(closing) = n,
         DOMAIN closing = 1 .. n,
         SubSeq(events, 1, Coarse!ClosedCount(events)) = closing
  PROVE  /\ Coarse!ClosedCount(events) = n /\ n <= Len(events)
         /\ SubSeq(events, 1, n) = closing /\ \A i \in 1 .. n : events[i] = closing[i]
<1> DEFINE closed == Coarse!ClosedCount(events)
<1>1. Len(events) \in Nat /\ DOMAIN events = 1 .. Len(events)
  BY EventsAreASeq
<1>2. closed \in 0 .. Len(events)
  BY <1>1, ClosedIs
<1> HIDE DEF closed
<1> DEFINE S == {events[i] : i \in 1 .. Len(events)}
<1>3. \A i \in 1 .. closed : events[i] \in S
  BY <1>1, <1>2
<1>4. /\ Len(SubSeq(events, 1, closed)) = closed
      /\ \A i \in 1 .. closed : SubSeq(events, 1, closed)[i] = events[i]
  <2> HIDE DEF S
  <2>1. 1 \in Int /\ closed \in Int
    BY <1>1, <1>2
  <2>2. /\ Len(SubSeq(events, 1, closed)) = IF 1 <= closed THEN closed - 1 + 1 ELSE 0
        /\ \A i \in 1 .. closed - 1 + 1 : SubSeq(events, 1, closed)[i] = events[1 + i - 1]
    BY <1>3, <2>1, SubSeqProperties
  <2> QED
    BY <1>2, <2>2
<1>5. closed = n
  BY <1>4 DEF closed
<1> QED
  BY <1>1, <1>2, <1>4, <1>5 DEF closed

-----------------------------------------------------------------------------
(* The journals the controller leaves.                                       *)

\* Every event in its place, linked to the one before and signed.
Linked(events) ==
  \A i \in 1 .. Len(events) :
    /\ events[i].run = "this" /\ events[i].sequence = i
    /\ events[i].previous = (IF i = 1 THEN NoDigest ELSE events[i - 1].sha)
    /\ events[i].sha = EventDigest(events[i])

\* A journal and the one with one more event behind it.
OneMore(events, more, type, payload) ==
  /\ Events(more) /\ Len(more) = Len(events) + 1
  /\ \A i \in 1 .. Len(events) : more[i] = events[i]
  /\ more[Len(events) + 1].type = type /\ more[Len(events) + 1].payload = payload
  /\ Linked(events) => Linked(more)

LEMMA ExtendedIs ==
  ASSUME NEW events, Events(events), NEW type, NEW payload, Payload(payload)
  PROVE  OneMore(events, Extended(events, type, payload), type, payload)
<1> DEFINE new == Signed(Len(events), Head_(events), type, payload)
           S == {events[i] : i \in 1 .. Len(events)} \cup {new}
           more == Extended(events, type, payload)
<1>1. /\ Len(events) \in Nat /\ DOMAIN events = 1 .. Len(events)
      /\ \A i \in 1 .. Len(events) : Event(events[i])
  BY EventsAreASeq DEF Events
<1>2. /\ new.run = "this" /\ new.sequence = Len(events) + 1 /\ new.type = type
      /\ new.payload = payload /\ new.previous = Head_(events) /\ new.sha = EventDigest(new)
      /\ Event(new)
  BY <1>1, SignedIs
<1> HIDE DEF new
<1>3. events \in Seq(S)
  <2> DEFINE T == {events[i] : i \in 1 .. Len(events)}
  <2>1. events \in Seq(T) /\ T \subseteq S
    BY EventsAreASeq
  <2> HIDE DEF S, T
  <2> QED
    BY <2>1, SeqMonotonic
<1>4. more = Append(events, new)
  BY DEF Extended, new
<1>5. \A e \in S : Event(e)
  BY <1>1, <1>2
<1> HIDE DEF S, more
<1>6. /\ more \in Seq(S) /\ Len(more) = Len(events) + 1
      /\ \A i \in 1 .. Len(events) : more[i] = events[i]
      /\ more[Len(events) + 1] = new
  BY <1>3, <1>4, AppendProperties DEF S
<1>7. Events(more)
  BY <1>5, <1>6, SeqIsEvents
<1>8. ASSUME Linked(events) PROVE Linked(more)
  <2>1. ASSUME NEW i \in 1 .. Len(more)
        PROVE  /\ more[i].run = "this" /\ more[i].sequence = i
               /\ more[i].previous = (IF i = 1 THEN NoDigest ELSE more[i - 1].sha)
               /\ more[i].sha = EventDigest(more[i])
    <3>1. CASE i = Len(events) + 1
      <4>1. Head_(events) = IF i = 1 THEN NoDigest ELSE more[i - 1].sha
        <5>1. CASE Len(events) = 0
          <6>1. events = <<>>
            BY <1>3, <5>1
          <6> QED
            BY <3>1, <5>1, <6>1 DEF Head_
        <5>2. CASE Len(events) # 0
          <6>1. events # <<>> /\ i # 1 /\ i - 1 = Len(events) /\ Len(events) \in 1 .. Len(events)
            BY <1>1, <3>1, <5>2
          <6> QED
            BY <1>6, <6>1 DEF Head_
        <5> QED
          BY <5>1, <5>2
      <4> QED
        BY <1>2, <1>6, <3>1, <4>1
    <3>2. CASE i # Len(events) + 1
      <4>1. i \in 1 .. Len(events) /\ (i # 1 => i - 1 \in 1 .. Len(events))
        BY <1>1, <1>6, <3>2
      <4> QED
        BY <1>6, <1>8, <4>1 DEF Linked
    <3> QED
      BY <3>1, <3>2
  <2> QED
    BY <2>1 DEF Linked
<1> QED
  BY <1>2, <1>6, <1>7, <1>8 DEF more, OneMore

\* Each is one or more events on another.
LEMMA JournalsAre ==
  ASSUME NEW d
  PROVE  /\ JournalOf("running", d) =
              Extended(Extended(<<>>, "run.started", NoPayload), "gate.finished", NoPayload)
         /\ JournalOf("aborted", d) =
              Extended(JournalOf("running", d), "run.aborted", NoPayload)
         /\ JournalOf("half appended", d) =
              Append(JournalOf("running", d),
                     Signed(1, JournalOf("running", d)[1].sha, "run.aborted", NoPayload))
         /\ JournalOf("closed", d) =
              Extended(Extended(JournalOf("running", d), "decision.recorded", Deciding(d)),
                       "run.finished", Deciding(d))
         /\ JournalOf("landed", d) =
              Extended(JournalOf("closed", d), "run.landed", Landing("base", Digest("original")))
  BY DEF JournalOf

\* The first two events.
LEMMA OpenedIs ==
  ASSUME NEW d
  PROVE  LET opened == JournalOf("running", d)
         IN  /\ Events(opened) /\ Linked(opened) /\ Len(opened) = 2
             /\ \A i \in 1 .. 2 : opened[i].type \in {"run.started", "gate.finished"}
<1> DEFINE first == Extended(<<>>, "run.started", NoPayload)
           opened == Extended(first, "gate.finished", NoPayload)
<1>1. Events(<<>>) /\ Linked(<<>>) /\ Len(<<>>) = 0
  BY DEF Events, Linked
<1>2. /\ Events(first) /\ Linked(first) /\ Len(first) = 1 /\ first[1].type = "run.started"
  <2>1. OneMore(<<>>, first, "run.started", NoPayload)
    BY <1>1, PayloadsAre, ExtendedIs, Zenon
  <2> HIDE DEF first
  <2> QED
    BY <1>1, <2>1 DEF OneMore
<1> HIDE DEF first
<1>3. /\ Events(opened) /\ Linked(opened) /\ Len(opened) = 2
      /\ opened[1] = first[1] /\ opened[2].type = "gate.finished"
  <2>1. OneMore(first, opened, "gate.finished", NoPayload)
    BY <1>2, PayloadsAre, ExtendedIs, Zenon
  <2> HIDE DEF opened
  <2> QED
    BY <1>2, <2>1 DEF OneMore
<1> HIDE DEF opened
<1>4. opened = JournalOf("running", d)
  BY JournalsAre DEF opened, first
<1> QED
  BY <1>2, <1>3, <1>4

\* A decided run's: the decision twice, last but one and last.
LEMMA ClosedJournal ==
  ASSUME NEW d \in Decisions
  PROVE  LET closed == JournalOf("closed", d)
         IN  /\ Events(closed) /\ Linked(closed) /\ Len(closed) = 4
             /\ closed[3].type = "decision.recorded" /\ closed[3].payload = Deciding(d)
             /\ closed[4].type = "run.finished" /\ closed[4].payload = Deciding(d)
             /\ \A i \in 1 .. 3 : closed[i].type # "run.finished"
<1> DEFINE opened == JournalOf("running", d)
           decided == Extended(opened, "decision.recorded", Deciding(d))
           closed == Extended(decided, "run.finished", Deciding(d))
<1>1. /\ Events(opened) /\ Linked(opened) /\ Len(opened) = 2
      /\ \A i \in 1 .. 2 : opened[i].type \in {"run.started", "gate.finished"}
  BY OpenedIs
<1>2. Payload(Deciding(d))
  BY PayloadsAre
<1> HIDE DEF opened
<1>3. /\ Events(decided) /\ Linked(decided) /\ Len(decided) = 3
      /\ \A i \in 1 .. 2 : decided[i] = opened[i]
      /\ decided[3].type = "decision.recorded" /\ decided[3].payload = Deciding(d)
  <2>1. OneMore(opened, decided, "decision.recorded", Deciding(d))
    BY <1>1, <1>2, ExtendedIs, Zenon
  <2> HIDE DEF decided
  <2> QED
    BY <1>1, <2>1 DEF OneMore
<1> HIDE DEF decided
<1>4. /\ Events(closed) /\ Linked(closed) /\ Len(closed) = 4
      /\ \A i \in 1 .. 3 : closed[i] = decided[i]
      /\ closed[4].type = "run.finished" /\ closed[4].payload = Deciding(d)
  <2>1. OneMore(decided, closed, "run.finished", Deciding(d))
    BY <1>2, <1>3, ExtendedIs, Zenon
  <2> HIDE DEF closed
  <2> QED
    BY <1>3, <2>1 DEF OneMore
<1> HIDE DEF closed
<1>5. closed = JournalOf("closed", d)
  BY JournalsAre DEF closed, decided, opened
<1>6. ASSUME NEW i \in 1 .. 3 PROVE closed[i].type # "run.finished"
  <2>1. CASE i = 3
    BY <1>3, <1>4, <2>1
  <2>2. CASE i \in 1 .. 2
    <3>1. closed[i] = opened[i] /\ opened[i].type \in {"run.started", "gate.finished"}
      BY <1>1, <1>3, <1>4, <2>2
    <3> QED
      BY <3>1
  <2> QED
    BY <2>1, <2>2
<1>7. closed[3] = decided[3]
  BY <1>4
<1> QED
  BY <1>3, <1>4, <1>5, <1>6, <1>7

\* A landed run's: the landing behind it.
LEMMA LandedJournal ==
  ASSUME NEW d \in Decisions
  PROVE  LET landed == JournalOf("landed", d)
         IN  /\ Events(landed) /\ Linked(landed) /\ Len(landed) = 5
             /\ \A i \in 1 .. 4 : landed[i] = JournalOf("closed", d)[i]
             /\ landed[5].type = "run.landed"
             /\ landed[5].payload = Landing("base", Digest("original"))
<1> DEFINE closed == JournalOf("closed", d)
           landed == Extended(closed, "run.landed", Landing("base", Digest("original")))
<1>1. Events(closed) /\ Linked(closed) /\ Len(closed) = 4
  BY ClosedJournal
<1>2. Payload(Landing("base", Digest("original")))
  BY PayloadsAre
<1> HIDE DEF closed
<1>3. OneMore(closed, landed, "run.landed", Landing("base", Digest("original")))
  BY <1>1, <1>2, ExtendedIs, Zenon
<1> HIDE DEF landed
<1>4. landed = JournalOf("landed", d)
  BY JournalsAre DEF closed, landed
<1>5. Len(closed) + 1 = 5
  BY <1>1
<1> QED
  BY <1>1, <1>3, <1>4, <1>5 DEF closed, OneMore

\* An aborted run's, whether or not the writer it resumed had missed an event: it
\* never finished.
LEMMA AbortedJournals ==
  ASSUME NEW d
  PROVE  /\ LET aborted == JournalOf("aborted", d)
            IN  /\ Events(aborted) /\ Linked(aborted)
                /\ \A i \in 1 .. Len(aborted) : aborted[i].type # "run.finished"
         /\ LET half == JournalOf("half appended", d)
            IN  /\ Events(half) /\ Len(half) = 3 /\ half[3].sequence = 2
                /\ \A i \in 1 .. Len(half) : half[i].type # "run.finished"
<1> DEFINE opened == JournalOf("running", d)
<1>1. /\ Events(opened) /\ Linked(opened) /\ Len(opened) = 2
      /\ \A i \in 1 .. 2 : opened[i].type \in {"run.started", "gate.finished"}
  BY OpenedIs
<1> DEFINE aborted == Extended(opened, "run.aborted", NoPayload)
           new == Signed(1, opened[1].sha, "run.aborted", NoPayload)
           T == {opened[i] : i \in 1 .. Len(opened)}
           S == T \cup {new}
           half == Append(opened, new)
<1>2. aborted = JournalOf("aborted", d) /\ half = JournalOf("half appended", d)
  BY JournalsAre
<1>3. Event(new) /\ new.sequence = 2 /\ new.type = "run.aborted"
  <2>1. Event(new) /\ new.sequence = 1 + 1 /\ new.type = "run.aborted"
    BY SignedIs, PayloadsAre
  <2> HIDE DEF new
  <2> QED
    BY <2>1
<1>4. \A e \in T : Event(e)
  BY <1>1 DEF Events
<1>5. opened \in Seq(T)
  BY <1>1, EventsAreASeq
<1> HIDE DEF opened
<1>6. /\ Events(aborted) /\ Linked(aborted)
      /\ \A i \in 1 .. Len(aborted) : aborted[i].type # "run.finished"
  <2>1. OneMore(opened, aborted, "run.aborted", NoPayload)
    BY <1>1, PayloadsAre, ExtendedIs, Zenon
  <2> HIDE DEF aborted
  <2>2. /\ Len(aborted) = 3 /\ aborted[3].type = "run.aborted"
        /\ \A i \in 1 .. 2 : aborted[i] = opened[i]
    BY <1>1, <2>1 DEF OneMore
  <2>3. ASSUME NEW i \in 1 .. 3 PROVE aborted[i].type # "run.finished"
    <3>1. CASE i = 3
      BY <2>2, <3>1
    <3>2. CASE i \in 1 .. 2
      <4>1. aborted[i] = opened[i] /\ opened[i].type \in {"run.started", "gate.finished"}
        BY <1>1, <2>2, <3>2
      <4> QED
        BY <4>1
    <3> QED
      BY <3>1, <3>2
  <2> QED
    BY <1>1, <2>1, <2>2, <2>3 DEF OneMore
<1> HIDE DEF new, T, half, aborted
<1>7. opened \in Seq(S)
  BY <1>5, SeqMonotonic
<1>8. \A e \in S : Event(e)
  BY <1>3, <1>4
<1>9. /\ half \in Seq(S) /\ Len(half) = 3 /\ half[3] = new
      /\ \A i \in 1 .. 2 : half[i] = opened[i]
  <2>1. new \in S
    OBVIOUS
  <2> HIDE DEF S
  <2>2. /\ half \in Seq(S) /\ Len(half) = Len(opened) + 1 /\ half[Len(opened) + 1] = new
        /\ \A i \in 1 .. Len(opened) : half[i] = opened[i]
    BY <1>7, <2>1, AppendProperties DEF half
  <2> QED
    BY <1>1, <2>2
<1>10. Events(half)
  BY <1>8, <1>9, SeqIsEvents
<1>11. ASSUME NEW i \in 1 .. 3 PROVE half[i].type # "run.finished"
  <2>1. CASE i = 3
    BY <1>3, <1>9, <2>1
  <2>2. CASE i \in 1 .. 2
    <3>1. half[i] = opened[i] /\ opened[i].type \in {"run.started", "gate.finished"}
      BY <1>1, <1>9, <2>2
    <3> QED
      BY <3>1
  <2> QED
    BY <2>1, <2>2
<1> QED
  BY <1>2, <1>3, <1>6, <1>9, <1>10, <1>11

-----------------------------------------------------------------------------
(* Edits of a journal leave a journal.                                       *)

LEMMA OneReplaced ==
  ASSUME NEW events, Events(events), NEW i \in 1 .. Len(events), NEW e, Event(e)
  PROVE  /\ Events([events EXCEPT ![i] = e])
         /\ Len([events EXCEPT ![i] = e]) = Len(events)
         /\ [events EXCEPT ![i] = e][i] = e
         /\ \A j \in 1 .. Len(events) : j # i => [events EXCEPT ![i] = e][j] = events[j]
<1> DEFINE edited == [events EXCEPT ![i] = e]
           S == {events[j] : j \in 1 .. Len(events)} \cup {e}
<1>1. Len(events) \in Nat /\ DOMAIN events = 1 .. Len(events)
  BY EventsAreASeq
<1>2. /\ DOMAIN edited = 1 .. Len(events) /\ edited[i] = e
      /\ \A j \in 1 .. Len(events) : j # i => edited[j] = events[j]
  BY <1>1
<1>3. edited \in [1 .. Len(events) -> S]
  BY <1>1
<1>4. \A x \in S : Event(x)
  BY DEF Events
<1> HIDE DEF S, edited
<1>5. edited \in Seq(S) /\ Len(edited) = Len(events)
  BY <1>1, <1>3, SeqDef
<1>6. Events(edited)
  BY <1>4, <1>5, SeqIsEvents
<1> QED
  BY <1>2, <1>5, <1>6 DEF edited

\* One field of one event.
LEMMA FieldEdited ==
  ASSUME NEW e, Event(e), NEW value, NEW d \in Decisions
  PROVE  /\ Event([e EXCEPT !.payload.decision = d]) /\ Event([e EXCEPT !.type = value])
         /\ Event([e EXCEPT !.payload.patch = value]) /\ Event([e EXCEPT !.sequence = value])
         /\ Event([e EXCEPT !.sha = value]) /\ Event([e EXCEPT !.previous = value])
<1> DEFINE p == e.payload
           Payloads == [decision : Decisions \cup {Coarse!Running}, base : {p.base},
                        patch : {p.patch, value}, commit : {p.commit}]
           Es == [run : {e.run}, sequence : {e.sequence, value}, type : {e.type, value},
                  payload : Payloads, previous : {e.previous, value}, sha : {e.sha, value}]
<1>1. \A q \in Payloads : Payload(q)
  BY DEF Payload
<1>2. p \in Payloads
  BY DEF Event, Payload
<1>3. [p EXCEPT !.decision = d] \in Payloads /\ [p EXCEPT !.patch = value] \in Payloads
  BY <1>2
<1> HIDE DEF Payloads
<1>4. \A x \in Es : Event(x)
  BY <1>1 DEF Event
<1>5. e \in Es
  BY <1>2 DEF Event
<1>6. /\ [e EXCEPT !.payload.decision = d] \in Es /\ [e EXCEPT !.type = value] \in Es
      /\ [e EXCEPT !.payload.patch = value] \in Es /\ [e EXCEPT !.sequence = value] \in Es
      /\ [e EXCEPT !.sha = value] \in Es /\ [e EXCEPT !.previous = value] \in Es
  BY <1>3, <1>5
<1> HIDE DEF Es
<1> QED
  BY <1>4, <1>6

\* Shorter journals.
LEMMA CutIsEvents ==
  ASSUME NEW events, Events(events), events # <<>>
  PROVE  LET cut == SubSeq(events, 1, Len(events) - 1)
         IN  /\ Events(cut) /\ Len(cut) = Len(events) - 1
             /\ \A i \in 1 .. Len(events) - 1 : cut[i] = events[i]
<1> DEFINE S == {events[j] : j \in 1 .. Len(events)}
           cut == SubSeq(events, 1, Len(events) - 1)
<1>1. events \in Seq(S) /\ \A x \in S : Event(x)
  BY EventsAreASeq DEF Events
<1>2. \A i \in 1 .. Len(events) - 1 : events[i] \in S
  OBVIOUS
<1> HIDE DEF S
<1>3. Len(events) \in Nat /\ Len(events) # 0 /\ 1 \in Int /\ Len(events) - 1 \in Int
  BY <1>1, EmptySeq, LenProperties
<1>4. /\ cut \in Seq(S)
      /\ Len(cut) = IF 1 <= Len(events) - 1 THEN Len(events) - 1 - 1 + 1 ELSE 0
      /\ \A i \in 1 .. Len(events) - 1 - 1 + 1 : cut[i] = events[1 + i - 1]
  BY <1>2, <1>3, SubSeqProperties
<1> HIDE DEF cut
<1>5. Events(cut)
  BY <1>1, <1>4, SeqIsEvents
<1>6. Len(cut) = Len(events) - 1
  <2>1. CASE Len(events) = 1
    BY <1>4, <2>1
  <2>2. CASE Len(events) # 1
    <3>1. Len(events) \in Nat /\ 1 <= Len(events) - 1
      <4>1. \A n \in Nat : n # 0 /\ n # 1 => 1 <= n - 1
        OBVIOUS
      <4> QED
        BY <1>3, <2>2, <4>1
    <3> QED
      BY <1>4, <3>1
  <2> QED
    BY <2>1, <2>2
<1>7. \A i \in 1 .. Len(events) - 1 : cut[i] = events[i]
  BY <1>3, <1>4
<1> QED
  BY <1>5, <1>6, <1>7 DEF cut

LEMMA WithoutIsEvents ==
  ASSUME NEW events, Events(events), NEW i \in 1 .. Len(events)
  PROVE  /\ Events(Without(events, i)) /\ Len(Without(events, i)) = Len(events) - 1
         /\ \A j \in 1 .. Len(events) - 1 :
              Without(events, i)[j] = IF j < i THEN events[j] ELSE events[j + 1]
<1> DEFINE S == {events[j] : j \in 1 .. Len(events)}
           n == Len(events) - 1
           left == Without(events, i)
<1>1. Len(events) \in Nat /\ n \in Nat /\ \A x \in S : Event(x)
  BY EventsAreASeq DEF Events
<1>2. left = [j \in 1 .. n |-> IF j < i THEN events[j] ELSE events[j + 1]]
  BY DEF Without
<1>3. \A j \in 1 .. n : events[j] \in S /\ events[j + 1] \in S
  BY <1>1
<1> HIDE DEF S, left
<1>4. left \in [1 .. n -> S]
  BY <1>2, <1>3
<1>5. left \in Seq(S) /\ Len(left) = n
  BY <1>1, <1>4, SeqDef
<1>6. Events(left)
  BY <1>1, <1>5, SeqIsEvents
<1> QED
  BY <1>2, <1>5, <1>6 DEF left

-----------------------------------------------------------------------------
(* The invariant: what was not touched is as the controller left it.         *)

Parts == {"files", "record", "journal"}

Edits == Parts \X {"content", "field", "event", "cut", "append"}

Left ==
  /\ run.stage \in Stages /\ run.decision \in Decisions
  /\ run.stage = "landed" => run.decision.status = "ACCEPTED"
  /\ edits \in Seq(Edits) /\ Events(journal)
  /\ "files" \notin Touched => files = [f \in Artefacts \cup {"change.patch"} |-> "original"]
  /\ "record" \notin Touched => record = RecordOf(run.stage, run.decision)
  /\ "journal" \notin Touched => journal = JournalOf(run.stage, run.decision)

\* Every journal the controller leaves is one.
LEMMA LeftJournals ==
  ASSUME NEW stage \in Stages, NEW d \in Decisions
  PROVE  Events(JournalOf(stage, d))
<1>1. \/ stage = "running" \/ stage = "aborted" \/ stage = "half appended"
      \/ stage = "closed" \/ stage = "landed"
  BY DEF Stages
<1> QED
  BY <1>1, OpenedIs, AbortedJournals, ClosedJournal, LandedJournal

\* One more edit touches one more part at most, and none less.
LEMMA TouchedGrows ==
  ASSUME NEW part \in Parts, NEW what \in {"content", "field", "event", "cut", "append"},
         edits \in Seq(Edits), Edited(part, what)
  PROVE  edits' \in Seq(Edits) /\ Touched' = Touched \cup {part} /\ run' = run
<1> DEFINE e == <<part, what>>
<1>1. e \in Edits /\ e[1] = part
  BY DEF Edits
<1>2. edits' = Append(edits, e) /\ run' = run
  BY DEF Edited
<1> HIDE DEF e
<1>3. /\ edits' \in Seq(Edits) /\ Len(edits') = Len(edits) + 1
      /\ \A i \in 1 .. Len(edits) : edits'[i] = edits[i]
      /\ edits'[Len(edits) + 1] = e
  BY <1>1, <1>2, AppendProperties
<1>4. /\ Len(edits) \in Nat /\ DOMAIN edits = 1 .. Len(edits)
      /\ DOMAIN edits' = 1 .. Len(edits) + 1
  BY <1>3, LenProperties
<1>5. Touched' = Touched \cup {e[1]}
  <2>1. ASSUME NEW p \in Touched' PROVE p \in Touched \cup {e[1]}
    <3>1. PICK i \in 1 .. Len(edits) + 1 : p = edits'[i][1]
      BY <1>4 DEF Touched
    <3> QED
      BY <1>3, <1>4, <3>1 DEF Touched
  <2>2. ASSUME NEW p \in Touched PROVE p \in Touched'
    <3>1. PICK i \in 1 .. Len(edits) : p = edits[i][1]
      BY <1>4 DEF Touched
    <3>2. i \in DOMAIN edits' /\ edits'[i][1] = p
      BY <1>3, <1>4, <3>1
    <3> QED
      BY <3>2 DEF Touched
  <2>3. e[1] \in Touched'
    <3>1. Len(edits) + 1 \in DOMAIN edits'
      BY <1>4
    <3> QED
      BY <1>3, <3>1 DEF Touched
  <2> QED
    BY <2>1, <2>2, <2>3
<1> QED
  BY <1>1, <1>2, <1>3, <1>5

\* An event of a journal replaced by one that keeps its digest, or takes the one it
\* should have had.
Replaced(i, new) ==
  /\ Event(new) /\ new.sha \in {journal[i].sha, EventDigest(journal[i])}
  /\ journal' = [journal EXCEPT ![i] = new]

Swapped(i) ==
  /\ i + 1 \in 1 .. Len(journal)
  /\ journal' = [journal EXCEPT ![i] = journal[i + 1], ![i + 1] = journal[i]]

Removed(i) == i + 1 \in 1 .. Len(journal) /\ journal' = Without(journal, i)

EditedAt(i) == (\E new : Replaced(i, new)) \/ Swapped(i) \/ Removed(i)

LEMMA JournalEdits ==
  ASSUME Left, EditJournal
  PROVE  \E i \in 1 .. Len(journal) : EditedAt(i)
<1>1. /\ Events(journal) /\ Len(journal) \in Nat /\ DOMAIN journal = 1 .. Len(journal)
      /\ \A i \in 1 .. Len(journal) : Event(journal[i])
  BY EventsAreASeq DEF Left, Events
<1>2. PICK i \in DOMAIN journal :
       \/ \E d \in Decisions : journal' = [journal EXCEPT ![i].payload.decision = d]
       \/ \E type \in {"run.finished", "run.landed"} : journal' = [journal EXCEPT ![i].type = type]
       \/ journal' = [journal EXCEPT ![i].payload.patch = Digest("edited")]
       \/ journal' = [journal EXCEPT ![i].sequence = @ + 1]
       \/ journal' = [journal EXCEPT ![i].sha = EventDigest(journal[i])]
       \/ i > 1 /\ journal' = [journal EXCEPT ![i].previous = journal[i - 1].sha]
       \/ /\ i < Len(journal)
          /\ journal' = [journal EXCEPT ![i] = journal[i + 1], ![i + 1] = journal[i]]
       \/ i < Len(journal) /\ journal' = Without(journal, i)
  BY DEF EditJournal
<1> DEFINE e == journal[i]
<1>3. i \in 1 .. Len(journal) /\ Event(e)
  BY <1>1
<1>4. run.decision \in Decisions
  BY DEF Left
<1> HIDE DEF EditedAt
<1> SUFFICES EditedAt(i)
  BY <1>3
<1>5. CASE \E d \in Decisions : journal' = [journal EXCEPT ![i].payload.decision = d]
  <2>1. PICK d \in Decisions : journal' = [journal EXCEPT ![i].payload.decision = d]
    BY <1>5
  <2> DEFINE new == [e EXCEPT !.payload.decision = d]
  <2>2. journal' = [journal EXCEPT ![i] = new]
    BY <2>1
  <2>3. Event(new)
    BY <1>3, <1>4, FieldEdited
  <2>4. new.sha \in {e.sha, EventDigest(e)}
    BY <1>3 DEF Event
  <2> HIDE DEF new
  <2>5. Replaced(i, new)
    BY <2>2, <2>3, <2>4 DEF Replaced
  <2> QED
    BY <2>5 DEF EditedAt
<1>6. CASE \E type \in {"run.finished", "run.landed"} : journal' = [journal EXCEPT ![i].type = type]
  <2>1. PICK type \in {"run.finished", "run.landed"} : journal' = [journal EXCEPT ![i].type = type]
    BY <1>6
  <2> DEFINE new == [e EXCEPT !.type = type]
  <2>2. journal' = [journal EXCEPT ![i] = new]
    BY <2>1
  <2>3. Event(new)
    BY <1>3, <1>4, FieldEdited
  <2>4. new.sha \in {e.sha, EventDigest(e)}
    BY <1>3 DEF Event
  <2> HIDE DEF new
  <2>5. Replaced(i, new)
    BY <2>2, <2>3, <2>4 DEF Replaced
  <2> QED
    BY <2>5 DEF EditedAt
<1>7. CASE journal' = [journal EXCEPT ![i].payload.patch = Digest("edited")]
  <2> DEFINE new == [e EXCEPT !.payload.patch = Digest("edited")]
  <2>1. journal' = [journal EXCEPT ![i] = new]
    BY <1>7
  <2>2. Event(new)
    BY <1>3, <1>4, FieldEdited
  <2>3. new.sha \in {e.sha, EventDigest(e)}
    BY <1>3 DEF Event
  <2> HIDE DEF new
  <2>4. Replaced(i, new)
    BY <2>1, <2>2, <2>3 DEF Replaced
  <2> QED
    BY <2>4 DEF EditedAt
<1>8. CASE journal' = [journal EXCEPT ![i].sequence = @ + 1]
  <2> DEFINE new == [e EXCEPT !.sequence = e.sequence + 1]
  <2>1. journal' = [journal EXCEPT ![i] = new]
    BY <1>8
  <2>2. Event(new)
    BY <1>3, <1>4, FieldEdited
  <2>3. new.sha \in {e.sha, EventDigest(e)}
    BY <1>3 DEF Event
  <2> HIDE DEF new
  <2>4. Replaced(i, new)
    BY <2>1, <2>2, <2>3 DEF Replaced
  <2> QED
    BY <2>4 DEF EditedAt
<1>9. CASE journal' = [journal EXCEPT ![i].sha = EventDigest(journal[i])]
  <2> DEFINE new == [e EXCEPT !.sha = EventDigest(e)]
  <2>1. journal' = [journal EXCEPT ![i] = new]
    BY <1>9
  <2>2. Event(new)
    BY <1>3, <1>4, FieldEdited
  <2>3. new.sha \in {e.sha, EventDigest(e)}
    BY <1>3 DEF Event
  <2> HIDE DEF new
  <2>4. Replaced(i, new)
    BY <2>1, <2>2, <2>3 DEF Replaced
  <2> QED
    BY <2>4 DEF EditedAt
<1>10. CASE i > 1 /\ journal' = [journal EXCEPT ![i].previous = journal[i - 1].sha]
  <2> DEFINE new == [e EXCEPT !.previous = journal[i - 1].sha]
  <2>1. journal' = [journal EXCEPT ![i] = new]
    BY <1>10
  <2>2. Event(new)
    BY <1>3, <1>4, FieldEdited
  <2>3. new.sha \in {e.sha, EventDigest(e)}
    BY <1>3 DEF Event
  <2> HIDE DEF new
  <2>4. Replaced(i, new)
    BY <2>1, <2>2, <2>3 DEF Replaced
  <2> QED
    BY <2>4 DEF EditedAt
<1>11. CASE /\ i < Len(journal)
            /\ journal' = [journal EXCEPT ![i] = journal[i + 1], ![i + 1] = journal[i]]
  BY <1>1, <1>3, <1>11 DEF EditedAt, Swapped
<1>12. CASE i < Len(journal) /\ journal' = Without(journal, i)
  BY <1>1, <1>3, <1>12 DEF EditedAt, Removed
<1> QED
  BY <1>2, <1>5, <1>6, <1>7, <1>8, <1>9, <1>10, <1>11, <1>12

\* A journal with an event altered, removed or exchanged is one.
LEMMA EditedJournal ==
  ASSUME Left, EditJournal
  PROVE  Events(journal')
<1>1. Events(journal) /\ \A i \in 1 .. Len(journal) : Event(journal[i])
  BY DEF Left, Events
<1>2. PICK i \in 1 .. Len(journal) : EditedAt(i)
  BY JournalEdits
<1>3. CASE \E new : Replaced(i, new)
  <2>1. PICK new : Replaced(i, new)
    BY <1>3
  <2>2. Event(new) /\ journal' = [journal EXCEPT ![i] = new]
    BY <2>1 DEF Replaced
  <2> QED
    BY <1>1, <2>2, OneReplaced
<1>4. CASE Swapped(i)
  <2> DEFINE this == journal[i]
             next == journal[i + 1]
             half == [journal EXCEPT ![i] = next]
  <2>1. Event(this) /\ Event(next) /\ i + 1 \in 1 .. Len(journal)
    BY <1>1, <1>4 DEF Swapped
  <2>2. journal' = [half EXCEPT ![i + 1] = this]
    BY <1>4 DEF Swapped
  <2> HIDE DEF this, next
  <2>3. Events(half) /\ Len(half) = Len(journal)
    BY <1>1, <2>1, OneReplaced
  <2> HIDE DEF half
  <2> QED
    BY <2>1, <2>2, <2>3, OneReplaced
<1>5. CASE Removed(i)
  BY <1>1, <1>5, WithoutIsEvents DEF Removed
<1> QED
  BY <1>2, <1>3, <1>4, <1>5 DEF EditedAt

\* Nor does an event appended as Journal.record would.
LEMMA AppendedJournal ==
  ASSUME Events(journal), AppendToJournal
  PROVE  Events(journal')
<1>1. ASSUME NEW type, NEW payload, Payload(payload), journal' = Extended(journal, type, payload)
      PROVE  Events(journal')
  BY <1>1, ExtendedIs, Zenon DEF OneMore
<1>2. CASE \E patch \in {Digest("original"), Digest("edited")} :
             journal' = Extended(journal, "run.landed", Landing("base", patch))
  BY <1>1, <1>2, PayloadsAre, Zenon
<1>3. CASE \E d \in Decisions : journal' = Extended(journal, "decision.recorded", Deciding(d))
  BY <1>1, <1>3, PayloadsAre, Zenon
<1>4. CASE \E d \in Decisions : journal' = Extended(journal, "run.finished", Deciding(d))
  BY <1>1, <1>4, PayloadsAre, Zenon
<1> QED
  BY <1>2, <1>3, <1>4 DEF AppendToJournal

THEOREM LeftInvariant == Spec => []Left
<1>1. Init => Left
  <2> SUFFICES ASSUME Init PROVE Left
    OBVIOUS
  <2>1. PICK stage \in Stages, d \in Decisions :
          /\ stage = "landed" => d.status = "ACCEPTED"
          /\ run = [stage |-> stage, decision |-> d]
          /\ record = RecordOf(stage, d)
          /\ journal = JournalOf(stage, d)
    BY DEF Init
  <2>2. run.stage = stage /\ run.decision = d
    BY <2>1
  <2>3. edits \in Seq(Edits)
    BY EmptySeq DEF Init
  <2>4. Events(journal)
    BY <2>1, LeftJournals
  <2> QED
    BY <2>1, <2>2, <2>3, <2>4 DEF Init, Left
<1>2. ASSUME Left, [Next]_vars PROVE Left'
  <2>1. CASE EditFile
    <3>1. edits' \in Seq(Edits) /\ Touched' = Touched \cup {"files"} /\ run' = run
      <4>1. Edited("files", "content")
        BY <2>1 DEF EditFile
      <4> QED
        BY <1>2, <4>1, TouchedGrows DEF Left, Parts
    <3> QED
      BY <1>2, <2>1, <3>1 DEF Left, EditFile
  <2>2. CASE EditRecord
    <3>1. edits' \in Seq(Edits) /\ Touched' = Touched \cup {"record"} /\ run' = run
      <4>1. Edited("record", "field")
        BY <2>2 DEF EditRecord
      <4> QED
        BY <1>2, <4>1, TouchedGrows DEF Left, Parts
    <3>2. files' = files /\ journal' = journal
      BY <2>2 DEF EditRecord
    <3> QED
      BY <1>2, <3>1, <3>2 DEF Left
  <2>3. CASE EditJournal
    <3>1. edits' \in Seq(Edits) /\ Touched' = Touched \cup {"journal"} /\ run' = run
      <4>1. Edited("journal", "event")
        BY <2>3 DEF EditJournal
      <4> QED
        BY <1>2, <4>1, TouchedGrows DEF Left, Parts
    <3>2. files' = files /\ record' = record
      BY <2>3 DEF EditJournal
    <3>3. Events(journal')
      BY <1>2, <2>3, EditedJournal
    <3> QED
      BY <1>2, <3>1, <3>2, <3>3 DEF Left
  <2>4. CASE CutJournal
    <3>1. edits' \in Seq(Edits) /\ Touched' = Touched \cup {"journal"} /\ run' = run
      <4>1. Edited("journal", "cut")
        BY <2>4 DEF CutJournal
      <4> QED
        BY <1>2, <4>1, TouchedGrows DEF Left, Parts
    <3>2. files' = files /\ record' = record
      BY <2>4 DEF CutJournal
    <3>3. Events(journal')
      BY <1>2, <2>4, CutIsEvents DEF CutJournal, Left
    <3> QED
      BY <1>2, <3>1, <3>2, <3>3 DEF Left
  <2>5. CASE AppendToJournal
    <3>1. edits' \in Seq(Edits) /\ Touched' = Touched \cup {"journal"} /\ run' = run
      <4>1. Edited("journal", "append")
        BY <2>5 DEF AppendToJournal
      <4> QED
        BY <1>2, <4>1, TouchedGrows DEF Left, Parts
    <3>2. files' = files /\ record' = record
      BY <2>5 DEF AppendToJournal
    <3>3. Events(journal')
      BY <1>2, <2>5, AppendedJournal DEF Left
    <3> QED
      BY <1>2, <3>1, <3>2, <3>3 DEF Left
  <2>6. CASE UNCHANGED vars
    BY <1>2, <2>6 DEF Left, vars, Touched
  <2> QED
    BY <1>2, <2>1, <2>2, <2>3, <2>4, <2>5, <2>6 DEF Next, Untouched
<1> QED
  BY <1>1, <1>2, PTL DEF Spec

-----------------------------------------------------------------------------
(* What a verdict takes.                                                     *)

LEMMA ValidMeans ==
  ASSUME Verdict = "VALID"
  PROVE  /\ FilesHold /\ BlocksHold /\ ChainHolds(journal) /\ record.status # "RUNNING"
         /\ EventsBlockHolds(journal) /\ DecisionHolds(journal) /\ LandingHolds(journal)
  BY DEF Verdict

\* What the controller wrote in the record.
LEMMA RecordLeft ==
  ASSUME NEW stage \in Stages, NEW d \in Decisions
  PROVE  LET left == RecordOf(stage, d)
         IN  /\ left.run = "this" /\ left.base = "base"
             /\ \A a \in Artefacts : left.named[a] = Digest("original")
             /\ \A b \in Blocks : left.blocks[b].digest = Digest(left.blocks[b].content)
             /\ stage \in {"closed", "landed"} =>
                  /\ left.status = d.status /\ left.reasons = d.reasons
                  /\ left.patch = Digest("original")
                  /\ left.events = Summary(JournalOf("closed", d))
             /\ stage \notin {"closed", "landed"} =>
                  left.status = "RUNNING" /\ left.patch = NoDigest
  BY DEF RecordOf, Coarse!Running

-----------------------------------------------------------------------------
(* A journal as it was left, and what it says.                               *)

\* An unfinished run's holds no decision.
LEMMA UnfinishedJournals ==
  ASSUME NEW stage \in Stages, stage \notin {"closed", "landed"}, NEW d \in Decisions,
         journal = JournalOf(stage, d)
  PROVE  ~DecisionHolds(journal)
<1>1. stage = "running" \/ stage = "aborted" \/ stage = "half appended"
  BY DEF Stages
<1>2. \A i \in 1 .. Len(journal) : journal[i].type # "run.finished"
  <2>1. CASE stage = "running"
    <3>1. Len(journal) = 2 /\ \A i \in 1 .. 2 : journal[i].type \in {"run.started", "gate.finished"}
      BY <2>1, OpenedIs
    <3> QED
      BY <3>1
  <2> QED
    BY <1>1, <2>1, AbortedJournals
<1>3. Len(journal) \in Nat /\ DOMAIN journal = 1 .. Len(journal)
  BY LeftJournals, EventsAreASeq
<1> DEFINE closed == Coarse!ClosedCount(journal)
<1>4. closed = Len(journal)
  BY <1>2, <1>3, ClosedIs
<1> HIDE DEF closed
<1> SUFFICES ASSUME closed >= 2, journal[closed].type = "run.finished" PROVE FALSE
  BY DEF DecisionHolds, closed
<1> QED
  BY <1>2, <1>3, <1>4

\* A decided run's closes with its fourth event, landed or not.
LEMMA ClosesFourth ==
  ASSUME NEW events, Len(events) \in Nat, DOMAIN events = 1 .. Len(events), Len(events) >= 4,
         events[4].type = "run.finished", \A i \in 1 .. 3 : events[i].type # "run.finished"
  PROVE  Coarse!ClosedCount(events) = 4
<1> DEFINE closed == Coarse!ClosedCount(events)
<1>1. \/ /\ closed = Len(events)
         /\ \A i \in 1 .. Len(events) : events[i].type # "run.finished"
      \/ /\ closed \in 1 .. Len(events) /\ events[closed].type = "run.finished"
         /\ \A i \in 1 .. closed - 1 : events[i].type # "run.finished"
  BY ClosedIs
<1> HIDE DEF closed
<1>2. 4 \in 1 .. Len(events)
  OBVIOUS
<1>3. closed \in 1 .. Len(events) /\ closed \notin 1 .. 3 /\ 4 \notin 1 .. closed - 1
  BY <1>1, <1>2
<1>4. closed = 4
  BY <1>3
<1> QED
  BY <1>4 DEF closed

LEMMA DecidedJournals ==
  ASSUME NEW stage \in {"closed", "landed"}, NEW d \in Decisions
  PROVE  LET left == JournalOf(stage, d)
         IN  /\ Events(left) /\ Linked(left) /\ Len(left) = (IF stage = "closed" THEN 4 ELSE 5)
             /\ \A i \in 1 .. 4 : left[i] = JournalOf("closed", d)[i]
             /\ Coarse!ClosedCount(left) = 4
             /\ left[3].type = "decision.recorded" /\ left[3].payload = Deciding(d)
             /\ left[4].type = "run.finished" /\ left[4].payload = Deciding(d)
             /\ SubSeq(left, 1, 4) = JournalOf("closed", d)
<1> DEFINE left == JournalOf(stage, d)
           closed == JournalOf("closed", d)
<1>1. /\ Events(closed) /\ Linked(closed) /\ Len(closed) = 4
      /\ closed[3].type = "decision.recorded" /\ closed[3].payload = Deciding(d)
      /\ closed[4].type = "run.finished" /\ closed[4].payload = Deciding(d)
      /\ \A i \in 1 .. 3 : closed[i].type # "run.finished"
  BY ClosedJournal
<1>2. /\ Events(left) /\ Linked(left) /\ Len(left) = (IF stage = "closed" THEN 4 ELSE 5)
      /\ \A i \in 1 .. 4 : left[i] = closed[i]
  BY <1>1, LandedJournal
<1> HIDE DEF left, closed
<1>3. Len(left) \in Nat /\ DOMAIN left = 1 .. Len(left) /\ Len(left) >= 4
  <2>1. Len(left) \in Nat /\ DOMAIN left = 1 .. Len(left)
    BY <1>2, EventsAreASeq
  <2> QED
    BY <1>2, <2>1
<1>4. /\ left[3] = closed[3] /\ left[4] = closed[4]
      /\ \A i \in 1 .. 3 : left[i] = closed[i]
  BY <1>2
<1>5. Coarse!ClosedCount(left) = 4
  BY <1>1, <1>3, <1>4, ClosesFourth
<1>6. SubSeq(left, 1, 4) = closed
  <2> DEFINE S == {left[i] : i \in 1 .. Len(left)}
             cut == SubSeq(left, 1, 4)
  <2>1. \A i \in 1 .. 4 : left[i] \in S
    BY <1>3
  <2>2. cut \in Seq(S) /\ Len(cut) = 4 /\ \A i \in 1 .. 4 : cut[i] = left[i]
    <3> HIDE DEF S
    <3>1. /\ cut \in Seq(S) /\ Len(cut) = IF 1 <= 4 THEN 4 - 1 + 1 ELSE 0
          /\ \A i \in 1 .. 4 - 1 + 1 : cut[i] = left[1 + i - 1]
      BY <2>1, SubSeqProperties
    <3> QED
      BY <3>1
  <2> HIDE DEF cut
  <2>3. cut = [i \in 1 .. 4 |-> cut[i]]
    BY <2>2, SeqDef
  <2>4. closed = [i \in 1 .. 4 |-> closed[i]]
    BY <1>1 DEF Events
  <2> QED
    BY <1>2, <2>2, <2>3, <2>4 DEF cut
<1> QED
  BY <1>1, <1>2, <1>4, <1>5, <1>6 DEF left, closed

-----------------------------------------------------------------------------
(* One part touched, however often.                                          *)

LEMMA OnePartTouched ==
  ASSUME Left, Cardinality(Touched) <= 1
  PROVE  \/ "record" \notin Touched /\ "journal" \notin Touched
         \/ "files" \notin Touched /\ "journal" \notin Touched
         \/ "files" \notin Touched /\ "record" \notin Touched
<1>1. Touched \subseteq Parts
  <2>1. \A i \in DOMAIN edits : edits[i] \in Edits
    BY ElementOfSeq, LenProperties DEF Left
  <2> QED
    BY <2>1 DEF Touched, Edits
<1>2. IsFiniteSet(Touched)
  <2>1. IsFiniteSet({"files"}) /\ IsFiniteSet({"record"}) /\ IsFiniteSet({"journal"})
    BY FS_Singleton
  <2>2. IsFiniteSet(({"files"} \cup {"record"}) \cup {"journal"})
    BY <2>1, FS_Union
  <2>3. Parts = ({"files"} \cup {"record"}) \cup {"journal"}
    BY DEF Parts
  <2> QED
    BY <1>1, <2>2, <2>3, FS_Subset
<1>3. Touched = {} \/ \E p : Touched = {p}
  <2>1. Cardinality(Touched) \in Nat
    BY <1>2, FS_CardinalityType
  <2>2. Cardinality(Touched) = 0 \/ Cardinality(Touched) = 1
    BY <2>1
  <2> QED
    BY <1>2, <2>2, FS_EmptySet, FS_Singleton
<1> QED
  BY <1>3

\* Whatever its edits, a directory one part of which was touched verifies only as
\* what the controller left there.
LEMMA OnePartHolds ==
  ASSUME Left, Verdict = "VALID", Cardinality(Touched) <= 1
  PROVE  /\ run.stage \in {"closed", "landed"}
         /\ record.status = run.decision.status /\ record.reasons = run.decision.reasons
         /\ \A a \in Artefacts : files[a] = "original"
         /\ record.patch # NoDigest => files["change.patch"] = "original"
         /\ SubSeq(journal, 1, 4) = JournalOf("closed", run.decision)
         /\ Coarse!ClosedCount(journal) = 4
<1> DEFINE d == run.decision
           stage == run.stage
<1>1. stage \in Stages /\ d \in Decisions
  BY DEF Left
<1>2. /\ FilesHold /\ record.status # "RUNNING"
      /\ EventsBlockHolds(journal) /\ DecisionHolds(journal)
  BY ValidMeans
<1>3. \A f \in Artefacts \cup {"change.patch"} :
        FileHolds(f, Digest("original")) => files[f] = "original"
  BY DigestOfOne DEF FileHolds
<1>4. CASE "record" \notin Touched /\ "files" \notin Touched
  <2>1. record = RecordOf(stage, d) /\ files = [f \in Artefacts \cup {"change.patch"} |-> "original"]
    BY <1>4 DEF Left
  <2>2. stage \in {"closed", "landed"}
    BY <1>1, <1>2, <2>1, RecordLeft
  <2>3. /\ record.status = d.status /\ record.reasons = d.reasons
        /\ record.events = Summary(JournalOf("closed", d))
    BY <1>1, <2>1, <2>2, RecordLeft
  <2> DEFINE closed == JournalOf("closed", d)
             cut == SubSeq(journal, 1, Coarse!ClosedCount(journal))
  <2>4. cut = closed
    <3>1. Summary(cut) = Summary(closed)
      BY <1>2, <2>3 DEF EventsBlockHolds
    <3> HIDE DEF cut, closed
    <3>2. Digest(cut) = Digest(closed)
      BY <3>1 DEF Summary
    <3> QED
      BY <3>2, DigestOfOne
  <2>5. Events(closed) /\ Len(closed) = 4 /\ Events(journal)
    BY <1>1, ClosedJournal DEF Left
  <2>6. DOMAIN closed = 1 .. 4
    BY <2>5, EventsAreASeq
  <2> HIDE DEF closed
  <2>7. Coarse!ClosedCount(journal) = 4 /\ SubSeq(journal, 1, 4) = closed
    BY <2>4, <2>5, <2>6, ClosedPrefix
  <2> QED
    BY <2>1, <2>2, <2>3, <2>7 DEF closed
<1>5. CASE "journal" \notin Touched
  <2>1. journal = JournalOf(stage, d)
    BY <1>5 DEF Left
  <2>2. stage \in {"closed", "landed"}
    BY <1>1, <1>2, <2>1, UnfinishedJournals
  <2>3. /\ Coarse!ClosedCount(journal) = 4 /\ SubSeq(journal, 1, 4) = JournalOf("closed", d)
        /\ journal[3].payload = Deciding(d)
    BY <1>1, <2>1, <2>2, DecidedJournals
  <2>4. record.status = d.status /\ record.reasons = d.reasons
    <3>1. /\ journal[4 - 1].payload.decision.status = record.status
          /\ journal[4 - 1].payload.decision.reasons = record.reasons
      BY <1>2, <2>3 DEF DecisionHolds
    <3>2. journal[3].payload.decision = d
      BY <2>3, PayloadFields
    <3> QED
      BY <3>1, <3>2
  <2>5. CASE "record" \notin Touched
    <3>1. record = RecordOf(stage, d)
      BY <2>5 DEF Left
    <3>2. record.patch = Digest("original") /\ \A a \in Artefacts : record.named[a] = Digest("original")
      BY <1>1, <2>2, <3>1, RecordLeft
    <3>3. \A a \in Artefacts : files[a] = "original"
      BY <1>2, <1>3, <3>2, DigestIsOne DEF FilesHold
    <3>4. record.patch # NoDigest => files["change.patch"] = "original"
      BY <1>2, <1>3, <3>2 DEF FilesHold
    <3> QED
      BY <2>2, <2>3, <2>4, <3>3, <3>4
  <2>6. CASE "files" \notin Touched
    BY <2>2, <2>3, <2>4, <2>6 DEF Left
  <2> QED
    BY <2>5, <2>6, OnePartTouched
<1> QED
  BY <1>4, <1>5, OnePartTouched

\* However often one part of a directory is edited, it cannot verify with another
\* decision, another patch or another artefact than the controller left.
THEOREM OnePartNeverLies == Spec => []OnePartCannotLie
<1>1. Left => OnePartCannotLie
  BY OnePartHolds DEF OnePartCannotLie
<1> QED
  BY <1>1, LeftInvariant, PTL

-----------------------------------------------------------------------------
(* Verification, an abstraction of this one.                                 *)

\* What it keeps of a journal: its events, and where it closes.
LEMMA KeptIs ==
  ASSUME NEW events, Events(events)
  PROVE  /\ Len(Kept(events)) = Len(events) /\ DOMAIN Kept(events) = 1 .. Len(events)
         /\ \A i \in 1 .. Len(events) :
              /\ Kept(events)[i].sequence = events[i].sequence
              /\ Kept(events)[i].type = events[i].type
              /\ Kept(events)[i].decision = events[i].payload.decision
         /\ Coarse!ClosedCount(Kept(events)) = Coarse!ClosedCount(events)
<1> DEFINE kept == Kept(events)
<1>1. Len(events) \in Nat /\ DOMAIN events = 1 .. Len(events)
  BY EventsAreASeq
<1>2. kept = [i \in 1 .. Len(events) |->
                [sequence |-> events[i].sequence, type |-> events[i].type,
                 decision |-> events[i].payload.decision]]
  BY <1>1 DEF Kept
<1> HIDE DEF kept
<1>3. DOMAIN kept = 1 .. Len(events) /\ Len(kept) = Len(events)
  <2> DEFINE S == {kept[i] : i \in 1 .. Len(events)}
  <2>1. kept \in [1 .. Len(events) -> S]
    BY <1>2
  <2> HIDE DEF S
  <2> QED
    BY <1>1, <2>1, SeqDef
<1>4. \A i \in 1 .. Len(events) :
        /\ kept[i].sequence = events[i].sequence /\ kept[i].type = events[i].type
        /\ kept[i].decision = events[i].payload.decision
  BY <1>2
<1>5. Coarse!Closings(kept) = Coarse!Closings(events)
  BY <1>1, <1>3, <1>4 DEF Coarse!Closings
<1>6. Coarse!ClosedCount(kept) = Coarse!ClosedCount(events)
  BY <1>3, <1>5 DEF Coarse!ClosedCount
<1> QED
  BY <1>3, <1>4, <1>6 DEF kept

\* What it keeps of the record.
Evidence ==
  Coarse!Written([status |-> record.status, reasons |-> record.reasons], 0, record.events.count)

LEMMA EvidenceIs ==
  /\ Evidence.readable /\ Evidence.decision = [status |-> record.status, reasons |-> record.reasons]
  /\ Evidence.decision.status = record.status /\ Evidence.count = record.events.count
  BY DEF Evidence, Coarse!Written

\* It accepts whatever the verification in full accepts.
LEMMA AcceptsMore ==
  ASSUME Left, Verdict = "VALID"
  PROVE  CoarseVerdict = "VALID"
<1> DEFINE kept == Kept(journal)
           closed == Coarse!ClosedCount(journal)
<1>1. /\ ChainHolds(journal) /\ record.status # "RUNNING"
      /\ EventsBlockHolds(journal) /\ DecisionHolds(journal) /\ LandingHolds(journal)
  BY ValidMeans
<1>2. /\ Events(journal) /\ Len(journal) \in Nat /\ DOMAIN journal = 1 .. Len(journal)
  BY EventsAreASeq DEF Left
<1>3. /\ Len(kept) = Len(journal) /\ DOMAIN kept = 1 .. Len(journal)
      /\ \A i \in 1 .. Len(journal) :
           /\ kept[i].sequence = journal[i].sequence /\ kept[i].type = journal[i].type
           /\ kept[i].decision = journal[i].payload.decision
      /\ Coarse!ClosedCount(kept) = closed
  BY <1>2, KeptIs
<1>4. closed \in 1 .. Len(journal) /\ closed >= 2 /\ closed - 1 \in 1 .. Len(journal)
  <2>1. closed \in 0 .. Len(journal)
    BY <1>2, ClosedIs
  <2> HIDE DEF closed
  <2>2. closed >= 2
    BY <1>1 DEF DecisionHolds, closed
  <2> QED
    BY <1>2, <2>1, <2>2
<1> HIDE DEF kept
<1>5. Coarse!ChainHolds(kept)
  BY <1>1, <1>2, <1>3 DEF ChainHolds, Coarse!ChainHolds
<1>6. Evidence.count = closed
  <2> DEFINE S == {journal[i] : i \in 1 .. Len(journal)}
  <2> HIDE DEF closed
  <2>1. \A i \in 1 .. closed : journal[i] \in S
    BY <1>2, <1>4
  <2> HIDE DEF S
  <2>2. 1 \in Int /\ closed \in Int
    BY <1>4
  <2>3. Len(SubSeq(journal, 1, closed)) = IF 1 <= closed THEN closed - 1 + 1 ELSE 0
    BY <2>1, <2>2, SubSeqProperties
  <2>4. Len(SubSeq(journal, 1, closed)) = closed
    BY <1>4, <2>3
  <2>5. record.events.count = Len(SubSeq(journal, 1, closed))
    <3> DEFINE cut == SubSeq(journal, 1, closed)
    <3>1. record.events = Summary(cut)
      BY <1>1 DEF EventsBlockHolds, closed
    <3> HIDE DEF cut
    <3>2. Summary(cut).count = Len(cut)
      BY DEF Summary
    <3> QED
      BY <3>1, <3>2 DEF cut
  <2> QED
    BY <2>4, <2>5, EvidenceIs
<1>7. Coarse!DecisionAgrees(Evidence, kept)
  <2> HIDE DEF closed
  <2>1. /\ journal[closed].type = "run.finished"
        /\ journal[closed].payload.decision.status = record.status
        /\ journal[closed - 1].type = "decision.recorded"
        /\ journal[closed - 1].payload.decision.status = record.status
        /\ journal[closed - 1].payload.decision.reasons = record.reasons
    BY <1>1 DEF DecisionHolds, closed
  <2> DEFINE stated == journal[closed - 1].payload.decision
  <2>2. stated = [status |-> stated.status, reasons |-> stated.reasons]
    <3>1. Event(journal[closed - 1])
      BY <1>2, <1>4 DEF Events
    <3>2. stated \in Decisions \cup {Coarse!Running}
      BY <3>1 DEF Event, Payload
    <3> HIDE DEF stated
    <3> QED
      BY <3>2, DecisionShape
  <2>3. kept[closed - 1].decision = Evidence.decision
    BY <1>3, <1>4, <2>1, <2>2, EvidenceIs
  <2>4. kept[closed].type = "run.finished" /\ kept[closed - 1].type = "decision.recorded"
        /\ kept[closed].decision.status = record.status
    BY <1>3, <1>4, <2>1
  <2> QED
    BY <1>3, <1>4, <2>3, <2>4, EvidenceIs DEF Coarse!DecisionAgrees
<1>8. Coarse!LandingAgrees(Evidence, kept)
  <2> HIDE DEF closed
  <2>1. \/ Len(journal) = closed
        \/ /\ Len(journal) = closed + 1 /\ journal[closed + 1].type = "run.landed"
           /\ record.status = "ACCEPTED"
    BY <1>1 DEF LandingHolds, closed
  <2>2. CASE Len(journal) = closed
    BY <1>3, <2>2 DEF Coarse!LandingAgrees
  <2>3. CASE /\ Len(journal) = closed + 1 /\ journal[closed + 1].type = "run.landed"
             /\ record.status = "ACCEPTED"
    <3>1. Len(kept) = closed + 1 /\ kept[Len(kept)].type = "run.landed"
      <4>1. closed + 1 \in 1 .. Len(journal)
        BY <1>4, <2>3
      <4> QED
        BY <1>3, <2>3, <4>1
    <3> QED
      BY <1>3, <2>3, <3>1, EvidenceIs DEF Coarse!LandingAgrees
  <2> QED
    BY <2>1, <2>2, <2>3
<1>9. CoarseVerdict = Coarse!Verdict(Evidence, kept)
  BY DEF CoarseVerdict, Evidence, kept
<1> QED
  BY <1>1, <1>3, <1>5, <1>6, <1>7, <1>8, <1>9, EvidenceIs DEF Coarse!Verdict

\* What the controller left and nobody edited holds together, half appended aside.
LEMMA UntouchedHolds ==
  ASSUME Left, Touched = {}
  PROVE  /\ FilesHold /\ BlocksHold
         /\ run.stage # "half appended" => ChainHolds(journal)
         /\ run.stage \in {"closed", "landed"} => Verdict = "VALID"
         /\ run.stage \notin {"closed", "landed"} => record.status = "RUNNING"
<1> DEFINE d == run.decision
           stage == run.stage
<1>1. /\ stage \in Stages /\ d \in Decisions
      /\ files = [f \in Artefacts \cup {"change.patch"} |-> "original"]
      /\ record = RecordOf(stage, d) /\ journal = JournalOf(stage, d)
  BY DEF Left
<1>2. /\ record.run = "this" /\ record.base = "base"
      /\ \A a \in Artefacts : record.named[a] = Digest("original")
      /\ \A b \in Blocks : record.blocks[b].digest = Digest(record.blocks[b].content)
      /\ stage \in {"closed", "landed"} =>
           /\ record.status = d.status /\ record.reasons = d.reasons
           /\ record.patch = Digest("original")
           /\ record.events = Summary(JournalOf("closed", d))
      /\ stage \notin {"closed", "landed"} => record.status = "RUNNING" /\ record.patch = NoDigest
  BY <1>1, RecordLeft
<1>3. \A f \in Artefacts \cup {"change.patch"} : FileHolds(f, Digest("original"))
  BY <1>1 DEF FileHolds
<1>4. FilesHold
  BY <1>2, <1>3 DEF FilesHold
<1>5. BlocksHold
  BY <1>2 DEF BlocksHold
<1>6. Linked(journal) => ChainHolds(journal)
  BY <1>1, <1>2, LeftJournals, EventsAreASeq DEF Linked, ChainHolds
<1>7. stage # "half appended" => Linked(journal)
  BY <1>1, OpenedIs, AbortedJournals, ClosedJournal, LandedJournal DEF Stages
<1>8. ASSUME stage \in {"closed", "landed"} PROVE Verdict = "VALID"
  <2>1. /\ Len(journal) = (IF stage = "closed" THEN 4 ELSE 5)
        /\ Coarse!ClosedCount(journal) = 4
        /\ journal[3].type = "decision.recorded" /\ journal[3].payload = Deciding(d)
        /\ journal[4].type = "run.finished" /\ journal[4].payload = Deciding(d)
        /\ SubSeq(journal, 1, 4) = JournalOf("closed", d)
    BY <1>1, <1>8, DecidedJournals
  <2>2. EventsBlockHolds(journal)
    BY <1>2, <1>8, <2>1 DEF EventsBlockHolds
  <2>3. DecisionHolds(journal)
    <3>1. Deciding(d).decision = d
      BY PayloadFields
    <3> QED
      BY <1>2, <1>8, <2>1, <3>1 DEF DecisionHolds
  <2>4. LandingHolds(journal)
    <3>1. CASE stage = "closed"
      BY <2>1, <3>1 DEF LandingHolds
    <3>2. CASE stage = "landed"
      <4>1. journal[5].type = "run.landed" /\ journal[5].payload = Landing("base", Digest("original"))
        BY <1>1, <3>2, LandedJournal
      <4>2. /\ journal[5].payload.base = "base" /\ journal[5].payload.patch = Digest("original")
            /\ journal[5].payload.commit = TRUE
        BY <4>1, PayloadFields
      <4>3. record.status = "ACCEPTED"
        BY <1>2, <3>2 DEF Left
      <4> QED
        BY <1>2, <2>1, <3>2, <4>1, <4>2, <4>3 DEF LandingHolds
    <3> QED
      BY <1>8, <3>1, <3>2
  <2>5. record.status # "RUNNING"
    BY <1>1, <1>2, <1>8, DecisionShape DEF Statuses
  <2>6. ChainHolds(journal)
    BY <1>6, <1>7, <1>8
  <2> QED
    BY <1>4, <1>5, <2>2, <2>3, <2>4, <2>5, <2>6 DEF Verdict
<1> QED
  BY <1>2, <1>4, <1>5, <1>6, <1>7, <1>8

\* Of a directory the controller left, both say the same.
LEMMA SaysTheSame ==
  ASSUME Left, Touched = {}
  PROVE  Verdict = CoarseVerdict
<1> DEFINE kept == Kept(journal)
<1>1. CASE run.stage \in {"closed", "landed"}
  BY <1>1, UntouchedHolds, AcceptsMore
<1>2. CASE run.stage \notin {"closed", "landed"}
  <2>1. FilesHold /\ BlocksHold /\ record.status = "RUNNING"
    BY <1>2, UntouchedHolds
  <2>2. Len(journal) \in Nat /\ DOMAIN journal = 1 .. Len(journal) /\ Events(journal)
    BY EventsAreASeq DEF Left
  <2>3. /\ DOMAIN kept = 1 .. Len(journal)
        /\ \A i \in 1 .. Len(journal) : kept[i].sequence = journal[i].sequence
    BY <2>2, KeptIs
  <2>4. ChainHolds(journal) <=> Coarse!ChainHolds(kept)
    <3> HIDE DEF kept
    <3>1. CASE run.stage = "half appended"
      <4>1. Len(journal) = 3 /\ journal[3].sequence = 2
        <5>1. journal = JournalOf("half appended", run.decision)
          BY <3>1 DEF Left
        <5> QED
          BY <5>1, AbortedJournals
      <4>2. 3 \in 1 .. Len(journal) /\ kept[3].sequence = 2
        BY <2>3, <4>1
      <4> QED
        BY <2>2, <2>3, <4>1, <4>2 DEF ChainHolds, Coarse!ChainHolds
    <3>2. CASE run.stage # "half appended"
      <4>1. ChainHolds(journal)
        BY <3>2, UntouchedHolds
      <4> QED
        BY <2>2, <2>3, <4>1 DEF ChainHolds, Coarse!ChainHolds
    <3> QED
      BY <3>1, <3>2
  <2>5. CoarseVerdict = Coarse!Verdict(Evidence, kept)
    BY DEF CoarseVerdict, Evidence
  <2> QED
    BY <2>1, <2>4, <2>5, EvidenceIs DEF Verdict, Coarse!Verdict
<1> QED
  BY <1>1, <1>2

\* Verification, which RunRecord and Landing rely on, accepts whatever this one
\* does, and says the same of every directory the controller left.
THEOREM VerificationIsAbstract == Spec => []VerificationAbstracts
<1>1. Left => VerificationAbstracts
  <2> SUFFICES ASSUME Left PROVE VerificationAbstracts
    OBVIOUS
  <2>1. ASSUME edits = <<>> PROVE Touched = {}
    BY <2>1 DEF Touched
  <2> QED
    BY <2>1, AcceptsMore, SaysTheSame DEF VerificationAbstracts
<1> QED
  BY <1>1, LeftInvariant, PTL

-----------------------------------------------------------------------------
(* One edit of a decided run.                                                *)

\* What OnePartHolds concludes, over the directory as it stands.
OnlyAsDecided ==
  Verdict = "VALID" /\ Cardinality(Touched) <= 1 =>
    /\ run.stage \in {"closed", "landed"}
    /\ record.status = run.decision.status /\ record.reasons = run.decision.reasons
    /\ \A a \in Artefacts : files[a] = "original"
    /\ record.patch # NoDigest => files["change.patch"] = "original"
    /\ SubSeq(journal, 1, 4) = JournalOf("closed", run.decision)
    /\ Coarse!ClosedCount(journal) = 4

\* A decided run as the controller left it.
Decided ==
  /\ edits = <<>> /\ run.stage \in {"closed", "landed"} /\ run.decision \in Decisions
  /\ files = [f \in Artefacts \cup {"change.patch"} |-> "original"]
  /\ record = RecordOf(run.stage, run.decision)
  /\ journal = JournalOf(run.stage, run.decision)

\* A step that leaves it verifying, with what the verification took.
StillValid ==
  /\ FilesHold' /\ BlocksHold' /\ ChainHolds(journal)'
  /\ EventsBlockHolds(journal)' /\ LandingHolds(journal)'
  /\ record'.status = run.decision.status /\ record'.reasons = run.decision.reasons
  /\ \A a \in Artefacts : files'[a] = "original"
  /\ record'.patch # NoDigest => files'["change.patch"] = "original"
  /\ Coarse!ClosedCount(journal') = 4
  /\ SubSeq(journal', 1, 4) = JournalOf("closed", run.decision)

\* The record and the journal of a decided run, field by field.
LEMMA DecidedIs ==
  ASSUME Decided
  PROVE  /\ Events(journal) /\ Linked(journal) /\ DOMAIN journal = 1 .. Len(journal)
         /\ Len(journal) = (IF run.stage = "closed" THEN 4 ELSE 5)
         /\ run.stage = "landed" =>
              /\ journal[5].type = "run.landed" /\ journal[5].payload.base = "base"
              /\ journal[5].payload.patch = Digest("original")
         /\ record.run = "this" /\ record.base = "base" /\ record.patch = Digest("original")
         /\ record.status = run.decision.status /\ record.reasons = run.decision.reasons
         /\ record.events = Summary(JournalOf("closed", run.decision))
         /\ record = [run |-> record.run, status |-> record.status, reasons |-> record.reasons,
                      base |-> record.base, patch |-> record.patch, named |-> record.named,
                      blocks |-> record.blocks, events |-> record.events, other |-> record.other]
         /\ record.named = [a \in Artefacts |-> Digest("original")]
         /\ record.blocks = [b \in Blocks |-> [content |-> "original", digest |-> Digest("original")]]
         /\ record.other = "original"
<1> DEFINE d == run.decision
           stage == run.stage
<1>1. stage \in {"closed", "landed"} /\ stage \in Stages /\ d \in Decisions
  BY DEF Decided, Stages
<1>2. /\ Events(journal) /\ Linked(journal)
      /\ Len(journal) = (IF stage = "closed" THEN 4 ELSE 5)
  BY <1>1, DecidedJournals DEF Decided
<1>3. DOMAIN journal = 1 .. Len(journal)
  BY <1>2, EventsAreASeq
<1>4. ASSUME stage = "landed"
      PROVE  /\ journal[5].type = "run.landed" /\ journal[5].payload.base = "base"
             /\ journal[5].payload.patch = Digest("original")
  <2>1. journal[5].type = "run.landed" /\ journal[5].payload = Landing("base", Digest("original"))
    BY <1>1, <1>4, LandedJournal DEF Decided
  <2> QED
    BY <2>1, PayloadFields
<1>5. /\ record.run = "this" /\ record.base = "base" /\ record.patch = Digest("original")
      /\ record.status = d.status /\ record.reasons = d.reasons
      /\ record.events = Summary(JournalOf("closed", d))
  BY <1>1, RecordLeft DEF Decided
<1>6. /\ record = [run |-> record.run, status |-> record.status, reasons |-> record.reasons,
                   base |-> record.base, patch |-> record.patch, named |-> record.named,
                   blocks |-> record.blocks, events |-> record.events, other |-> record.other]
      /\ record.named = [a \in Artefacts |-> Digest("original")]
      /\ record.blocks = [b \in Blocks |-> [content |-> "original", digest |-> Digest("original")]]
      /\ record.other = "original"
  BY DEF Decided, RecordOf
<1> QED
  BY <1>2, <1>3, <1>4, <1>5, <1>6

LEMMA FileSeen ==
  ASSUME Decided, EditFile, StillValid
  PROVE  FALSE
<1>1. PICK f \in DOMAIN files, content \in {"edited", "missing"} :
        files' = [files EXCEPT ![f] = content]
  BY DEF EditFile
<1>2. f \in Artefacts \cup {"change.patch"} /\ files'[f] = content
  BY <1>1 DEF Decided
<1>3. record'.patch # NoDigest
  BY DecidedIs, DigestIsOne DEF EditFile
<1>4. content # "original"
  OBVIOUS
<1> QED
  BY <1>2, <1>3, <1>4 DEF StillValid

\* An event altered, removed or exchanged with the next breaks the chain.
LEMMA EventSeen ==
  ASSUME Left, Decided, EditJournal, StillValid
  PROVE  FALSE
<1>1. /\ Events(journal) /\ Linked(journal) /\ DOMAIN journal = 1 .. Len(journal)
      /\ Len(journal) \in Nat /\ \A i \in 1 .. Len(journal) : Event(journal[i])
  BY DecidedIs, EventsAreASeq DEF Events
<1>2. PICK i \in 1 .. Len(journal) : EditedAt(i)
  BY JournalEdits
<1>3. \A j \in DOMAIN journal' :
        journal'[j].sequence = j /\ journal'[j].sha = EventDigest(journal'[j])
  BY DEF StillValid, ChainHolds, EventDigest, Unsigned
<1>4. ASSUME NEW new, Replaced(i, new) PROVE FALSE
  <2>1. Event(new) /\ new.sha \in {journal[i].sha, EventDigest(journal[i])}
        /\ journal' = [journal EXCEPT ![i] = new]
    BY <1>4 DEF Replaced
  <2>2. i \in DOMAIN journal' /\ journal'[i] = new
    BY <1>1, <2>1
  <2>3. new.sha = EventDigest(new) /\ new.sha = EventDigest(journal[i])
        /\ journal[i].sha = EventDigest(journal[i])
    BY <1>1, <1>3, <2>1, <2>2 DEF Linked
  <2>4. Unsigned(new) = Unsigned(journal[i])
    BY <2>3, DigestOfOne DEF EventDigest
  <2>5. /\ new.run = journal[i].run /\ new.sequence = journal[i].sequence
        /\ new.type = journal[i].type /\ new.payload = journal[i].payload
        /\ new.previous = journal[i].previous
    BY <2>4 DEF Unsigned
  <2>6. new = journal[i]
    BY <1>1, <2>1, <2>3, <2>5 DEF Event
  <2>7. journal' = journal
    <3>1. journal = [j \in 1 .. Len(journal) |-> journal[j]]
      BY <1>1 DEF Events
    <3>2. [journal EXCEPT ![i] = journal[i]] = journal
      BY <3>1
    <3> QED
      BY <2>1, <2>6, <3>2
  <2> QED
    BY <2>7 DEF EditJournal
<1>5. \A j \in 1 .. Len(journal) : journal[j].sequence = j
  BY <1>1 DEF Linked
<1>6. CASE Swapped(i)
  <2>1. i \in DOMAIN journal' /\ journal'[i] = journal[i + 1] /\ i + 1 \in 1 .. Len(journal)
    <3>1. /\ i + 1 \in 1 .. Len(journal) /\ i # i + 1
          /\ journal' = [journal EXCEPT ![i] = journal[i + 1], ![i + 1] = journal[i]]
      BY <1>6 DEF Swapped
    <3> QED
      BY <1>1, <3>1
  <2>2. i + 1 = i
    BY <1>3, <1>5, <2>1
  <2> QED
    BY <2>2
<1>7. CASE Removed(i)
  <2>1. i + 1 \in 1 .. Len(journal) /\ journal' = Without(journal, i)
    BY <1>7 DEF Removed
  <2>2. i \in 1 .. Len(journal) - 1
    BY <1>1, <2>1
  <2>3. i \in DOMAIN journal' /\ journal'[i] = journal[i + 1]
    BY <1>1, <2>1, <2>2 DEF Without
  <2>4. i + 1 = i
    BY <1>3, <1>5, <2>1, <2>3
  <2> QED
    BY <2>4
<1> QED
  BY <1>2, <1>4, <1>6, <1>7 DEF EditedAt

\* The last event gone: only a landing may be.
LEMMA CutSeen ==
  ASSUME Decided, CutJournal, StillValid
  PROVE  run.stage = "landed" /\ edits'[1] = <<"journal", "cut">>
<1>1. /\ Events(journal) /\ journal # <<>>
      /\ Len(journal) = (IF run.stage = "closed" THEN 4 ELSE 5)
      /\ journal' = SubSeq(journal, 1, Len(journal) - 1)
  BY DecidedIs DEF CutJournal
<1>2. Events(journal') /\ Len(journal') = Len(journal) - 1
  BY <1>1, CutIsEvents
<1>3. Coarse!ClosedCount(journal') <= Len(journal')
  <2>1. Len(journal') \in Nat /\ DOMAIN journal' = 1 .. Len(journal')
    BY <1>2, EventsAreASeq
  <2>2. Coarse!ClosedCount(journal') \in 0 .. Len(journal')
    BY <2>1, ClosedIs
  <2> QED
    BY <2>1, <2>2
<1>4. run.stage = "landed"
  BY <1>1, <1>2, <1>3 DEF StillValid, Decided
<1>5. edits' = Append(<<>>, <<"journal", "cut">>)
  BY DEF CutJournal, Edited, Decided
<1> QED
  BY <1>4, <1>5

\* One event more: only of a run not landed and accepted.
LEMMA AppendSeen ==
  ASSUME Decided, AppendToJournal, StillValid
  PROVE  /\ run.stage = "closed" /\ run.decision.status = "ACCEPTED"
         /\ edits'[1] = <<"journal", "append">>
<1>1. Events(journal) /\ Len(journal) = (IF run.stage = "closed" THEN 4 ELSE 5)
  BY DecidedIs
<1>2. Len(journal') = Len(journal) + 1
  <2>1. ASSUME NEW type, NEW payload, Payload(payload), journal' = Extended(journal, type, payload)
        PROVE  Len(journal') = Len(journal) + 1
    <3> DEFINE more == Extended(journal, type, payload)
    <3>1. OneMore(journal, more, type, payload)
      BY <1>1, <2>1, ExtendedIs, Zenon
    <3> HIDE DEF more
    <3>2. Len(more) = Len(journal) + 1
      BY <3>1 DEF OneMore
    <3> QED
      BY <2>1, <3>2 DEF more
  <2>2. CASE \E patch \in {Digest("original"), Digest("edited")} :
               journal' = Extended(journal, "run.landed", Landing("base", patch))
    BY <2>1, <2>2, PayloadsAre, Zenon
  <2>3. CASE \E d \in Decisions : journal' = Extended(journal, "decision.recorded", Deciding(d))
    BY <2>1, <2>3, PayloadsAre, Zenon
  <2>4. CASE \E d \in Decisions : journal' = Extended(journal, "run.finished", Deciding(d))
    BY <2>1, <2>4, PayloadsAre, Zenon
  <2> QED
    BY <2>2, <2>3, <2>4 DEF AppendToJournal
<1>3. \/ Len(journal') = 4
      \/ Len(journal') = 5 /\ record'.status = "ACCEPTED"
  BY DEF StillValid, LandingHolds
<1>4. run.stage = "closed" /\ record'.status = "ACCEPTED"
  BY <1>1, <1>2, <1>3 DEF Decided
<1>5. edits' = Append(<<>>, <<"journal", "append">>)
  BY DEF AppendToJournal, Edited, Decided
<1> QED
  BY <1>4, <1>5 DEF StillValid

\* One field of the record: what it stops naming, what no digest covers, and of a
\* run not landed the base commit and the digest of the patch.
LEMMA FieldSeen ==
  ASSUME Decided, EditRecord, StillValid
  PROVE  \/ edits'[1] = <<"record", "field">> /\ Unread'
         \/ run.stage = "closed" /\ (record'.base = "edited" \/ record'.patch = NoDigest)
<1> DEFINE d == run.decision
<1>1. /\ Events(journal) /\ Linked(journal) /\ DOMAIN journal = 1 .. Len(journal)
      /\ Len(journal) = (IF run.stage = "closed" THEN 4 ELSE 5)
      /\ run.stage = "landed" =>
           /\ journal[5].type = "run.landed" /\ journal[5].payload.base = "base"
           /\ journal[5].payload.patch = Digest("original")
  BY DecidedIs
<1>2. /\ record.run = "this" /\ record.base = "base" /\ record.patch = Digest("original")
      /\ record.status = d.status /\ record.reasons = d.reasons
      /\ record.events = Summary(JournalOf("closed", d))
      /\ record = [run |-> record.run, status |-> record.status, reasons |-> record.reasons,
                   base |-> record.base, patch |-> record.patch, named |-> record.named,
                   blocks |-> record.blocks, events |-> record.events, other |-> record.other]
      /\ record.named = [a \in Artefacts |-> Digest("original")]
      /\ record.blocks = [b \in Blocks |-> [content |-> "original", digest |-> Digest("original")]]
      /\ record.other = "original"
  BY DecidedIs
<1>3. record' # record /\ files' = files /\ journal' = journal
  BY DEF EditRecord
<1>4. run.stage = "landed" => record'.base = "base" /\ record'.patch = Digest("original")
  <2> SUFFICES ASSUME run.stage = "landed"
               PROVE  record'.base = "base" /\ record'.patch = Digest("original")
    OBVIOUS
  <2>1. Len(journal') = 5 /\ Coarse!ClosedCount(journal') = 4 /\ journal'[5] = journal[5]
    BY <1>1, <1>3 DEF StillValid
  <2>2. journal'[5].payload.base = record'.base /\ journal'[5].payload.patch = record'.patch
    BY <2>1 DEF StillValid, LandingHolds
  <2> QED
    BY <1>1, <2>1, <2>2
<1>5. CASE \E e \in Decisions \cup {Coarse!Running} : record' = [record EXCEPT !.status = e.status]
  <2>1. record'.status = record.status
    BY <1>2 DEF StillValid
  <2> QED
    BY <1>2, <1>3, <1>5, <2>1
<1>6. CASE \E e \in Decisions : record' = [record EXCEPT !.reasons = e.reasons]
  <2>1. record'.reasons = record.reasons
    BY <1>2 DEF StillValid
  <2> QED
    BY <1>2, <1>3, <1>6, <2>1
<1>7. CASE record' = [record EXCEPT !.base = "edited"]
  <2>1. record'.base = "edited"
    BY <1>2, <1>7
  <2> QED
    BY <1>4, <2>1 DEF Decided
<1>0. edits'[1] = <<"record", "field">>
  <2>1. edits' = Append(<<>>, <<"record", "field">>)
    BY DEF EditRecord, Edited, Decided
  <2> QED
    BY <2>1
<1>8. CASE \E id \in {"edited", NoRun} : record' = [record EXCEPT !.run = id]
  <2>1. record'.run \in {"edited", NoRun}
    BY <1>2, <1>8
  <2>2. CASE record'.run = NoRun
    BY <1>0, <2>2 DEF Unread
  <2>3. CASE record'.run # NoRun
    <3>1. 1 \in DOMAIN journal' /\ journal'[1].run = "this"
      BY <1>1, <1>3 DEF Linked
    <3>2. record'.run = "this"
      BY <2>3, <3>1 DEF StillValid, ChainHolds
    <3> QED
      BY <2>1, <2>3, <3>2
  <2> QED
    BY <2>2, <2>3
<1>14. CASE record' = [record EXCEPT !.other = "edited"]
  <2>1. record'.other = "edited"
    BY <1>2, <1>14
  <2> QED
    BY <1>0, <2>1 DEF Unread
<1>15. CASE \E as \in SUBSET Artefacts, bs \in SUBSET Blocks : record' = Stripped(as, bs)
  <2>1. PICK as \in SUBSET Artefacts, bs \in SUBSET Blocks : record' = Stripped(as, bs)
    BY <1>15
  <2>2. /\ record'.named = [a \in Artefacts |-> IF a \in as THEN NoDigest ELSE record.named[a]]
        /\ record'.blocks = [b \in Blocks |-> IF b \in bs THEN NoBlock ELSE record.blocks[b]]
        /\ record' = [record EXCEPT !.named = record'.named, !.blocks = record'.blocks]
    BY <1>2, <2>1 DEF Stripped
  <2>3. CASE \E a \in Artefacts : a \in as
    BY <1>0, <2>2, <2>3 DEF Unread
  <2>4. CASE \E b \in Blocks : b \in bs
    <3>1. PICK b \in Blocks : b \in bs
      BY <2>4
    <3>2. record'.blocks[b].digest = NoDigest
      BY <2>2, <3>1 DEF NoBlock
    <3> QED
      BY <1>0, <3>1, <3>2 DEF Unread
  <2>5. CASE as = {} /\ bs = {}
    <3>1. record'.named = record.named /\ record'.blocks = record.blocks
      BY <1>2, <2>2, <2>5
    <3>2. record' = record
      BY <1>2, <2>2, <3>1
    <3> QED
      BY <1>3, <3>2
  <2> QED
    BY <2>3, <2>4, <2>5
<1>9. CASE \E digest \in {NoDigest, Digest("edited")} : record' = [record EXCEPT !.patch = digest]
  <2>1. record'.patch \in {NoDigest, Digest("edited")}
    BY <1>2, <1>9
  <2>2. CASE record'.patch = NoDigest
    <3>1. run.stage # "landed"
      BY <1>4, <2>2, DigestIsOne
    <3> QED
      BY <2>2, <3>1 DEF Decided
  <2>3. CASE record'.patch = Digest("edited")
    <3>1. record'.patch # NoDigest
      BY <2>3, DigestIsOne
    <3>2. Digest(files'["change.patch"]) = Digest("edited") /\ files'["change.patch"] = "original"
      BY <2>3, <3>1 DEF StillValid, FilesHold, FileHolds
    <3>3. "original" = "edited"
      BY <3>2, DigestOfOne
    <3> QED
      BY <3>3
  <2> QED
    BY <2>1, <2>2, <2>3
<1>10. CASE \E a \in Artefacts : record' = [record EXCEPT !.named[a] = Digest("edited")]
  <2>1. PICK a \in Artefacts : record' = [record EXCEPT !.named[a] = Digest("edited")]
    BY <1>10
  <2>2. record'.named[a] = Digest("edited")
    BY <1>2, <2>1
  <2>3. Digest(files'[a]) = Digest("edited") /\ files'[a] = "original"
    BY <2>2, DigestIsOne DEF StillValid, FilesHold, FileHolds
  <2>4. "original" = "edited"
    BY <2>3, DigestOfOne
  <2> QED
    BY <2>4
<1>11. CASE \E b \in Blocks : record' = [record EXCEPT !.blocks[b].content = "edited"]
  <2>1. PICK b \in Blocks : record' = [record EXCEPT !.blocks[b].content = "edited"]
    BY <1>11
  <2>2. record'.blocks[b].content = "edited" /\ record'.blocks[b].digest = Digest("original")
    BY <1>2, <2>1
  <2>3. Digest("edited") = Digest("original")
    BY <2>2, DigestIsOne DEF StillValid, BlocksHold
  <2>4. "edited" = "original"
    BY <2>3, DigestOfOne
  <2> QED
    BY <2>4
<1>12. CASE \E b \in Blocks, digest \in {NoDigest, Digest("edited")} :
              record' = [record EXCEPT !.blocks[b].digest = digest]
  <2>1. PICK b \in Blocks, digest \in {NoDigest, Digest("edited")} :
          record' = [record EXCEPT !.blocks[b].digest = digest]
    BY <1>12
  <2>2. record'.blocks[b].content = "original" /\ record'.blocks[b].digest = digest
    BY <1>2, <2>1
  <2>3. CASE digest = NoDigest
    BY <1>0, <2>2, <2>3 DEF Unread
  <2>4. CASE digest = Digest("edited")
    <3>1. Digest("edited") = Digest("original")
      BY <2>2, <2>4, DigestIsOne DEF StillValid, BlocksHold
    <3>2. "edited" = "original"
      BY <3>1, DigestOfOne
    <3> QED
      BY <3>2
  <2> QED
    BY <2>1, <2>3, <2>4
<1>13. CASE \E n \in 0 .. Len(journal) :
              record' = [record EXCEPT !.events = Summary(SubSeq(journal, 1, n))]
  <2>1. record'.events = record.events
    BY <1>2 DEF StillValid, EventsBlockHolds
  <2> QED
    BY <1>2, <1>3, <1>13, <2>1
<1> QED
  BY <1>5, <1>6, <1>7, <1>8, <1>9, <1>10, <1>11, <1>12, <1>13,
     <1>14, <1>15 DEF EditRecord

LEMMA FirstEditSeen ==
  ASSUME Left, Left', UnseenEdits, OnlyAsDecided', [Next]_vars
  PROVE  UnseenEdits'
<1>1. CASE UNCHANGED vars
  <2>1. Verdict' = Verdict
    BY <1>1 DEF vars, Verdict, FilesHold, FileHolds, BlocksHold, ChainHolds, EventsBlockHolds,
                DecisionHolds, LandingHolds
  <2> QED
    BY <1>1, <2>1 DEF UnseenEdits, Unread, vars
<1>2. CASE Next /\ ~UNCHANGED vars
  <2> SUFFICES ASSUME Len(edits') = 1, run'.stage \in {"closed", "landed"}, Verdict' = "VALID"
               PROVE  \/ edits'[1] = <<"record", "field">> /\ Unread'
                      \/ run'.stage = "landed" /\ edits'[1] = <<"journal", "cut">>
                      \/ /\ run'.stage = "closed"
                         /\ \/ run'.decision.status = "ACCEPTED" /\ edits'[1] = <<"journal", "append">>
                            \/ record'.base = "edited" \/ record'.patch = NoDigest
    BY DEF UnseenEdits
  <2>1. edits \in Seq(Edits) /\ run' = run
    BY <1>2 DEF Left, Next, EditFile, EditRecord, EditJournal, CutJournal, AppendToJournal, Edited,
                Untouched
  <2>2. PICK part \in Parts, what \in {"content", "field", "event", "cut", "append"} :
          Edited(part, what)
    BY <1>2 DEF Next, EditFile, EditRecord, EditJournal, CutJournal, AppendToJournal, Untouched, Parts
  <2>3. edits = <<>>
    <3>1. Len(edits') = Len(edits) + 1 /\ Len(edits) \in Nat
      BY <2>1, <2>2, AppendProperties, LenProperties DEF Edited, Edits
    <3>2. Len(edits) = 0
      <4>1. \A n \in Nat : n + 1 = 1 => n = 0
        OBVIOUS
      <4> QED
        BY <3>1, <4>1
    <3> QED
      BY <2>1, <3>2, EmptySeq
  <2>4. Touched = {} /\ Touched' = {part}
    <3>1. Touched = {}
      BY <2>3 DEF Touched
    <3>2. Touched' = Touched \cup {part}
      BY <2>1, <2>2, TouchedGrows
    <3> QED
      BY <3>1, <3>2
  <2>5. Decided
    BY <2>1, <2>3, <2>4 DEF Left, Decided
  <2>6. StillValid
    <3>1. Cardinality(Touched') <= 1
      <4>1. Cardinality({part}) = 1
        BY FS_Singleton
      <4> QED
        BY <2>4, <4>1
    <3>2. /\ FilesHold' /\ BlocksHold' /\ ChainHolds(journal)'
          /\ EventsBlockHolds(journal)' /\ LandingHolds(journal)'
      BY DEF Verdict
    <3>3. /\ record'.status = run'.decision.status /\ record'.reasons = run'.decision.reasons
          /\ \A a \in Artefacts : files'[a] = "original"
          /\ record'.patch # NoDigest => files'["change.patch"] = "original"
          /\ Coarse!ClosedCount(journal') = 4
          /\ SubSeq(journal', 1, 4) = JournalOf("closed", run'.decision)
      BY <3>1 DEF OnlyAsDecided
    <3> QED
      BY <2>1, <3>2, <3>3 DEF StillValid
  <2> QED
    BY <1>2, <2>1, <2>5, <2>6, FileSeen, FieldSeen, EventSeen, CutSeen, AppendSeen DEF Next, Untouched
<1> QED
  BY <1>1, <1>2

\* All that one edit of a decided run can change and leave it verifying: what the
\* record names no longer, or under no digest; its landing cut off; and of a run
\* not landed, a landing added, another base commit and a patch digest removed.
THEOREM OnlyTheseEditsGoUnseen == Spec => []UnseenEdits
<1>1. Init => UnseenEdits
  BY DEF Init, UnseenEdits
<1>2. Left => OnlyAsDecided
  BY OnePartHolds DEF OnlyAsDecided
<1>3. Left /\ Left' /\ UnseenEdits /\ OnlyAsDecided' /\ [Next]_vars => UnseenEdits'
  BY FirstEditSeen
<1> QED
  BY <1>1, <1>2, <1>3, LeftInvariant, PTL DEF Spec
=============================================================================
