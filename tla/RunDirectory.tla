---------------------------- MODULE RunDirectory ----------------------------
(***************************************************************************)
(* `codeservo verify-run` in full (evidence/verify.py): a directory the       *)
(* controller left, edited by whoever holds it, and what the verification    *)
(* still concludes.  Verification abstracts this module: it keeps the place  *)
(* of each event and drops the digests.                                      *)
(*                                                                           *)
(* A digest is the value it was taken over, marked as a digest: no two        *)
(* values share one.  The content of a file is "original", "edited" or        *)
(* "missing"; the journal's lines are its events.  The record is what the      *)
(* verification reads of it, and `other` for all that it does not.           *)
(***************************************************************************)
EXTENDS Naturals, Sequences, FiniteSets

CONSTANTS
  Decisions,  \* what a run may be decided as, a set of [status, reasons]
  Artefacts,  \* files the record names with a digest: inputs, sensors, logs
  Blocks,     \* parts of the record that carry their own digest
  MaxEdits    \* bound on the edits of one directory

Coarse == INSTANCE Verification

ASSUME EditsAssumption == MaxEdits \in Nat /\ "change.patch" \notin Artefacts

\* A run is decided as one of three statuses, never as RUNNING.
ASSUME DecisionsAssumption ==
  Decisions \subseteq [status : {"ACCEPTED", "REJECTED", "ESCALATED"}, reasons : SUBSET STRING]

VARIABLES
  run,      \* what the controller did: [stage, decision]
  record,   \* evidence.json
  files,    \* the content of each artefact and of change.patch
  journal,  \* events.jsonl
  edits     \* the edits made, as pairs <<part, what>>, in order

vars == <<run, record, files, journal, edits>>

Digest(value) == <<"sha256", value>>

\* Null, of another type, or not there: what the record then names nothing by.
NoDigest == <<>>
NoRun == "absent"
NoBlock == [content |-> "missing", digest |-> NoDigest]

\* run.landed carries the last three fields, the closing events the decision.
NoPayload == [decision |-> Coarse!Running, base |-> "none", patch |-> NoDigest, commit |-> FALSE]
Deciding(d) == [NoPayload EXCEPT !.decision = d]
Landing(base, patch) == [NoPayload EXCEPT !.base = base, !.patch = patch, !.commit = TRUE]

Unsigned(e) == [run |-> e.run, sequence |-> e.sequence, type |-> e.type,
                payload |-> e.payload, previous |-> e.previous]

EventDigest(e) == Digest(Unsigned(e))

\* Journal.record, over the tail the writer holds: a sequence and a head.
Signed(sequence, head, type, payload) ==
  LET unsigned == [run |-> "this", sequence |-> sequence + 1, type |-> type,
                   payload |-> payload, previous |-> head]
  IN  [run |-> "this", sequence |-> sequence + 1, type |-> type, payload |-> payload,
       previous |-> head, sha |-> Digest(unsigned)]

Head_(events) == IF events = <<>> THEN NoDigest ELSE events[Len(events)].sha

Extended(events, type, payload) ==
  Append(events, Signed(Len(events), Head_(events), type, payload))

\* EventsSummary, over the journal as it stands.
Summary(events) == [count |-> Len(events), head |-> Head_(events), file |-> Digest(events)]

Stages == {"running", "aborted", "half appended", "closed", "landed"}

\* What RunRecord and land leave of a run, for each way it may have gone.
JournalOf(stage, d) ==
  LET opened == Extended(Extended(<<>>, "run.started", NoPayload), "gate.finished", NoPayload)
      decided == Extended(opened, "decision.recorded", Deciding(d))
      closed == Extended(decided, "run.finished", Deciding(d))
  IN  CASE stage = "running" -> opened
        [] stage = "aborted" -> Extended(opened, "run.aborted", NoPayload)
        [] stage = "half appended" ->
             Append(opened, Signed(1, opened[1].sha, "run.aborted", NoPayload))
        [] stage = "closed" -> closed
        [] stage = "landed" -> Extended(closed, "run.landed", Landing("base", Digest("original")))

RecordOf(stage, d) ==
  LET over == stage \in {"closed", "landed"}
      stated == IF over THEN d ELSE Coarse!Running
  IN  [run |-> "this", status |-> stated.status, reasons |-> stated.reasons, base |-> "base",
       patch |-> IF over THEN Digest("original") ELSE NoDigest,
       named |-> [a \in Artefacts |-> Digest("original")],
       blocks |-> [b \in Blocks |-> [content |-> "original", digest |-> Digest("original")]],
       events |-> Summary(JournalOf(IF over THEN "closed" ELSE "running", d)),
       other |-> "original"]

Init ==
  /\ \E stage \in Stages, d \in Decisions :
       /\ stage = "landed" => d.status = "ACCEPTED"
       /\ run = [stage |-> stage, decision |-> d]
       /\ record = RecordOf(stage, d)
       /\ journal = JournalOf(stage, d)
  /\ files = [f \in Artefacts \cup {"change.patch"} |-> "original"]
  /\ edits = <<>>

-----------------------------------------------------------------------------
(* Mutated forms, used only to show that a property notices them.           *)

\* The decision compared with the last event alone.
DecisionByItsStatus(events) ==
  LET closed == Coarse!ClosedCount(events)
  IN  closed >= 2 /\ events[closed].type = "run.finished"
        /\ events[closed].payload.decision.status = record.status

\* The digests the record takes over itself left alone.
BlocksTrusted == TRUE

\* A landing read without the decision it landed.
LandingOfAnyRun(events) ==
  LET closed == Coarse!ClosedCount(events)
  IN  \/ Len(events) = closed
      \/ /\ Len(events) = closed + 1
         /\ events[closed + 1].type = "run.landed"
         /\ events[closed + 1].payload.base = record.base
         /\ events[closed + 1].payload.patch = record.patch
         /\ events[closed + 1].payload.commit
-----------------------------------------------------------------------------
(* verify_run.                                                               *)

\* _check_file.
FileHolds(name, digest) == files[name] # "missing" /\ Digest(files[name]) = digest

\* _check_inputs, _check_sensors, _check_artifacts and _check_patch: without its
\* path or its digest the record names no file, and none is read.
FilesHold ==
  /\ \A a \in Artefacts : record.named[a] # NoDigest => FileHolds(a, record.named[a])
  /\ record.patch # NoDigest => FileHolds("change.patch", record.patch)

\* _check_recomputed: nor is a digest that is not there recomputed.
BlocksHold ==
  \A b \in Blocks :
    record.blocks[b].digest # NoDigest =>
      record.blocks[b].digest = Digest(record.blocks[b].content)

\* chain_failures: the shape, the place, the link and the digest of each event.
ChainHolds(events) ==
  \A i \in DOMAIN events :
    /\ record.run # NoRun => events[i].run = record.run
    /\ events[i].sequence = i
    /\ events[i].previous = (IF i = 1 THEN NoDigest ELSE events[i - 1].sha)
    /\ events[i].sha = EventDigest(events[i])

\* _check_events_block, over the events the decision closed.
EventsBlockHolds(events) ==
  record.events = Summary(SubSeq(events, 1, Coarse!ClosedCount(events)))

\* _check_decision.
DecisionHolds(events) ==
  LET closed == Coarse!ClosedCount(events)
  IN  /\ closed >= 2
      /\ events[closed].type = "run.finished"
      /\ events[closed].payload.decision.status = record.status
      /\ events[closed - 1].type = "decision.recorded"
      /\ events[closed - 1].payload.decision.status = record.status
      /\ events[closed - 1].payload.decision.reasons = record.reasons

\* _check_landing.
LandingHolds(events) ==
  LET closed == Coarse!ClosedCount(events)
  IN  \/ Len(events) = closed
      \/ /\ Len(events) = closed + 1
         /\ events[closed + 1].type = "run.landed"
         /\ record.status = "ACCEPTED"
         /\ events[closed + 1].payload.base = record.base
         /\ events[closed + 1].payload.patch = record.patch
         /\ events[closed + 1].payload.commit

Verdict ==
  IF ~FilesHold \/ ~BlocksHold \/ ~ChainHolds(journal) THEN "INVALID"
  ELSE IF record.status = "RUNNING" THEN "INCOMPLETE"
  ELSE IF EventsBlockHolds(journal) /\ DecisionHolds(journal) /\ LandingHolds(journal) THEN "VALID"
  ELSE "INVALID"

-----------------------------------------------------------------------------
(* Edits: each changes one thing.  Only AppendToJournal signs an event anew.   *)

Edited(part, what) ==
  /\ Len(edits) < MaxEdits
  /\ edits' = Append(edits, <<part, what>>)
  /\ UNCHANGED run

EditFile ==
  /\ \E f \in DOMAIN files, content \in {"edited", "missing"} :
       files' = [files EXCEPT ![f] = content]
  /\ Edited("files", "content")
  /\ files' # files
  /\ UNCHANGED <<record, journal>>

\* A gate, an iteration or a whole list removed, with the files it names.
Stripped(as, bs) ==
  [record EXCEPT
     !.named = [a \in Artefacts |-> IF a \in as THEN NoDigest ELSE record.named[a]],
     !.blocks = [b \in Blocks |-> IF b \in bs THEN NoBlock ELSE record.blocks[b]]]

EditRecord ==
  /\ \/ \E d \in Decisions \cup {Coarse!Running} : record' = [record EXCEPT !.status = d.status]
     \/ \E d \in Decisions : record' = [record EXCEPT !.reasons = d.reasons]
     \/ record' = [record EXCEPT !.base = "edited"]
     \/ \E id \in {"edited", NoRun} : record' = [record EXCEPT !.run = id]
     \/ record' = [record EXCEPT !.other = "edited"]
     \/ \E as \in SUBSET Artefacts, bs \in SUBSET Blocks : record' = Stripped(as, bs)
     \/ \E digest \in {NoDigest, Digest("edited")} : record' = [record EXCEPT !.patch = digest]
     \/ \E a \in Artefacts : record' = [record EXCEPT !.named[a] = Digest("edited")]
     \/ \E b \in Blocks : record' = [record EXCEPT !.blocks[b].content = "edited"]
     \/ \E b \in Blocks, digest \in {NoDigest, Digest("edited")} :
          record' = [record EXCEPT !.blocks[b].digest = digest]
     \/ \E n \in 0..Len(journal) :
          record' = [record EXCEPT !.events = Summary(SubSeq(journal, 1, n))]
  /\ Edited("record", "field")
  /\ record' # record
  /\ UNCHANGED <<files, journal>>

Without(events, i) == [j \in 1..(Len(events) - 1) |-> IF j < i THEN events[j] ELSE events[j + 1]]

\* An event altered, removed, or exchanged with the next.
EditJournal ==
  /\ \E i \in DOMAIN journal :
       \/ \E d \in Decisions : journal' = [journal EXCEPT ![i].payload.decision = d]
       \/ \E type \in {"run.finished", "run.landed"} : journal' = [journal EXCEPT ![i].type = type]
       \/ journal' = [journal EXCEPT ![i].payload.patch = Digest("edited")]
       \/ journal' = [journal EXCEPT ![i].sequence = @ + 1]
       \/ journal' = [journal EXCEPT ![i].sha = EventDigest(journal[i])]
       \/ i > 1 /\ journal' = [journal EXCEPT ![i].previous = journal[i - 1].sha]
       \/ /\ i < Len(journal)
          /\ journal' = [journal EXCEPT ![i] = journal[i + 1], ![i + 1] = journal[i]]
       \/ i < Len(journal) /\ journal' = Without(journal, i)
  /\ Edited("journal", "event")
  /\ journal' # journal
  /\ UNCHANGED <<record, files>>

\* The last event removed: nothing in the chain names its end.
CutJournal ==
  /\ journal # <<>>
  /\ journal' = SubSeq(journal, 1, Len(journal) - 1)
  /\ Edited("journal", "cut")
  /\ UNCHANGED <<record, files>>

\* An event appended as Journal.resume and record would, chained and signed.
AppendToJournal ==
  /\ \/ \E patch \in {Digest("original"), Digest("edited")} :
          journal' = Extended(journal, "run.landed", Landing("base", patch))
     \/ \E d \in Decisions : journal' = Extended(journal, "decision.recorded", Deciding(d))
     \/ \E d \in Decisions : journal' = Extended(journal, "run.finished", Deciding(d))
  /\ Edited("journal", "append")
  /\ UNCHANGED <<record, files>>

Untouched == UNCHANGED vars

Next == EditFile \/ EditRecord \/ EditJournal \/ CutJournal \/ AppendToJournal \/ Untouched

Spec == Init /\ [][Next]_vars

-----------------------------------------------------------------------------
(* What a reader of the verdict may rely on.                                 *)

Touched == {edits[i][1] : i \in DOMAIN edits}

\* However often it was edited, one of its three parts alone cannot make a
\* directory verify with another decision, another patch or another artefact
\* than the controller left: a rejected run cannot be made to look accepted, nor
\* an unfinished one decided.
OnePartCannotLie ==
  Verdict = "VALID" /\ Cardinality(Touched) <= 1 =>
    /\ run.stage \in {"closed", "landed"}
    /\ record.status = run.decision.status /\ record.reasons = run.decision.reasons
    /\ \A a \in Artefacts : files[a] = "original"
    /\ record.patch # NoDigest => files["change.patch"] = "original"
    /\ SubSeq(journal, 1, 4) = JournalOf("closed", run.decision)

\* What the record has stopped naming, or never had verified.
Unread ==
  \/ \E a \in Artefacts : record.named[a] = NoDigest
  \/ \E b \in Blocks : record.blocks[b].digest = NoDigest
  \/ record.run = NoRun
  \/ record.other # "original"

\* All that one edit of a decided run can change and leave it verifying: what the
\* record names no longer, or under no digest; its landing cut off; of a run not
\* landed, a landing added as land would have, another base commit and a patch
\* digest removed, which the landing repeats and the decision does not.  Any
\* other is seen.
UnseenEdits ==
  Len(edits) = 1 /\ run.stage \in {"closed", "landed"} /\ Verdict = "VALID" =>
    \/ edits[1] = <<"record", "field">> /\ Unread
    \/ run.stage = "landed" /\ edits[1] = <<"journal", "cut">>
    \/ /\ run.stage = "closed"
       /\ \/ run.decision.status = "ACCEPTED" /\ edits[1] = <<"journal", "append">>
          \/ record.base = "edited" \/ record.patch = NoDigest

\* Verification, which RunRecord and Landing rely on, accepts whatever this one
\* does, and says the same of every directory the controller left.
Kept(events) == [i \in DOMAIN events |-> [sequence |-> events[i].sequence, type |-> events[i].type,
                                          decision |-> events[i].payload.decision]]

CoarseVerdict ==
  Coarse!Verdict(Coarse!Written([status |-> record.status, reasons |-> record.reasons], 0,
                                record.events.count), Kept(journal))

VerificationAbstracts ==
  /\ Verdict = "VALID" => CoarseVerdict = "VALID"
  /\ edits = <<>> => Verdict = CoarseVerdict
=============================================================================
