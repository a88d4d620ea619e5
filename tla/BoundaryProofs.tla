---------------------------- MODULE BoundaryProofs ----------------------------
(***************************************************************************)
(* Proofs about what crosses the boundary of a run, each for any values of its*)
(* constants: what a run is given (Declarations), what its processes may reach*)
(* (Confinement: any places, any layout of a run's trees over them and any of*)
(* them missing), what the tools of its sensors write (Reports), what its    *)
(* agents say of their sessions (Sessions) and what its reviewer answers, of *)
(* any length (Answers).                                                     *)
(***************************************************************************)
EXTENDS Declarations, Confinement, Reports, Sessions, Answers, CommonLemmas,
        FiniteSetTheorems, SequenceTheorems

-----------------------------------------------------------------------------
(* Declarations.                                                             *)

\* What a person wrote: any list of tables, any list of lines.
DeclarationsTypeOK == gates \in Seq(GateItem) /\ criteria \in Seq(CriterionLine)

LEMMA DeclarationsTyped == DeclarationsSpec => []DeclarationsTypeOK
<1> USE DeclarationsAssumption
<1>1. DeclarationsInit => DeclarationsTypeOK
  BY EmptySeq DEF DeclarationsInit, DeclarationsTypeOK
<1>2. ASSUME DeclarationsTypeOK, [DeclarationsNext]_declarationVars PROVE DeclarationsTypeOK'
  <2>1. CASE DeclareGate
    <3>1. PICK item \in GateItems : gates' = Append(gates, item)
      BY <2>1 DEF DeclareGate
    <3>2. gates' \in Seq(GateItem)
      <4>1. gates \in Seq(GateItem) /\ item \in GateItem
        BY <1>2 DEF DeclarationsTypeOK
      <4> QED
        BY <3>1, <4>1, AppendProperties
    <3> QED
      BY <1>2, <2>1, <3>2 DEF DeclareGate, DeclarationsTypeOK
  <2>2. CASE StateCriterion
    <3>1. PICK line \in CriterionLines : criteria' = Append(criteria, line)
      BY <2>2 DEF StateCriterion
    <3>2. criteria' \in Seq(CriterionLine)
      <4>1. criteria \in Seq(CriterionLine) /\ line \in CriterionLine
        BY <1>2 DEF DeclarationsTypeOK
      <4> QED
        BY <3>1, <4>1, AppendProperties
    <3> QED
      BY <1>2, <2>2, <3>2 DEF StateCriterion, DeclarationsTypeOK
  <2>3. CASE UNCHANGED declarationVars
    BY <1>2, <2>3 DEF declarationVars, DeclarationsTypeOK
  <2> QED
    BY <1>2, <2>1, <2>2, <2>3 DEF DeclarationsNext
<1> QED
  BY <1>1, <1>2, PTL DEF DeclarationsSpec

\* A gate with one way to be measured is read as a gate of a constitution.
LEMMA ReadGate ==
  ASSUME NEW item \in GateItem, ReadableGate(item)
  PROVE  /\ Read(item) \in DeclaredGate
         /\ Read(item).name = item.name /\ Read(item).phase = item.phase
         /\ Read(item).ratchet # "none" => Read(item).baseline /\ Read(item).format # "exit-code"
         /\ "task" \in item.says => execution = "declared"
         /\ ~item.baseline => item.sensor = "named"
         /\ item.ratchet # "none" => item.reports # "outside" /\ item.sensor = "none"
         /\ item.format = "reports" => item.reports = "inside"
<1>1. /\ item.name \in STRING /\ item.phase \in Phases /\ item.baseline \in BOOLEAN
      /\ item.sensor \in {"none", "empty", "named"} /\ item.format \in Formats
      /\ item.ratchet \in {"none", "no metric", "at_most", "at_least"}
  BY DEF GateItem
<1>2. /\ "task" \in item.says => execution = "declared"
      /\ item.sensor # "empty" /\ (item.baseline <=> item.sensor = "none")
      /\ item.reports = IF item.format = "reports" THEN "inside" ELSE "none"
      /\ item.ratchet # "none" => /\ item.format # "exit-code" /\ item.baseline
                                  /\ item.ratchet # "no metric"
  BY DEF ReadableGate, Measures, SensorOf, ReportsOf, RatchetOf
<1>3. item.ratchet \in {"none", "at_most", "at_least"}
  BY <1>1, <1>2
<1>4. ("task" \in item.says) \in BOOLEAN
  OBVIOUS
<1>5. Read(item) \in DeclaredGate
  BY <1>1, <1>3, <1>4 DEF Read, DeclaredGate
<1>6. /\ Read(item).name = item.name /\ Read(item).phase = item.phase
      /\ Read(item).ratchet = item.ratchet /\ Read(item).baseline = item.baseline
      /\ Read(item).format = item.format
  BY DEF Read
<1>7. ~item.baseline => item.sensor = "named"
  BY <1>1, <1>2
<1>8. item.ratchet # "none" => item.reports # "outside" /\ item.sensor = "none"
  BY <1>2
<1> QED
  BY <1>2, <1>5, <1>6, <1>7, <1>8

\* The gates of an accepted constitution are those the controller's phases assume.
LEMMA ReadConstitution ==
  ASSUME DeclarationsTypeOK, ReadableConstitution
  PROVE  IsConstitution([i \in DOMAIN gates |-> Read(gates[i])])
<1> DEFINE read == [i \in DOMAIN gates |-> Read(gates[i])]
<1>1. /\ Len(gates) \in Nat /\ DOMAIN gates = 1 .. Len(gates)
      /\ \A i \in DOMAIN gates : gates[i] \in GateItem /\ ReadableGate(gates[i])
  BY LenProperties, ElementOfSeq DEF DeclarationsTypeOK, ReadableConstitution
<1>2. \A i \in DOMAIN gates :
        /\ read[i] \in DeclaredGate
        /\ read[i].name = gates[i].name /\ read[i].phase = gates[i].phase
        /\ read[i].ratchet # "none" => read[i].baseline /\ read[i].format # "exit-code"
  BY <1>1, ReadGate
<1>3. DOMAIN read = DOMAIN gates
  OBVIOUS
<1>4. read \in Seq(DeclaredGate)
  BY <1>1, <1>2, IsASeq
<1>5. \A i, j \in DOMAIN read : read[i].name = read[j].name => i = j
  BY <1>2, <1>3 DEF ReadableConstitution
<1>6. \A phase \in Phases : \E i \in DOMAIN read : read[i].phase = phase
  BY <1>2, <1>3 DEF ReadableConstitution
<1> HIDE DEF read
<1>7. IsConstitution(read)
  BY <1>2, <1>3, <1>4, <1>5, <1>6 DEF IsConstitution
<1> QED
  BY <1>7 DEF read

\* A criterion given to a gate is decided by one declared gate.
LEMMA OneGateDecides ==
  ASSUME DeclarationsTypeOK, Accepted, NEW i \in DOMAIN criteria
  PROVE  IF criteria[i].ends = "gate"
         THEN Cardinality({j \in DOMAIN gates : gates[j].name \in Decides(criteria[i])}) = 1
         ELSE Decides(criteria[i]) = {} /\ criteria[i].ends \notin {"no gate", "misspelt"}
<1> DEFINE deciding == {j \in DOMAIN gates : gates[j].name \in Decides(criteria[i])}
<1>1. CASE criteria[i].ends = "gate"
  <2>1. Decides(criteria[i]) = {criteria[i].gate}
    BY <1>1 DEF Decides
  <2>2. PICK j \in DOMAIN gates : gates[j].name = criteria[i].gate
    BY <2>1 DEF Accepted, GatesDeclared
  <2>3. \A k \in DOMAIN gates : gates[k].name = gates[j].name => k = j
    BY DEF Accepted, ReadableConstitution
  <2>4. deciding = {j}
    BY <2>1, <2>2, <2>3
  <2> QED
    BY <1>1, <2>4, FS_Singleton
<1>2. CASE criteria[i].ends # "gate"
  <2>1. criteria[i].ends \notin {"no gate", "misspelt"}
    BY DEF Accepted, ReadableTask, ReadableCriterion
  <2> QED
    BY <1>2, <2>1 DEF Decides
<1> QED
  BY <1>1, <1>2

\* Whatever a person writes in a constitution and a task, what their readers accept
\* between them leaves no control mute and no criterion to nobody.
THEOREM NoControlIsMute == DeclarationsSpec => []AcceptedLeavesNoControlMute
<1>1. DeclarationsTypeOK => AcceptedLeavesNoControlMute
  <2> SUFFICES ASSUME DeclarationsTypeOK, Accepted PROVE AcceptedLeavesNoControlMute
    BY DEF AcceptedLeavesNoControlMute
  <2>1. IsConstitution([i \in DOMAIN gates |-> Read(gates[i])])
    BY ReadConstitution DEF Accepted
  <2>2. ASSUME NEW i \in DOMAIN gates
        PROVE  /\ "task" \in gates[i].says => execution = "declared"
               /\ ~gates[i].baseline => gates[i].sensor = "named"
               /\ gates[i].ratchet # "none" =>
                    gates[i].reports # "outside" /\ gates[i].sensor = "none"
               /\ gates[i].format = "reports" => gates[i].reports = "inside"
    <3>1. gates[i] \in GateItem
      BY ElementOfSeq, LenProperties DEF DeclarationsTypeOK
    <3>2. ReadableGate(gates[i])
      BY DEF Accepted, ReadableConstitution
    <3> QED
      BY <3>1, <3>2, ReadGate
  <2> QED
    BY <2>1, <2>2, OneGateDecides DEF AcceptedLeavesNoControlMute
<1> QED
  BY <1>1, DeclarationsTyped, PTL

-----------------------------------------------------------------------------
(* Confinement.                                                              *)

LEMMA CallerPairs ==
  ASSUME NEW caller \in Callers
  PROVE  /\ caller[1] \in {"source gate", "candidate gate", "implementer", "reviewer"}
         /\ caller[2] \in {"none"} \cup Backends
         /\ caller[2] # "none" => caller[1] \in {"implementer", "reviewer"}
<1>1. CASE caller = <<"source gate", "none">>
  BY <1>1
<1>2. CASE caller = <<"candidate gate", "none">>
  BY <1>2
<1>3. CASE caller \in {"implementer", "reviewer"} \X Backends
  BY <1>3 DEF Backends
<1> QED
  BY <1>1, <1>2, <1>3 DEF Callers

\* What an adapter makes of a session that ran is never a fault of the mechanism.
LEMMA SessionAnswers ==
  ASSUME ConfinementTypeOK, call.caller[2] # "none"
  PROVE  Session(call) \in {"actuator error", "exit code", "answer"}
<1>1. call.caller \in {"implementer", "reviewer"} \X Backends
  <2>1. call.caller \in Callers
    BY DEF ConfinementTypeOK, Call
  <2>2. /\ call.caller # <<"source gate", "none">>
        /\ call.caller # <<"candidate gate", "none">>
    <3>1. <<"source gate", "none">>[2] = "none" /\ <<"candidate gate", "none">>[2] = "none"
      OBVIOUS
    <3> QED
      BY <3>1, Zenon
  <2> QED
    BY <2>1, <2>2 DEF Callers
<1>2. PICK role \in {"implementer", "reviewer"}, backend \in Backends : call.caller = <<role, backend>>
  BY <1>1
<1>3. \/ call.caller = <<"implementer", "claude">> \/ call.caller = <<"implementer", "codex">>
      \/ call.caller = <<"reviewer", "claude">> \/ call.caller = <<"reviewer", "codex">>
  BY <1>2 DEF Backends
<1>4. /\ <<"implementer", "claude">> # <<"implementer", "codex">>
      /\ <<"implementer", "claude">> # <<"reviewer", "claude">>
      /\ <<"implementer", "claude">> # <<"reviewer", "codex">>
      /\ <<"implementer", "codex">> # <<"reviewer", "claude">>
      /\ <<"implementer", "codex">> # <<"reviewer", "codex">>
      /\ <<"reviewer", "claude">> # <<"reviewer", "codex">>
  OBVIOUS
<1> QED
  BY <1>3, <1>4 DEF Session, ClaudeImplementer, ClaudeReviewer, CodexImplementer, CodexReviewer

LEMMA PlacesHold ==
  ASSUME NEW p \in Places
  PROVE  /\ Within[p] \subseteq Places /\ p \in Within[p]
         /\ \A q \in Within[p] : Within[q] \subseteq Within[p]
         /\ NoPlace \notin Within[p]
  BY PlacesAssumption

\* Every step of a run leaves its state well formed.
THEOREM ConfinementTypes == ConfinementSpec => []ConfinementTypeOK
<1>1. NoCall \in Call
  BY DEF NoCall, Call, Callers, ExitCodes, DidNotRun, Answers
<1>2. Untouched \in [access : {"none", "read", "write"}, place : Places \cup {NoPlace}]
  BY DEF Untouched
<1>3. ConfinementInit => ConfinementTypeOK
  BY <1>1, <1>2 DEF ConfinementInit, ConfinementTypeOK, Outcomes
<1>4. ConfinementTypeOK /\ [ConfinementNext]_confinementVars => ConfinementTypeOK'
  <2> SUFFICES ASSUME ConfinementTypeOK, [ConfinementNext]_confinementVars
               PROVE  ConfinementTypeOK'
    OBVIOUS
  <2> USE DEF ConfinementTypeOK
  <2>1. CASE MakeCandidate
    BY <1>1, <1>2, <2>1 DEF MakeCandidate, Outcomes
  <2>2. ASSUME NEW caller \in Callers, Start(caller) PROVE ConfinementTypeOK'
    BY <1>1, <1>2, <2>2 DEF Start, Call, Outcomes
  <2>3. CASE Apply
    BY <2>3 DEF Apply, Call
  <2>4. CASE FailToApply
    <3>1. PICK exit \in ExitCodes, messages \in SUBSET {"child-pid", "exit-code"} :
            call' = [call EXCEPT !.pc = "completed", !.exit = exit,
                                 !.stderr = "the mechanism's", !.messages = messages]
      BY <2>4 DEF FailToApply
    <3>2. call' \in Call
      BY <3>1 DEF Call
    <3> QED
      BY <2>4, <3>2 DEF FailToApply
  <2>5. ASSUME NEW place \in Places, Touch(place) PROVE ConfinementTypeOK'
    BY <2>5, PlacesHold DEF Touch
  <2>6. ASSUME NEW exit \in ExitCodes, NEW answer \in Answers, Complete(exit, answer)
        PROVE  ConfinementTypeOK'
    <3>1. PICK stderr \in {"its own", "the mechanism's"} :
            call' = [call EXCEPT !.pc = "completed", !.exit = exit, !.answer = answer,
                                 !.stderr = stderr, !.messages = @ \cup {"exit-code"}]
      BY <2>6 DEF Complete
    <3>2. call' \in Call
      BY <3>1 DEF Call
    <3> QED
      BY <1>2, <2>6, <3>2 DEF Complete
  <2>7. CASE Return
    <3>1. (IF Fault(call) THEN "sandbox error"
           ELSE IF call.caller[2] = "none" THEN "exit code" ELSE Session(call)) \in Outcomes
      BY SessionAnswers DEF Outcomes
    <3>2. call' \in Call
      BY <2>7 DEF Return, Call
    <3> QED
      BY <2>7, <3>1, <3>2 DEF Return
  <2>8. CASE TimeOut
    BY <1>2, <2>8 DEF TimeOut, Call, Outcomes
  <2>9. CASE UNCHANGED confinementVars
    BY <2>9 DEF confinementVars
  <2> QED
    BY <2>1, <2>2, <2>3, <2>4, <2>5, <2>6, <2>7, <2>8, <2>9 DEF ConfinementNext
<1> QED
  BY <1>3, <1>4, PTL DEF ConfinementSpec

-----------------------------------------------------------------------------
(* What the record says of the reviewer.                                     *)

\* A place is under the trees the record calls read-only exactly when it is under
\* those the adapter makes read-only: what confinement() drops from its list is
\* under the worktree it adds.
LEMMA SameTrees ==
  ASSUME NEW l \in Layouts, NEW place \in Places
  PROVE  Under(place, RecordedReviewer(l).read_only) <=> Under(place, Reviewer(l).read_only)
<1> DEFINE handed == Actuator(l).read_only
<1>1. /\ RecordedReviewer(l).read_only = {p \in handed : l.worktree \notin Within[p]} \cup {l.worktree}
      /\ Reviewer(l).read_only = handed \cup {l.worktree}
  BY DEF RecordedReviewer, Reviewer
<1>2. ASSUME NEW p \in Within[place], p \in handed, l.worktree \in Within[p]
      PROVE  l.worktree \in Within[place]
  BY <1>2, PlacesHold
<1> HIDE DEF handed
<1> QED
  BY <1>1, <1>2 DEF Under

\* The profile the record states for a reviewer lets it reach exactly what the one
\* it was started under does.
THEOREM RecordedProfileApplies == ConfinementSpec => []RecordedIsApplied
<1>1. ConfinementTypeOK => RecordedIsApplied
  <2> SUFFICES ASSUME ConfinementTypeOK, NEW place \in Places
               PROVE  Reach(RecordedReviewer(host.layout), present, place)
                        = Reach(Profile(<<"reviewer", "claude">>, host.layout), present, place)
    BY DEF RecordedIsApplied
  <2> DEFINE l == host.layout
  <2>1. l \in Layouts
    BY DEF ConfinementTypeOK
  <2>2. Profile(<<"reviewer", "claude">>, l) = Reviewer(l)
    BY DEF Profile
  <2>3. RecordedReviewer(l).denied = Reviewer(l).denied
    BY DEF RecordedReviewer, Reviewer
  <2>4. Under(place, RecordedReviewer(l).read_only) <=> Under(place, Reviewer(l).read_only)
    BY <2>1, SameTrees
  <2> HIDE DEF l
  <2>5. Reach(RecordedReviewer(l), present, place) = Reach(Reviewer(l), present, place)
    BY <2>3, <2>4 DEF Reach, SeatbeltReach, BubblewrapReach
  <2> QED
    BY <2>2, <2>5 DEF l
<1> QED
  BY <1>1, ConfinementTypes, PTL

-----------------------------------------------------------------------------
(* What a process reaches.                                                   *)

\* What a mechanism lets be written is under nothing it must not write, and what it
\* lets be reached by a session is under nothing it must not see.
LEMMA ReachIsHeld ==
  ASSUME NEW caller \in Callers, NEW l \in Layouts, NEW found, NEW place \in Places
  PROVE  /\ Reach(Profile(caller, l), found, place) = "write" => ~Under(place, Sealed(caller, l))
         /\ caller[2] # "none" /\ Reach(Profile(caller, l), found, place) # "none" =>
              ~Under(place, Secret(l) \cap found)
<1> DEFINE rules == Profile(caller, l)
<1>1. Reach(rules, found, place) = "write" => ~Under(place, rules.read_only)
  BY DEF Reach, SeatbeltReach, BubblewrapReach
<1>2. Reach(rules, found, place) # "none" => ~Under(place, rules.denied \cap found)
  BY DEF Reach, SeatbeltReach, BubblewrapReach, Under
<1>3. Sealed(caller, l) \subseteq rules.read_only \cup {NoPlace}
  BY CallerPairs DEF Sealed, Profile, SourceGates, CandidateGates, Actuator, Reviewer, Protected
<1>4. caller[2] # "none" => rules.denied = Secret(l)
  BY CallerPairs DEF Profile, Actuator, Reviewer, Secret
<1>5. NoPlace \notin Within[place]
  BY PlacesHold
<1> HIDE DEF rules
<1>6. Under(place, Sealed(caller, l)) => Under(place, rules.read_only)
  BY <1>3, <1>5 DEF Under
<1> QED
  BY <1>1, <1>2, <1>4, <1>6 DEF rules

\* Under either mechanism, no process of a run reaches what its profile keeps from
\* it, wherever the run keeps its trees, records and environments.
THEOREM ProfilesHold == ConfinementSpec => []KeepsToItsProfile
<1>1. ConfinementInit => KeepsToItsProfile
  BY DEF ConfinementInit, KeepsToItsProfile
<1>2. ConfinementTypeOK /\ KeepsToItsProfile /\ [ConfinementNext]_confinementVars => KeepsToItsProfile'
  <2> SUFFICES ASSUME ConfinementTypeOK, KeepsToItsProfile, [ConfinementNext]_confinementVars
               PROVE  KeepsToItsProfile'
    OBVIOUS
  <2>1. ASSUME NEW place \in Places, Touch(place) PROVE KeepsToItsProfile'
    <3>1. /\ call.caller \in Callers /\ host.layout \in Layouts
          /\ host' = host /\ call' = call
      BY <2>1 DEF ConfinementTypeOK, Call, Touch
    <3>2. /\ touched'.place = place
          /\ Reach(Profile(call.caller, host.layout), call.found, place) # "none"
          /\ touched'.access = "write" =>
               Reach(Profile(call.caller, host.layout), call.found, place) = "write"
      BY <2>1 DEF Touch
    <3>3. /\ touched'.access = "write" => ~Under(place, Sealed(call.caller, host.layout))
          /\ call.caller[2] # "none" => ~Under(place, Secret(host.layout) \cap call.found)
      BY <3>1, <3>2, ReachIsHeld
    <3> QED
      BY <3>1, <3>2, <3>3 DEF KeepsToItsProfile
  <2>2. CASE touched' = Untouched
    BY <2>2 DEF KeepsToItsProfile, Untouched
  <2>3. CASE /\ touched' = touched /\ host' = host
             /\ call'.caller = call.caller /\ call'.found = call.found
    BY <2>3 DEF KeepsToItsProfile, Untouched
  <2>4. \/ \E place \in Places : Touch(place)
        \/ touched' = Untouched
        \/ /\ touched' = touched /\ host' = host
           /\ call'.caller = call.caller /\ call'.found = call.found
    <3>1. Apply \/ FailToApply \/ Return \/ UNCHANGED confinementVars =>
            /\ touched' = touched /\ host' = host
            /\ call'.caller = call.caller /\ call'.found = call.found
      BY DEF ConfinementTypeOK, Call, Apply, FailToApply, Return, confinementVars
    <3>2. ASSUME MakeCandidate \/ TimeOut PROVE touched' = Untouched
      BY <3>2 DEF MakeCandidate, TimeOut
    <3>3. ASSUME NEW caller \in Callers, Start(caller) PROVE touched' = Untouched
      BY <3>3 DEF Start
    <3>4. ASSUME NEW exit \in ExitCodes, NEW answer \in Answers, Complete(exit, answer)
          PROVE  touched' = Untouched
      BY <3>4 DEF Complete
    <3> QED
      BY <3>1, <3>2, <3>3, <3>4 DEF ConfinementNext
  <2> QED
    BY <2>1, <2>2, <2>3, <2>4
<1> QED
  BY <1>1, <1>2, ConfinementTypes, PTL DEF ConfinementSpec

-----------------------------------------------------------------------------
(* What a caller makes of what it started.                                   *)

\* Where a process stands tells whether it ran under its profile, and what its
\* mechanism says of one that completed agrees with it.
Answering ==
  /\ call.pc = "started" => ~call.applied
  /\ call.pc = "running" => call.applied
  /\ call.pc = "completed" =>
       /\ ~Fault(call) => call.applied
       /\ Fault(call) /\ call.applied =>
            host.mechanism = "macos-sandbox-exec" /\ call.exit \in DidNotRun
  /\ NoVerdictUnlessRan

LEMMA AnsweringStays ==
  ASSUME ConfinementTypeOK, Answering, [ConfinementNext]_confinementVars
  PROVE  Answering'
<1> USE DEF Answering, NoVerdictUnlessRan, ConfinementTypeOK
<1>1. CASE MakeCandidate
  BY <1>1 DEF MakeCandidate, NoCall
<1>2. ASSUME NEW caller \in Callers, Start(caller) PROVE Answering'
  BY <1>2 DEF Start, NoCall
<1>3. CASE Apply
  BY <1>3 DEF Apply
<1>4. CASE FailToApply
  <2>1. PICK exit \in ExitCodes :
          /\ call.pc = "started" /\ host' = host
          /\ IF host.mechanism = "macos-sandbox-exec" THEN exit \in DidNotRun ELSE exit = 1
          /\ call' = [call EXCEPT !.pc = "completed", !.exit = exit, !.stderr = "the mechanism's",
                                  !.messages = IF host.mechanism = "macos-sandbox-exec" THEN {}
                                               ELSE {"child-pid"}]
    BY <1>4 DEF FailToApply
  <2>2. call'.pc = "completed" /\ call'.applied = call.applied /\ ~call.applied
    BY <2>1 DEF Call
  <2>3. /\ call'.exit = exit /\ call'.stderr = "the mechanism's"
        /\ host.mechanism # "macos-sandbox-exec" => call'.messages = {"child-pid"}
    BY <2>1 DEF Call
  <2>4. Fault(call)'
    BY <2>1, <2>3 DEF Fault, SeatbeltFault, BubblewrapFault
  <2> QED
    BY <2>2, <2>4
<1>5. ASSUME NEW place \in Places, Touch(place) PROVE Answering'
  BY <1>5 DEF Touch, Fault, SeatbeltFault, BubblewrapFault
<1>6. ASSUME NEW exit \in ExitCodes, NEW answer \in Answers, Complete(exit, answer)
      PROVE  Answering'
  <2>1. PICK stderr \in {"its own", "the mechanism's"} :
          call' = [call EXCEPT !.pc = "completed", !.exit = exit, !.answer = answer,
                               !.stderr = stderr, !.messages = @ \cup {"exit-code"}]
    BY <1>6 DEF Complete
  <2>2. call.pc = "running" /\ host' = host
    BY <1>6 DEF Complete
  <2>3. /\ call'.pc = "completed" /\ call'.applied = call.applied
        /\ call'.exit = exit /\ "exit-code" \in call'.messages
    BY <2>1 DEF Call
  <2>4. call'.applied
    BY <2>2, <2>3
  <2>5. Fault(call)' => host'.mechanism = "macos-sandbox-exec" /\ call'.exit \in DidNotRun
    BY <2>2, <2>3 DEF Fault, SeatbeltFault, BubblewrapFault, Mechanisms
  <2> QED
    BY <2>3, <2>4, <2>5
<1>7. CASE Return
  <2>1. call.caller[2] # "none" => Session(call) \in {"actuator error", "exit code", "answer"}
    BY SessionAnswers
  <2> QED
    <3>1. call.pc = "completed" /\ host' = host /\ call' = [call EXCEPT !.pc = "returned"]
      BY <1>7 DEF Return
    <3>2. call'.pc = "returned" /\ call'.applied = call.applied /\ call'.exit = call.exit
      BY <3>1 DEF Call
    <3>3. CASE Fault(call)
      <4>1. outcome' = "sandbox error"
        BY <1>7, <3>3 DEF Return
      <4> QED
        BY <3>1, <3>2, <3>3, <4>1
    <3>4. CASE ~Fault(call)
      <4>1. outcome' # "sandbox error"
        BY <1>7, <2>1, <3>4 DEF Return
      <4> QED
        BY <3>1, <3>2, <3>4, <4>1
    <3> QED
      BY <3>3, <3>4
<1>8. CASE TimeOut
  <2>1. call'.pc = "returned" /\ outcome' \in {"timed out", "actuator error"}
    BY <1>8 DEF TimeOut, Call
  <2> QED
    BY <2>1
<1>9. CASE UNCHANGED confinementVars
  BY <1>9 DEF confinementVars, Fault, SeatbeltFault, BubblewrapFault
<1> QED
  BY <1>1, <1>2, <1>3, <1>4, <1>5, <1>6, <1>7, <1>8, <1>9 DEF ConfinementNext

\* No exit code and no answer is taken from a command that did not run under its
\* profile, and a command that ran is refused for imitating sandbox-exec only.
THEOREM VerdictsAreOfWhatRan == ConfinementSpec => []NoVerdictUnlessRan
<1>1. ConfinementInit => Answering
  <2>1. ConfinementInit => call.pc = "idle"
    <3>1. ConfinementInit => call = NoCall
      BY DEF ConfinementInit
    <3>2. NoCall.pc = "idle"
      BY DEF NoCall
    <3> QED
      BY <3>1, <3>2
  <2> QED
    BY <2>1 DEF Answering, NoVerdictUnlessRan
<1>2. ConfinementTypeOK /\ Answering /\ [ConfinementNext]_confinementVars => Answering'
  BY AnsweringStays
<1>3. Answering => NoVerdictUnlessRan
  BY DEF Answering
<1> QED
  BY <1>1, <1>2, <1>3, ConfinementTypes, PTL DEF ConfinementSpec

-----------------------------------------------------------------------------
(* The answer of the reviewer.                                               *)

Items == [id : TaskCriteria \cup Undeclared, status : Statuses]

\* What the reviewer assembles is an answer.
Answer == review \in [criteria : Seq(Items), findings : SUBSET Severities]

\* The reviewer's answer is well formed whatever it reports.
THEOREM AnswersAreTyped == AnswersSpec => []Answer
<1>1. AnswersInit => Answer
  BY EmptySeq DEF AnswersInit, Answer
<1>2. ASSUME Answer, [AnswersNext]_review PROVE Answer'
  <2>1. CASE ReportCriterion
    <3>1. PICK c \in TaskCriteria \cup Undeclared, s \in Statuses :
            review' = [review EXCEPT !.criteria = Append(@, [id |-> c, status |-> s])]
      BY <2>1 DEF ReportCriterion
    <3>2. Append(review.criteria, [id |-> c, status |-> s]) \in Seq(Items)
      BY <1>2, AppendProperties DEF Answer, Items
    <3> QED
      BY <1>2, <3>1, <3>2 DEF Answer
  <2>2. CASE RaiseFinding
    BY <1>2, <2>2 DEF RaiseFinding, Answer
  <2>3. CASE UNCHANGED review
    BY <1>2, <2>3 DEF Answer
  <2> QED
    BY <1>2, <2>1, <2>2, <2>3 DEF AnswersNext
<1> QED
  BY <1>1, <1>2, PTL DEF AnswersSpec

\* review_candidate rejects a misreported review with the reasons of
\* review_decision: they name every fault of review_faults.
THEOREM FaultsAlwaysNamed == AnswersSpec => []FaultsAreNamed
<1>1. FaultsAreNamed
  BY DEF FaultsAreNamed, FaultIsAReason, ReviewFaults, ReviewReasons
<1> QED
  BY <1>1, PTL

\* An objection of a well-formed answer is in review_feedback too.
THEOREM ObjectionsAlwaysFedBack == AnswersSpec => []ObjectionsAreFedBack
<1>1. ObjectionsAreFedBack
  <2> SUFFICES ASSUME ReviewFaults(review) = {}
               PROVE  ReviewReasons(review) \subseteq ReviewFeedback(review)
    BY DEF ObjectionsAreFedBack, ObjectionIsFedBack
  <2>1. /\ Duplicated(review) = {}
        /\ Reviewed \ Ids(review) = {}
        /\ Ids(review) \ TaskCriteria = {}
    BY DEF ReviewFaults
  <2> QED
    BY <2>1 DEF ReviewReasons, ReviewFeedback
<1> QED
  BY <1>1, PTL

\* review_decision and review_escalations are silent exactly for an answer that
\* satisfied every criterion left to the reviewer.
THEOREM SilenceIsSatisfaction == AnswersSpec => []SilentExactlyWhenSatisfied
<1>1. Answer => SilentExactlyWhenSatisfied
  <2> SUFFICES ASSUME Answer PROVE SilentExactlyWhenSatisfied
    OBVIOUS
  <2>1. Listed(review)
    <3>1. review.criteria \in Seq(Items)
      BY DEF Answer
    <3> QED
      BY <3>1, LenProperties DEF Listed
  <2> QED
    BY <2>1, SilenceSatisfied, SatisfiedSilent DEF SilentExactlyWhenSatisfied
<1> QED
  BY <1>1, AnswersAreTyped, PTL

-----------------------------------------------------------------------------
(* Reports.                                                                  *)

\* What is read of a tracefile.
Things == {e.thing : e \in {x \in Entries["lcov"] : x.is = "count"}}

FileNames == {e.file : e \in {x \in Entries["lcov"] : x.is = "SF"}} \cup {"none"}

Tables == {c \in UNION {[T -> Nat] : T \in SUBSET Things} : IsFiniteSet(DOMAIN c)}

Records == [declared : FileNames, counts : Tables]

Reads == [fault : BOOLEAN, files : Seq(Records), current : Records]

\* A thing was counted in a table, and reached where that is asked.
In(counts, x, reached) == x \in DOMAIN counts /\ (reached => counts[x] > 0)

LEMMA TableIs ==
  /\ \A c \in Tables : /\ c = [x \in DOMAIN c |-> c[x]] /\ DOMAIN c \in SUBSET Things
                       /\ IsFiniteSet(DOMAIN c) /\ \A x \in DOMAIN c : c[x] \in Nat
  /\ \A T \in SUBSET Things : IsFiniteSet(T) => [T -> Nat] \subseteq Tables
BY DEF Tables

LEMMA EmptyTable == <<>> \in Tables /\ \A x, reached : ~In(<<>>, x, reached)
<1>1. <<>> = [x \in {} |-> 0] /\ DOMAIN <<>> = {}
  OBVIOUS
<1>2. <<>> \in [{} -> Nat]
  OBVIOUS
<1>3. <<>> \in Tables
  BY <1>2, TableIs, FS_EmptySet
<1> QED
  BY <1>1, <1>3 DEF In

LEMMA TablesSum ==
  ASSUME NEW a \in Tables, NEW b \in Tables
  PROVE  /\ Sum2(a, b) \in Tables
         /\ \A x : \A reached \in BOOLEAN :
              In(Sum2(a, b), x, reached) <=> In(a, x, reached) \/ In(b, x, reached)
<1> DEFINE T == DOMAIN a \cup DOMAIN b
           of(c, x) == IF x \in DOMAIN c THEN c[x] ELSE 0
           sum == [x \in T |-> of(a, x) + of(b, x)]
<1>1. Sum2(a, b) = sum
  BY DEF Sum2
<1>2. T \in SUBSET Things /\ IsFiniteSet(T)
  BY TableIs, FS_Union
<1>3. \A x : of(a, x) \in Nat /\ of(b, x) \in Nat
  BY TableIs
<1>4. \A x : (of(a, x) > 0 => x \in DOMAIN a) /\ (of(b, x) > 0 => x \in DOMAIN b)
  OBVIOUS
<1>5. \A x \in DOMAIN a : of(a, x) = a[x]
  OBVIOUS
<1>6. \A x \in DOMAIN b : of(b, x) = b[x]
  OBVIOUS
<1> HIDE DEF of
<1>7. \A x \in T : of(a, x) + of(b, x) \in Nat
  <2> HIDE DEF T
  <2> QED
    BY <1>3
<1>8. sum \in [T -> Nat]
  BY <1>7
<1>9. sum \in Tables
  <2> HIDE DEF sum, T
  <2> QED
    BY <1>2, <1>8, TableIs
<1>10. ASSUME NEW x, NEW reached \in BOOLEAN
       PROVE  In(sum, x, reached) <=> In(a, x, reached) \/ In(b, x, reached)
  <2>1. DOMAIN sum = T
    OBVIOUS
  <2>2. x \in T => sum[x] = of(a, x) + of(b, x)
    OBVIOUS
  <2>3. of(a, x) \in Nat /\ of(b, x) \in Nat
    BY <1>3
  <2>4. x \in T <=> x \in DOMAIN a \/ x \in DOMAIN b
    OBVIOUS
  <2> HIDE DEF sum, T
  <2>5. CASE ~reached
    BY <2>1, <2>4, <2>5 DEF In
  <2>6. CASE reached
    <3>1. x \in T => (sum[x] > 0 <=> of(a, x) > 0 \/ of(b, x) > 0)
      BY <2>2, <2>3
    <3>2. In(sum, x, reached) <=> x \in T /\ sum[x] > 0
      BY <2>1, <2>6 DEF In
    <3>3. In(a, x, reached) <=> x \in DOMAIN a /\ of(a, x) > 0
      BY <1>5, <2>6 DEF In
    <3>4. In(b, x, reached) <=> x \in DOMAIN b /\ of(b, x) > 0
      BY <1>6, <2>6 DEF In
    <3> QED
      BY <1>4, <2>4, <3>1, <3>2, <3>3, <3>4
  <2> QED
    BY <2>5, <2>6
<1> HIDE DEF sum, T
<1> QED
  BY <1>1, <1>9, <1>10

LEMMA PositivePart ==
  ASSUME NEW n \in Int
  PROVE  Max({n, 0}) \in Nat /\ (Max({n, 0}) > 0 <=> n > 0)
<1>1. \E x \in {n, 0} : \A y \in {n, 0} : x >= y
  <2>1. CASE n >= 0
    BY <2>1
  <2>2. CASE ~(n >= 0)
    BY <2>2
  <2> QED
    BY <2>1, <2>2
<1>2. Max({n, 0}) \in {n, 0} /\ \A y \in {n, 0} : Max({n, 0}) >= y
  BY <1>1 DEF Max
<1> DEFINE m == Max({n, 0})
<1>3. (m = n \/ m = 0) /\ m >= n /\ m >= 0
  BY <1>2
<1> HIDE DEF m
<1>4. m \in Nat /\ (m > 0 <=> n > 0)
  BY <1>3
<1> QED
  BY <1>4 DEF m

LEMMA CountedIs ==
  ASSUME NEW record \in Records, NEW entry \in Entries["lcov"], entry.is = "count"
  PROVE  /\ Counted(record, entry) \in Records
         /\ Counted(record, entry).declared = record.declared
         /\ \A x : \A reached \in BOOLEAN :
              In(Counted(record, entry).counts, x, reached) <=>
                \/ In(record.counts, x, reached)
                \/ x = entry.thing /\ (reached => entry.count > 0)
<1> DEFINE n == Max({entry.count, 0})
           one == [t \in {entry.thing} |-> n]
<1>1. record.counts \in Tables /\ record.declared \in FileNames
      /\ record = [declared |-> record.declared, counts |-> record.counts]
  BY DEF Records
<1>2. n \in Nat /\ (n > 0 <=> entry.count > 0)
  BY PositivePart, EntriesAssumption
<1> HIDE DEF n
<1>3. one \in Tables
  <2>1. entry.thing \in Things
    BY DEF Things
  <2>2. {entry.thing} \in SUBSET Things /\ IsFiniteSet({entry.thing})
    BY <2>1, FS_Singleton
  <2>3. one \in [{entry.thing} -> Nat]
    BY <1>2
  <2> HIDE DEF one
  <2> QED
    BY <2>2, <2>3, TableIs
<1>4. \A x : \A reached \in BOOLEAN :
        In(one, x, reached) <=> x = entry.thing /\ (reached => entry.count > 0)
  BY <1>2 DEF In
<1>5. Counted(record, entry) = [record EXCEPT !.counts = Sum2(record.counts, one)]
  BY DEF Counted, n
<1> HIDE DEF one
<1>6. Counted(record, entry) = [declared |-> record.declared, counts |-> Sum2(record.counts, one)]
  BY <1>1, <1>5
<1>7. Sum2(record.counts, one) \in Tables
  BY <1>1, <1>3, TablesSum
<1>8. \A x : \A reached \in BOOLEAN : In(Sum2(record.counts, one), x, reached) <=>
                                    In(record.counts, x, reached) \/ In(one, x, reached)
  BY <1>1, <1>3, TablesSum
<1> QED
  BY <1>1, <1>4, <1>6, <1>7, <1>8 DEF Records

\* A line that is read, by what it does.
LEMMA LineIs ==
  ASSUME NEW read \in Reads, NEW entry \in Entries["lcov"]
  PROVE  LET next == ReadLine(read, entry) IN
         /\ next \in Reads
         /\ ~next.fault =>
              /\ ~read.fault
              /\ entry.is = "SF" =>
                   /\ read.current = NoRecord /\ next.files = read.files
                   /\ next.current = [declared |-> entry.file, counts |-> <<>>]
              /\ entry.is = "end of record" =>
                   /\ read.current # NoRecord /\ next.current = NoRecord
                   /\ next.files = Append(read.files, read.current)
              /\ entry.is = "no count" =>
                   read.current = NoRecord /\ next.current = NoRecord /\ next.files = read.files
              /\ entry.is = "count" =>
                   /\ next.files = read.files
                   /\ next.current = IF read.current = NoRecord THEN NoRecord
                                     ELSE Counted(read.current, entry)
<1> DEFINE next == ReadLine(read, entry)
           fault == [read EXCEPT !.fault = TRUE]
           begun == [declared |-> entry.file, counts |-> <<>>]
<1>1. /\ read = [fault |-> read.fault, files |-> read.files, current |-> read.current]
      /\ read.fault \in BOOLEAN /\ read.files \in Seq(Records) /\ read.current \in Records
  BY DEF Reads
<1>2. entry.is \in {"SF", "end of record", "count", "no count"}
  BY EntriesAssumption
<1>3. fault \in Reads /\ fault.fault
  <2>1. ASSUME NEW v PROVE [read EXCEPT !.fault = v] =
                             [fault |-> v, files |-> read.files, current |-> read.current]
    BY <1>1
  <2>2. fault = [fault |-> TRUE, files |-> read.files, current |-> read.current]
    BY <2>1
  <2> QED
    BY <1>1, <2>2 DEF Reads
<1>4. NoRecord \in Records
  BY EmptyTable DEF NoRecord, Records, FileNames
<1>5. CASE read.fault
  <2>1. next = read
    BY <1>5 DEF ReadLine
  <2> HIDE DEF next
  <2> QED
    BY <1>5, <2>1 DEF next
<1>6. CASE ~read.fault /\ entry.is = "SF"
  <2>1. CASE read.current # NoRecord
    <3>1. next = fault
      BY <1>6, <2>1 DEF ReadLine
    <3> HIDE DEF fault, next
    <3> QED
      BY <1>3, <3>1 DEF next
  <2>2. CASE read.current = NoRecord
    <3>1. next = [read EXCEPT !.current = begun]
      BY <1>6, <2>2 DEF ReadLine
    <3>2. begun \in Records
      BY <1>6, EmptyTable DEF Records, FileNames
    <3> HIDE DEF next
    <3>3. next = [fault |-> read.fault, files |-> read.files, current |-> begun]
      <4> HIDE DEF begun
      <4> QED
        BY <1>1, <3>1
    <3>4. next \in Reads
      <4> HIDE DEF begun
      <4> QED
        BY <1>1, <3>2, <3>3 DEF Reads
    <3> QED
      BY <1>6, <2>2, <3>3, <3>4 DEF next
  <2> QED
    BY <2>1, <2>2
<1>7. CASE ~read.fault /\ entry.is = "end of record"
  <2>1. CASE read.current = NoRecord
    <3>1. next = fault
      BY <1>7, <2>1 DEF ReadLine
    <3> HIDE DEF fault, next
    <3> QED
      BY <1>3, <3>1 DEF next
  <2>2. CASE read.current # NoRecord
    <3> DEFINE files == Append(read.files, read.current)
    <3>1. next = [read EXCEPT !.files = files, !.current = NoRecord]
      BY <1>7, <2>2 DEF ReadLine
    <3>2. files \in Seq(Records)
      BY <1>1, AppendProperties
    <3> HIDE DEF next
    <3>3. next = [fault |-> read.fault, files |-> files, current |-> NoRecord]
      <4> HIDE DEF files
      <4> QED
        BY <1>1, <3>1
    <3>4. next \in Reads
      <4> HIDE DEF files
      <4> QED
        BY <1>1, <1>4, <3>2, <3>3 DEF Reads
    <3>5. next.fault = read.fault /\ next.files = files /\ next.current = NoRecord
      <4> HIDE DEF files
      <4> QED
        BY <3>3
    <3> QED
      BY <1>7, <2>2, <3>4, <3>5 DEF next
  <2> QED
    BY <2>1, <2>2
<1>8. CASE ~read.fault /\ entry.is = "no count"
  <2>1. CASE read.current # NoRecord
    <3>1. next = fault
      BY <1>8, <2>1 DEF ReadLine
    <3> HIDE DEF fault, next
    <3> QED
      BY <1>3, <3>1 DEF next
  <2>2. CASE read.current = NoRecord
    <3>1. next = read
      BY <1>8, <2>2 DEF ReadLine
    <3> HIDE DEF next
    <3> QED
      BY <1>8, <2>2, <3>1 DEF next
  <2> QED
    BY <2>1, <2>2
<1>9. CASE ~read.fault /\ entry.is = "count"
  <2>1. CASE read.current = NoRecord
    <3>1. next = read
      BY <1>9, <2>1 DEF ReadLine
    <3> HIDE DEF next
    <3> QED
      BY <1>9, <2>1, <3>1 DEF next
  <2>2. CASE read.current # NoRecord
    <3> DEFINE more == Counted(read.current, entry)
    <3>1. next = [read EXCEPT !.current = more]
      BY <1>9, <2>2 DEF ReadLine
    <3>2. more \in Records
      BY <1>1, <1>9, CountedIs
    <3> HIDE DEF next, more
    <3>3. next = [fault |-> read.fault, files |-> read.files, current |-> more]
      BY <1>1, <3>1
    <3>4. next \in Reads
      BY <1>1, <3>2, <3>3 DEF Reads
    <3> QED
      BY <1>9, <2>2, <3>3, <3>4 DEF next, more
  <2> QED
    BY <2>1, <2>2
<1> QED
  BY <1>1, <1>2, <1>5, <1>6, <1>7, <1>8, <1>9

\* Lines reads one line after the other.
Reading(tracefile, read) ==
  /\ read \in [0 .. Len(tracefile) -> Reads]
  /\ read[0] = Unread
  /\ \A n \in 1 .. Len(tracefile) : read[n] = ReadLine(read[n - 1], tracefile[n])
  /\ Lines(tracefile) = read[Len(tracefile)]

LineStep(t) == [x \in (1 .. Len(t)) \X Reads |-> ReadLine(x[2], t[x[1]])]

LEMMA LinesByOne ==
  ASSUME NEW t \in Seq(Entries["lcov"])
  PROVE  \E read : Reading(t, read)
<1> DEFINE N == Len(t)
           step == LineStep(t)
           Body(f) == [s \in SUBSET (1 .. N) |->
                         IF s = {} THEN Unread ELSE ReadLine(f[s \ {Max(s)}], t[Max(s)])]
           iter == CHOOSE iter : iter = Body(iter)
<1>1. N \in Nat /\ DOMAIN t = 1 .. N /\ \A n \in 1 .. N : t[n] \in Entries["lcov"]
  BY LenProperties, ElementOfSeq
<1>2. Unread \in Reads
  <2>1. NoRecord \in Records /\ <<>> \in Seq(Records)
    BY EmptyTable, EmptySeq DEF NoRecord, Records, FileNames
  <2> QED
    BY <2>1 DEF Unread, Reads
<1>3. Lines(t) = iter[1 .. N]
  BY <1>1 DEF Lines, FoldLeft, MapThenFoldSet
<1>4. \A n \in 1 .. N, x \in Reads : step[<<n, x>>] = ReadLine(x, t[n]) /\ step[<<n, x>>] \in Reads
  <2>1. ASSUME NEW n \in 1 .. N, NEW x \in Reads PROVE ReadLine(x, t[n]) \in Reads
    BY <1>1, LineIs
  <2> QED
    BY <2>1 DEF LineStep
<1> HIDE DEF N, step
<1>5. PICK f : Folding(f, N, Reads, Unread, step)
  BY <1>1, <1>2, <1>4, Folds
<1>6. f = Body(f)
  <2>1. ASSUME NEW s \in SUBSET (1 .. N)
        PROVE  f[s] = IF s = {} THEN Unread ELSE ReadLine(f[s \ {Max(s)}], t[Max(s)])
    <3>1. CASE s = {}
      BY <1>5, <3>1 DEF Folding
    <3>2. CASE s # {}
      <4>1. Max(s) \in 1 .. N
        BY <1>1, <3>2, SomeAreBounded
      <4>2. s \ {Max(s)} \in SUBSET (1 .. N)
        OBVIOUS
      <4>3. f[s] = step[<<Max(s), f[s \ {Max(s)}]>>] /\ f[s \ {Max(s)}] \in Reads
        BY <1>5, <3>2, <4>2 DEF Folding
      <4> QED
        BY <1>4, <3>2, <4>1, <4>3
    <3> QED
      BY <3>1, <3>2
  <2>2. f = [s \in SUBSET (1 .. N) |-> f[s]]
    BY <1>5 DEF Folding
  <2> QED
    BY <2>1, <2>2
<1>7. iter = Body(iter)
  <2> HIDE DEF Body
  <2> QED
    BY <1>6
<1> HIDE DEF iter
<1>8. Chosen(iter, N, Reads, Unread, step)
  <2> DEFINE same == Body(iter)
  <2>1. \A s \in SUBSET (1 .. N) :
          same[s] = IF s = {} THEN Unread ELSE ReadLine(iter[s \ {Max(s)}], t[Max(s)])
    OBVIOUS
  <2>2. iter = same
    BY <1>7
  <2> HIDE DEF same
  <2>3. {} \in SUBSET (1 .. N) /\ \A s \in SUBSET (1 .. N) : s # {} => Max(s) \in 1 .. N
    BY <1>1, SomeAreBounded
  <2> QED
    BY <1>4, <2>1, <2>2, <2>3 DEF Chosen
<1>9. FoldsTo(N, Reads, Unread, step, iter[1 .. N])
  <2>1. Stepping(N, Reads, step)
    BY <1>4 DEF Stepping
  <2> QED
    BY <1>1, <1>2, <1>8, <2>1, FoldIterates, Zenon
<1>10. PICK read : Iterates(read, N, Reads, Unread, step) /\ read[N] = Lines(t)
  BY <1>3, <1>9 DEF FoldsTo
<1>11. read \in [0 .. N -> Reads] /\ read[0] = Unread
  BY <1>10 DEF Iterates
<1>12. ASSUME NEW n \in 1 .. N PROVE read[n] = ReadLine(read[n - 1], t[n])
  <2>1. read[n - 1] \in Reads
    BY <1>1, <1>11
  <2>2. read[n] = step[<<n, read[n - 1]>>]
    BY <1>10 DEF Iterates
  <2> QED
    BY <1>4, <2>1, <2>2
<1> QED
  BY <1>10, <1>11, <1>12 DEF Reading, N

\* What was read of a tracefile so far, as the record it is in tells.
Shaped(read) ==
  /\ read = [fault |-> read.fault, files |-> read.files, current |-> read.current]
  /\ read.current = [declared |-> read.current.declared, counts |-> read.current.counts]
  /\ read.current.declared = "none" => read.current = NoRecord
  /\ read.fault \in BOOLEAN

\* What one more line without a fault says of the record before it and after it.
LEMMA ReadsOn ==
  ASSUME NEW entry \in Entries["lcov"], NEW read, NEW next, Shaped(read),
         next = ReadLine(read, entry), ~next.fault
  PROVE  /\ ~read.fault /\ Shaped(next)
         /\ entry.is = "SF" => read.current = NoRecord /\ next.current # NoRecord
         /\ entry.is = "end of record" => read.current # NoRecord /\ next.current = NoRecord
         /\ entry.is = "no count" => read.current = NoRecord /\ next.current = NoRecord
         /\ entry.is = "count" => (read.current = NoRecord <=> next.current = NoRecord)
         /\ entry.is # "end of record" => next.files = read.files
<1>1. /\ entry.is \in {"SF", "end of record", "count", "no count"}
      /\ entry.is = "SF" => entry.file # "none"
  BY EntriesAssumption
<1>2. ~read.fault
  <2>1. read.fault => next = read
    BY DEF ReadLine
  <2> QED
    BY <2>1
<1>3. ASSUME NEW record PROVE [read EXCEPT !.fault = TRUE].fault
  BY DEF Shaped
<1>4. CASE entry.is = "SF"
  <2> DEFINE new == [declared |-> entry.file, counts |-> <<>>]
  <2>1. CASE read.current # NoRecord
    BY <1>2, <1>3, <1>4, <2>1 DEF ReadLine
  <2>2. CASE read.current = NoRecord
    <3>1. next = [read EXCEPT !.current = new]
      BY <1>2, <1>4, <2>2 DEF ReadLine
    <3>2. next = [fault |-> read.fault, files |-> read.files, current |-> new]
      BY <3>1 DEF Shaped
    <3>3. new.declared # "none" /\ NoRecord.declared = "none"
      BY <1>1, <1>4 DEF NoRecord
    <3> QED
      BY <1>2, <1>4, <2>2, <3>2, <3>3 DEF Shaped
  <2> QED
    BY <2>1, <2>2
<1>5. CASE entry.is = "end of record"
  <2>1. CASE read.current = NoRecord
    BY <1>2, <1>3, <1>5, <2>1 DEF ReadLine
  <2>2. CASE read.current # NoRecord
    <3>1. next = [read EXCEPT !.files = Append(@, read.current), !.current = NoRecord]
      BY <1>2, <1>5, <2>2 DEF ReadLine
    <3>2. next = [fault |-> read.fault, files |-> Append(read.files, read.current),
                  current |-> NoRecord]
      BY <3>1 DEF Shaped
    <3>3. next.fault = read.fault /\ next.current = NoRecord /\ read.fault \in BOOLEAN
      BY <3>2 DEF Shaped
    <3>4. Shaped(next)
      <4>1. next = [fault |-> next.fault, files |-> next.files, current |-> next.current]
        BY <3>2, Zenon
      <4>2. NoRecord = [declared |-> NoRecord.declared, counts |-> NoRecord.counts]
        BY DEF NoRecord
      <4> QED
        BY <3>3, <4>1, <4>2 DEF Shaped
    <3> QED
      BY <1>2, <1>5, <2>2, <3>3, <3>4
  <2> QED
    BY <2>1, <2>2
<1>6. CASE entry.is = "no count"
  <2>1. CASE read.current # NoRecord
    BY <1>2, <1>3, <1>6, <2>1 DEF ReadLine
  <2>2. CASE read.current = NoRecord
    BY <1>2, <1>6, <2>2 DEF ReadLine
  <2> QED
    BY <2>1, <2>2
<1>7. CASE entry.is = "count"
  <2>1. CASE read.current = NoRecord
    BY <1>2, <1>7, <2>1 DEF ReadLine
  <2>2. CASE read.current # NoRecord
    <3> DEFINE more == Counted(read.current, entry)
    <3>1. next = [read EXCEPT !.current = more]
      BY <1>2, <1>7, <2>2 DEF ReadLine
    <3>2. next = [fault |-> read.fault, files |-> read.files, current |-> more]
      <4> HIDE DEF more
      <4> QED
        BY <3>1 DEF Shaped
    <3>3. /\ more = [declared |-> more.declared, counts |-> more.counts]
          /\ more.declared = read.current.declared
      BY DEF Counted, Shaped
    <3>4. more.declared # "none" /\ more # NoRecord
      BY <2>2, <3>3 DEF Shaped, NoRecord
    <3> HIDE DEF more
    <3> QED
      BY <1>2, <1>7, <2>2, <3>2, <3>3, <3>4 DEF Shaped
  <2> QED
    BY <2>1, <2>2
<1> QED
  BY <1>1, <1>2, <1>4, <1>5, <1>6, <1>7

\* A record begun at line i that ended by line n, and one that did not.
EndedBy(tracefile, i, n) ==
  \E k \in i + 1 .. n :
    /\ tracefile[k].is = "end of record" /\ InRecord(tracefile, k, i)
    /\ \A l \in i + 1 .. k : tracefile[l].is \notin {"SF", "no count"}

OpenSince(tracefile, i, n) ==
  \A l \in i + 1 .. n : tracefile[l].is \notin {"SF", "no count", "end of record"}

\* After n lines, every record begun was ended or is the one being read, and what was
\* read is nothing where none was begun.
ReadUpto(tracefile, n, read) ==
  /\ Shaped(read)
  /\ \A i \in 1 .. n : tracefile[i].is = "SF" =>
       \/ EndedBy(tracefile, i, n)
       \/ read.current # NoRecord /\ OpenSince(tracefile, i, n)
  /\ (\A i \in 1 .. n : tracefile[i].is # "SF") => read.files = <<>> /\ read.current = NoRecord

LEMMA ReadOneMore ==
  ASSUME NEW t \in Seq(Entries["lcov"]), NEW n \in 1 .. Len(t), NEW read, NEW next,
         next = ReadLine(read, t[n]), ~next.fault, ReadUpto(t, n - 1, read)
  PROVE  ReadUpto(t, n, next)
<1>1. t[n] \in Entries["lcov"] /\ Len(t) \in Nat
  BY ElementOfSeq, LenProperties
<1>2. t[n].is \in {"SF", "end of record", "count", "no count"}
  BY <1>1, EntriesAssumption
<1>3. Shaped(read)
  BY DEF ReadUpto
<1>4. /\ ~read.fault /\ Shaped(next)
      /\ t[n].is = "SF" => read.current = NoRecord /\ next.current # NoRecord
      /\ t[n].is = "end of record" => read.current # NoRecord /\ next.current = NoRecord
      /\ t[n].is = "no count" => read.current = NoRecord /\ next.current = NoRecord
      /\ t[n].is = "count" => (read.current = NoRecord <=> next.current = NoRecord)
      /\ t[n].is # "end of record" => next.files = read.files
  BY <1>1, <1>3, ReadsOn
<1>5. ASSUME NEW i \in 1 .. n, t[i].is = "SF"
      PROVE  EndedBy(t, i, n) \/ (next.current # NoRecord /\ OpenSince(t, i, n))
  <2>1. CASE i = n
    <3>1. \A l \in i + 1 .. n : FALSE
      BY <1>1, <2>1
    <3>2. t[n].is = "SF"
      BY <1>5, <2>1
    <3> QED
      BY <1>4, <3>1, <3>2 DEF OpenSince
  <2>2. CASE i # n
    <3>1. i \in 1 .. n - 1
      BY <1>1, <2>2
    <3>2. CASE EndedBy(t, i, n - 1)
      <4>1. PICK k \in i + 1 .. n - 1 :
              /\ t[k].is = "end of record" /\ InRecord(t, k, i)
              /\ \A l \in i + 1 .. k : t[l].is \notin {"SF", "no count"}
        BY <3>2 DEF EndedBy
      <4>2. k \in i + 1 .. n
        BY <1>1
      <4> QED
        BY <4>1, <4>2 DEF EndedBy
    <3>3. CASE read.current # NoRecord /\ OpenSince(t, i, n - 1)
      <4>1. \A l \in i + 1 .. n : l = n \/ l \in i + 1 .. n - 1
        BY <1>1
      <4>2. CASE t[n].is = "end of record"
        <5>1. n \in i + 1 .. n
          BY <1>1, <3>1
        <5>2. InRecord(t, n, i)
          <6>1. i < n
            BY <1>1, <3>1
          <6>2. \A k \in i + 1 .. n - 1 : t[k].is # "end of record"
            BY <3>3 DEF OpenSince
          <6> QED
            BY <1>5, <6>1, <6>2 DEF InRecord
        <5>3. \A l \in i + 1 .. n : t[l].is \notin {"SF", "no count"}
          BY <3>3, <4>1, <4>2 DEF OpenSince
        <5> QED
          BY <4>2, <5>1, <5>2, <5>3 DEF EndedBy
      <4>3. CASE t[n].is # "end of record"
        <5>1. t[n].is = "count" /\ next.current # NoRecord
          BY <1>2, <1>4, <3>3, <4>3
        <5> QED
          BY <3>3, <4>1, <5>1 DEF OpenSince
      <4> QED
        BY <4>2, <4>3
    <3> QED
      BY <1>5, <3>1, <3>2, <3>3 DEF ReadUpto
  <2> QED
    BY <2>1, <2>2
<1>6. ASSUME \A i \in 1 .. n : t[i].is # "SF"
      PROVE  next.files = <<>> /\ next.current = NoRecord
  <2>1. \A i \in 1 .. n - 1 : i \in 1 .. n
    BY <1>1
  <2>2. read.files = <<>> /\ read.current = NoRecord
    BY <1>6, <2>1 DEF ReadUpto
  <2>3. n \in 1 .. n
    BY <1>1
  <2> QED
    BY <1>2, <1>4, <1>6, <2>2, <2>3
<1> QED
  BY <1>4, <1>5, <1>6 DEF ReadUpto

\* A tracefile that is not refused names a file, and ended every record it began.
LEMMA TracefileReadWhole ==
  ASSUME NEW t \in Seq(Entries["lcov"]), ~Refused(t)
  PROVE  /\ \E i \in DOMAIN t : t[i].is = "SF"
         /\ \A i \in DOMAIN t : t[i].is = "SF" => EndedBy(t, i, Len(t))
<1> DEFINE N == Len(t)
<1>1. N \in Nat /\ DOMAIN t = 1 .. N
  BY LenProperties
<1>2. PICK read : Reading(t, read)
  BY LinesByOne
<1>3. ~read[N].fault /\ read[N].current = NoRecord /\ read[N].files # <<>>
  BY <1>2 DEF Reading, Refused, Unfinished
<1> HIDE DEF N
<1> DEFINE P == {n \in 0 .. N : ~read[n].fault => ReadUpto(t, n, read[n])}
<1>4. 0 \in P
  <2>1. read[0] = Unread
    BY <1>2 DEF Reading
  <2>2. ReadUpto(t, 0, Unread)
    BY DEF ReadUpto, Shaped, Unread, NoRecord
  <2> QED
    BY <1>1, <2>1, <2>2
<1>5. ASSUME NEW n \in 1 .. N, n - 1 \in P PROVE n \in P
  <2>1. read[n] = ReadLine(read[n - 1], t[n])
    BY <1>2 DEF Reading, N
  <2> SUFFICES ASSUME ~read[n].fault PROVE ReadUpto(t, n, read[n])
    BY <1>1
  <2>2. ~read[n - 1].fault
    BY <2>1 DEF ReadLine
  <2>3. ReadUpto(t, n - 1, read[n - 1])
    BY <1>5, <2>2
  <2>4. n \in 1 .. Len(t)
    BY DEF N
  <2> HIDE DEF P
  <2> QED
    BY <2>1, <2>3, <2>4, ReadOneMore
<1>6. 0 .. N \subseteq P
  <2> HIDE DEF P
  <2> QED
    BY <1>1, <1>4, <1>5, UptoInduction
<1>7. ReadUpto(t, N, read[N])
  BY <1>1, <1>3, <1>6
<1> QED
  BY <1>1, <1>3, <1>7 DEF ReadUpto, N

-----------------------------------------------------------------------------

ReportsTypeOK == format \in DOMAIN Entries /\ reports \in Seq(Seq(Entries[format]))

LEMMA ReportsTyped == ReportsSpec => []ReportsTypeOK
<1>1. ReportsInit => ReportsTypeOK
  BY EmptySeq DEF ReportsInit, ReportsTypeOK
<1>2. ASSUME ReportsTypeOK, [ReportsNext]_reportVars PROVE ReportsTypeOK'
  <2> DEFINE S == Seq(Entries[format])
  <2>1. reports \in Seq(S)
    BY <1>2 DEF ReportsTypeOK
  <2>2. CASE Open
    <3>1. <<>> \in S
      BY EmptySeq
    <3> HIDE DEF S
    <3>2. Append(reports, <<>>) \in Seq(S)
      BY <2>1, <3>1, AppendProperties
    <3> QED
      BY <1>2, <2>2, <3>2 DEF Open, ReportsTypeOK, S
  <2>3. ASSUME NEW entry \in Entries[format], Write(entry) PROVE ReportsTypeOK'
    <3>1. reports # <<>>
      BY <2>3 DEF Write
    <3>2. Len(reports) \in 1 .. Len(reports) /\ reports[Len(reports)] \in S
      <4> HIDE DEF S
      <4> QED
        BY <2>1, <3>1, EmptySeq, LenProperties, ElementOfSeq
    <3>3. Append(reports[Len(reports)], entry) \in S
      BY <3>2, AppendProperties
    <3>4. reports' = [reports EXCEPT ![Len(reports)] = Append(@, entry)]
      BY <2>3 DEF Write
    <3> HIDE DEF S
    <3>5. reports' \in Seq(S)
      BY <2>1, <3>2, <3>3, <3>4, ExceptSeq
    <3> QED
      BY <1>2, <2>3, <3>5 DEF Write, ReportsTypeOK, S
  <2>4. CASE UNCHANGED reportVars
    BY <1>2, <2>4 DEF ReportsTypeOK, reportVars
  <2> QED
    BY <1>2, <2>2, <2>3, <2>4 DEF ReportsNext
<1> QED
  BY <1>1, <1>2, PTL DEF ReportsSpec

\* Wherever a tool stops, no report of it is accepted in part: a log or a test report
\* with its end, a tracefile with the end of every record it began.
THEOREM NoReportIsAcceptedInPart == ReportsSpec => []AcceptedReportsAreReadWhole
<1>1. ReportsTypeOK => AcceptedReportsAreReadWhole
  <2> SUFFICES ASSUME ReportsTypeOK, Projected, NEW r \in DOMAIN reports
               PROVE  LET report == reports[r] IN
                      IF format # "lcov"
                      THEN /\ report # <<>> /\ Last(report).is = "close"
                           /\ \A i \in DOMAIN report : report[i].is # "no result"
                           /\ \A i \in DOMAIN report : report[i].is = "run" => report[i].successful
                      ELSE /\ \E i \in DOMAIN report : report[i].is = "SF"
                           /\ \A i \in DOMAIN report : report[i].is = "SF" =>
                                EndedBy(report, i, Len(report))
    BY DEF AcceptedReportsAreReadWhole, EndedBy
  <2> DEFINE report == reports[r]
  <2>1. report \in Seq(Entries[format]) /\ ~Unreadable(report)
    <3>1. ~Unreadable(report)
      BY DEF Projected
    <3>2. reports \in Seq(Seq(Entries[format]))
      BY DEF ReportsTypeOK
    <3>3. r \in 1 .. Len(reports)
      BY <3>2, LenProperties
    <3> QED
      BY <3>1, <3>2, <3>3, ElementOfSeq
  <2>2. \A i \in DOMAIN report : report[i] \in Entries[format]
    BY <2>1, LenProperties, ElementOfSeq
  <2> HIDE DEF report
  <2>3. CASE format = "lcov"
    <3>1. ~Refused(report)
      BY <2>1, <2>3 DEF Unreadable
    <3> QED
      BY <2>1, <2>3, <3>1, TracefileReadWhole DEF report
  <2>4. CASE format = "sarif"
    <3>1. ~RefusedLog(report)
      BY <2>1, <2>4 DEF Unreadable
    <3> QED
      BY <2>4, <3>1 DEF RefusedLog, report
  <2>5. CASE format = "junit-xml"
    <3>1. ~RefusedTests(report)
      BY <2>1, <2>5 DEF Unreadable
    <3>2. \A i \in DOMAIN report : report[i].is \notin {"no result", "run"}
      BY <2>2, <2>5, EntriesAssumption
    <3> QED
      BY <2>5, <3>1, <3>2 DEF RefusedTests, report
  <2>6. format \in {"lcov", "sarif", "junit-xml"}
    BY EntriesAssumption DEF ReportsTypeOK
  <2> QED
    BY <2>3, <2>4, <2>5, <2>6
<1> QED
  BY <1>1, ReportsTyped, PTL

-----------------------------------------------------------------------------
(* What the reports come to.                                                 *)

\* Kept keeps an entry, or not, one after the other.
KeptStep(E, s, kind) ==
  [x \in (1 .. Len(s)) \X Seq(E) |-> IF s[x[1]] \in kind THEN Append(x[2], s[x[1]]) ELSE x[2]]

LEMMA KeptSteps ==
  ASSUME NEW E, NEW s \in Seq(E), NEW kind
  PROVE  \A n \in 1 .. Len(s), x \in Seq(E) :
           /\ s[n] \in E
           /\ KeptStep(E, s, kind)[<<n, x>>] = IF s[n] \in kind THEN Append(x, s[n]) ELSE x
           /\ KeptStep(E, s, kind)[<<n, x>>] \in Seq(E)
BY ElementOfSeq, AppendProperties DEF KeptStep

LEMMA KeptByOne ==
  ASSUME NEW E, NEW s \in Seq(E), NEW kind
  PROVE  FoldsTo(Len(s), Seq(E), <<>>, KeptStep(E, s, kind), Kept(s, kind))
<1>0. \A n \in 1 .. Len(s), x \in Seq(E) :
        /\ KeptStep(E, s, kind)[<<n, x>>] = IF s[n] \in kind THEN Append(x, s[n]) ELSE x
        /\ KeptStep(E, s, kind)[<<n, x>>] \in Seq(E)
  BY ElementOfSeq, AppendProperties DEF KeptStep
<1> DEFINE N == Len(s)
           step == KeptStep(E, s, kind)
           Body(f) == [t \in SUBSET (1 .. N) |->
                         IF t = {} THEN <<>>
                         ELSE IF s[Max(t)] \in kind THEN Append(f[t \ {Max(t)}], s[Max(t)])
                         ELSE f[t \ {Max(t)}]]
           iter == CHOOSE iter : iter = Body(iter)
<1>1. N \in Nat /\ DOMAIN s = 1 .. N /\ <<>> \in Seq(E)
  BY LenProperties, EmptySeq
<1>2. Kept(s, kind) = iter[1 .. N]
  BY <1>1 DEF Kept, FoldLeft, MapThenFoldSet
<1>3. \A n \in 1 .. N, x \in Seq(E) :
        /\ step[<<n, x>>] = IF s[n] \in kind THEN Append(x, s[n]) ELSE x
        /\ step[<<n, x>>] \in Seq(E)
  BY <1>0
<1> HIDE DEF N, step
<1>4. PICK f : Folding(f, N, Seq(E), <<>>, step)
  BY <1>1, <1>3, Folds
<1>5. f = Body(f)
  <2>1. ASSUME NEW t \in SUBSET (1 .. N)
        PROVE  f[t] = IF t = {} THEN <<>>
                      ELSE IF s[Max(t)] \in kind THEN Append(f[t \ {Max(t)}], s[Max(t)])
                      ELSE f[t \ {Max(t)}]
    <3>1. CASE t = {}
      BY <1>4, <3>1 DEF Folding
    <3>2. CASE t # {}
      <4>1. Max(t) \in 1 .. N
        BY <1>1, <3>2, SomeAreBounded
      <4>2. t \ {Max(t)} \in SUBSET (1 .. N)
        OBVIOUS
      <4>3. f[t] = step[<<Max(t), f[t \ {Max(t)}]>>] /\ f[t \ {Max(t)}] \in Seq(E)
        BY <1>4, <3>2, <4>2 DEF Folding
      <4> QED
        BY <1>3, <3>2, <4>1, <4>3
    <3> QED
      BY <3>1, <3>2
  <2>2. f = [t \in SUBSET (1 .. N) |-> f[t]]
    BY <1>4 DEF Folding
  <2> QED
    BY <2>1, <2>2
<1>6. iter = Body(iter)
  <2> HIDE DEF Body
  <2> QED
    BY <1>5
<1> HIDE DEF iter
<1>7. Chosen(iter, N, Seq(E), <<>>, step)
  <2> DEFINE same == Body(iter)
  <2>1. \A t \in SUBSET (1 .. N) :
          same[t] = IF t = {} THEN <<>>
                    ELSE IF s[Max(t)] \in kind THEN Append(iter[t \ {Max(t)}], s[Max(t)])
                    ELSE iter[t \ {Max(t)}]
    OBVIOUS
  <2>2. iter = same
    BY <1>6
  <2> HIDE DEF same
  <2>3. {} \in SUBSET (1 .. N) /\ \A t \in SUBSET (1 .. N) : t # {} => Max(t) \in 1 .. N
    BY <1>1, SomeAreBounded
  <2> QED
    BY <1>3, <2>1, <2>2, <2>3 DEF Chosen
<1>8. FoldsTo(N, Seq(E), <<>>, step, iter[1 .. N])
  <2>1. Stepping(N, Seq(E), step)
    BY <1>3 DEF Stepping
  <2> QED
    BY <1>1, <1>7, <2>1, FoldIterates, Zenon
<1> QED
  BY <1>2, <1>8 DEF N, step

Keeps(s, kind, kept) ==
  /\ kept[0] = <<>>
  /\ \A n \in 1 .. Len(s) :
       kept[n] = IF s[n] \in kind THEN Append(kept[n - 1], s[n]) ELSE kept[n - 1]
  /\ Kept(s, kind) = kept[Len(s)]

LEMMA KeptSteadily ==
  ASSUME NEW E, NEW s \in Seq(E), NEW kind
  PROVE  \E kept \in [0 .. Len(s) -> Seq(E)] : Keeps(s, kind, kept)
<1>1. FoldsTo(Len(s), Seq(E), <<>>, KeptStep(E, s, kind), Kept(s, kind))
  BY KeptByOne
<1>2. PICK kept : /\ Iterates(kept, Len(s), Seq(E), <<>>, KeptStep(E, s, kind))
                  /\ kept[Len(s)] = Kept(s, kind)
  BY <1>1 DEF FoldsTo
<1>3. kept \in [0 .. Len(s) -> Seq(E)]
  BY <1>2 DEF Iterates
<1>4. ASSUME NEW n \in 1 .. Len(s)
      PROVE  kept[n] = IF s[n] \in kind THEN Append(kept[n - 1], s[n]) ELSE kept[n - 1]
  <2>1. kept[n - 1] \in Seq(E)
    BY <1>3, LenProperties
  <2>2. kept[n] = KeptStep(E, s, kind)[<<n, kept[n - 1]>>]
    BY <1>2 DEF Iterates
  <2> QED
    BY <2>1, <2>2 DEF KeptStep
<1> QED
  BY <1>2, <1>3, <1>4 DEF Keeps, Iterates

\* What is kept is of the kind.
LEMMA KeptOfKind ==
  ASSUME NEW E, NEW s \in Seq(E), NEW kind
  PROVE  Kept(s, kind) \in Seq(E \cap kind)
<1>1. PICK kept \in [0 .. Len(s) -> Seq(E)] : Keeps(s, kind, kept)
  BY KeptSteadily
<1>2. Len(s) \in Nat /\ \A n \in 1 .. Len(s) : s[n] \in E
  BY LenProperties, ElementOfSeq
<1> DEFINE T == E \cap kind
           P == {n \in 0 .. Len(s) : kept[n] \in Seq(T)}
<1>3. 0 \in P
  BY <1>1, <1>2, EmptySeq DEF Keeps
<1>4. ASSUME NEW n \in 1 .. Len(s), n - 1 \in P PROVE n \in P
  <2>1. kept[n - 1] \in Seq(T)
    BY <1>4
  <2>2. kept[n] = IF s[n] \in kind THEN Append(kept[n - 1], s[n]) ELSE kept[n - 1]
    BY <1>1 DEF Keeps
  <2>3. CASE s[n] \in kind
    <3>1. s[n] \in T
      BY <1>2, <2>3
    <3> HIDE DEF T
    <3>2. Append(kept[n - 1], s[n]) \in Seq(T)
      BY <2>1, <3>1, AppendProperties
    <3>3. kept[n] = Append(kept[n - 1], s[n]) /\ n \in 0 .. Len(s)
      BY <1>2, <2>2, <2>3
    <3> QED
      BY <3>2, <3>3
  <2>4. CASE s[n] \notin kind
    <3>1. kept[n] = kept[n - 1] /\ n \in 0 .. Len(s)
      BY <1>2, <2>2, <2>4
    <3> HIDE DEF T
    <3> QED
      BY <2>1, <3>1
  <2> QED
    BY <2>3, <2>4
<1>5. 0 .. Len(s) \subseteq P
  <2> HIDE DEF P
  <2> QED
    BY <1>2, <1>3, <1>4, UptoInduction
<1>6. kept[Len(s)] \in Seq(T)
  BY <1>2, <1>5
<1> QED
  BY <1>1, <1>6 DEF Keeps

\* Two kinds that share nothing are kept in numbers that add up.
LEMMA NumbersAdd ==
  ASSUME NEW E, NEW s \in Seq(E), NEW A, NEW B, A \cap B = {}
  PROVE  /\ Number(s, A) \in Nat /\ Number(s, B) \in Nat
         /\ Number(s, A \cup B) = Number(s, A) + Number(s, B)
<1>1. PICK a \in [0 .. Len(s) -> Seq(E)] : Keeps(s, A, a)
  BY KeptSteadily
<1>2. PICK b \in [0 .. Len(s) -> Seq(E)] : Keeps(s, B, b)
  BY KeptSteadily
<1>3. PICK c \in [0 .. Len(s) -> Seq(E)] : Keeps(s, A \cup B, c)
  BY KeptSteadily
<1>4. Len(s) \in Nat /\ \A n \in 1 .. Len(s) : s[n] \in E
  BY LenProperties, ElementOfSeq
<1>5. \A n \in 0 .. Len(s) : Len(a[n]) \in Nat /\ Len(b[n]) \in Nat /\ Len(c[n]) \in Nat
  BY LenProperties
<1> DEFINE P == {n \in 0 .. Len(s) : Len(c[n]) = Len(a[n]) + Len(b[n])}
<1>6. 0 \in P
  <2>1. a[0] = <<>> /\ b[0] = <<>> /\ c[0] = <<>>
    BY <1>1, <1>2, <1>3 DEF Keeps
  <2>2. Len(a[0]) = 0 /\ Len(b[0]) = 0 /\ Len(c[0]) = 0
    BY <2>1, EmptySeq
  <2> QED
    BY <1>4, <2>2
<1>7. ASSUME NEW n \in 1 .. Len(s), n - 1 \in P PROVE n \in P
  <2>1. n \in 0 .. Len(s) /\ n - 1 \in 0 .. Len(s)
    BY <1>4
  <2>2. /\ a[n] = IF s[n] \in A THEN Append(a[n - 1], s[n]) ELSE a[n - 1]
        /\ b[n] = IF s[n] \in B THEN Append(b[n - 1], s[n]) ELSE b[n - 1]
        /\ c[n] = IF s[n] \in A \cup B THEN Append(c[n - 1], s[n]) ELSE c[n - 1]
    BY <1>1, <1>2, <1>3 DEF Keeps
  <2>3. /\ a[n - 1] \in Seq(E) /\ b[n - 1] \in Seq(E) /\ c[n - 1] \in Seq(E) /\ s[n] \in E
    BY <1>4, <2>1
  <2>4. /\ Len(Append(a[n - 1], s[n])) = Len(a[n - 1]) + 1
        /\ Len(Append(b[n - 1], s[n])) = Len(b[n - 1]) + 1
        /\ Len(Append(c[n - 1], s[n])) = Len(c[n - 1]) + 1
    BY <2>3, AppendProperties
  <2>5. Len(c[n - 1]) = Len(a[n - 1]) + Len(b[n - 1])
    BY <1>7
  <2>6. Len(a[n - 1]) \in Nat /\ Len(b[n - 1]) \in Nat /\ Len(c[n - 1]) \in Nat
    BY <1>5, <2>1
  <2>7. Len(c[n]) = Len(a[n]) + Len(b[n])
    <3>1. CASE s[n] \in A
      <4>1. s[n] \notin B /\ s[n] \in A \cup B
        BY <3>1
      <4> QED
        BY <2>2, <2>4, <2>5, <2>6, <3>1, <4>1
    <3>2. CASE s[n] \notin A /\ s[n] \in B
      BY <2>2, <2>4, <2>5, <2>6, <3>2
    <3>3. CASE s[n] \notin A /\ s[n] \notin B
      BY <2>2, <2>5, <3>3
    <3> QED
      BY <3>1, <3>2, <3>3
  <2> QED
    BY <2>1, <2>7
<1>8. 0 .. Len(s) \subseteq P
  <2> HIDE DEF P
  <2> QED
    BY <1>4, <1>6, <1>7, UptoInduction
<1>9. Len(s) \in 0 .. Len(s) /\ Len(c[Len(s)]) = Len(a[Len(s)]) + Len(b[Len(s)])
  BY <1>4, <1>8
<1>10. Kept(s, A) = a[Len(s)] /\ Kept(s, B) = b[Len(s)] /\ Kept(s, A \cup B) = c[Len(s)]
  BY <1>1, <1>2, <1>3 DEF Keeps
<1> QED
  BY <1>5, <1>9, <1>10 DEF Number

\* All of them are kept where they are of the kind, and none where nothing is.
LEMMA NumberOfAll ==
  ASSUME NEW A, NEW s \in Seq(A)
  PROVE  Number(s, A) = Len(s) /\ Number(s, {}) = 0
<1>1. PICK a \in [0 .. Len(s) -> Seq(A)] : Keeps(s, A, a)
  BY KeptSteadily
<1>2. PICK b \in [0 .. Len(s) -> Seq(A)] : Keeps(s, {}, b)
  BY KeptSteadily
<1>3. Len(s) \in Nat /\ \A n \in 1 .. Len(s) : s[n] \in A
  BY LenProperties, ElementOfSeq
<1> DEFINE P == {n \in 0 .. Len(s) : Len(a[n]) = n /\ Len(b[n]) = 0}
<1>4. 0 \in P
  <2>1. a[0] = <<>> /\ b[0] = <<>>
    BY <1>1, <1>2 DEF Keeps
  <2>2. Len(a[0]) = 0 /\ Len(b[0]) = 0
    BY <2>1, EmptySeq
  <2> QED
    BY <1>3, <2>2
<1>5. ASSUME NEW n \in 1 .. Len(s), n - 1 \in P PROVE n \in P
  <2>1. n \in 0 .. Len(s) /\ n - 1 \in 0 .. Len(s)
    BY <1>3
  <2>2. a[n] = Append(a[n - 1], s[n]) /\ b[n] = b[n - 1]
    BY <1>1, <1>2, <1>3 DEF Keeps
  <2>3. Len(Append(a[n - 1], s[n])) = Len(a[n - 1]) + 1
    BY <1>3, <2>1, AppendProperties
  <2>4. Len(a[n - 1]) = n - 1 /\ Len(b[n - 1]) = 0
    BY <1>5
  <2>5. Len(a[n]) = n /\ Len(b[n]) = 0
    BY <2>1, <2>2, <2>3, <2>4
  <2> QED
    BY <2>1, <2>5
<1>6. 0 .. Len(s) \subseteq P
  <2> HIDE DEF P
  <2> QED
    BY <1>3, <1>4, <1>5, UptoInduction
<1>7. Len(a[Len(s)]) = Len(s) /\ Len(b[Len(s)]) = 0
  BY <1>3, <1>6
<1> QED
  BY <1>1, <1>2, <1>7 DEF Keeps, Number

\* The numbers of each class add up to all.
Classed(s, E, D, class, numbers) ==
  /\ class \in [E -> D] /\ numbers \in [D -> Nat]
  /\ \A d \in D : numbers[d] = Number(s, {e \in E : class[e] = d})

LEMMA NumbersByClass ==
  ASSUME NEW E, NEW s \in Seq(E), NEW D, IsFiniteSet(D), NEW class, NEW numbers,
         Classed(s, E, D, class, numbers)
  PROVE  SumFunction(numbers) = Len(s)
<1>1. class \in [E -> D] /\ numbers \in [D -> Nat]
  BY DEF Classed
<1>2. PICK sum : Summing(numbers, sum)
  BY <1>1, SumByOne
<1> DEFINE Of(S) == {e \in E : class[e] \in S}
           P == {S \in SUBSET D : sum[S] = Number(s, Of(S))}
<1>3. {} \in P
  <2>1. Of({}) = {}
    OBVIOUS
  <2>2. Number(s, {}) = 0
    BY NumberOfAll
  <2> QED
    BY <1>2, <2>1, <2>2 DEF Summing
<1>4. ASSUME NEW S \in SUBSET D, S # {}, S \ {Taken(S)} \in P PROVE S \in P
  <2> DEFINE d == Taken(S)
             rest == S \ {d}
  <2>1. d \in S /\ d \in D
    BY <1>4 DEF Taken
  <2>2. sum[S] = numbers[d] + sum[rest]
    BY <1>1, <1>2, <1>4 DEF Summing
  <2>3. sum[rest] = Number(s, Of(rest))
    BY <1>4
  <2> HIDE DEF d
  <2>4. numbers[d] = Number(s, Of({d}))
    <3>1. Of({d}) = {e \in E : class[e] = d}
      OBVIOUS
    <3> HIDE DEF Of
    <3> QED
      BY <2>1, <3>1 DEF Classed
  <2>5. Of(S) = Of({d}) \cup Of(rest) /\ Of({d}) \cap Of(rest) = {}
    BY <2>1
  <2> HIDE DEF Of, rest
  <2>6. /\ Number(s, Of({d})) \in Nat /\ Number(s, Of(rest)) \in Nat
        /\ Number(s, Of({d}) \cup Of(rest)) = Number(s, Of({d})) + Number(s, Of(rest))
    BY <2>5, NumbersAdd
  <2>7. sum[S] = Number(s, Of(S))
    BY <2>2, <2>3, <2>4, <2>5, <2>6
  <2> QED
    BY <2>7
<1>5. SUBSET D \subseteq P
  <2> HIDE DEF P
  <2> QED
    BY <1>3, <1>4, SubsetInduction
<1>6. SumFunction(numbers) = Number(s, Of(D))
  BY <1>1, <1>2, <1>5 DEF Summing
<1>7. Of(D) = E
  BY <1>1
<1> QED
  BY <1>6, <1>7, NumberOfAll

\* An identifier is given to nothing else: of the numbered variants there is one more
\* than there are identifiers.
LEMMA IdentifierIsNew ==
  ASSUME NEW E, Nat \subseteq E, NEW ids \in Seq(Seq(E)), NEW name \in Seq(E)
  PROVE  Identifier(name, ids) \in Seq(E) /\ Identifier(name, ids) \notin Elements(ids)
<1> DEFINE S == Seq(E)
           N == Len(ids)
           variants == 2 .. N + 2
           free == {n \in variants : Append(name, n) \notin Elements(ids)}
<1>1. N \in Nat /\ DOMAIN ids = 1 .. N
  <2> HIDE DEF S
  <2>1. ids \in Seq(S)
    BY DEF S
  <2> QED
    BY <2>1, LenProperties
<1>2. Identifier(name, ids) = IF name \notin Elements(ids) THEN name ELSE Append(name, Min(free))
  BY <1>1 DEF Identifier, Elements
<1>3. \A n \in variants : n \in E /\ n \in Nat
  BY <1>1
<1>4. ASSUME NEW n \in variants
      PROVE  Append(name, n) \in Seq(E) /\ Append(name, n)[Len(name) + 1] = n
  BY <1>3, AppendProperties
<1>5. IsFiniteSet(variants) /\ Cardinality(variants) = N + 1
  <2>1. 2 \in Int /\ N + 2 \in Int
    BY <1>1
  <2>2. IsFiniteSet(2 .. N + 2) /\ Cardinality(2 .. N + 2) = IF 2 > N + 2 THEN 0 ELSE N + 2 - 2 + 1
    BY <2>1, FS_Interval
  <2> QED
    BY <1>1, <2>2
<1>6. /\ IsFiniteSet(Elements(ids))
      /\ Cardinality(Elements(ids)) <= N /\ Cardinality(Elements(ids)) \in Nat
  <2> DEFINE at == [i \in 1 .. N |-> ids[i]]
  <2>1. at \in Surjection(1 .. N, Elements(ids))
    BY DEF Elements, Surjection
  <2>2. IsFiniteSet(1 .. N) /\ Cardinality(1 .. N) = N
    <3>1. 1 \in Int /\ N \in Int
      BY <1>1
    <3>2. IsFiniteSet(1 .. N) /\ Cardinality(1 .. N) = IF 1 > N THEN 0 ELSE N - 1 + 1
      BY <3>1, FS_Interval
    <3> QED
      BY <1>1, <3>2
  <2> HIDE DEF at
  <2> QED
    BY <2>1, <2>2, FS_Surjection, FS_CardinalityType
<1> HIDE DEF N
<1>7. free # {}
  <2> SUFFICES ASSUME free = {} PROVE FALSE
    OBVIOUS
  <2> DEFINE variant == [n \in variants |-> Append(name, n)]
             taken == Elements(ids)
  <2>1. variant \in [variants -> taken]
    <3>1. \A n \in variants : Append(name, n) \in taken
      OBVIOUS
    <3> HIDE DEF taken, variants
    <3> QED
      BY <3>1
  <2>2. Cardinality(taken) < Cardinality(variants)
    BY <1>1, <1>5, <1>6
  <2>3. \A n \in variants : variant[n][Len(name) + 1] = n
    <3> HIDE DEF variants
    <3> QED
      BY <1>4
  <2> HIDE DEF variant, taken, variants
  <2>4. \E x, y \in variants : x # y /\ variant[x] = variant[y]
    BY <1>5, <1>6, <2>1, <2>2, FS_PigeonHole DEF taken
  <2> QED
    BY <2>3, <2>4
<1>8. Min(free) \in free
  <2>1. free \in SUBSET (1 .. N + 2) /\ N + 2 \in Nat
    BY <1>1
  <2> HIDE DEF free
  <2> QED
    BY <1>7, <2>1, SomeAreBounded
<1>9. Append(name, Min(free)) \in Seq(E) /\ Append(name, Min(free)) \notin Elements(ids)
  <2> DEFINE m == Min(free)
  <2>1. m \in variants /\ Append(name, m) \notin Elements(ids)
    BY <1>8
  <2> HIDE DEF m, variants
  <2> QED
    BY <1>4, <2>1 DEF m
<1> HIDE DEF free
<1> QED
  BY <1>2, <1>9

UniqueStep(E, names) ==
  [x \in (1 .. Len(names)) \X Seq(Seq(E)) |-> Append(x[2], Identifier(names[x[1]], x[2]))]

Identifies(E, names) ==
  \A n \in 1 .. Len(names), ids \in Seq(Seq(E)) :
    /\ UniqueStep(E, names)[<<n, ids>>] = Append(ids, Identifier(names[n], ids))
    /\ Identifier(names[n], ids) \in Seq(E) /\ Identifier(names[n], ids) \notin Elements(ids)
    /\ Append(ids, Identifier(names[n], ids)) \in Seq(Seq(E))

LEMMA UniqueSteps ==
  ASSUME NEW E, Nat \subseteq E, NEW names \in Seq(Seq(E))
  PROVE  Identifies(E, names)
<1> SUFFICES ASSUME NEW n \in 1 .. Len(names), NEW ids \in Seq(Seq(E))
             PROVE  /\ UniqueStep(E, names)[<<n, ids>>] = Append(ids, Identifier(names[n], ids))
                    /\ Identifier(names[n], ids) \in Seq(E)
                    /\ Identifier(names[n], ids) \notin Elements(ids)
                    /\ Append(ids, Identifier(names[n], ids)) \in Seq(Seq(E))
  BY DEF Identifies
<1> DEFINE S == Seq(E)
<1>1. names[n] \in S
  <2> HIDE DEF S
  <2>1. names \in Seq(S)
    BY DEF S
  <2> QED
    BY <2>1, ElementOfSeq
<1>2. Identifier(names[n], ids) \in S /\ Identifier(names[n], ids) \notin Elements(ids)
  BY <1>1, IdentifierIsNew
<1>3. Append(ids, Identifier(names[n], ids)) \in Seq(S)
  <2> HIDE DEF S
  <2>1. ids \in Seq(S)
    BY DEF S
  <2> QED
    BY <1>2, <2>1, AppendProperties
<1> QED
  BY <1>2, <1>3 DEF UniqueStep

LEMMA UniqueByOne ==
  ASSUME NEW E, Nat \subseteq E, NEW names \in Seq(Seq(E))
  PROVE  FoldsTo(Len(names), Seq(Seq(E)), <<>>, UniqueStep(E, names), Unique(names))
<1>0. Identifies(E, names)
  BY UniqueSteps
<1> DEFINE S == Seq(Seq(E))
           N == Len(names)
           step == UniqueStep(E, names)
           Body(f) == [t \in SUBSET (1 .. N) |->
                         IF t = {} THEN <<>>
                         ELSE Append(f[t \ {Max(t)}], Identifier(names[Max(t)], f[t \ {Max(t)}]))]
           iter == CHOOSE iter : iter = Body(iter)
<1>1. N \in Nat /\ DOMAIN names = 1 .. N /\ <<>> \in S
  <2> DEFINE R == Seq(E)
  <2> HIDE DEF R
  <2>1. names \in Seq(R)
    BY DEF R
  <2> QED
    BY <2>1, LenProperties, EmptySeq
<1>2. Unique(names) = iter[1 .. N]
  BY <1>1 DEF Unique, FoldLeft, MapThenFoldSet
<1>3. \A n \in 1 .. N, ids \in S :
        /\ step[<<n, ids>>] = Append(ids, Identifier(names[n], ids))
        /\ step[<<n, ids>>] \in S
  BY <1>0 DEF Identifies
<1> HIDE DEF N, step, S
<1>4. PICK f : Folding(f, N, S, <<>>, step)
  BY <1>1, <1>3, Folds
<1>5. f = Body(f)
  <2>1. ASSUME NEW t \in SUBSET (1 .. N)
        PROVE  f[t] = IF t = {} THEN <<>>
                      ELSE Append(f[t \ {Max(t)}], Identifier(names[Max(t)], f[t \ {Max(t)}]))
    <3>1. CASE t = {}
      BY <1>4, <3>1 DEF Folding
    <3>2. CASE t # {}
      <4>1. Max(t) \in 1 .. N
        BY <1>1, <3>2, SomeAreBounded
      <4>2. t \ {Max(t)} \in SUBSET (1 .. N)
        OBVIOUS
      <4>3. f[t] = step[<<Max(t), f[t \ {Max(t)}]>>] /\ f[t \ {Max(t)}] \in S
        BY <1>4, <3>2, <4>2 DEF Folding
      <4> QED
        BY <1>3, <3>2, <4>1, <4>3
    <3> QED
      BY <3>1, <3>2
  <2>2. f = [t \in SUBSET (1 .. N) |-> f[t]]
    BY <1>4 DEF Folding
  <2> QED
    BY <2>1, <2>2
<1>6. iter = Body(iter)
  <2> HIDE DEF Body
  <2> QED
    BY <1>5
<1> HIDE DEF iter
<1>7. Chosen(iter, N, S, <<>>, step)
  <2> DEFINE same == Body(iter)
  <2>1. \A t \in SUBSET (1 .. N) :
          same[t] = IF t = {} THEN <<>>
                    ELSE Append(iter[t \ {Max(t)}], Identifier(names[Max(t)], iter[t \ {Max(t)}]))
    OBVIOUS
  <2>2. iter = same
    BY <1>6
  <2> HIDE DEF same
  <2>3. {} \in SUBSET (1 .. N) /\ \A t \in SUBSET (1 .. N) : t # {} => Max(t) \in 1 .. N
    BY <1>1, SomeAreBounded
  <2> QED
    BY <1>3, <2>1, <2>2, <2>3 DEF Chosen
<1>8. FoldsTo(N, S, <<>>, step, iter[1 .. N])
  <2>1. Stepping(N, S, step)
    BY <1>3 DEF Stepping
  <2> QED
    BY <1>1, <1>7, <2>1, FoldIterates, Zenon
<1> QED
  BY <1>2, <1>8 DEF N, S, step

\* As many identifiers as names, and as many different ones.
LEMMA UniqueDiffer ==
  ASSUME NEW E, Nat \subseteq E, NEW names \in Seq(Seq(E))
  PROVE  LET ids == Unique(names) IN
         Len(ids) = Len(names) /\ Cardinality({ids[i] : i \in DOMAIN ids}) = Len(ids)
<1>0. Identifies(E, names)
  BY UniqueSteps
<1> DEFINE S == Seq(E)
           N == Len(names)
<1>1. N \in Nat
  <2> HIDE DEF S
  <2>1. names \in Seq(S)
    BY DEF S
  <2> QED
    BY <2>1, LenProperties
<1>2. PICK ids : Iterates(ids, N, Seq(S), <<>>, UniqueStep(E, names)) /\ ids[N] = Unique(names)
  BY UniqueByOne DEF FoldsTo
<1>3. \A n \in 0 .. N : ids[n] \in Seq(S)
  <2> HIDE DEF S, N
  <2> QED
    BY <1>2 DEF Iterates
<1> DEFINE P == {n \in 0 .. N : /\ Len(ids[n]) = n /\ IsFiniteSet(Elements(ids[n]))
                                /\ Cardinality(Elements(ids[n])) = n}
<1>4. 0 \in P
  <2>1. ids[0] = <<>> /\ Len(<<>>) = 0
    BY <1>2 DEF Iterates
  <2>2. Elements(<<>>) = {}
    BY <2>1 DEF Elements
  <2>3. IsFiniteSet({}) /\ Cardinality({}) = 0
    BY FS_EmptySet
  <2>4. /\ Len(ids[0]) = 0 /\ IsFiniteSet(Elements(ids[0]))
        /\ Cardinality(Elements(ids[0])) = 0
    BY <2>1, <2>2, <2>3
  <2> QED
    BY <1>1, <2>4
<1>5. ASSUME NEW n \in 1 .. N, n - 1 \in P PROVE n \in P
  <2> DEFINE before == ids[n - 1]
             new == Identifier(names[n], before)
  <2>1. before \in Seq(S) /\ n \in 0 .. N
    <3>1. n \in 0 .. N /\ n - 1 \in 0 .. N
      BY <1>1
    <3> QED
      BY <1>3, <3>1
  <2>2. ids[n] = Append(before, new) /\ new \in S /\ new \notin Elements(before)
    <3>1. ids[n] = UniqueStep(E, names)[<<n, before>>]
      BY <1>2 DEF Iterates
    <3> HIDE DEF before
    <3> QED
      BY <1>0, <2>1, <3>1 DEF Identifies
  <2>3. Len(before) = n - 1 /\ IsFiniteSet(Elements(before)) /\ Cardinality(Elements(before)) = n - 1
    BY <1>5
  <2> HIDE DEF before, new, S
  <2>4. /\ Len(Append(before, new)) = Len(before) + 1
        /\ \A i \in 1 .. Len(before) : Append(before, new)[i] = before[i]
        /\ Append(before, new)[Len(before) + 1] = new
    BY <2>1, <2>2, AppendProperties
  <2>5. Elements(ids[n]) = Elements(before) \cup {new}
    <3>1. \A i \in 1 .. n : i = n \/ i \in 1 .. n - 1
      OBVIOUS
    <3>2. n \in 1 .. n /\ \A i \in 1 .. n - 1 : i \in 1 .. n
      OBVIOUS
    <3>3. Len(ids[n]) = n /\ Len(before) = n - 1 /\ (n - 1) + 1 = n
      BY <2>2, <2>3, <2>4
    <3>4. ids[n][n] = new /\ \A i \in 1 .. n - 1 : ids[n][i] = before[i]
      BY <2>2, <2>4, <3>3
    <3> QED
      BY <3>1, <3>2, <3>3, <3>4 DEF Elements
  <2>6. IsFiniteSet(Elements(ids[n])) /\ Cardinality(Elements(ids[n])) = (n - 1) + 1
    BY <2>2, <2>3, <2>5, FS_AddElement
  <2>7. Len(ids[n]) = n /\ (n - 1) + 1 = n
    BY <2>2, <2>3, <2>4
  <2> QED
    BY <2>1, <2>6, <2>7
<1>6. 0 .. N \subseteq P
  <2> HIDE DEF P
  <2> QED
    BY <1>1, <1>4, <1>5, UptoInduction
<1>7. /\ Unique(names) \in Seq(S) /\ Len(Unique(names)) = N
      /\ Cardinality(Elements(Unique(names))) = N
  <2>1. N \in 0 .. N
    BY <1>1
  <2>2. N \in P
    BY <1>6, <2>1
  <2> QED
    BY <1>2, <1>3, <2>1, <2>2
<1> HIDE DEF S, N
<1>8. DOMAIN Unique(names) = 1 .. Len(Unique(names))
  BY <1>7, LenProperties
<1> QED
  BY <1>7, <1>8 DEF Elements, N

\* A record was begun at line j and not ended by line n.
OpenAt(t, n, j) ==
  j \in 1 .. n /\ t[j].is = "SF" /\ \A k \in j + 1 .. n : t[k].is # "end of record"

\* The first lines say something of a thing of a file: it is counted, or reached.
Tells(t, i, x, reached) == t[i].is = "count" /\ t[i].thing = x /\ (reached => t[i].count > 0)

SaysOf(t, n, f, x, reached) ==
  \E i \in 1 .. n : Tells(t, i, x, reached) /\ \E j \in 1 .. n : InRecord(t, i, j) /\ t[j].file = f

LEMMA SaysMore ==
  ASSUME NEW t, NEW n \in Nat, n # 0, NEW f, NEW x, NEW reached
  PROVE  SaysOf(t, n, f, x, reached) <=>
           \/ SaysOf(t, n - 1, f, x, reached)
           \/ Tells(t, n, x, reached) /\ \E j \in 1 .. n - 1 : OpenAt(t, n - 1, j) /\ t[j].file = f
<1>1. ASSUME NEW j \in 1 .. n - 1 PROVE InRecord(t, n, j) <=> OpenAt(t, n - 1, j)
  <2>1. j < n
    OBVIOUS
  <2> QED
    BY <2>1 DEF InRecord, OpenAt
<1>2. \A i \in 1 .. n, j \in 1 .. n : InRecord(t, i, j) => j \in 1 .. n - 1
  <2>1. \A i \in 1 .. n, j \in 1 .. n : InRecord(t, i, j) => j < i
    BY DEF InRecord
  <2> QED
    BY <2>1
<1>3. \A i \in 1 .. n : i \in 1 .. n - 1 \/ i = n
  OBVIOUS
<1>4. n \in 1 .. n /\ \A i \in 1 .. n - 1 : i \in 1 .. n
  OBVIOUS
<1>5. ASSUME SaysOf(t, n, f, x, reached)
      PROVE  \/ SaysOf(t, n - 1, f, x, reached)
             \/ Tells(t, n, x, reached) /\ \E j \in 1 .. n - 1 : OpenAt(t, n - 1, j) /\ t[j].file = f
  <2>1. PICK i \in 1 .. n : Tells(t, i, x, reached)
                            /\ \E j \in 1 .. n : InRecord(t, i, j) /\ t[j].file = f
    BY <1>5 DEF SaysOf
  <2>2. PICK j \in 1 .. n : InRecord(t, i, j) /\ t[j].file = f
    BY <2>1
  <2>3. j \in 1 .. n - 1
    BY <1>2, <2>2
  <2>4. CASE i = n
    BY <1>1, <2>1, <2>2, <2>3, <2>4
  <2>5. CASE i \in 1 .. n - 1
    BY <2>1, <2>2, <2>3, <2>5 DEF SaysOf
  <2> QED
    BY <1>3, <2>4, <2>5
<1>6. SaysOf(t, n - 1, f, x, reached) => SaysOf(t, n, f, x, reached)
  BY <1>4 DEF SaysOf
<1>7. ASSUME Tells(t, n, x, reached), NEW j \in 1 .. n - 1, OpenAt(t, n - 1, j), t[j].file = f
      PROVE  SaysOf(t, n, f, x, reached)
  <2>1. j \in 1 .. n /\ n \in 1 .. n /\ InRecord(t, n, j)
    BY <1>1, <1>4, <1>7
  <2> QED
    BY <1>7, <2>1 DEF SaysOf
<1> QED
  BY <1>5, <1>6, <1>7

\* A list of records holds what they count.
Hold(files, f, x, reached) ==
  \E k \in 1 .. Len(files) : files[k].declared = f /\ In(files[k].counts, x, reached)

\* What was read is what the lines said, and the record being read is the open one.
ReadSays(t, n, read) ==
  /\ read \in Reads
  /\ read.current # NoRecord => \E j \in 1 .. n : OpenAt(t, n, j)
  /\ \A j \in 1 .. n : OpenAt(t, n, j) => read.current # NoRecord /\ read.current.declared = t[j].file
  /\ \A f, x : \A reached \in BOOLEAN : SaysOf(t, n, f, x, reached) <=>
       \/ Hold(read.files, f, x, reached)
       \/ read.current.declared = f /\ In(read.current.counts, x, reached)

LEMMA SaysOneMore ==
  ASSUME NEW t \in Seq(Entries["lcov"]), NEW n \in 1 .. Len(t), NEW read, NEW next,
         next = ReadLine(read, t[n]), ~next.fault, ReadSays(t, n - 1, read)
  PROVE  ReadSays(t, n, next)
<1>1. t[n] \in Entries["lcov"] /\ n \in Nat /\ n # 0
  BY ElementOfSeq, LenProperties
<1>2. t[n].is \in {"SF", "end of record", "count", "no count"}
  BY <1>1, EntriesAssumption
<1>3. /\ read \in Reads
      /\ read.current # NoRecord => \E j \in 1 .. n - 1 : OpenAt(t, n - 1, j)
      /\ \A j \in 1 .. n - 1 : OpenAt(t, n - 1, j) =>
           read.current # NoRecord /\ read.current.declared = t[j].file
      /\ \A f, x : \A reached \in BOOLEAN : SaysOf(t, n - 1, f, x, reached) <=>
           \/ Hold(read.files, f, x, reached)
           \/ read.current.declared = f /\ In(read.current.counts, x, reached)
  BY DEF ReadSays
<1>4. /\ next \in Reads /\ ~read.fault
      /\ t[n].is = "SF" =>
           /\ read.current = NoRecord /\ next.files = read.files
           /\ next.current = [declared |-> t[n].file, counts |-> <<>>]
      /\ t[n].is = "end of record" =>
           /\ read.current # NoRecord /\ next.current = NoRecord
           /\ next.files = Append(read.files, read.current)
      /\ t[n].is = "no count" =>
           read.current = NoRecord /\ next.current = NoRecord /\ next.files = read.files
      /\ t[n].is = "count" =>
           /\ next.files = read.files
           /\ next.current = IF read.current = NoRecord THEN NoRecord
                             ELSE Counted(read.current, t[n])
  BY <1>1, <1>3, LineIs
<1>5. /\ read.files \in Seq(Records) /\ read.current \in Records
      /\ next.files \in Seq(Records) /\ next.current \in Records
  BY <1>3, <1>4 DEF Reads
<1>6. \A f, x : \A reached \in BOOLEAN : SaysOf(t, n, f, x, reached) <=>
        \/ SaysOf(t, n - 1, f, x, reached)
        \/ Tells(t, n, x, reached) /\ \E j \in 1 .. n - 1 : OpenAt(t, n - 1, j) /\ t[j].file = f
  BY <1>1, SaysMore
<1>7. ASSUME t[n].is # "count", NEW f, NEW x, NEW reached \in BOOLEAN
      PROVE  SaysOf(t, n, f, x, reached) <=> SaysOf(t, n - 1, f, x, reached)
  BY <1>6, <1>7 DEF Tells
<1>8. ASSUME NEW j \in 1 .. n - 1
      PROVE  OpenAt(t, n, j) <=> OpenAt(t, n - 1, j) /\ t[n].is # "end of record"
  <2>1. \A k \in j + 1 .. n : k \in j + 1 .. n - 1 \/ k = n
    BY <1>1
  <2>2. n \in j + 1 .. n /\ j \in 1 .. n /\ \A k \in j + 1 .. n - 1 : k \in j + 1 .. n
    BY <1>1
  <2> QED
    BY <2>1, <2>2 DEF OpenAt
<1>9. OpenAt(t, n, n) <=> t[n].is = "SF"
  <2>1. n \in 1 .. n /\ \A k \in n + 1 .. n : FALSE
    BY <1>1
  <2> QED
    BY <2>1 DEF OpenAt
<1>10. \A j \in 1 .. n : j \in 1 .. n - 1 \/ j = n
  BY <1>1
<1>11. n \in 1 .. n /\ \A j \in 1 .. n - 1 : j \in 1 .. n
  BY <1>1
<1>12. NoRecord.counts = <<>> /\ \A x, reached : ~In(<<>>, x, reached)
  BY EmptyTable DEF NoRecord
<1>13. CASE t[n].is = "SF"
  <2>1. /\ read.current = NoRecord /\ next.files = read.files
        /\ next.current = [declared |-> t[n].file, counts |-> <<>>]
    BY <1>4, <1>13
  <2>2. next.current.declared = t[n].file /\ next.current.counts = <<>>
    BY <2>1
  <2>3. next.current # NoRecord
    <3>1. t[n].file # "none"
      BY <1>1, <1>13, EntriesAssumption
    <3> QED
      BY <2>2, <3>1 DEF NoRecord
  <2>4. \A j \in 1 .. n - 1 : ~OpenAt(t, n - 1, j)
    BY <1>3, <2>1
  <2>5. \A j \in 1 .. n : OpenAt(t, n, j) => j = n
    BY <1>8, <1>10, <2>4
  <2>6. \A f, x : \A reached \in BOOLEAN : SaysOf(t, n, f, x, reached) <=>
          \/ Hold(next.files, f, x, reached)
          \/ next.current.declared = f /\ In(next.current.counts, x, reached)
    BY <1>3, <1>7, <1>12, <1>13, <2>1, <2>2
  <2>7. \E j \in 1 .. n : OpenAt(t, n, j)
    BY <1>9, <1>11, <1>13
  <2> QED
    BY <1>4, <2>2, <2>3, <2>5, <2>6, <2>7 DEF ReadSays
<1>14. CASE t[n].is = "end of record"
  <2>1. next.current = NoRecord /\ next.files = Append(read.files, read.current)
    BY <1>4, <1>14
  <2>2. \A j \in 1 .. n : ~OpenAt(t, n, j)
    BY <1>8, <1>9, <1>10, <1>14
  <2>3. ASSUME NEW f, NEW x, NEW reached \in BOOLEAN
        PROVE  Hold(next.files, f, x, reached) <=>
                 \/ Hold(read.files, f, x, reached)
                 \/ read.current.declared = f /\ In(read.current.counts, x, reached)
    <3> DEFINE N == Len(read.files)
               good(record) == record.declared = f /\ In(record.counts, x, reached)
    <3>1. /\ N \in Nat /\ Len(next.files) = N + 1 /\ next.files[N + 1] = read.current
          /\ \A k \in 1 .. N : next.files[k] = read.files[k]
      BY <1>5, <2>1, LenProperties, AppendProperties
    <3> HIDE DEF N
    <3>2. \A k \in 1 .. N + 1 : k \in 1 .. N \/ k = N + 1
      BY <3>1
    <3>3. N + 1 \in 1 .. N + 1 /\ \A k \in 1 .. N : k \in 1 .. N + 1
      BY <3>1
    <3> HIDE DEF good
    <3>4. (\E k \in 1 .. N + 1 : good(next.files[k])) <=>
            (\E k \in 1 .. N : good(read.files[k])) \/ good(read.current)
      BY <3>1, <3>2, <3>3
    <3> QED
      BY <3>1, <3>4 DEF Hold, good, N
  <2>4. \A f, x : \A reached \in BOOLEAN : SaysOf(t, n, f, x, reached) <=>
          \/ Hold(next.files, f, x, reached)
          \/ next.current.declared = f /\ In(next.current.counts, x, reached)
    BY <1>3, <1>7, <1>12, <1>14, <2>1, <2>3
  <2> QED
    BY <1>4, <2>1, <2>2, <2>4 DEF ReadSays
<1>15. CASE t[n].is = "no count" \/ (t[n].is = "count" /\ read.current = NoRecord)
  <2>1. next.current = NoRecord /\ next.files = read.files /\ read.current = NoRecord
    BY <1>4, <1>15
  <2>2. \A j \in 1 .. n - 1 : ~OpenAt(t, n - 1, j)
    BY <1>3, <2>1
  <2>3. \A j \in 1 .. n : ~OpenAt(t, n, j)
    BY <1>8, <1>9, <1>10, <1>15, <2>2
  <2>4. \A f, x : \A reached \in BOOLEAN : SaysOf(t, n, f, x, reached) <=>
          \/ Hold(next.files, f, x, reached)
          \/ next.current.declared = f /\ In(next.current.counts, x, reached)
    BY <1>3, <1>6, <2>1, <2>2
  <2> QED
    BY <1>4, <2>1, <2>3, <2>4 DEF ReadSays
<1>16. CASE t[n].is = "count" /\ read.current # NoRecord
  <2>1. next.files = read.files /\ next.current = Counted(read.current, t[n])
    BY <1>4, <1>16
  <2>2. /\ next.current.declared = read.current.declared
        /\ \A x : \A reached \in BOOLEAN : In(next.current.counts, x, reached) <=>
             \/ In(read.current.counts, x, reached)
             \/ x = t[n].thing /\ (reached => t[n].count > 0)
    <3>1. /\ next.current = Counted(read.current, t[n]) /\ read.current \in Records
          /\ t[n] \in Entries["lcov"] /\ t[n].is = "count"
      BY <1>1, <1>5, <1>16, <2>1
    <3> QED
      BY <3>1, CountedIs
  <2>3. PICK o \in 1 .. n - 1 : OpenAt(t, n - 1, o)
    BY <1>3, <1>16
  <2>4. \A j \in 1 .. n - 1 : OpenAt(t, n - 1, j) => t[j].file = read.current.declared
    BY <1>3
  <2>5. next.current # NoRecord
    <3>1. t[o].file # "none"
      <4>1. o \in 1 .. Len(t)
        BY <1>1, LenProperties
      <4>2. t[o].is = "SF"
        BY <2>3 DEF OpenAt
      <4> QED
        BY <4>1, <4>2, ElementOfSeq, EntriesAssumption
    <3> QED
      BY <2>2, <2>3, <2>4, <3>1 DEF NoRecord
  <2>6. ASSUME NEW f, NEW x, NEW reached \in BOOLEAN
        PROVE  SaysOf(t, n, f, x, reached) <=>
                 \/ Hold(next.files, f, x, reached)
                 \/ next.current.declared = f /\ In(next.current.counts, x, reached)
    <3>1. (\E j \in 1 .. n - 1 : OpenAt(t, n - 1, j) /\ t[j].file = f) <=> read.current.declared = f
      BY <2>3, <2>4
    <3>2. Tells(t, n, x, reached) <=> x = t[n].thing /\ (reached => t[n].count > 0)
      BY <1>16 DEF Tells
    <3>3. SaysOf(t, n - 1, f, x, reached) <=>
            \/ Hold(read.files, f, x, reached)
            \/ read.current.declared = f /\ In(read.current.counts, x, reached)
      BY <1>3
    <3>4. SaysOf(t, n, f, x, reached) <=>
            \/ SaysOf(t, n - 1, f, x, reached)
            \/ Tells(t, n, x, reached) /\ read.current.declared = f
      BY <1>6, <3>1
    <3> QED
      BY <2>1, <2>2, <3>2, <3>3, <3>4
  <2>7. \E j \in 1 .. n : OpenAt(t, n, j)
    BY <1>8, <1>11, <1>16, <2>3
  <2>8. ASSUME NEW j \in 1 .. n, OpenAt(t, n, j)
        PROVE  next.current.declared = t[j].file
    BY <1>8, <1>9, <1>10, <1>16, <2>2, <2>4, <2>8
  <2> QED
    BY <1>4, <2>5, <2>6, <2>7, <2>8 DEF ReadSays
<1> QED
  BY <1>2, <1>13, <1>14, <1>15, <1>16

\* The records of a tracefile that is not refused hold what it says, and nothing else.
LEMMA RecordsSay ==
  ASSUME NEW t \in Seq(Entries["lcov"]), ~Refused(t)
  PROVE  /\ Lines(t).files \in Seq(Records)
         /\ \A f, x : \A reached \in BOOLEAN :
              SaysOf(t, Len(t), f, x, reached) <=> Hold(Lines(t).files, f, x, reached)
<1> DEFINE N == Len(t)
<1>1. N \in Nat /\ DOMAIN t = 1 .. N
  BY LenProperties
<1>2. PICK read : Reading(t, read)
  BY LinesByOne
<1>3. ~read[N].fault /\ read[N].current = NoRecord /\ Lines(t) = read[N]
  BY <1>2 DEF Reading, Refused, Unfinished
<1> HIDE DEF N
<1> DEFINE P == {n \in 0 .. N : ~read[n].fault => ReadSays(t, n, read[n])}
<1>4. 0 \in P
  <2>1. read[0] = Unread /\ Unread \in Reads
    BY <1>1, <1>2 DEF Reading, N
  <2>2. Unread.files = <<>> /\ Unread.current = NoRecord /\ Len(<<>>) = 0
    BY DEF Unread
  <2>3. \A f, x, reached : ~Hold(<<>>, f, x, reached)
    BY <2>2 DEF Hold
  <2>4. \A x, reached : ~In(NoRecord.counts, x, reached)
    BY EmptyTable DEF NoRecord
  <2>5. \A f, x, reached : ~SaysOf(t, 0, f, x, reached)
    BY DEF SaysOf
  <2>6. ReadSays(t, 0, Unread)
    <3>1. \A j \in 1 .. 0 : FALSE
      OBVIOUS
    <3> QED
      BY <2>1, <2>2, <2>3, <2>4, <2>5, <3>1 DEF ReadSays
  <2> QED
    BY <1>1, <2>1, <2>6
<1>5. ASSUME NEW n \in 1 .. N, n - 1 \in P PROVE n \in P
  <2>1. read[n] = ReadLine(read[n - 1], t[n])
    BY <1>2 DEF Reading, N
  <2> SUFFICES ASSUME ~read[n].fault PROVE ReadSays(t, n, read[n])
    BY <1>1
  <2>2. ~read[n - 1].fault
    BY <2>1 DEF ReadLine
  <2>3. ReadSays(t, n - 1, read[n - 1])
    BY <1>5, <2>2
  <2>4. n \in 1 .. Len(t)
    BY DEF N
  <2> HIDE DEF P
  <2> QED
    BY <2>1, <2>3, <2>4, SaysOneMore
<1>6. 0 .. N \subseteq P
  <2> HIDE DEF P
  <2> QED
    BY <1>1, <1>4, <1>5, UptoInduction
<1>7. ReadSays(t, N, read[N])
  BY <1>1, <1>3, <1>6
<1>8. \A x, reached : ~In(NoRecord.counts, x, reached)
  BY EmptyTable DEF NoRecord
<1>9. read[N].files \in Seq(Records)
  BY <1>7 DEF ReadSays, Reads
<1> QED
  BY <1>3, <1>7, <1>8, <1>9 DEF ReadSays, N

\* What the records of one file count is summed one after the other.
SumStep(files, f) ==
  [x \in (1 .. Len(files)) \X Tables |->
     IF files[x[1]].declared = f THEN Sum2(x[2], files[x[1]].counts) ELSE x[2]]

SumsUp(files, f) ==
  \A n \in 1 .. Len(files), c \in Tables :
    /\ files[n] \in Records
    /\ SumStep(files, f)[<<n, c>>] =
         IF files[n].declared = f THEN Sum2(c, files[n].counts) ELSE c
    /\ SumStep(files, f)[<<n, c>>] \in Tables

LEMMA SumSteps ==
  ASSUME NEW files \in Seq(Records), NEW f
  PROVE  SumsUp(files, f)
<1>1. ASSUME NEW n \in 1 .. Len(files), NEW c \in Tables
      PROVE  /\ files[n] \in Records /\ Sum2(c, files[n].counts) \in Tables
             /\ SumStep(files, f)[<<n, c>>] =
                  IF files[n].declared = f THEN Sum2(c, files[n].counts) ELSE c
  <2>1. files[n] \in Records
    BY ElementOfSeq
  <2>2. files[n].counts \in Tables
    BY <2>1 DEF Records
  <2>3. Sum2(c, files[n].counts) \in Tables
    BY <2>2, TablesSum
  <2> QED
    BY <2>1, <2>3 DEF SumStep
<1> QED
  BY <1>1 DEF SumsUp

LEMMA SummedByOne ==
  ASSUME NEW files \in Seq(Records), NEW f
  PROVE  FoldsTo(Len(files), Tables, <<>>, SumStep(files, f), Summed(files, f))
<1>0. SumsUp(files, f)
  BY SumSteps
<1> DEFINE N == Len(files)
           step == SumStep(files, f)
           Body(g) == [t \in SUBSET (1 .. N) |->
                         IF t = {} THEN <<>>
                         ELSE IF files[Max(t)].declared = f
                         THEN Sum2(g[t \ {Max(t)}], files[Max(t)].counts)
                         ELSE g[t \ {Max(t)}]]
           iter == CHOOSE iter : iter = Body(iter)
<1>1. N \in Nat /\ DOMAIN files = 1 .. N /\ <<>> \in Tables
  BY LenProperties, EmptyTable
<1>2. Summed(files, f) = iter[1 .. N]
  BY <1>1 DEF Summed, FoldLeft, MapThenFoldSet
<1>3. \A n \in 1 .. N, c \in Tables :
        /\ step[<<n, c>>] = IF files[n].declared = f THEN Sum2(c, files[n].counts) ELSE c
        /\ step[<<n, c>>] \in Tables
  BY <1>0 DEF SumsUp
<1> HIDE DEF N, step
<1>4. PICK g : Folding(g, N, Tables, <<>>, step)
  BY <1>1, <1>3, Folds
<1>5. g = Body(g)
  <2>1. ASSUME NEW t \in SUBSET (1 .. N)
        PROVE  g[t] = IF t = {} THEN <<>>
                      ELSE IF files[Max(t)].declared = f
                      THEN Sum2(g[t \ {Max(t)}], files[Max(t)].counts)
                      ELSE g[t \ {Max(t)}]
    <3>1. CASE t = {}
      BY <1>4, <3>1 DEF Folding
    <3>2. CASE t # {}
      <4>1. Max(t) \in 1 .. N
        BY <1>1, <3>2, SomeAreBounded
      <4>2. t \ {Max(t)} \in SUBSET (1 .. N)
        OBVIOUS
      <4>3. g[t] = step[<<Max(t), g[t \ {Max(t)}]>>] /\ g[t \ {Max(t)}] \in Tables
        BY <1>4, <3>2, <4>2 DEF Folding
      <4> QED
        BY <1>3, <3>2, <4>1, <4>3
    <3> QED
      BY <3>1, <3>2
  <2>2. g = [t \in SUBSET (1 .. N) |-> g[t]]
    BY <1>4 DEF Folding
  <2> QED
    BY <2>1, <2>2
<1>6. iter = Body(iter)
  <2> HIDE DEF Body
  <2> QED
    BY <1>5
<1> HIDE DEF iter
<1>7. Chosen(iter, N, Tables, <<>>, step)
  <2> DEFINE same == Body(iter)
  <2>1. \A t \in SUBSET (1 .. N) :
          same[t] = IF t = {} THEN <<>>
                    ELSE IF files[Max(t)].declared = f
                    THEN Sum2(iter[t \ {Max(t)}], files[Max(t)].counts)
                    ELSE iter[t \ {Max(t)}]
    OBVIOUS
  <2>2. iter = same
    BY <1>6
  <2> HIDE DEF same
  <2>3. {} \in SUBSET (1 .. N) /\ \A t \in SUBSET (1 .. N) : t # {} => Max(t) \in 1 .. N
    BY <1>1, SomeAreBounded
  <2> QED
    BY <1>3, <2>1, <2>2, <2>3 DEF Chosen
<1>8. FoldsTo(N, Tables, <<>>, step, iter[1 .. N])
  <2>1. Stepping(N, Tables, step)
    BY <1>3 DEF Stepping
  <2> QED
    BY <1>1, <1>7, <2>1, FoldIterates, Zenon
<1> QED
  BY <1>2, <1>8 DEF N, step

\* A file's table holds what one of its records counts.
LEMMA SummedHolds ==
  ASSUME NEW files \in Seq(Records), NEW f
  PROVE  /\ Summed(files, f) \in Tables
         /\ \A x : \A reached \in BOOLEAN :
              In(Summed(files, f), x, reached) <=> Hold(files, f, x, reached)
<1> DEFINE N == Len(files)
           step == SumStep(files, f)
           Up(n, x, reached) ==
             \E k \in 1 .. n : files[k].declared = f /\ In(files[k].counts, x, reached)
<1>1. N \in Nat
  BY LenProperties
<1>2. FoldsTo(N, Tables, <<>>, step, Summed(files, f))
  BY SummedByOne
<1>3. PICK sum : Iterates(sum, N, Tables, <<>>, step) /\ sum[N] = Summed(files, f)
  BY <1>2 DEF FoldsTo
<1>4. sum \in [0 .. N -> Tables] /\ sum[0] = <<>>
  BY <1>3 DEF Iterates
<1>5. ASSUME NEW n \in 1 .. N
      PROVE  /\ n - 1 \in 0 .. N /\ files[n].counts \in Tables
             /\ sum[n] = IF files[n].declared = f THEN Sum2(sum[n - 1], files[n].counts)
                         ELSE sum[n - 1]
  <2>1. n - 1 \in 0 .. N
    BY <1>1
  <2>2. sum[n - 1] \in Tables /\ sum[n] = step[<<n, sum[n - 1]>>]
    BY <1>3, <1>4, <2>1 DEF Iterates
  <2>3. /\ files[n] \in Records
        /\ step[<<n, sum[n - 1]>>] =
             IF files[n].declared = f THEN Sum2(sum[n - 1], files[n].counts) ELSE sum[n - 1]
    BY <2>2, SumSteps DEF SumsUp
  <2> QED
    BY <2>1, <2>2, <2>3 DEF Records
<1> DEFINE P == {n \in 0 .. N : \A x : \A reached \in BOOLEAN :
                                  In(sum[n], x, reached) <=> Up(n, x, reached)}
<1>6. 0 \in P
  <2>1. \A x, reached : ~In(sum[0], x, reached)
    BY <1>4, EmptyTable
  <2>2. \A x, reached : ~Up(0, x, reached)
    OBVIOUS
  <2> HIDE DEF Up
  <2> QED
    BY <1>1, <2>1, <2>2
<1>7. ASSUME NEW n \in 1 .. N, n - 1 \in P PROVE n \in P
  <2>1. \A x : \A reached \in BOOLEAN :
          Up(n, x, reached) <=>
            Up(n - 1, x, reached) \/ (files[n].declared = f /\ In(files[n].counts, x, reached))
    <3>1. \A k \in 1 .. n : k \in 1 .. n - 1 \/ k = n
      OBVIOUS
    <3>2. n \in 1 .. n /\ \A k \in 1 .. n - 1 : k \in 1 .. n
      OBVIOUS
    <3> QED
      BY <3>1, <3>2
  <2>2. \A x : \A reached \in BOOLEAN : In(sum[n - 1], x, reached) <=> Up(n - 1, x, reached)
    BY <1>7
  <2> HIDE DEF Up
  <2>3. \A x : \A reached \in BOOLEAN :
          In(sum[n], x, reached) <=>
            In(sum[n - 1], x, reached) \/ (files[n].declared = f /\ In(files[n].counts, x, reached))
    <3>1. CASE files[n].declared = f
      <4>1. sum[n] = Sum2(sum[n - 1], files[n].counts) /\ sum[n - 1] \in Tables
            /\ files[n].counts \in Tables
        BY <1>4, <1>5, <3>1
      <4> QED
        BY <3>1, <4>1, TablesSum
    <3>2. CASE files[n].declared # f
      BY <1>5, <3>2
    <3> QED
      BY <3>1, <3>2
  <2>4. n \in 0 .. N
    BY <1>1
  <2> QED
    BY <2>1, <2>2, <2>3, <2>4
<1>8. 0 .. N \subseteq P
  <2> HIDE DEF P, N
  <2> QED
    BY <1>1, <1>6, <1>7, UptoInduction
<1>9. \A x : \A reached \in BOOLEAN : In(sum[N], x, reached) <=> Up(N, x, reached)
  <2>1. N \in 0 .. N
    BY <1>1
  <2> HIDE DEF N, Up
  <2>2. N \in P
    BY <1>8, <2>1
  <2> HIDE DEF P
  <2>3. P \subseteq {n \in 0 .. N : \A x : \A reached \in BOOLEAN :
                                  In(sum[n], x, reached) <=> Up(n, x, reached)}
    BY DEF P
  <2> QED
    BY <2>2, <2>3
<1>10. sum[N] \in Tables
  BY <1>1, <1>4
<1> HIDE DEF step
<1> QED
  BY <1>3, <1>9, <1>10 DEF Hold

LEMMA MergedHolds ==
  ASSUME NEW files \in Seq(Records)
  PROVE  /\ DOMAIN Merged(files) = {files[i].declared : i \in 1 .. Len(files)}
         /\ IsFiniteSet(DOMAIN Merged(files))
         /\ Merged(files) \in [DOMAIN Merged(files) -> Tables]
         /\ \A f \in DOMAIN Merged(files) : \A x : \A reached \in BOOLEAN :
              In(Merged(files)[f], x, reached) <=> Hold(files, f, x, reached)
<1> DEFINE names == {files[i].declared : i \in 1 .. Len(files)}
<1>1. DOMAIN files = 1 .. Len(files) /\ Len(files) \in Nat
  BY LenProperties
<1>2. Merged(files) = [f \in names |-> Summed(files, f)]
  BY <1>1 DEF Merged
<1>3. IsFiniteSet(names)
  <2>1. IsFiniteSet(1 .. Len(files))
    <3>1. 1 \in Int /\ Len(files) \in Int
      BY <1>1
    <3> QED
      BY <3>1, FS_Interval
  <2> QED
    <3> DEFINE F == [i \in 1 .. Len(files) |-> files[i].declared]
    <3>1. F \in Surjection(1 .. Len(files), names)
      BY DEF Surjection
    <3> HIDE DEF F, names
    <3> QED
      BY <2>1, <3>1, FS_Surjection
<1> HIDE DEF names
<1>4. \A f \in names : Merged(files)[f] = Summed(files, f)
  BY <1>2
<1>5. DOMAIN Merged(files) = names
  BY <1>2
<1> QED
  BY <1>2, <1>3, <1>4, <1>5, SummedHolds DEF names

\* Something the tool said of a thing of a file.
Told(f, x, reached) == \E s \in Said : s.file = f /\ s.thing = x /\ (reached => s.count > 0)

LEMMA SaidInAReport ==
  ASSUME NEW E, reports \in Seq(Seq(E)), NEW f, NEW x, NEW reached \in BOOLEAN
  PROVE  Told(f, x, reached) <=>
           \E r \in 1 .. Len(reports) : SaysOf(reports[r], Len(reports[r]), f, x, reached)
<1> DEFINE S == Seq(E)
<1>1. /\ Len(reports) \in Nat /\ DOMAIN reports = 1 .. Len(reports)
      /\ \A r \in 1 .. Len(reports) : reports[r] \in S
  <2> HIDE DEF S
  <2>1. reports \in Seq(S)
    BY DEF S
  <2> QED
    BY <2>1, LenProperties, ElementOfSeq
<1>2. \A r \in 1 .. Len(reports) :
        Len(reports[r]) \in Nat /\ DOMAIN reports[r] = 1 .. Len(reports[r])
  BY <1>1, LenProperties
<1> HIDE DEF S
<1>3. ASSUME NEW r \in 1 .. Len(reports)
      PROVE  Written \in Nat /\ Len(reports[r]) <= Written
  <2> DEFINE D == 1 .. Len(reports)
             lengths == [i \in D |-> Len(reports[i])]
  <2>1. IsFiniteSet(D)
    <3>1. 1 \in Int /\ Len(reports) \in Int
      BY <1>1
    <3> QED
      BY <3>1, FS_Interval
  <2>2. lengths \in [D -> Nat]
    BY <1>2
  <2>3. Written = SumFunction(lengths)
    BY <1>1 DEF Written
  <2>4. lengths[r] = Len(reports[r])
    OBVIOUS
  <2> HIDE DEF D, lengths
  <2>5. r \in D
    BY DEF D
  <2> QED
    BY <2>1, <2>2, <2>3, <2>4, <2>5, SumOfNaturals
<1>4. \A r \in 1 .. Len(reports) : \A i \in 1 .. Len(reports[r]) : i \in 1 .. Written
  BY <1>2, <1>3
<1> DEFINE Place(r, i, j) ==
             /\ r \in DOMAIN reports /\ i \in 1 .. Written /\ j \in 1 .. Written
             /\ i \in DOMAIN reports[r] /\ reports[r][i].is = "count" /\ InRecord(reports[r], i, j)
<1>5. \A r, i, j : Place(r, i, j) =>
        [file |-> reports[r][j].file, thing |-> reports[r][i].thing,
         count |-> reports[r][i].count] \in Said
  <2> SUFFICES ASSUME NEW r, NEW i, NEW j, Place(r, i, j)
               PROVE  [file |-> reports[r][j].file, thing |-> reports[r][i].thing,
                       count |-> reports[r][i].count] \in Said
    OBVIOUS
  <2> DEFINE p == <<r, i, j>>
  <2>1. p \in {y \in (DOMAIN reports) \X (1 .. Written) \X (1 .. Written) :
                 /\ y[2] \in DOMAIN reports[y[1]] /\ reports[y[1]][y[2]].is = "count"
                 /\ InRecord(reports[y[1]], y[2], y[3])}
    OBVIOUS
  <2>2. p[1] = r /\ p[2] = i /\ p[3] = j
    OBVIOUS
  <2> HIDE DEF p
  <2> QED
    BY <2>1, <2>2 DEF Said
<1>6. \A s \in Said : \E r, i, j : Place(r, i, j) /\ s =
        [file |-> reports[r][j].file, thing |-> reports[r][i].thing,
         count |-> reports[r][i].count]
  BY DEF Said
<1>7. ASSUME NEW r \in 1 .. Len(reports), SaysOf(reports[r], Len(reports[r]), f, x, reached)
      PROVE  Told(f, x, reached)
  <2>1. PICK i \in 1 .. Len(reports[r]) :
          /\ Tells(reports[r], i, x, reached)
          /\ \E j \in 1 .. Len(reports[r]) : InRecord(reports[r], i, j) /\ reports[r][j].file = f
    BY <1>7 DEF SaysOf
  <2>2. PICK j \in 1 .. Len(reports[r]) : InRecord(reports[r], i, j) /\ reports[r][j].file = f
    BY <2>1
  <2>3. Place(r, i, j)
    BY <1>1, <1>2, <1>4, <2>1, <2>2 DEF Tells
  <2> DEFINE s == [file |-> reports[r][j].file, thing |-> reports[r][i].thing,
                   count |-> reports[r][i].count]
  <2>4. s \in Said
    BY <1>5, <2>3
  <2>5. s.file = f /\ s.thing = x /\ (reached => s.count > 0)
    BY <2>1, <2>2 DEF Tells
  <2> HIDE DEF s
  <2> QED
    BY <2>4, <2>5 DEF Told
<1>8. ASSUME Told(f, x, reached)
      PROVE  \E r \in 1 .. Len(reports) : SaysOf(reports[r], Len(reports[r]), f, x, reached)
  <2>1. PICK s \in Said : s.file = f /\ s.thing = x /\ (reached => s.count > 0)
    BY <1>8 DEF Told
  <2>2. PICK r, i, j : Place(r, i, j) /\ s =
          [file |-> reports[r][j].file, thing |-> reports[r][i].thing,
           count |-> reports[r][i].count]
    BY <1>6
  <2>3. s.file = reports[r][j].file /\ s.thing = reports[r][i].thing
        /\ s.count = reports[r][i].count
    BY <2>2
  <2>4. r \in 1 .. Len(reports) /\ i \in 1 .. Len(reports[r]) /\ j \in 1 .. Written
        /\ InRecord(reports[r], i, j) /\ reports[r][i].is = "count"
    BY <1>1, <1>2, <2>2
  <2>5. j \in 1 .. Len(reports[r])
    <3>1. j < i
      BY <2>4 DEF InRecord
    <3>2. Len(reports[r]) \in Nat /\ Written \in Nat
      BY <1>2, <1>3, <2>4
    <3> QED
      BY <2>4, <3>1, <3>2
  <2>6. Tells(reports[r], i, x, reached) /\ reports[r][j].file = f
    BY <2>1, <2>3, <2>4 DEF Tells
  <2> QED
    BY <2>4, <2>5, <2>6 DEF SaysOf
<1> QED
  BY <1>7, <1>8

\* The files of a measurement hold what its tool said, and nothing else.
LEMMA FilesTell ==
  ASSUME reports \in Seq(Seq(Entries["lcov"])),
         \A r \in 1 .. Len(reports) : ~Refused(reports[r])
  PROVE  /\ DOMAIN Files \subseteq FileNames /\ IsFiniteSet(DOMAIN Files)
         /\ Files \in [DOMAIN Files -> Tables]
         /\ \A f, x : \A reached \in BOOLEAN :
              f \in DOMAIN Files /\ In(Files[f], x, reached) <=> Told(f, x, reached)
<1> DEFINE S == Seq(Entries["lcov"])
           lists == [i \in DOMAIN reports |-> Lines(reports[i]).files]
           N == Len(reports)
           all == FlattenSeq(lists)
<1>1. /\ N \in Nat /\ DOMAIN reports = 1 .. N
      /\ \A r \in 1 .. N : reports[r] \in S
  <2> HIDE DEF S
  <2>1. reports \in Seq(S)
    BY DEF S
  <2> QED
    BY <2>1, LenProperties, ElementOfSeq
<1>2. \A r \in 1 .. N :
        /\ Lines(reports[r]).files \in Seq(Records)
        /\ \A f, x : \A reached \in BOOLEAN :
             SaysOf(reports[r], Len(reports[r]), f, x, reached) <=>
               Hold(Lines(reports[r]).files, f, x, reached)
  BY <1>1, RecordsSay
<1>3. /\ lists \in Seq(Seq(Records)) /\ Len(lists) = N
      /\ \A r \in 1 .. N : lists[r] = Lines(reports[r]).files
  <2> DEFINE R == Seq(Records)
  <2>1. lists \in [1 .. N -> R] /\ \A r \in 1 .. N : lists[r] = Lines(reports[r]).files
    BY <1>1, <1>2
  <2> HIDE DEF R, lists, N
  <2>2. lists \in Seq(R)
    BY <1>1, <2>1, SeqDef
  <2>3. Len(lists) = N
    BY <1>1, <2>1, <2>2, LenProperties
  <2> QED
    BY <2>1, <2>2, <2>3 DEF R
<1> HIDE DEF lists, N
<1>4. all \in Seq(Records) /\ Elements(all) = UNION {Elements(lists[n]) : n \in 1 .. N}
  BY <1>3, FlattenedIs
<1>5. Files = Merged(all)
  BY DEF Files, lists
<1> HIDE DEF all
<1>6. /\ DOMAIN Files = {all[i].declared : i \in 1 .. Len(all)}
      /\ IsFiniteSet(DOMAIN Files) /\ Files \in [DOMAIN Files -> Tables]
      /\ \A f \in DOMAIN Files : \A x : \A reached \in BOOLEAN :
           In(Files[f], x, reached) <=> Hold(all, f, x, reached)
  BY <1>4, <1>5, MergedHolds
<1>7. \A f, x, reached : Hold(all, f, x, reached) => f \in DOMAIN Files
  BY <1>6 DEF Hold
<1>8. \A i \in 1 .. Len(all) : all[i].declared \in FileNames
  <2>1. \A i \in 1 .. Len(all) : all[i] \in Records
    BY <1>4, ElementOfSeq
  <2> QED
    BY <2>1 DEF Records
<1>9. ASSUME NEW f, NEW x, NEW reached
      PROVE  Hold(all, f, x, reached) <=> \E r \in 1 .. N : Hold(lists[r], f, x, reached)
  <2> DEFINE Good(e) == e.declared = f /\ In(e.counts, x, reached)
  <2>1. \A s : Hold(s, f, x, reached) <=> \E e \in Elements(s) : Good(e)
    BY DEF Hold, Elements
  <2> HIDE DEF Good
  <2> QED
    BY <1>4, <2>1
<1>10. ASSUME NEW f, NEW x, NEW reached \in BOOLEAN
       PROVE  Told(f, x, reached) <=> \E r \in 1 .. N : Hold(lists[r], f, x, reached)
  <2>1. Told(f, x, reached) <=>
           \E r \in 1 .. N : SaysOf(reports[r], Len(reports[r]), f, x, reached)
    BY SaidInAReport DEF N
  <2>2. \A r \in 1 .. N : SaysOf(reports[r], Len(reports[r]), f, x, reached)
                            <=> Hold(lists[r], f, x, reached)
    BY <1>2, <1>3
  <2> QED
    BY <2>1, <2>2
<1> QED
  BY <1>6, <1>7, <1>8, <1>9, <1>10

\* The pairs of a file and a thing the tool spoke of.
PairsTold(family, reached) ==
  {<<s.file, s.thing>> : s \in {x \in {y \in Said : reached => y.count > 0} : x.thing[1] = family}}

LEMMA PairsToldOf ==
  ASSUME NEW D, NEW of, NEW family, NEW reached \in BOOLEAN,
         \A f \in D : \A t : t \in of[f] <=> t[1] = family /\ Told(f, t, reached),
         \A f, t : Told(f, t, reached) => f \in D
  PROVE  Pairs(of, D) = PairsTold(family, reached)
<1>1. ASSUME NEW p \in Pairs(of, D) PROVE p \in PairsTold(family, reached)
  <2>1. PICK f \in D : p \in {f} \X of[f]
    BY DEF Pairs
  <2>2. PICK t \in of[f] : p = <<f, t>>
    BY <2>1
  <2>3. PICK s \in Said : s.file = f /\ s.thing = t /\ (reached => s.count > 0)
    BY <2>2 DEF Told
  <2>4. s.thing[1] = family /\ p = <<s.file, s.thing>>
    BY <2>2, <2>3
  <2> QED
    BY <2>3, <2>4 DEF PairsTold
<1>2. ASSUME NEW s \in Said, reached => s.count > 0, s.thing[1] = family
      PROVE  <<s.file, s.thing>> \in Pairs(of, D)
  <2>1. Told(s.file, s.thing, reached)
    BY <1>2 DEF Told
  <2>2. s.file \in D /\ s.thing \in of[s.file]
    BY <1>2, <2>1
  <2>3. <<s.file, s.thing>> \in {s.file} \X of[s.file]
    BY <2>2
  <2> QED
    BY <2>2, <2>3 DEF Pairs
<1> QED
  BY <1>1, <1>2 DEF PairsTold

\* A family's things that are counted, or reached, are those the tool spoke of.
LEMMA CountedAsSaid ==
  ASSUME reports \in Seq(Seq(Entries["lcov"])),
         \A r \in 1 .. Len(reports) : ~Refused(reports[r]), NEW family
  PROVE  /\ Found(Files, family) = Distinct(Said, family)
         /\ Covered(Files, family) = Distinct({s \in Said : s.count > 0}, family)
<1> DEFINE D == DOMAIN Files
           found == [f \in D |-> {t \in DOMAIN Files[f] : t[1] = family}]
           covered == [f \in D |-> {t \in DOMAIN Files[f] : t[1] = family /\ Files[f][t] > 0}]
<1>1. /\ IsFiniteSet(D) /\ Files \in [D -> Tables]
      /\ \A f, x : \A reached \in BOOLEAN :
           f \in D /\ In(Files[f], x, reached) <=> Told(f, x, reached)
  BY FilesTell
<1>2. \A f \in D : IsFiniteSet(DOMAIN Files[f])
  BY <1>1, TableIs
<1>3. \A f \in D : IsFiniteSet(found[f]) /\ IsFiniteSet(covered[f])
  <2>1. \A f \in D : found[f] \in SUBSET DOMAIN Files[f] /\ covered[f] \in SUBSET DOMAIN Files[f]
    OBVIOUS
  <2> HIDE DEF found, covered, D
  <2> QED
    BY <1>2, <2>1, FS_Subset
<1>4. Found(Files, family) = SumFunction([f \in D |-> Cardinality(found[f])])
  <2>1. [f \in D |-> Cardinality(found[f])] =
          [f \in D |-> Cardinality({t \in DOMAIN Files[f] : t[1] = family})]
    OBVIOUS
  <2> QED
    BY <2>1 DEF Found
<1>5. Covered(Files, family) = SumFunction([f \in D |-> Cardinality(covered[f])])
  <2>1. [f \in D |-> Cardinality(covered[f])] =
          [f \in D |-> Cardinality({t \in DOMAIN Files[f] : t[1] = family /\ Files[f][t] > 0})]
    OBVIOUS
  <2> QED
    BY <2>1 DEF Covered
<1>6. \A f \in D : \A t : /\ t \in found[f] <=> t[1] = family /\ Told(f, t, FALSE)
                          /\ t \in covered[f] <=> t[1] = family /\ Told(f, t, TRUE)
  <2>1. \A f \in D : \A t : /\ t \in found[f] <=> t[1] = family /\ In(Files[f], t, FALSE)
                            /\ t \in covered[f] <=> t[1] = family /\ In(Files[f], t, TRUE)
    BY DEF In
  <2> HIDE DEF found, covered, D
  <2> QED
    BY <1>1, <2>1
<1>7. \A f, t : \A reached \in BOOLEAN : Told(f, t, reached) => f \in D
  BY <1>1
<1> HIDE DEF found, covered, D
<1>8. Pairs(found, D) = {<<s.file, s.thing>> : s \in {x \in Said : x.thing[1] = family}}
  <2>1. {y \in Said : FALSE => y.count > 0} = Said
    OBVIOUS
  <2>2. /\ \A f \in D : \A t : t \in found[f] <=> t[1] = family /\ Told(f, t, FALSE)
        /\ \A f, t : Told(f, t, FALSE) => f \in D
    BY <1>6, <1>7
  <2>3. Pairs(found, D) = PairsTold(family, FALSE)
    BY <2>2, PairsToldOf
  <2> QED
    BY <2>1, <2>3 DEF PairsTold
<1>9. Pairs(covered, D) =
        {<<s.file, s.thing>> : s \in {x \in {y \in Said : y.count > 0} : x.thing[1] = family}}
  <2>1. {y \in Said : TRUE => y.count > 0} = {y \in Said : y.count > 0}
    OBVIOUS
  <2>2. /\ \A f \in D : \A t : t \in covered[f] <=> t[1] = family /\ Told(f, t, TRUE)
        /\ \A f, t : Told(f, t, TRUE) => f \in D
    BY <1>6, <1>7
  <2>3. Pairs(covered, D) = PairsTold(family, TRUE)
    BY <2>2, PairsToldOf
  <2> QED
    BY <2>1, <2>3 DEF PairsTold
<1>10. Cardinality(Pairs(found, D)) = Distinct(Said, family)
  BY <1>8 DEF Distinct
<1>11. Cardinality(Pairs(covered, D)) = Distinct({s \in Said : s.count > 0}, family)
  BY <1>9 DEF Distinct
<1> QED
  BY <1>1, <1>3, <1>4, <1>5, <1>10, <1>11, PairsCount

LEMMA SpelledIs ==
  ASSUME NEW name, Spelled(name), NEW E, \A i \in 1 .. Len(name) : name[i] \in E
  PROVE  name \in Seq(E)
<1>1. Len(name) \in Nat /\ name \in [1 .. Len(name) -> E]
  BY DEF Spelled
<1> QED
  BY <1>1, SeqDef

\* What the findings are named of.
Letters ==
  Nat \cup {PathOf[f] : f \in FileNames} \cup
  UNION {{e.name[i] : i \in 1 .. Len(e.name)} :
           e \in {x \in Entries["sarif"] : x.is = "result"}
                 \cup {x \in Entries["junit-xml"] : x.is = "case"}}

LEMMA NamesAreSpelled ==
  /\ \A e \in Firing \cup TestCases : e.name \in Seq(Letters)
  /\ \A f \in FileNames : <<PathOf[f]>> \in Seq(Letters)
  /\ Nat \subseteq Letters
<1>1. ASSUME NEW e \in Firing \cup TestCases PROVE e.name \in Seq(Letters)
  <2>1. e \in {x \in Entries["sarif"] : x.is = "result"}
              \cup {x \in Entries["junit-xml"] : x.is = "case"}
    <3>1. Firing \subseteq {x \in Entries["sarif"] : x.is = "result"}
      BY DEF Firing
    <3>2. TestCases \subseteq {x \in Entries["junit-xml"] : x.is = "case"}
      BY DEF TestCases
    <3> QED
      BY <3>1, <3>2
  <2>2. Spelled(e.name)
    BY <2>1, EntriesAssumption
  <2>3. \A i \in 1 .. Len(e.name) : e.name[i] \in Letters
    BY <2>1 DEF Letters
  <2> QED
    BY <2>2, <2>3, SpelledIs
<1>2. ASSUME NEW f \in FileNames PROVE <<PathOf[f]>> \in Seq(Letters)
  <2>1. PathOf[f] \in Letters
    BY DEF Letters
  <2> HIDE DEF Letters
  <2> QED
    BY <2>1
<1> QED
  BY <1>1, <1>2 DEF Letters

\* Findings named of entries, or of files, are told apart.
DifferIn(findings, n) ==
  Len(findings) = n /\ Cardinality({findings[i] : i \in DOMAIN findings}) = Len(findings)

LEMMA NamedDiffer ==
  ASSUME NEW s \in Seq(Firing \cup TestCases)
  PROVE  DifferIn(Unique([i \in DOMAIN s |-> s[i].name]), Len(s))
<1> DEFINE names == [i \in DOMAIN s |-> s[i].name]
           S == Seq(Letters)
<1>1. /\ Len(s) \in Nat /\ DOMAIN s = 1 .. Len(s)
      /\ \A i \in 1 .. Len(s) : s[i] \in Firing \cup TestCases
  BY LenProperties, ElementOfSeq
<1>2. names \in [1 .. Len(s) -> S]
  BY <1>1, NamesAreSpelled
<1> HIDE DEF names, S
<1>3. names \in Seq(S) /\ Len(names) = Len(s)
  <2>1. names \in Seq(S)
    BY <1>1, <1>2, SeqDef
  <2> QED
    BY <1>1, <1>2, <2>1, LenProperties
<1>4. Nat \subseteq Letters /\ names \in Seq(Seq(Letters))
  BY <1>3, NamesAreSpelled DEF S
<1> QED
  BY <1>3, <1>4, UniqueDiffer DEF DifferIn, names

\* What uncovered files are named by.
PathsOf(files) == [i \in DOMAIN files |-> <<PathOf[files[i]]>>]

LEMMA FilesDiffer ==
  ASSUME NEW F, F \subseteq FileNames, IsFiniteSet(F)
  PROVE  \E n : DifferIn(Unique(PathsOf(SetToSeq(F))), n)
<1> DEFINE S == Seq(Letters)
           n == Cardinality(F)
           files == SetToSeq(F)
           names == PathsOf(files)
<1>1. n \in Nat /\ ExistsBijection(1 .. n, F)
  BY FS_CardinalityType
<1>2. PICK g \in [1 .. n -> F] : IsInjective(g)
  BY <1>1 DEF ExistsBijection, Bijection, Injection
<1>3. files \in [1 .. n -> F]
  BY <1>2 DEF SetToSeq
<1> HIDE DEF files, n, S
<1>4. names \in [1 .. n -> S]
  <2>1. names = [i \in 1 .. n |-> <<PathOf[files[i]]>>]
    BY <1>3 DEF PathsOf
  <2>2. \A i \in 1 .. n : <<PathOf[files[i]]>> \in S
    BY <1>3, NamesAreSpelled DEF S
  <2> QED
    BY <2>1, <2>2
<1> HIDE DEF names
<1>5. names \in Seq(S)
  BY <1>1, <1>4, SeqDef
<1>6. Nat \subseteq Letters /\ names \in Seq(Seq(Letters))
  BY <1>5, NamesAreSpelled DEF S
<1>7. DifferIn(Unique(names), Len(names))
  BY <1>6, UniqueDiffer DEF DifferIn
<1> QED
  BY <1>7 DEF names, files

LEMMA TracefilesCounted ==
  ASSUME ReportsTypeOK, Projected, format = "lcov"
  PROVE  CountsEachThingOnce
<1>1. reports \in Seq(Seq(Entries["lcov"])) /\ \A r \in 1 .. Len(reports) : ~Refused(reports[r])
  <2> DEFINE S == Seq(Entries["lcov"])
  <2>1. reports \in Seq(S)
    BY DEF ReportsTypeOK
  <2> HIDE DEF S
  <2>2. DOMAIN reports = 1 .. Len(reports)
    BY <2>1, LenProperties
  <2>3. \A r \in DOMAIN reports : ~Refused(reports[r])
    BY DEF Projected, Unreadable
  <2> QED
    BY <2>1, <2>2, <2>3 DEF S
<1>2. IsFiniteSet(DOMAIN Files) /\ DOMAIN Files \subseteq FileNames
  BY <1>1, FilesTell
<1>3. Uncovered(Files) \subseteq FileNames /\ IsFiniteSet(Uncovered(Files))
  <2>1. Uncovered(Files) \in SUBSET DOMAIN Files
    BY DEF Uncovered
  <2> QED
    BY <1>2, <2>1, FS_Subset
<1>4. \E n : DifferIn(Findings, n)
  <2>1. Findings = Unique(PathsOf(SetToSeq(Uncovered(Files))))
    BY DEF Findings, PathsOf
  <2> QED
    BY <1>3, <2>1, FilesDiffer
<1>5. \A family \in Families :
        /\ Found(Files, family) = Distinct(Said, family)
        /\ Covered(Files, family) = Distinct({s \in Said : s.count > 0}, family)
  BY <1>1, CountedAsSaid
<1>6. Metrics = [found   |-> [family \in Families |-> Found(Files, family)],
                 covered |-> [family \in Families |-> Covered(Files, family)]]
  BY DEF Metrics
<1>7. \A family \in Families :
        /\ Metrics.found[family] = Distinct(Said, family)
        /\ Metrics.covered[family] = Distinct({s \in Said : s.count > 0}, family)
  BY <1>5, <1>6
<1> QED
  BY <1>4, <1>7 DEF CountsEachThingOnce, DifferIn

LEMMA LogsCounted ==
  ASSUME ReportsTypeOK, format = "sarif"
  PROVE  CountsEachThingOnce
<1> DEFINE E == Entries["sarif"]
           all == FlattenSeq(reports)
           s == Results(reports)
           class == [e \in Firing |-> Level(e)]
           levels == [l \in Levels |-> Number(s, {r \in Firing : Level(r) = l})]
<1>1. all \in Seq(E)
  BY FlattenedIs DEF ReportsTypeOK
<1>2. s = Kept(all, Firing \ Suppressed)
  BY DEF Results
<1>3. s \in Seq(Firing) /\ s \in Seq(Firing \cup TestCases)
  <2>1. s \in Seq(E \cap (Firing \ Suppressed))
    BY <1>1, <1>2, KeptOfKind
  <2>2. E \cap (Firing \ Suppressed) \subseteq Firing /\ Firing \subseteq Firing \cup TestCases
    OBVIOUS
  <2> HIDE DEF E, s
  <2> QED
    BY <2>1, <2>2, SeqWidens
<1>4. DifferIn(Findings, Len(s))
  <2>1. Findings = Unique([i \in DOMAIN s |-> s[i].name])
    BY DEF Findings
  <2> QED
    BY <1>3, <2>1, NamedDiffer
<1>5. Metrics = [results |-> Len(s), levels |-> levels, suppressed |-> Number(all, Suppressed)]
  BY DEF Metrics
<1> HIDE DEF all, s
<1>6. SumFunction(levels) = Len(s)
  <2>1. \A e \in Firing : Level(e) \in Levels
    BY DEF Level, Levels
  <2>2. class \in [Firing -> Levels] /\ \A e \in Firing : class[e] = Level(e)
    BY <2>1
  <2>3. levels \in [Levels -> Nat]
    <3>1. \A l \in Levels : Number(s, {r \in Firing : Level(r) = l}) \in Nat
      BY <1>3, KeptOfKind, LenProperties DEF Number
    <3> QED
      BY <3>1
  <2>4. ASSUME NEW l \in Levels PROVE levels[l] = Number(s, {e \in Firing : class[e] = l})
    <3>1. {e \in Firing : class[e] = l} = {r \in Firing : Level(r) = l}
      BY <2>2
    <3> QED
      BY <3>1
  <2> HIDE DEF class, levels
  <2>5. Classed(s, Firing, Levels, class, levels)
    BY <2>2, <2>3, <2>4 DEF Classed
  <2>6. IsFiniteSet(Levels)
    BY FourAreFinite DEF Levels
  <2> QED
    BY <1>3, <2>5, <2>6, NumbersByClass
<1> HIDE DEF levels
<1>7. Len(s) + Number(all, Suppressed) = Number(all, Firing)
  <2>1. (Firing \ Suppressed) \cap Suppressed = {}
        /\ (Firing \ Suppressed) \cup Suppressed = Firing
    BY DEF Suppressed
  <2>2. Number(all, (Firing \ Suppressed) \cup Suppressed)
          = Number(all, Firing \ Suppressed) + Number(all, Suppressed)
    BY <1>1, <2>1, NumbersAdd
  <2>3. Len(s) = Number(all, Firing \ Suppressed)
    BY <1>2 DEF Number
  <2> QED
    BY <2>1, <2>2, <2>3
<1>8. /\ Metrics.results = SumFunction(Metrics.levels)
      /\ Metrics.results + Metrics.suppressed = Number(all, Firing)
  BY <1>5, <1>6, <1>7
<1> QED
  BY <1>4, <1>8 DEF CountsEachThingOnce, DifferIn, all

LEMMA CasesCounted ==
  ASSUME ReportsTypeOK, format = "junit-xml"
  PROVE  CountsEachThingOnce
<1> DEFINE E == Entries["junit-xml"]
           s == Cases(reports)
           of(o) == {c \in TestCases : Outcome(c) = o}
           bad == {c \in TestCases : Outcome(c) \in {"failed", "error"}}
           failed == Kept(s, bad)
           class == [e \in TestCases |-> Outcome(e)]
           outcomes == [o \in CaseOutcomes |-> Number(s, of(o))]
<1>1. s \in Seq(TestCases)
  <2>1. FlattenSeq(reports) \in Seq(E)
    BY FlattenedIs DEF ReportsTypeOK
  <2>2. s \in Seq(E \cap TestCases)
    BY <2>1, KeptOfKind DEF Cases
  <2>3. E \cap TestCases \subseteq TestCases
    OBVIOUS
  <2> HIDE DEF E, s
  <2> QED
    BY <2>2, <2>3, SeqWidens
<1>2. Metrics = [tests |-> Len(s), outcomes |-> outcomes]
  BY DEF Metrics
<1>3. Findings = Unique([i \in DOMAIN failed |-> failed[i].name])
  BY DEF Findings
<1> HIDE DEF s
<1>4. DifferIn(Findings, Len(failed))
  <2>1. failed \in Seq(TestCases \cap bad)
    BY <1>1, KeptOfKind
  <2>2. TestCases \cap bad \subseteq Firing \cup TestCases
    OBVIOUS
  <2> HIDE DEF failed, bad
  <2>3. failed \in Seq(Firing \cup TestCases)
    BY <2>1, <2>2, SeqWidens
  <2> QED
    BY <1>3, <2>3, NamedDiffer
<1>5. \A o : Number(s, of(o)) \in Nat
  BY <1>1, KeptOfKind, LenProperties DEF Number
<1>6. SumFunction(outcomes) = Len(s)
  <2>1. \A e \in TestCases : Outcome(e) \in CaseOutcomes
    BY DEF Outcome, CaseOutcomes
  <2>2. class \in [TestCases -> CaseOutcomes] /\ \A e \in TestCases : class[e] = Outcome(e)
    BY <2>1
  <2>3. outcomes \in [CaseOutcomes -> Nat]
    BY <1>5
  <2>4. ASSUME NEW o \in CaseOutcomes PROVE outcomes[o] = Number(s, {e \in TestCases : class[e] = o})
    <3>1. {e \in TestCases : class[e] = o} = of(o)
      BY <2>2
    <3> QED
      BY <3>1
  <2> HIDE DEF class, outcomes
  <2>5. Classed(s, TestCases, CaseOutcomes, class, outcomes)
    BY <2>2, <2>3, <2>4 DEF Classed
  <2>6. IsFiniteSet(CaseOutcomes)
    BY FourAreFinite DEF CaseOutcomes
  <2> QED
    BY <1>1, <2>5, <2>6, NumbersByClass
<1>7. Len(failed) = outcomes["failed"] + outcomes["error"]
  <2>1. bad = of("failed") \cup of("error") /\ of("failed") \cap of("error") = {}
    OBVIOUS
  <2>2. outcomes["failed"] = Number(s, of("failed")) /\ outcomes["error"] = Number(s, of("error"))
    BY DEF CaseOutcomes
  <2>3. Len(failed) = Number(s, bad)
    BY DEF Number
  <2> HIDE DEF of, bad, failed, outcomes
  <2> QED
    BY <1>1, <2>1, <2>2, <2>3, NumbersAdd
<1>8. Metrics.tests = Len(s) /\ Metrics.outcomes = outcomes
  BY <1>2
<1> HIDE DEF outcomes, failed
<1> QED
  BY <1>4, <1>6, <1>7, <1>8 DEF CountsEachThingOnce, DifferIn


\* However its tool spread it over records and reports, a thing of a file, as its
\* records spell the file, is counted once and reached if anything reached it;
\* every result and every case is counted under one heading; and no two findings
\* share an identifier.
THEOREM EachThingIsCountedOnce == ReportsSpec => []CountsEachThingOnce
<1>1. ReportsTypeOK => CountsEachThingOnce
  <2> SUFFICES ASSUME ReportsTypeOK PROVE CountsEachThingOnce
    OBVIOUS
  <2>1. format \in {"lcov", "sarif", "junit-xml"}
    BY EntriesAssumption DEF ReportsTypeOK
  <2>2. CASE format = "lcov"
    BY <2>2, TracefilesCounted DEF CountsEachThingOnce
  <2>3. CASE format = "sarif"
    BY <2>3, LogsCounted
  <2>4. CASE format = "junit-xml"
    BY <2>4, CasesCounted
  <2> QED
    BY <2>1, <2>2, <2>3, <2>4
<1> QED
  BY <1>1, ReportsTyped, PTL

-----------------------------------------------------------------------------
(* Sessions.                                                                 *)

Blocks == [model : Models, table : BOOLEAN, tokens : Tokens]

\* What Claude Code last billed is one of the lines, or nothing.
LEMMA LastResultIs ==
  ASSUME NEW d \in Drivers, NEW s \in Seq(Events[d])
  PROVE  /\ LastResult(s).billed \in Seq(Blocks)
         /\ LastResult(s).billed # <<>> =>
              \E i \in DOMAIN s : s[i].is = "result" /\ LastResult(s) = s[i]
<1> DEFINE found == {i \in 1 .. Len(s) : s[i].is = "result"}
           last == IF found # {} THEN Max(found) ELSE 0
           none == [billed |-> <<>>, wrote |-> {}]
<1>1. LastResult(s) = IF last = 0 THEN none ELSE s[last]
  BY DEF LastResult, SelectLastInSeq
<1>2. DOMAIN s = 1 .. Len(s) /\ Len(s) \in Nat
  BY LenProperties
<1>3. last # 0 => last \in found
  <2>1. found \in SUBSET (1 .. Len(s))
    OBVIOUS
  <2> HIDE DEF found
  <2> QED
    BY <1>2, <2>1, SomeAreBounded
<1> HIDE DEF last
<1>4. CASE last = 0
  <2>1. LastResult(s).billed = <<>>
    BY <1>1, <1>4
  <2> QED
    BY <2>1, EmptySeq
<1>5. CASE last # 0
  <2>1. last \in DOMAIN s /\ s[last].is = "result" /\ LastResult(s) = s[last]
    BY <1>1, <1>2, <1>3, <1>5
  <2>2. s[last] \in Events[d]
    BY <1>2, <2>1, ElementOfSeq
  <2>3. s[last].billed \in Seq(Blocks)
    BY <2>1, <2>2, EventsAssumption DEF Blocks
  <2> QED
    BY <2>1, <2>3
<1> QED
  BY <1>4, <1>5

\* The model told of a session is one of its lines'.
NamedIn(model, s) ==
  \E i \in DOMAIN s : LET e == s[i] IN
    IF e.is = "result" THEN \E k \in DOMAIN e.billed : e.billed[k].model = model
    ELSE e.model = model

LEMMA ReportedIsNamed ==
  ASSUME driver \in Drivers, NEW s \in Seq(Events[driver]), ReportedModel(s) # None
  PROVE  NamedIn(ReportedModel(s), s)
<1> DEFINE turns == {i \in 1 .. Len(s) : s[i].is = "turn" /\ s[i].model # None}
           inits == {i \in 1 .. Len(s) : s[i].is = "init"}
           named == IF turns # {} THEN Max(turns) ELSE 0
           opened == IF inits # {} THEN Min(inits) ELSE 0
           billed == ClaudeUsage(s).billed
<1>1. DOMAIN s = 1 .. Len(s) /\ Len(s) \in Nat
  BY LenProperties
<1>2. ReportedModel(s) =
        IF driver = "codex" THEN IF named = 0 THEN None ELSE s[named].model
        ELSE IF opened # 0 /\ s[opened].model # None THEN s[opened].model
        ELSE IF Cardinality(DOMAIN billed) = 1 THEN billed[CHOOSE i \in DOMAIN billed : TRUE].model
        ELSE None
  BY DEF ReportedModel, SelectInSeq, SelectLastInSeq
<1>3. (named # 0 => named \in turns) /\ (opened # 0 => opened \in inits)
  <2>1. turns \in SUBSET (1 .. Len(s)) /\ inits \in SUBSET (1 .. Len(s))
    OBVIOUS
  <2> HIDE DEF turns, inits
  <2> QED
    BY <1>1, <2>1, SomeAreBounded
<1> HIDE DEF named, opened, billed
<1>4. CASE driver = "codex"
  <2>1. named # 0 /\ ReportedModel(s) = s[named].model
    BY <1>2, <1>4
  <2> QED
    BY <1>1, <1>3, <2>1 DEF NamedIn
<1>5. CASE driver # "codex" /\ opened # 0 /\ s[opened].model # None
  <2>1. ReportedModel(s) = s[opened].model
    BY <1>2, <1>5
  <2> QED
    BY <1>1, <1>3, <1>5, <2>1 DEF NamedIn
<1>6. CASE driver # "codex" /\ ~(opened # 0 /\ s[opened].model # None)
  <2> DEFINE result == LastResult(s)
             tables == {i \in DOMAIN result.billed : result.billed[i].table}
  <2>1. Cardinality(DOMAIN billed) = 1
    BY <1>2, <1>6
  <2>2. billed = [i \in tables |-> result.billed[i]]
    BY DEF billed, ClaudeUsage
  <2>3. result.billed \in Seq(Blocks)
    BY LastResultIs
  <2>4. IsFiniteSet(DOMAIN billed)
    <3>1. DOMAIN result.billed = 1 .. Len(result.billed) /\ Len(result.billed) \in Nat
      BY <2>3, LenProperties
    <3>2. IsFiniteSet(DOMAIN result.billed)
      BY <3>1, FS_Interval
    <3>3. DOMAIN billed \in SUBSET DOMAIN result.billed
      BY <2>2
    <3> QED
      BY <3>2, <3>3, FS_Subset
  <2>5. PICK x : DOMAIN billed = {x}
    BY <2>1, <2>4, FS_Singleton
  <2>6. ReportedModel(s) = billed[x].model
    <3>1. (CHOOSE i \in {x} : TRUE) = x
      OBVIOUS
    <3> QED
      BY <1>2, <1>6, <2>1, <2>5, <3>1
  <2>7. x \in DOMAIN result.billed /\ billed[x] = result.billed[x]
    BY <2>2, <2>5
  <2>8. result.billed # <<>>
    BY <2>7
  <2>9. PICK i \in DOMAIN s : s[i].is = "result" /\ result = s[i]
    BY <2>8, LastResultIs
  <2> HIDE DEF result
  <2> QED
    BY <2>6, <2>7, <2>9 DEF NamedIn
<1> QED
  BY <1>4, <1>5, <1>6

\* What is rated is reported whole, at a price that has one for its cache writes.
LEMMA RatedIsWhole ==
  ASSUME NEW price, NEW tokens, NEW duration, Rate(price, tokens, duration) # None
  PROVE  /\ Whole(tokens)
         /\ tokens["cache_write"] > 0 => duration \in DOMAIN price.cache_write
BY DEF Rate, Whole

\* What a total is of: every one of its counts is known, and it is their sum.
LEMMA KnownTotal ==
  ASSUME NEW counts, Total(counts) # None
  PROVE  (\A i \in DOMAIN counts : counts[i] # None) /\ Total(counts) = SumFunction(counts)
BY DEF Total

\* A cost told of a session of Claude Code is of every block it billed.
BilledWhole(s) ==
  LET result == LastResult(s) IN
  \A i \in DOMAIN result.billed : LET b == result.billed[i] IN b.table =>
    /\ Whole(b.tokens) /\ b.model \in DOMAIN Prices[driver]
    /\ b.tokens["cache_write"] > 0 => Duration(result) \in DOMAIN Prices[driver][b.model].cache_write

LEMMA ClaudeCostIsWhole ==
  ASSUME driver = "claude", NEW s \in Seq(Events[driver]), Cost(Usage(s)) # None
  PROVE  BilledWhole(s)
<1> DEFINE result == LastResult(s)
           tables == {i \in DOMAIN result.billed : result.billed[i].table}
           model(b) == IF b.model = None THEN Requested[driver] ELSE b.model
           rated(b) == IF model(b) \in DOMAIN Prices[driver]
                       THEN Rate(Prices[driver][model(b)], b.tokens, Duration(result)) ELSE None
           rates == [i \in tables |-> rated(result.billed[i])]
<1>1. Usage(s) = [billed |-> [i \in tables |-> result.billed[i]], duration |-> Duration(result)]
  BY DEF Usage, ClaudeUsage
<1>2. Cost(Usage(s)) = IF tables = {} THEN None ELSE Total(rates)
  <2>1. /\ DOMAIN Usage(s).billed = tables /\ Usage(s).duration = Duration(result)
        /\ \A i \in tables : Usage(s).billed[i] = result.billed[i]
    BY <1>1
  <2>2. [i \in DOMAIN Usage(s).billed |->
           LET b == Usage(s).billed[i]
               m == IF b.model = None THEN Requested[driver] ELSE b.model
           IN  IF m \in DOMAIN Prices[driver]
               THEN Rate(Prices[driver][m], b.tokens, Usage(s).duration) ELSE None] = rates
    <3> HIDE DEF tables, result
    <3> QED
      BY <2>1
  <2> HIDE DEF rates, tables
  <2> QED
    BY <2>1, <2>2 DEF Cost
<1>3. \A i \in tables : rated(result.billed[i]) # None
  <2>1. Total(rates) # None
    BY <1>2
  <2>2. \A i \in DOMAIN rates : rates[i] # None
    <3> HIDE DEF rates
    <3> QED
      BY <2>1, KnownTotal
  <2> HIDE DEF rated, tables
  <2> QED
    BY <2>2
<1>4. ASSUME NEW i \in tables
      PROVE  LET b == result.billed[i] IN
             /\ Whole(b.tokens) /\ b.model \in DOMAIN Prices[driver]
             /\ b.tokens["cache_write"] > 0 =>
                  Duration(result) \in DOMAIN Prices[driver][b.model].cache_write
  <2> DEFINE b == result.billed[i]
  <2>1. b.model # None
    <3>1. result.billed \in Seq(Blocks)
      BY LastResultIs DEF Drivers
    <3>2. i \in 1 .. Len(result.billed)
      BY <3>1, LenProperties
    <3>3. b \in Blocks
      <4> HIDE DEF result
      <4> QED
        BY <3>1, <3>2, ElementOfSeq
    <3> HIDE DEF b
    <3>4. b.model \in Models
      BY <3>3 DEF Blocks
    <3> QED
      BY <3>4, SessionsAssumption
  <2>2. rated(b) # None
    BY <1>3
  <2>3. /\ b.model \in DOMAIN Prices[driver]
        /\ Rate(Prices[driver][b.model], b.tokens, Duration(result)) # None
    <3> HIDE DEF b, result
    <3> QED
      BY <2>1, <2>2
  <2> HIDE DEF b, result
  <2>4. Whole(b.tokens) /\ (b.tokens["cache_write"] > 0 =>
          Duration(result) \in DOMAIN Prices[driver][b.model].cache_write)
    BY <2>3, RatedIsWhole
  <2> QED
    BY <2>3, <2>4 DEF b
<1> HIDE DEF rated, rates
<1> QED
  BY <1>4 DEF BilledWhole

\* A cost told of a session of Codex is of every turn it reported, and what its turns
\* cost together.
TurnsWhole(s, cost) ==
  LET turns == Turns(s) IN
  /\ \A i \in turns : Whole(s[i].tokens)
  /\ (\A i \in turns : LET tokens == s[i].tokens IN
        tokens["input"] >= tokens["cached_input"] + tokens["cache_write"])
       => cost = SumFunction([i \in turns |-> TurnCost(s[i])])

\* What is left of sums taken out of a sum is the sum of what is left.
LeavesOf(D, I, C, W, U) ==
  /\ I \in [D -> Nat] /\ C \in [D -> Nat] /\ W \in [D -> Nat] /\ U \in [D -> Int]
  /\ \A x \in D : U[x] = I[x] - C[x] - W[x]

SumsLeave(I, C, W, U) == SumFunction(U) = SumFunction(I) - SumFunction(C) - SumFunction(W)

LEMMA SumOfTheRest ==
  ASSUME NEW D, IsFiniteSet(D), NEW I, NEW C, NEW W, NEW U, LeavesOf(D, I, C, W, U)
  PROVE  SumsLeave(I, C, W, U)
<1>0. /\ I \in [D -> Nat] /\ C \in [D -> Nat] /\ W \in [D -> Nat] /\ U \in [D -> Int]
      /\ \A x \in D : U[x] = I[x] - C[x] - W[x]
  BY DEF LeavesOf
<1> DEFINE CW == [x \in D |-> C[x] + W[x]]
<1>1. \A x \in D : I[x] \in Nat /\ C[x] \in Nat /\ W[x] \in Nat
  BY <1>0
<1>2. I \in [D -> Int] /\ C \in [D -> Int] /\ W \in [D -> Int]
  BY <1>0
<1>3. CW \in [D -> Int] /\ \A x \in D : CW[x] = C[x] + W[x]
  BY <1>1
<1> HIDE DEF CW
<1>4. Adds(D, U, CW, I) /\ Adds(D, C, W, CW)
  <2>1. \A x \in D : I[x] = U[x] + CW[x]
    BY <1>0, <1>1, <1>3
  <2> QED
    BY <1>0, <1>2, <1>3, <2>1 DEF Adds
<1>5. SumFunction(I) = SumFunction(U) + SumFunction(CW)
  BY <1>4, SumAdds
<1>6. SumFunction(CW) = SumFunction(C) + SumFunction(W)
  BY <1>4, SumAdds
<1>7. SumFunction(U) \in Int /\ SumFunction(C) \in Int /\ SumFunction(W) \in Int
  BY <1>0, <1>2, SumType
<1> QED
  BY <1>5, <1>6, <1>7 DEF SumsLeave

\* What turns cost together, at prices of their input without its parts, of each of these
\* and of their output.
PricedAt(D, I, C, W, O, pi, pc, po, pw, cost) ==
  /\ I \in [D -> Nat] /\ C \in [D -> Nat] /\ W \in [D -> Nat] /\ O \in [D -> Nat]
  /\ pi \in Nat /\ pc \in Nat /\ po \in Nat /\ pw \in Nat /\ cost \in [D -> Int]
  /\ \A x \in D : cost[x] = (I[x] - C[x] - W[x]) * pi + C[x] * pc + O[x] * po + W[x] * pw

SumsPriced(I, C, W, O, pi, pc, po, pw, cost) ==
  SumFunction(cost) = (SumFunction(I) - SumFunction(C) - SumFunction(W)) * pi
                        + SumFunction(C) * pc + SumFunction(O) * po + SumFunction(W) * pw

LEMMA RateIsLinear ==
  ASSUME NEW D, IsFiniteSet(D), NEW I, NEW C, NEW W, NEW O, NEW pi, NEW pc, NEW po, NEW pw,
         NEW cost, PricedAt(D, I, C, W, O, pi, pc, po, pw, cost)
  PROVE  SumsPriced(I, C, W, O, pi, pc, po, pw, cost)
<1> DEFINE U == [x \in D |-> I[x] - C[x] - W[x]]
           U1 == [x \in D |-> U[x] * pi]
           C1 == [x \in D |-> C[x] * pc]
           O1 == [x \in D |-> O[x] * po]
           W1 == [x \in D |-> W[x] * pw]
           UC == [x \in D |-> U1[x] + C1[x]]
           UCO == [x \in D |-> UC[x] + O1[x]]
<1>0. /\ I \in [D -> Nat] /\ C \in [D -> Nat] /\ W \in [D -> Nat] /\ O \in [D -> Nat]
      /\ pi \in Nat /\ pc \in Nat /\ po \in Nat /\ pw \in Nat /\ cost \in [D -> Int]
      /\ \A x \in D : cost[x] = (I[x] - C[x] - W[x]) * pi + C[x] * pc + O[x] * po + W[x] * pw
  BY DEF PricedAt
<1>1. \A x \in D : I[x] \in Nat /\ C[x] \in Nat /\ W[x] \in Nat /\ O[x] \in Nat
  BY <1>0
<1>2. I \in [D -> Int] /\ C \in [D -> Int] /\ W \in [D -> Int] /\ O \in [D -> Int]
  BY <1>0
<1>3. U \in [D -> Int] /\ \A x \in D : U[x] = I[x] - C[x] - W[x]
  BY <1>1
<1> HIDE DEF U
<1>4. SumFunction(U) = SumFunction(I) - SumFunction(C) - SumFunction(W)
  <2>1. LeavesOf(D, I, C, W, U)
    BY <1>0, <1>3 DEF LeavesOf
  <2> QED
    BY <2>1, SumOfTheRest DEF SumsLeave
<1>7. /\ Scales(D, U, pi, U1) /\ Scales(D, C, pc, C1)
      /\ Scales(D, O, po, O1) /\ Scales(D, W, pw, W1)
  <2>1. \A x \in D : /\ U[x] * pi \in Int /\ C[x] * pc \in Int
                     /\ O[x] * po \in Int /\ W[x] * pw \in Int
    BY <1>0, <1>2, <1>3
  <2> QED
    BY <1>0, <1>2, <1>3, <2>1 DEF Scales
<1> HIDE DEF U1, C1, O1, W1
<1>8. Adds(D, U1, C1, UC) /\ Adds(D, UC, O1, UCO)
  <2>1. U1 \in [D -> Int] /\ C1 \in [D -> Int] /\ O1 \in [D -> Int]
    BY <1>7 DEF Scales
  <2>2. UC \in [D -> Int] /\ UCO \in [D -> Int]
    BY <2>1
  <2> QED
    BY <2>1, <2>2 DEF Adds
<1>9. \A x \in D : UCO[x] = U1[x] + C1[x] + O1[x]
  BY <1>8 DEF Adds
<1> HIDE DEF UC, UCO
<1>10. Adds(D, UCO, W1, cost)
  <2>1. UCO \in [D -> Int] /\ W1 \in [D -> Int]
    BY <1>7, <1>8 DEF Scales, Adds
  <2>2. \A x \in D : /\ U1[x] = U[x] * pi /\ C1[x] = C[x] * pc
                     /\ O1[x] = O[x] * po /\ W1[x] = W[x] * pw
    BY <1>7 DEF Scales
  <2>3. \A x \in D : cost[x] = UCO[x] + W1[x]
    <3> TAKE x \in D
    <3>1. cost[x] = U[x] * pi + C[x] * pc + O[x] * po + W[x] * pw
      BY <1>0, <1>3
    <3>2. UCO[x] = U[x] * pi + C[x] * pc + O[x] * po /\ W1[x] = W[x] * pw
      BY <1>9, <2>2
    <3> QED
      BY <3>1, <3>2
  <2> QED
    BY <1>0, <2>1, <2>3 DEF Adds
<1>11. /\ SumFunction(U1) = SumFunction(U) * pi /\ SumFunction(C1) = SumFunction(C) * pc
       /\ SumFunction(O1) = SumFunction(O) * po /\ SumFunction(W1) = SumFunction(W) * pw
  BY <1>7, SumScales
<1>12. SumFunction(UC) = SumFunction(U1) + SumFunction(C1)
  BY <1>8, SumAdds
<1>13. SumFunction(UCO) = SumFunction(UC) + SumFunction(O1)
  BY <1>8, SumAdds
<1>14. SumFunction(cost) = SumFunction(UCO) + SumFunction(W1)
  BY <1>10, SumAdds
<1> QED
  BY <1>4, <1>11, <1>12, <1>13, <1>14 DEF SumsPriced

LEMMA PriceIsAnInteger ==
  ASSUME NEW a \in Int, NEW b \in Int, NEW c \in Int, NEW d \in Int,
         NEW pa \in Int, NEW pb \in Int, NEW pc \in Int, NEW pd \in Int
  PROVE  a * pa + b * pb + c * pc + d * pd \in Int
<1>1. a * pa \in Int /\ b * pb \in Int /\ c * pc \in Int /\ d * pd \in Int
  OBVIOUS
<1> QED
  BY <1>1

LEMMA CodexCostIsWhole ==
  ASSUME driver = "codex", NEW s \in Seq(Events[driver]), Cost(Usage(s)) # None
  PROVE  TurnsWhole(s, Cost(Usage(s)))
<1> DEFINE D == Turns(s)
           Of(c) == [i \in D |-> s[i].tokens[c]]
           total == [c \in Categories |-> Total(Of(c))]
           known == \A c \in Inputs : total[c] # None
           rest == total["input"] - total["cached_input"] - total["cache_write"]
           input == IF ~known THEN None ELSE IF rest > 0 THEN rest ELSE 0
           tokens == [total EXCEPT !["input"] = input]
           model == Requested[driver]
           price == Prices[driver][model]
           rate == IF model \in DOMAIN Prices[driver] THEN Rate(price, tokens, "default") ELSE None
           pw == IF "default" \in DOMAIN price.cache_write THEN price.cache_write["default"] ELSE 0
<1>1. Usage(s) = [billed |-> IF D = {} THEN <<>>
                             ELSE <<[model |-> None, table |-> TRUE, tokens |-> tokens]>>,
                  duration |-> "default"]
  BY DEF Usage, CodexUsage
<1> HIDE DEF tokens
<1>2. Cost(Usage(s)) = Total([i \in {1} |-> rate])
  <2>1. D # {}
    <3> SUFFICES ASSUME D = {} PROVE FALSE
      OBVIOUS
    <3>1. DOMAIN Usage(s).billed = {}
      BY <1>1
    <3> QED
      BY <3>1 DEF Cost
  <2>2. /\ DOMAIN Usage(s).billed = {1} /\ Usage(s).duration = "default"
        /\ Usage(s).billed[1].model = None /\ Usage(s).billed[1].tokens = tokens
    BY <1>1, <2>1
  <2>3. [i \in DOMAIN Usage(s).billed |->
           LET b == Usage(s).billed[i]
               m == IF b.model = None THEN Requested[driver] ELSE b.model
           IN  IF m \in DOMAIN Prices[driver]
               THEN Rate(Prices[driver][m], b.tokens, Usage(s).duration) ELSE None]
          = [i \in {1} |-> rate]
    BY <2>2
  <2> HIDE DEF rate
  <2> QED
    BY <2>2, <2>3 DEF Cost
<1>3. rate # None /\ Cost(Usage(s)) = SumFunction([i \in {1} |-> rate])
  <2> HIDE DEF rate
  <2>1. Total([i \in {1} |-> rate]) # None
    BY <1>2
  <2> QED
    BY <1>2, <2>1, KnownTotal
<1>4. model \in DOMAIN Prices[driver] /\ rate = Rate(price, tokens, "default")
  BY <1>3
<1>5. Whole(tokens) /\ (tokens["cache_write"] > 0 => "default" \in DOMAIN price.cache_write)
  BY <1>3, <1>4, RatedIsWhole
<1>6. /\ tokens["input"] = input
      /\ \A c \in Categories : c # "input" => tokens[c] = total[c]
  <2>1. "input" \in DOMAIN total /\ DOMAIN total = Categories
    BY DEF Categories, Inputs
  <2> HIDE DEF total, input
  <2> QED
    BY <2>1 DEF tokens
<1>7. known /\ \A c \in Categories : total[c] # None
  <2>1. input # None
    BY <1>5, <1>6 DEF Whole, Categories, Inputs
  <2>2. known
    BY <2>1
  <2>3. total["output"] # None
    BY <1>5, <1>6 DEF Whole, Categories, Inputs
  <2> HIDE DEF total
  <2> QED
    BY <2>2, <2>3 DEF Categories
<1>8. ASSUME NEW c \in Categories
      PROVE  Of(c) \in [D -> Nat] /\ total[c] = SumFunction(Of(c))
  <2>1. Total(Of(c)) # None /\ total[c] = Total(Of(c))
    BY <1>7
  <2>2. (\A i \in DOMAIN Of(c) : Of(c)[i] # None) /\ Total(Of(c)) = SumFunction(Of(c))
    <3> HIDE DEF Of
    <3> QED
      BY <2>1, KnownTotal
  <2>3. ASSUME NEW i \in D PROVE s[i].tokens[c] \in Nat
    <3>1. s[i] \in Events[driver] /\ s[i].is = "turn"
      <4>1. i \in 1 .. Len(s) /\ s[i].is = "turn"
        BY LenProperties DEF Turns
      <4> QED
        BY <4>1, ElementOfSeq
    <3>2. s[i].tokens \in Tokens
      BY <3>1, EventsAssumption DEF Drivers
    <3>3. s[i].tokens[c] # None
      BY <2>2
    <3> QED
      BY <3>2, <3>3 DEF Tokens
  <2>4. Of(c) \in [D -> Nat]
    BY <2>3
  <2> HIDE DEF Of, total
  <2> QED
    BY <2>1, <2>2, <2>4
<1>9. IsFiniteSet(D)
  <2>1. D \in SUBSET (1 .. Len(s)) /\ Len(s) \in Nat
    BY LenProperties DEF Turns
  <2>2. IsFiniteSet(1 .. Len(s))
    BY <2>1, FS_Interval
  <2> HIDE DEF D
  <2> QED
    BY <2>1, <2>2, FS_Subset
<1>10. \A i \in D, c \in Categories : s[i].tokens[c] \in Nat /\ s[i].tokens[c] = Of(c)[i]
  <2> TAKE i \in D, c \in Categories
  <2>1. Of(c) \in [D -> Nat] /\ Of(c)[i] = s[i].tokens[c]
    BY <1>8
  <2> HIDE DEF Of
  <2> QED
    BY <2>1
<1>11. ASSUME NEW i \in D PROVE Whole(s[i].tokens)
  BY <1>10, SessionsAssumption DEF Whole
<1>12. ASSUME \A i \in D : s[i].tokens["input"] >=
                 s[i].tokens["cached_input"] + s[i].tokens["cache_write"]
       PROVE  Cost(Usage(s)) = SumFunction([i \in D |-> TurnCost(s[i])])
  <2> DEFINE I == Of("input")
             C == Of("cached_input")
             W == Of("cache_write")
             O == Of("output")
             U == [i \in D |-> I[i] - C[i] - W[i]]
             turnCost == [i \in D |-> TurnCost(s[i])]
  <2>1. /\ I \in [D -> Nat] /\ C \in [D -> Nat] /\ W \in [D -> Nat] /\ O \in [D -> Nat]
        /\ total["input"] = SumFunction(I) /\ total["cached_input"] = SumFunction(C)
        /\ total["cache_write"] = SumFunction(W) /\ total["output"] = SumFunction(O)
    <3> HIDE DEF Of, total
    <3> QED
      BY <1>8 DEF Categories, Inputs
  <2>2. \A i \in D : /\ s[i].tokens["input"] = I[i] /\ s[i].tokens["cached_input"] = C[i]
                      /\ s[i].tokens["cache_write"] = W[i] /\ s[i].tokens["output"] = O[i]
    OBVIOUS
  <2> HIDE DEF I, C, W, O
  <2>3. /\ SumFunction(I) \in Nat /\ SumFunction(C) \in Nat
        /\ SumFunction(W) \in Nat /\ SumFunction(O) \in Nat
        /\ \A i \in D : W[i] <= SumFunction(W)
    BY <1>9, <2>1, SumOfNaturals
  <2>4. SumFunction(U) \in Nat /\ SumFunction(U) = SumFunction(I) - SumFunction(C) - SumFunction(W)
    <3>1. \A i \in D : I[i] \in Nat /\ C[i] \in Nat /\ W[i] \in Nat
      BY <2>1
    <3>2. \A i \in D : I[i] - C[i] - W[i] \in Nat
      BY <1>12, <2>2, <3>1
    <3>3. U \in [D -> Nat] /\ \A i \in D : U[i] = I[i] - C[i] - W[i]
      BY <3>2
    <3> HIDE DEF U
    <3>4. SumFunction(U) \in Nat
      BY <1>9, <3>3, SumOfNaturals
    <3>5. U \in [D -> Int] /\ \A i \in D : U[i] = I[i] - C[i] - W[i]
      BY <3>3
    <3>6. I \in [D -> Nat] /\ C \in [D -> Nat] /\ W \in [D -> Nat]
      BY <2>1
    <3>7. SumFunction(U) = SumFunction(I) - SumFunction(C) - SumFunction(W)
      <4>1. LeavesOf(D, I, C, W, U)
        BY <3>5, <3>6 DEF LeavesOf
      <4> QED
        <5>1. SumsLeave(I, C, W, U)
          BY <1>9, <4>1, SumOfTheRest, Zenon
        <5> QED
          BY <5>1 DEF SumsLeave
    <3> QED
      BY <3>4, <3>7
  <2>5. input = SumFunction(I) - SumFunction(C) - SumFunction(W)
    <3> HIDE DEF total, U
    <3> QED
      BY <1>7, <2>1, <2>3, <2>4
  <2>6. /\ price.input \in Nat /\ price.cached_input \in Nat /\ price.output \in Nat /\ pw \in Nat
    BY <1>4, PricesAssumption DEF Drivers
  <2>7. SumFunction(W) > 0 => pw = price.cache_write["default"] /\ "default" \in DOMAIN price.cache_write
    <3>1. tokens["cache_write"] = SumFunction(W)
      BY <1>6, <2>1 DEF Categories, Inputs
    <3> QED
      BY <1>5, <3>1
  <2>8. rate = (SumFunction(I) - SumFunction(C) - SumFunction(W)) * price.input
                 + SumFunction(C) * price.cached_input + SumFunction(O) * price.output
                 + SumFunction(W) * pw
    <3>1. /\ tokens["input"] = SumFunction(I) - SumFunction(C) - SumFunction(W)
          /\ tokens["cached_input"] = SumFunction(C)
          /\ tokens["cache_write"] = SumFunction(W) /\ tokens["output"] = SumFunction(O)
      BY <1>6, <2>1, <2>5 DEF Categories, Inputs
    <3>2. rate = tokens["input"] * price.input + tokens["cached_input"] * price.cached_input
                   + tokens["output"] * price.output
                   + (IF tokens["cache_write"] > 0
                      THEN tokens["cache_write"] * price.cache_write["default"] ELSE 0)
      BY <1>3, <1>4 DEF Rate
    <3>3. (IF tokens["cache_write"] > 0
           THEN tokens["cache_write"] * price.cache_write["default"] ELSE 0) = SumFunction(W) * pw
      <4>1. CASE SumFunction(W) > 0
        BY <2>7, <3>1, <4>1
      <4>2. CASE SumFunction(W) = 0
        BY <2>6, <3>1, <4>2
      <4> QED
        BY <2>3, <4>1, <4>2
    <3> HIDE DEF rate, pw, price
    <3> QED
      BY <2>3, <2>6, <3>1, <3>2, <3>3
  <2>9. ASSUME NEW i \in D
        PROVE  TurnCost(s[i]) = (I[i] - C[i] - W[i]) * price.input + C[i] * price.cached_input
                                  + O[i] * price.output + W[i] * pw
    <3> DEFINE turn == [s[i].tokens EXCEPT !["input"] =
                          @ - s[i].tokens["cached_input"] - s[i].tokens["cache_write"]]
    <3>1. /\ I[i] \in Nat /\ C[i] \in Nat /\ W[i] \in Nat /\ O[i] \in Nat
          /\ s[i].tokens["input"] = I[i] /\ s[i].tokens["cached_input"] = C[i]
          /\ s[i].tokens["cache_write"] = W[i] /\ s[i].tokens["output"] = O[i]
      BY <2>1, <2>2
    <3>2. DOMAIN s[i].tokens = Categories
      <4>1. s[i] \in Events[driver] /\ s[i].is = "turn"
        <5>1. i \in 1 .. Len(s) /\ s[i].is = "turn"
          BY LenProperties DEF Turns
        <5> QED
          BY <5>1, ElementOfSeq
      <4>2. s[i].tokens \in Tokens
        BY <4>1, EventsAssumption DEF Drivers
      <4> QED
        BY <4>2 DEF Tokens
    <3>3. /\ turn["input"] = I[i] - C[i] - W[i] /\ turn["cached_input"] = C[i]
          /\ turn["cache_write"] = W[i] /\ turn["output"] = O[i]
      BY <3>1, <3>2 DEF Categories, Inputs
    <3>4. TurnCost(s[i]) = Rate(price, turn, "default")
      BY DEF TurnCost
    <3> HIDE DEF turn
    <3>5. \A c \in Categories : turn[c] # None
      <4>1. s[i].tokens["input"] >= s[i].tokens["cached_input"] + s[i].tokens["cache_write"]
        BY <1>12
      <4>2. I[i] - C[i] - W[i] \in Nat
        BY <3>1, <4>1
      <4> QED
        BY <3>1, <3>3, <4>2, SessionsAssumption DEF Categories, Inputs
    <3>6. W[i] > 0 => "default" \in DOMAIN price.cache_write /\ pw = price.cache_write["default"]
      BY <2>3, <2>7, <3>1
    <3>7. TurnCost(s[i]) = turn["input"] * price.input + turn["cached_input"] * price.cached_input
                             + turn["output"] * price.output
                             + (IF W[i] > 0 THEN W[i] * price.cache_write["default"] ELSE 0)
      BY <3>3, <3>4, <3>5, <3>6 DEF Rate
    <3>8. (IF W[i] > 0 THEN W[i] * price.cache_write["default"] ELSE 0) = W[i] * pw
      <4>1. CASE W[i] > 0
        BY <3>6, <4>1
      <4>2. CASE W[i] = 0
        BY <2>6, <4>2
      <4> QED
        BY <3>1, <4>1, <4>2
    <3> HIDE DEF pw, price
    <3> QED
      BY <2>6, <3>1, <3>3, <3>7, <3>8
  <2> DEFINE pi == price.input
             pc == price.cached_input
             po == price.output
  <2> HIDE DEF pi, pc, po, price, pw, rate, input, U
  <2>10. turnCost \in [D -> Int]
    <3>1. \A i \in D : I[i] \in Nat /\ C[i] \in Nat /\ W[i] \in Nat /\ O[i] \in Nat
      BY <2>1
    <3>2. ASSUME NEW i \in D PROVE TurnCost(s[i]) \in Int
      <4>1. pi \in Int /\ pc \in Int /\ po \in Int /\ pw \in Int
        BY <2>6 DEF pi, pc, po
      <4>2. I[i] - C[i] - W[i] \in Int /\ C[i] \in Int /\ W[i] \in Int /\ O[i] \in Int
        BY <3>1
      <4>3. (I[i] - C[i] - W[i]) * pi + C[i] * pc + O[i] * po + W[i] * pw \in Int
        BY <4>1, <4>2, PriceIsAnInteger
      <4> QED
        BY <2>9, <4>3 DEF pi, pc, po
    <3> QED
      BY <3>2
  <2>11. \A i \in D : turnCost[i] = (I[i] - C[i] - W[i]) * pi + C[i] * pc + O[i] * po + W[i] * pw
    BY <2>9 DEF pi, pc, po
  <2>12. SumFunction(turnCost) = rate
    <3> HIDE DEF turnCost
    <3>1. I \in [D -> Nat] /\ C \in [D -> Nat] /\ W \in [D -> Nat] /\ O \in [D -> Nat]
      BY <2>1
    <3>2. pi \in Nat /\ pc \in Nat /\ po \in Nat /\ pw \in Nat
      BY <2>6 DEF pi, pc, po
    <3>3. SumFunction(turnCost) = (SumFunction(I) - SumFunction(C) - SumFunction(W)) * pi
                                    + SumFunction(C) * pc + SumFunction(O) * po
                                    + SumFunction(W) * pw
      <4>1. PricedAt(D, I, C, W, O, pi, pc, po, pw, turnCost)
        BY <2>10, <2>11, <3>1, <3>2 DEF PricedAt
      <4> QED
        <5>1. SumsPriced(I, C, W, O, pi, pc, po, pw, turnCost)
          BY <1>9, <4>1, RateIsLinear, Zenon
        <5> QED
          BY <5>1 DEF SumsPriced
    <3> QED
      BY <2>8, <3>3 DEF pi, pc, po
  <2>13. SumFunction([i \in {1} |-> rate]) = rate
    <3>1. rate \in Int
      <4> HIDE DEF turnCost, rate
      <4> QED
        BY <1>9, <2>10, <2>12, SumType
    <3> DEFINE one == [i \in {1} |-> rate]
    <3> HIDE DEF rate
    <3>2. DOMAIN one = {1} /\ one[1] = rate
      OBVIOUS
    <3> HIDE DEF one
    <3>3. SumFunction(one) = one[1]
      BY <3>1, <3>2, SumOfOne
    <3> QED
      BY <3>2, <3>3 DEF one
  <2> HIDE DEF rate, turnCost
  <2> QED
    BY <1>3, <2>12, <2>13 DEF turnCost
<1> HIDE DEF rate, total, Of
<1> QED
  BY <1>11, <1>12 DEF TurnsWhole

\* What the record says of a session that wrote these lines.
Returned(s) == [model |-> ReportedModel(s), cost |-> Cost(Usage(s)), stream |-> s]

SessionsTypeOK ==
  /\ driver \in Drivers /\ stream \in Seq(Events[driver])
  /\ told = Untold \/ \E s \in Seq(Events[driver]) : told = Returned(s)

LEMMA SessionsTyped == SessionsSpec => []SessionsTypeOK
<1>1. SessionsInit => SessionsTypeOK
  BY EmptySeq DEF SessionsInit, SessionsTypeOK
<1>2. ASSUME SessionsTypeOK, [SessionsNext]_sessionVars PROVE SessionsTypeOK'
  <2>1. driver \in Drivers /\ stream \in Seq(Events[driver])
    BY <1>2 DEF SessionsTypeOK
  <2>2. driver' = driver
    BY <1>2 DEF SessionsNext, Emit, Finish, sessionVars
  <2>3. ASSUME NEW s PROVE Returned(s)' = Returned(s)
    <3> DEFINE u == Usage(s)
               rated(d, b) == LET model == IF b.model = None THEN Requested[d] ELSE b.model
                              IN  IF model \in DOMAIN Prices[d]
                                  THEN Rate(Prices[d][model], b.tokens, u.duration) ELSE None
               rates(d) == [i \in DOMAIN u.billed |-> rated(d, u.billed[i])]
    <3>1. Usage(s)' = u
      BY <2>2 DEF Usage
    <3>2. ReportedModel(s)' = ReportedModel(s)
      <4> DEFINE model(d) ==
                   LET opened == SelectInSeq(s, LAMBDA e : e.is = "init")
                       billed == ClaudeUsage(s).billed
                       named  == SelectLastInSeq(s, LAMBDA e : e.is = "turn" /\ e.model # None)
                   IN  IF d = "codex" THEN IF named = 0 THEN None ELSE s[named].model
                       ELSE IF opened # 0 /\ s[opened].model # None THEN s[opened].model
                       ELSE IF Cardinality(DOMAIN billed) = 1
                            THEN billed[CHOOSE i \in DOMAIN billed : TRUE].model
                       ELSE None
      <4>1. ReportedModel(s) = model(driver)
        BY DEF ReportedModel, SelectInSeq, SelectLastInSeq
      <4>2. ReportedModel(s)' = model(driver')
        BY DEF ReportedModel, SelectInSeq, SelectLastInSeq
      <4> HIDE DEF model
      <4> QED
        BY <2>2, <4>1, <4>2
    <3> HIDE DEF u
    <3>3. Cost(u) = IF DOMAIN u.billed = {} THEN None ELSE Total(rates(driver))
      BY DEF Cost
    <3>4. ASSUME NEW v, v = u
          PROVE  Cost(v)' = IF DOMAIN u.billed = {} THEN None ELSE Total(rates(driver'))
      BY <3>4 DEF Cost
    <3> HIDE DEF rates
    <3> QED
      BY <2>2, <3>1, <3>2, <3>3, <3>4 DEF Returned, u
  <2>4. CASE UNCHANGED told
    <3>1. told' = Untold \/ \E s \in Seq(Events[driver]) : told' = Returned(s)
      BY <1>2, <2>4 DEF SessionsTypeOK
    <3>2. told' = Untold \/ \E s \in Seq(Events[driver]) : told' = Returned(s)'
      BY <2>3, <3>1
    <3>3. stream' \in Seq(Events[driver])
      <4>1. CASE UNCHANGED sessionVars
        BY <2>1, <4>1 DEF sessionVars
      <4>2. ASSUME NEW event \in Events[driver], Emit(event) PROVE stream' \in Seq(Events[driver])
        BY <2>1, <4>2, AppendProperties DEF Emit
      <4>3. CASE Finish
        BY <4>3, EmptySeq DEF Finish
      <4> QED
        BY <1>2, <4>1, <4>2, <4>3 DEF SessionsNext
    <3> QED
      BY <2>1, <2>2, <3>2, <3>3 DEF SessionsTypeOK
  <2>5. CASE Finish
    <3>1. told' = Returned(stream) /\ stream' = <<>>
      BY <2>5 DEF Finish, Returned
    <3>3. \E s \in Seq(Events[driver]) : told' = Returned(s)'
      BY <2>1, <2>3, <3>1
    <3>4. stream' \in Seq(Events[driver])
      BY <3>1, EmptySeq
    <3> QED
      BY <2>1, <2>2, <3>3, <3>4 DEF SessionsTypeOK
  <2> QED
    BY <1>2, <2>4, <2>5 DEF SessionsNext, Emit, sessionVars
<1> QED
  BY <1>1, <1>2, PTL DEF SessionsSpec

\* Whatever an agent writes and wherever it stops, the model and the cost the record
\* tells of a role are what its last session said of itself, whole.
THEOREM SessionsAreToldAsReported == SessionsSpec => []SessionIsToldAsReported
<1>1. SessionsTypeOK => SessionIsToldAsReported
  <2> SUFFICES ASSUME SessionsTypeOK PROVE SessionIsToldAsReported
    OBVIOUS
  <2>1. CASE told = Untold
    <3>1. told.model = None /\ told.cost = None
      BY <2>1 DEF Untold
    <3> QED
      BY <3>1 DEF SessionIsToldAsReported, ToldIsNamed, CostIsOfTheWhole
  <2>2. ASSUME NEW s \in Seq(Events[driver]), told = Returned(s) PROVE SessionIsToldAsReported
    <3>1. /\ told.model = ReportedModel(s) /\ told.cost = Cost(Usage(s)) /\ told.stream = s
          /\ driver \in Drivers
      BY <2>2 DEF Returned, SessionsTypeOK
    <3>2. ToldIsNamed
      <4> SUFFICES ASSUME told.model # None PROVE NamedIn(told.model, told.stream)
        BY DEF ToldIsNamed, NamedIn
      <4> QED
        BY <3>1, ReportedIsNamed
    <3>3. CASE driver = "codex"
      <4> SUFFICES ASSUME told.cost # None PROVE TurnsWhole(told.stream, told.cost)
        BY <3>2, <3>3 DEF SessionIsToldAsReported, CostIsOfTheWhole, TurnsWhole
      <4> QED
        BY <3>1, <3>3, CodexCostIsWhole
    <3>4. CASE driver = "claude"
      <4> SUFFICES ASSUME told.cost # None PROVE BilledWhole(told.stream)
        BY <3>2, <3>4 DEF SessionIsToldAsReported, CostIsOfTheWhole, BilledWhole
      <4> QED
        BY <3>1, <3>4, ClaudeCostIsWhole
    <3> QED
      BY <3>1, <3>3, <3>4 DEF Drivers
  <2> QED
    BY <2>1, <2>2 DEF SessionsTypeOK
<1> QED
  BY <1>1, SessionsTyped, PTL

=============================================================================
