----------------------------- MODULE ControlLoop -----------------------------
(***************************************************************************)
(* One run of the controller: controller/run.py and controller/phases/.      *)
(* Each action is the code between two things the controller does not        *)
(* control: a gate, an agent, an installation, a read of a tree that others  *)
(* write.  Appends and writes of the record are whole here; RunRecord takes  *)
(* them apart.                                                               *)
(*                                                                           *)
(* A tree is the content of the candidate workspace, as a patch against the  *)
(* base commit states it.  Reasons and feedback are sets of pairs            *)
(* <<kind, subject>>.                                                        *)
(***************************************************************************)
EXTENDS GateResults, ReviewDecision

CONSTANTS
  Trees,          \* the contents a candidate workspace may have
  Base,           \* the content the base commit holds
  InScope,        \* trees whose change the scope policy allows
  Prepared,       \* trees whose manifest, lockfile and config are the prepared ones
  Provider,       \* "none", "candidate" (installs in the tree) or "shared"
  Reviews,        \* the answers the reviewer may give
  MaxIterations,  \* the budget, --max-iterations
  Hazards,        \* what others may do, a subset of HazardKinds
  Unset,          \* a field of the record not measured yet
  Asked           \* a review block opened before the reviewer answered

HazardKinds == {"error",     \* any exception but Rejection and Escalation
                "write",     \* a gate writes in the tree it measures
                "tamper",    \* a frozen sensor is altered, or put back as it was
                "linger",    \* a process of an agent or gate outlives it and writes
                "operator"}  \* the operator edits or commits in the source

ASSUME TreesAssumption ==
  /\ Base \in Trees /\ InScope \subseteq Trees
  /\ Prepared \subseteq Trees /\ Base \in Prepared
ASSUME RequestAssumption ==
  /\ Provider \in {"none", "candidate", "shared"}
  /\ MaxIterations \in Nat
  /\ Hazards \subseteq HazardKinds

\* What was measured is a sequence, and the reviewer's criteria a list.
ASSUME MeasuredAssumption == Unset \notin Seq(Result)
ASSUME ReviewsAssumption ==
  \A answer \in Reviews :
    Len(answer.criteria) \in Nat /\ DOMAIN answer.criteria = 1 .. Len(answer.criteria)

VARIABLES
  pc,          \* where the controller is
  ending,      \* Running, Failed, or the decision in flight: [status, reasons]
  source,      \* the source repository: [clean, moved]
  tree,        \* the candidate workspace, Unset before it is created
  altered,     \* whether some frozen sensor is not, now, what was frozen
  lingering,   \* whether some process left behind still writes
  overlooked,  \* history: some candidate phase ended while a sensor was altered
  results,     \* what the running phase measured so far
  scope,       \* what the scope sensor said of the tree the actuator left
  outcome,     \* what the last iteration reached: [accepted, reasons, feedback, stage]
  installed,   \* whether the record holds the candidate's environment
  baseline,    \* document.baseline
  attempt,     \* record.attempt
  iterations,  \* document.iterations
  journal,     \* the events, as tuples headed by their type
  evidence,    \* evidence.json as last persisted: [decision, baseline, iterations]
  patch        \* change.patch, and the digest the record names it by

world == <<source, tree, altered, lingering, overlooked>>
memory == <<results, scope, outcome, installed, baseline, attempt, iterations>>
disk == <<journal, evidence, patch>>
vars == <<pc, ending, world, memory, disk>>

Running == [status |-> "RUNNING", reasons |-> {}]
Failed == [status |-> "failed", reasons |-> {}]
Accepted == [status |-> "ACCEPTED", reasons |-> {}]
Rejected(reasons) == [status |-> "REJECTED", reasons |-> reasons]
Escalated(reasons) == [status |-> "ESCALATED", reasons |-> reasons]

Ended == {"returned", "raised"}

\* The locations inside the try of _iterate, which keeps the attempt.
InIteration == {"attempted", "acted", "quick", "quick measured", "full", "full measured",
                "reviewing"}

NoOutcome == [accepted |-> FALSE, reasons |-> {}, feedback |-> {}, stage |-> "none"]

Init ==
  /\ pc = "prepared" /\ ending = Running
  /\ source \in [clean : BOOLEAN, moved : {FALSE}]
  /\ tree = Unset /\ altered = FALSE /\ lingering = FALSE /\ overlooked = FALSE
  /\ results = <<>> /\ scope = FALSE /\ outcome = NoOutcome
  /\ installed = FALSE /\ baseline = Unset /\ attempt = Unset /\ iterations = <<>>
  /\ journal = <<<<"run.started">>, <<"inputs.frozen">>, <<"inference.profiles_frozen">>>>
  /\ evidence = [decision |-> Running, baseline |-> Unset, iterations |-> <<>>]
  /\ patch = Unset

-----------------------------------------------------------------------------
(* Mutated forms, used only to show that a property notices them.           *)

\* An iteration told nothing of the one before it.
AttemptedUntold(feedback, input) ==
  [received |-> {}, input |-> input, agent |-> "unset", actuator |-> Unset,
   scope |-> Unset, quick |-> Unset, observed |-> Unset, full |-> Unset,
   full_state |-> Unset, review |-> Unset, feedback |-> Unset]

\* One iteration more than the budget.
BudgetLeftOffByOne == Len(iterations) <= MaxIterations

\* An agent that could not run started over, for as long as it takes.
ActuateAgain ==
  /\ pc = "attempted"
  /\ tree' \in Trees
  /\ attempt' = [attempt EXCEPT !.agent = "error"]
  /\ UNCHANGED <<pc, ending, source, altered, lingering, overlooked, results, scope, outcome,
                 installed, baseline, iterations, disk>>

\* A baseline judged on its documents alone.
JudgeBaselineByFaults ==
  /\ pc' = IF SensorFaults(results) # {} THEN "closing" ELSE "measured"
  /\ ending' = IF SensorFaults(results) # {}
               THEN [status |-> "REJECTED", reasons |-> SensorFaults(results)] ELSE ending

\* Each control of a phase, finding nothing.
MutatedUnseen(before, after) == {}
SensorTamperingUnseen == {}

\* An exhausted budget that always escalates.
ExhaustedEscalates(reasons) == [status |-> "ESCALATED", reasons |-> reasons]

\* The decision on the record before the journal closes on it.
CloseRecordFirst ==
  /\ pc = "closing"
  /\ patch' = tree
  /\ evidence' = [decision |-> ending, baseline |-> baseline, iterations |-> iterations]
  /\ pc' = "writing"
  /\ UNCHANGED <<ending, world, memory, journal>>

\* An observation location refused, and the refusal not turned into a rejection.
RefuseObservationUncaught ==
  /\ pc \in Occasions
  /\ \E g \in NextGate(results, pc) : Constitution[g].format = "codeservo-json"
  /\ ending' = Failed
  /\ pc' = IF pc \in InIteration THEN "keeping" ELSE "aborting"
  /\ UNCHANGED <<world, memory, disk>>

\* A quick phase concluded before every gate of it was measured.
FinishQuickEarly ==
  /\ pc = "quick"
  /\ attempt' = [attempt EXCEPT !.observed = tree, !.scope = scope, !.quick = results]
  /\ pc' = "quick measured"
  /\ UNCHANGED <<ending, world, results, scope, outcome, installed, baseline, iterations, disk>>

\* A full phase that measured and told the journal nothing of it.
FinishFullUntold ==
  /\ pc = "full" /\ Complete(results, "full")
  /\ attempt' = [attempt EXCEPT !.full = results, !.full_state = tree]
  /\ pc' = "full measured"
  /\ UNCHANGED <<ending, world, results, scope, outcome, installed, baseline, iterations, disk>>

-----------------------------------------------------------------------------
(* What the phases share.                                                    *)

\* An iteration as _iterate opens it: nothing of it measured yet.
Attempted(feedback, input) ==
  [received |-> feedback, input |-> input, agent |-> "unset", actuator |-> Unset,
   scope |-> Unset, quick |-> Unset, observed |-> Unset, full |-> Unset,
   full_state |-> Unset, review |-> Unset, feedback |-> Unset]

Go(location) == pc' = location /\ UNCHANGED ending

\* An exception leaving the code at pc: through the finally of _iterate, then to
\* the handler of run() that its kind selects.
End(end) ==
  /\ ending' = end
  /\ pc' = IF pc \in InIteration THEN "keeping" ELSE IF end = Failed THEN "aborting" ELSE "closing"

Log(events) == journal' = journal \o events

\* RunRecord.persist, after the assignments of the action it is part of.
Persist ==
  evidence' = [decision |-> Running, baseline |-> baseline',
               iterations |-> IF attempt' = Unset THEN iterations' ELSE Append(iterations', attempt')]

Name(gate) == Constitution[gate].name

GateEvents(occasion, measured) ==
  [k \in DOMAIN measured |->
     <<"gate.finished", occasion, Name(measured[k].gate), Passed(measured[k])>>]

-----------------------------------------------------------------------------
(* Before the candidate.                                                     *)

VerifyControlInputs ==
  /\ pc = "prepared"
  /\ IF source.clean THEN Go("verified") ELSE End(Rejected({<<"source", "not clean">>}))
  /\ UNCHANGED <<world, memory, disk>>

\* The environment is declared, frozen and resolved; a shared one is installed
\* now, and one installed per tree must already be there for a baseline gate
\* that measures through it.
FreezeExecutionEnvironment ==
  /\ pc = "verified"
  /\ \/ /\ Provider = "none"
        /\ Go("baseline")
        /\ UNCHANGED <<journal, evidence>>
     \/ /\ Provider # "none"
        /\ Log(<<<<"environment.validated", FALSE>>>>)
        /\ End(Rejected({<<"environment", "unresolved">>}))
        /\ UNCHANGED evidence
     \/ /\ Provider # "none"
        /\ Log(<<<<"environment.validated", TRUE>>>>)
        /\ UNCHANGED <<baseline, attempt, iterations>> /\ Persist
        /\ \/ Go(IF Provider = "shared" THEN "installing" ELSE "baseline")
           \/ /\ Provider = "candidate"
              /\ \E g \in GatesOf("baseline") : Constitution[g].task
              /\ End(Rejected({<<"environment", "not installed">>}))
  /\ UNCHANGED <<world, memory, patch>>

\* _install: a provider that could not run leaves no candidate environment on
\* the record; one that ran and failed, or created nothing, leaves its account.
Install ==
  /\ \/ pc = "installing"
     \/ pc = "cloned" /\ Provider = "candidate"
  /\ Log(<<<<"environment.prepared">>>>)
  /\ UNCHANGED <<results, scope, outcome, baseline, attempt, iterations, world, patch>>
  /\ \/ /\ UNCHANGED <<installed, evidence>>
        /\ End(Rejected({<<"environment", "not installed">>}))
     \/ /\ installed' = TRUE
        /\ Persist
        /\ \/ Go(IF pc = "installing" THEN "baseline" ELSE "iterating")
           \/ End(Rejected({<<"environment", "not installed">>}))

\* A broken sensor first: no gate is ever reported as both broken and failing.
JudgeBaseline ==
  IF SensorFaults(results) # {} THEN End(Rejected(SensorFaults(results)))
  ELSE IF ~AllPassed(results) THEN End(Rejected({<<"baseline", "failed">>}))
  ELSE IF ~source.clean THEN End(Rejected({<<"baseline", "mutated the source">>}))
  ELSE Go("measured")

\* measure_baseline, once every baseline gate was measured: the baseline is on
\* the record before anything is concluded from it.
FinishBaseline ==
  /\ pc = "baseline" /\ Complete(results, "baseline")
  /\ baseline' = results
  /\ Log(GateEvents("baseline", results) \o <<<<"baseline.finished", AllPassed(results)>>>>)
  /\ UNCHANGED <<results, scope, outcome, installed, attempt, iterations, world, patch>>
  /\ Persist
  /\ JudgeBaseline

\* create_worktree: a shallow clone of what the source is at now.
CloneRefused == source.moved

CreateCandidate ==
  /\ pc = "measured"
  /\ UNCHANGED <<source, altered, lingering, overlooked, memory, patch>>
  /\ IF CloneRefused
     THEN End(Failed) /\ UNCHANGED <<tree, journal, evidence>>
     ELSE /\ tree' = Base
          /\ Log(<<<<"workspace.ready">>>>)
          /\ Persist
          /\ Go("cloned")

\* prepare_candidate_environment, where it does not install.
SkipInstall ==
  /\ pc = "cloned" /\ Provider # "candidate"
  /\ Go("iterating")
  /\ UNCHANGED <<world, memory, journal, patch>> /\ Persist

-----------------------------------------------------------------------------
(* Gates, on any of the three occasions.                                     *)

\* A sensor altered, or an altered one restored, by what the profile of a gate
\* should have kept from writing there.
Tamper == altered' = altered \/ ("tamper" \in Hazards /\ altered' \in BOOLEAN)

\* What a gate may do besides answering: write in the tree it measures, alter or
\* restore a sensor, leave a process behind.
SideEffects ==
  /\ IF pc = "baseline"
     THEN /\ source' = source \/ ("write" \in Hazards /\ source' = [source EXCEPT !.clean = FALSE])
          /\ UNCHANGED <<tree, lingering>>
     ELSE /\ tree' = tree \/ ("write" \in Hazards /\ tree' \in Trees)
          /\ lingering' = lingering \/ ("linger" \in Hazards /\ lingering' = TRUE)
          /\ UNCHANGED source
  /\ Tamper
  /\ UNCHANGED overlooked

RunGate ==
  /\ pc \in Occasions
  /\ \E g \in NextGate(results, pc) :
       \E r \in Measurements(g) : results' = Append(results, r)
  /\ SideEffects
  /\ UNCHANGED <<pc, ending, scope, outcome, installed, baseline, attempt, iterations, disk>>

\* ObservationPathError: the location a document is written in is refused, or
\* cannot be removed.  What the phase measured so far is dropped.
RefuseObservation ==
  /\ pc \in Occasions
  /\ \E g \in NextGate(results, pc) :
       /\ Constitution[g].format = "codeservo-json"
       /\ End(Rejected({<<"observation location", Name(g)>>}))
  /\ UNCHANGED <<world, memory, disk>>

-----------------------------------------------------------------------------
(* One iteration.                                                            *)

BudgetLeft == Len(iterations) < MaxIterations

\* converge: another iteration, while the budget lasts.  The attempt opens with
\* what the last one was told, and the tree as it finds it.
StartIteration ==
  /\ pc = "iterating" /\ BudgetLeft
  /\ attempt' = Attempted(outcome.feedback, tree)
  /\ Log(<<<<"actuator.started">>>>)
  /\ Go("attempted")
  /\ UNCHANGED <<world, results, scope, outcome, installed, baseline, iterations, evidence, patch>>

\* _actuate: an agent that could not run, or timed out, leaves whatever it did
\* to the tree; so does one that ran, and the tree it left is snapshotted.
Actuate ==
  /\ pc = "attempted"
  /\ tree' \in Trees
  /\ lingering' = lingering \/ ("linger" \in Hazards /\ lingering' = TRUE)
  /\ \/ /\ attempt' = [attempt EXCEPT !.agent = "error"]
        /\ End(Rejected({<<"agent", "error">>}))
        /\ UNCHANGED journal
     \/ \E exit \in {"zero", "nonzero"} :
          /\ attempt' = [attempt EXCEPT !.agent = exit, !.actuator = tree']
          /\ Log(<<<<"actuator.finished">>, <<"actuator.profile_observed">>>>)
          /\ IF exit = "zero" THEN Go("acted") ELSE End(Rejected({<<"agent", "exit code">>}))
  /\ UNCHANGED <<source, altered, overlooked, results, scope, outcome, installed, baseline,
                 iterations, evidence, patch>>

\* The scope is read before the quick gates run, and stated after them.
MeasureScope ==
  /\ pc = "acted"
  /\ scope' = (tree \in InScope)
  /\ results' = <<>>
  /\ Go("quick")
  /\ UNCHANGED <<world, outcome, installed, baseline, attempt, iterations, disk>>

FinishQuick ==
  /\ pc = "quick" /\ Complete(results, "quick")
  /\ Log(GateEvents("quick", results))
  /\ attempt' = [attempt EXCEPT !.observed = tree, !.scope = scope, !.quick = results]
  /\ Go("quick measured")
  /\ UNCHANGED <<world, results, scope, outcome, installed, baseline, iterations, evidence, patch>>

\* A control that no longer holds as the phase is concluded: a sensor altered, a
\* provider file changed, a tree that moved under the phase that measured it.
SensorTampering == IF altered THEN {<<"sensor", "altered">>} ELSE {}

ChangedEnvironment ==
  IF installed /\ tree \notin Prepared THEN {<<"environment", "changed">>} ELSE {}

Mutated(before, after) == IF before # after THEN {<<"workspace", "changed">>} ELSE {}

ControlFailures(before, after) == SensorTampering \cup ChangedEnvironment \cup Mutated(before, after)

\* _decided: the feedback is on the attempt before the iteration is left.
Decided(stage, reasons, feedback) ==
  /\ attempt' = [attempt EXCEPT !.feedback = feedback]
  /\ outcome' = [accepted |-> FALSE, reasons |-> reasons, feedback |-> feedback, stage |-> stage]
  /\ Log(<<<<"feedback.emitted", stage>>>>)
  /\ Go("keeping")

\* History, kept as the controls of a phase are read: what the sensors were then.
Conclude ==
  /\ overlooked' = (overlooked \/ altered)
  /\ UNCHANGED <<source, tree, altered, lingering>>

\* The end of _measure, then _quick_verdict.
JudgeQuick ==
  /\ pc = "quick measured"
  /\ LET faults == SensorFaults(results)
         controls == ControlFailures(attempt.actuator, attempt.observed)
         objections == (IF scope THEN {} ELSE {<<"scope", "violated">>})
                         \cup Objections(baseline, results)
     IN  \/ /\ faults # {} \/ controls # {}
            /\ End(Rejected(IF faults # {} THEN faults ELSE controls))
            /\ UNCHANGED <<attempt, outcome, journal, results>>
         \/ /\ faults = {} /\ controls = {} /\ objections # {}
            /\ Decided("quick", objections, objections)
            /\ UNCHANGED results
         \/ /\ faults = {} /\ controls = {} /\ objections = {}
            /\ results' = <<>>
            /\ Go("full")
            /\ UNCHANGED <<attempt, outcome, journal>>
  /\ Conclude
  /\ UNCHANGED <<scope, installed, baseline, iterations, evidence, patch>>

FinishFull ==
  /\ pc = "full" /\ Complete(results, "full")
  /\ attempt' = [attempt EXCEPT !.full = results, !.full_state = tree]
  /\ Log(GateEvents("full", results))
  /\ UNCHANGED <<results, scope, outcome, installed, baseline, iterations, world, patch>>
  /\ Persist
  /\ Go("full measured")

\* The end of measure_full, then the opening of the review, on the record
\* before the reviewer runs.
JudgeFull ==
  /\ pc = "full measured"
  /\ Conclude
  /\ UNCHANGED <<results, scope, installed, baseline, iterations, patch>>
  /\ LET faults == SensorFaults(results)
         controls == ControlFailures(attempt.observed, attempt.full_state)
         objections == Objections(baseline, results)
     IN  \/ /\ faults # {} \/ controls # {}
            /\ End(Rejected(IF faults # {} THEN faults ELSE controls))
            /\ UNCHANGED <<attempt, outcome, journal, evidence>>
         \/ /\ faults = {} /\ controls = {} /\ objections # {}
            /\ Decided("full", objections, objections)
            /\ UNCHANGED evidence
         \/ /\ faults = {} /\ controls = {} /\ objections = {}
            /\ attempt' = [attempt EXCEPT !.review = Asked]
            /\ Persist
            /\ Go("reviewing")
            /\ UNCHANGED <<outcome, journal>>

\* review_candidate from the reviewer's answer, then the end of _iterate: what
\* it could not settle matters only once nothing remains to correct.
Review ==
  /\ pc = "reviewing"
  /\ UNCHANGED <<world, results, scope, installed, baseline, iterations, evidence, patch>>
  /\ \/ /\ End(Rejected({<<"reviewer", "error">>}))
        /\ UNCHANGED <<attempt, outcome, journal>>
     \/ \E answer \in Reviews :
          LET faults == ReviewFaults(answer)
              reasons == ReviewReasons(answer)
              answered == [attempt EXCEPT !.review = answer]
              events == <<<<"review.finished">>, <<"review.profile_observed">>>>
          IN  \/ /\ faults # {}
                 /\ attempt' = answered
                 /\ Log(events)
                 /\ End(Rejected(reasons))
                 /\ UNCHANGED outcome
              \/ /\ faults = {} /\ reasons # {}
                 /\ attempt' = [answered EXCEPT !.feedback = ReviewFeedback(answer)]
                 /\ outcome' = [accepted |-> FALSE, reasons |-> reasons,
                                feedback |-> ReviewFeedback(answer), stage |-> "review"]
                 /\ Log(events \o <<<<"feedback.emitted", "review">>>>)
                 /\ Go("keeping")
              \/ /\ faults = {} /\ reasons = {}
                 /\ attempt' = [answered EXCEPT !.feedback = {}]
                 /\ Log(events)
                 /\ IF ReviewEscalations(answer) # {}
                    THEN End(Escalated(ReviewEscalations(answer))) /\ UNCHANGED outcome
                    ELSE /\ outcome' = [NoOutcome EXCEPT !.accepted = TRUE]
                         /\ Go("keeping")

\* RunRecord.keep.
Kept == Append(iterations, attempt)

\* The finally of _iterate, then converge or the handler of run().
KeepIteration ==
  /\ pc = "keeping"
  /\ iterations' = Kept
  /\ attempt' = Unset
  /\ UNCHANGED <<world, results, scope, outcome, installed, baseline, journal, patch>>
  /\ Persist
  /\ IF ending = Running /\ ~outcome.accepted THEN Go("iterating")
     ELSE End(IF ending = Running THEN Accepted ELSE ending)

\* A review that alone objected is a person's to settle.
Exhausted(reasons) ==
  IF outcome.stage = "review" THEN Escalated(reasons) ELSE Rejected(reasons)

\* converge, the budget spent: the last iteration's reasons beside the exhaustion.
ExhaustBudget ==
  /\ pc = "iterating" /\ ~BudgetLeft
  /\ Log(<<<<"budget.exhausted">>>>)
  /\ End(Exhausted({<<"budget", "exhausted">>} \cup outcome.reasons))
  /\ UNCHANGED <<world, memory, evidence, patch>>

-----------------------------------------------------------------------------
(* The end of the run.                                                       *)

\* RunRecord.close: the patch is taken again from the workspace, the decision
\* closes the journal, then reaches the record.
CloseJournal ==
  /\ pc = "closing"
  /\ patch' = tree
  /\ Log(<<<<"decision.recorded", ending>>, <<"run.finished", ending.status>>>>)
  /\ Go("writing")
  /\ UNCHANGED <<world, memory, evidence>>

WriteRecord ==
  /\ pc = "writing"
  /\ evidence' = [decision |-> ending, baseline |-> baseline, iterations |-> iterations]
  /\ Go("returned")
  /\ UNCHANGED <<world, memory, journal, patch>>

Abort ==
  /\ pc = "aborting"
  /\ Log(<<<<"run.aborted">>>>)
  /\ Go("raised")
  /\ UNCHANGED <<world, memory, evidence, patch>>

Controller ==
  \/ VerifyControlInputs \/ FreezeExecutionEnvironment \/ Install \/ FinishBaseline
  \/ CreateCandidate \/ SkipInstall \/ RunGate \/ RefuseObservation
  \/ StartIteration \/ Actuate \/ MeasureScope \/ FinishQuick \/ JudgeQuick
  \/ FinishFull \/ JudgeFull \/ Review \/ KeepIteration \/ ExhaustBudget
  \/ CloseJournal \/ WriteRecord \/ Abort

\* Anything else raised where the controller is: a Git operation, a sandbox that
\* could not start, the operator interrupting.  Raised by the persist of the
\* finally, it finds the attempt kept; raised by the close or the abort, it is
\* caught by nothing.
Error ==
  /\ "error" \in Hazards /\ pc \notin Ended
  /\ IF pc \in {"closing", "writing", "aborting"} THEN Go("raised") ELSE End(Failed)
  /\ IF pc = "keeping" THEN iterations' = Kept /\ attempt' = Unset
     ELSE UNCHANGED <<iterations, attempt>>
  /\ UNCHANGED <<world, results, scope, outcome, installed, baseline, disk>>

\* The operator works in the source repository until the candidate is cloned.
OperatorActs ==
  /\ "operator" \in Hazards /\ tree = Unset /\ pc \notin Ended
  /\ source' \in [clean : BOOLEAN, moved : {TRUE} \cup {source.moved}]
  /\ UNCHANGED <<pc, ending, tree, altered, lingering, overlooked, memory, disk>>

\* A process that outlived its agent or gate writes in the workspace, or reaches a
\* sensor: run_command kills the command it started, not what it left behind.
LingeringWrite ==
  /\ lingering /\ tree # Unset /\ pc \notin Ended
  /\ tree' \in Trees /\ Tamper
  /\ UNCHANGED <<pc, ending, source, lingering, overlooked, memory, disk>>

Terminated == pc \in Ended /\ UNCHANGED vars

Next == Controller \/ Error \/ OperatorActs \/ LingeringWrite \/ Terminated

\* Gates, agents and the reviewer run under a timeout, so the controller always
\* comes back to its own next step; nobody else is obliged to act.
Spec == Init /\ [][Next]_vars /\ WF_vars(Controller)
-----------------------------------------------------------------------------
\* What a reason says, of what: a control, a gate, a criterion or a severity.
Said == {"source", "environment", "baseline", "observation location", "agent", "sensor", "workspace",
         "scope", "reviewer", "budget", "sensor error", "gate failed", "ratchet broken",
         "duplicated", "missing", "criterion", "unknown", "finding", "not_verifiable", "contradicts"}

Subjects ==
  {"not clean", "unresolved", "not installed", "failed", "mutated the source", "error", "exit code",
   "altered", "changed", "violated", "exhausted"}
    \cup {Name(g) : g \in Gates} \cup Reviewed \cup Blocking
    \cup UNION {Ids(answer) : answer \in Reviews}

Reason == Said \X Subjects

Decisions == [status : {"REJECTED", "ESCALATED"}, reasons : SUBSET Reason] \cup {Accepted}

\* An iteration, as far as it got.
Attempts ==
  [received : SUBSET Reason, input : Trees, agent : {"unset", "error", "zero", "nonzero"},
   actuator : Trees \cup {Unset}, scope : BOOLEAN \cup {Unset},
   quick : Seq(Result) \cup {Unset}, observed : Trees \cup {Unset},
   full : Seq(Result) \cup {Unset}, full_state : Trees \cup {Unset},
   review : Reviews \cup {Unset, Asked}, feedback : (SUBSET Reason) \cup {Unset}]

\* No iteration is taken for one that was not begun.
ASSUME AttemptsAssumption == Unset \notin Attempts

TypeOK ==
  /\ ending \in Decisions \cup {Running, Failed}
  /\ source \in [clean : BOOLEAN, moved : BOOLEAN]
  /\ tree \in Trees \cup {Unset}
  /\ {altered, lingering, overlooked} \subseteq BOOLEAN
  /\ results \in Seq(Result) /\ scope \in BOOLEAN /\ installed \in BOOLEAN
  /\ outcome \in [accepted : BOOLEAN, reasons : SUBSET Reason, feedback : SUBSET Reason,
                  stage : {"none", "quick", "full", "review"}]
  /\ baseline \in Seq(Result) \cup {Unset}
  /\ attempt \in Attempts \cup {Unset}
  /\ attempt # Unset <=> pc \in InIteration \cup {"keeping"}
  /\ iterations \in Seq(Attempts) /\ Len(iterations) <= MaxIterations
  /\ patch \in Trees \cup {Unset}

-----------------------------------------------------------------------------
(* Safety.                                                                   *)

Final == iterations[Len(iterations)]

\* Documents a person could act on: none is unreadable, and one that was never
\* written was cut short by the timeout.
Trusted(measured) ==
  \A k \in DOMAIN measured :
    \/ measured[k].document \in {"unset", "valid"}
    \/ measured[k].document = "absent" /\ measured[k].ending = "timeout"

\* Every deterministic control of an iteration let the candidate through, and
\* the snapshots around them show one tree: the one the actuator left.
PassedEveryControl(it) ==
  /\ it.agent = "zero" /\ it.scope = TRUE
  /\ it.quick # Unset /\ Complete(it.quick, "quick")
  /\ it.full # Unset /\ Complete(it.full, "full")
  /\ AllPassed(it.quick \o it.full) /\ Trusted(it.quick \o it.full)
  /\ it.observed = it.actuator /\ it.full_state = it.actuator

\* An accepted run rests on a passing baseline and on a last iteration that
\* passed every control, with a reviewer that was asked and is fully satisfied.
AcceptedWasMeasured ==
  evidence.decision = Accepted =>
    /\ baseline # Unset /\ Complete(baseline, "baseline") /\ AllPassed(baseline)
    /\ iterations # <<>> /\ PassedEveryControl(Final)
    /\ FullySatisfied(Final.review)

\* The patch an accepted run leaves to be landed is the tree its full gates had
\* measured, though close takes it again from the workspace, and it is in scope.
LandsWhatWasMeasured ==
  evidence.decision = Accepted => patch = Final.full_state /\ patch \in InScope

\* No metric of an accepted candidate moved against its ratchet, wherever the
\* baseline and the candidate both reported it; and the candidate was measured
\* over the provider files that were prepared, so that the two are comparable.
AcceptedKeepsTheRatchets ==
  evidence.decision = Accepted =>
    /\ Provider # "none" => Final.full_state \in Prepared
    /\ \A b \in DOMAIN baseline, k \in DOMAIN (Final.quick \o Final.full) :
         LET was == baseline[b].metric
             now == (Final.quick \o Final.full)[k].metric
             gate == baseline[b].gate
         IN  (Final.quick \o Final.full)[k].gate = gate /\ was # NoMetric /\ now # NoMetric =>
               /\ Constitution[gate].ratchet = "at_most" => now <= was
               /\ Constitution[gate].ratchet = "at_least" => now >= was

\* Nothing rests on a quick or full phase concluded while a sensor was altered,
\* whoever altered it and when: no other attempt, no review, no acceptance, no
\* escalation (sensor_tampering).  What was put back before the phase ended, and
\* what is altered after the last one did, no digest shows.
NothingRestsOnAlteredSensors ==
  overlooked => ending.status \in {"REJECTED", "failed"}

\* A metric of the iteration moved against its ratchet.
Regressed(it) ==
  BrokenRatchets(baseline, it.quick) \cup BrokenRatchets(baseline, it.full) # {}

\* A candidate that every deterministic control let through and that a proper
\* review did not find fully satisfying is a person's to settle: only such a one is
\* escalated, and such a one is never rejected.
TheReviewIsSettledByAPerson ==
  /\ evidence.decision.status = "ESCALATED" =>
       /\ iterations # <<>> /\ PassedEveryControl(Final)
       /\ ReviewFaults(Final.review) = {} /\ ~FullySatisfied(Final.review)
  /\ evidence.decision.status = "REJECTED" /\ iterations # <<>> /\ PassedEveryControl(Final) =>
       \/ overlooked \/ Regressed(Final)
       \/ Final.review = Asked \/ ReviewFaults(Final.review) # {}

\* Each iteration is told exactly what the one before it was refused for, which
\* is never nothing, and starts from the tree that one was measured on.
FeedbackChain ==
  \A i \in DOMAIN iterations :
    IF i = 1 THEN iterations[i].received = {} /\ iterations[i].input = Base
    ELSE /\ iterations[i].received = iterations[i - 1].feedback
         /\ iterations[i].received # {}
         /\ iterations[i].input = iterations[i - 1].observed

\* An iteration whose every measurement can be trusted: no broken sensor, no tree
\* that moved, no provider file that changed, no failed agent, no review that
\* misreported.
Retriable(it) ==
  /\ it.agent = "zero" /\ Trusted(it.quick)
  /\ it.observed = it.actuator
  /\ Provider # "none" => it.observed \in Prepared
  /\ it.full # Unset => Trusted(it.full) /\ it.full_state = it.observed
  /\ it.review # Unset => ReviewFaults(it.review) = {}

\* No candidate is given another attempt over a measurement that cannot be trusted.
NoRetryOnABrokenControl ==
  \A i \in DOMAIN iterations :
    i < Len(iterations) \/ pc = "iterating" => Retriable(iterations[i])

\* Nothing actuates before every baseline gate passed with a readable document.
BaselineFirst ==
  tree # Unset =>
    /\ baseline # Unset /\ Complete(baseline, "baseline")
    /\ AllPassed(baseline) /\ Trusted(baseline)

\* The gate events of a phase, of a run and of a journal.
Measured(results_, occasion) == IF results_ = Unset THEN <<>> ELSE GateEvents(occasion, results_)

GatesTold(was, its) ==
  LET told[n \in 0..Len(its)] ==
        IF n = 0 THEN Measured(was, "baseline")
        ELSE told[n - 1] \o (Measured(its[n].quick, "quick") \o Measured(its[n].full, "full"))
  IN  told[Len(its)]

Selected(events, type) ==
  LET kept[n \in 0..Len(events)] ==
        IF n = 0 THEN <<>>
        ELSE IF events[n][1] = type THEN Append(kept[n - 1], events[n]) ELSE kept[n - 1]
  IN  kept[Len(events)]

\* The gate events of a journal that closed are the measurements its record
\* holds, in order, none missing and none twice; and an iteration is on the
\* record for each time the actuator was started.
JournalTellsTheRecord ==
  evidence.decision # Running =>
    /\ Selected(journal, "gate.finished") = GatesTold(evidence.baseline, evidence.iterations)
    /\ Len(Selected(journal, "actuator.started")) = Len(evidence.iterations)

\* The decision the journal closes on.
Closed == \E i \in DOMAIN journal : journal[i][1] = "run.finished"

ClosedOn ==
  IF Closed THEN (CHOOSE e \in {journal[i] : i \in DOMAIN journal} : e[1] = "decision.recorded")[2]
  ELSE Running

-----------------------------------------------------------------------------
(* Liveness, and the lifecycle the run implements.                           *)

\* Whatever gates, agents, the reviewer and the operator do, the run ends.
Terminates == <>(pc \in Ended)

\* Unless an exception strikes or the source moves, it ends on a decision the
\* record states.
ReachesADecision == <>(pc = "returned" /\ evidence.decision # Running)

Lifecycle == INSTANCE RunLifecycle WITH
  Undecided <- Running,
  stage <- IF pc \in Ended THEN "over" ELSE IF pc = "writing" THEN "decided" ELSE "open",
  closed <- ClosedOn,
  stated <- evidence.decision

\* The loop decides at most once, closes the journal first, states only that.
ImplementsLifecycle == Lifecycle!Spec
=============================================================================
