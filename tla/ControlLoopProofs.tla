-------------------------- MODULE ControlLoopProofs --------------------------
(***************************************************************************)
(* What an accepted run was measured by, for every constitution, any trees    *)
(* and answers, any budget, and whatever gates, agents, what they leave       *)
(* behind, the operator and exceptions do; then, where nothing writes in the   *)
(* candidate behind the controller, what its patch is, what each iteration was *)
(* told, what is tried again and what is left to a person; and, whatever       *)
(* happens, that a run is a RunLifecycle, that everything it keeps has its      *)
(* type, and that its journal tells what its record does.                      *)
(*                                                                           *)
(* The argument follows the attempt through its iteration: each location       *)
(* knows which controls the attempt has passed, and an exception leaves for a  *)
(* location that promises nothing.  So what is kept as the last iteration of   *)
(* an accepted run has passed them all.                                        *)
(*                                                                           *)
(* The journal and the record are written by different calls and are compared   *)
(* by what is kept of each: the gate events of the journal are, at every        *)
(* location, the results of the record followed by those of the attempt in      *)
(* flight, whatever its phase (Telltale).                                      *)
(***************************************************************************)
EXTENDS ControlLoop, CommonLemmas, SequenceTheorems, TLAPS

Early == {"prepared", "verified", "installing", "baseline"}

Measured_ == {"measured", "cloned", "iterating", "keeping"} \cup InIteration

Locations == Early \cup Measured_ \cup Ended \cup {"closing", "writing", "aborting"}

\* The fields _iterate gives an iteration.
Fields == {"received", "input", "agent", "actuator", "scope", "quick", "observed", "full",
           "full_state", "review", "feedback"}

Shape(it) == it = [field \in Fields |-> it[field]]

\* A phase that measured all of its gates, every one of them passing.
Sound(measured, occasion) ==
  /\ measured \in Seq(Result) /\ Complete(measured, occasion)
  /\ AllPassed(measured) /\ Trusted(measured)

QuickPassed(it) ==
  /\ it.agent = "zero" /\ it.scope = TRUE
  /\ Sound(it.quick, "quick") /\ it.observed = it.actuator

FullPassed(it) == QuickPassed(it) /\ Sound(it.full, "full") /\ it.full_state = it.actuator

AcceptedRun ==
  /\ Sound(baseline, "baseline")
  /\ Len(iterations) > 0 /\ FullPassed(Final) /\ FullySatisfied(Final.review)

Types ==
  /\ results \in Seq(Result) /\ \E S : iterations \in Seq(S)
  /\ scope \in BOOLEAN /\ outcome.accepted \in BOOLEAN

\* There is no candidate before a sound baseline.
Grounded ==
  /\ pc \in Locations
  /\ pc \in Early => tree = Unset
  /\ pc \in Measured_ \/ tree # Unset => Sound(baseline, "baseline")

\* What the attempt has passed, by where the controller is.
Passing ==
  /\ pc \in InIteration \cup {"keeping"} => Shape(attempt)
  /\ pc \in {"acted", "quick"} => attempt.agent = "zero"
  /\ pc = "quick measured" =>
       /\ attempt.agent = "zero" /\ attempt.scope = scope
       /\ attempt.quick = results /\ Complete(results, "quick")
  /\ pc = "full" => QuickPassed(attempt)
  /\ pc = "full measured" =>
       QuickPassed(attempt) /\ attempt.full = results /\ Complete(results, "full")
  /\ pc = "reviewing" => FullPassed(attempt)
  /\ pc = "keeping" /\ ending = Running /\ outcome.accepted = TRUE =>
       FullPassed(attempt) /\ FullySatisfied(attempt.review)

\* How the run is ending.
Ending ==
  /\ pc \in Early \cup {"measured", "cloned", "iterating"} \cup InIteration =>
       ending = Running /\ outcome.accepted = FALSE
  /\ ending = Accepted => pc \in {"closing", "writing"} \cup Ended /\ AcceptedRun
  /\ evidence.decision = Accepted => pc = "returned" /\ ending = Accepted

Inv == Types /\ Grounded /\ Passing /\ Ending

-----------------------------------------------------------------------------
(* Iterations, field by field.                                               *)

LEMMA Opened ==
  ASSUME NEW feedback, NEW input
  PROVE  Shape(Attempted(feedback, input))
  BY DEF Shape, Fields, Attempted

LEMMA Told ==
  ASSUME NEW it, Shape(it), NEW feedback, NEW now, now = [it EXCEPT !.feedback = feedback]
  PROVE  Shape(now) /\ (FullPassed(it) => FullPassed(now)) /\ now.review = it.review
<1>1. /\ Shape(now) /\ now.review = it.review
      /\ now.agent = it.agent /\ now.scope = it.scope /\ now.quick = it.quick
      /\ now.observed = it.observed /\ now.actuator = it.actuator
      /\ now.full = it.full /\ now.full_state = it.full_state
  BY DEF Shape, Fields
<1> QED
  BY <1>1 DEF QuickPassed, FullPassed

LEMMA Answered ==
  ASSUME NEW it, Shape(it), NEW answer, NEW now, now = [it EXCEPT !.review = answer]
  PROVE  Shape(now) /\ (FullPassed(it) => FullPassed(now)) /\ now.review = answer
<1>1. /\ Shape(now) /\ now.review = answer
      /\ now.agent = it.agent /\ now.scope = it.scope /\ now.quick = it.quick
      /\ now.observed = it.observed /\ now.actuator = it.actuator
      /\ now.full = it.full /\ now.full_state = it.full_state
  BY DEF Shape, Fields
<1> QED
  BY <1>1 DEF QuickPassed, FullPassed

-----------------------------------------------------------------------------
(* What is concluded from nothing being found.                               *)

LEMMA NoFaults ==
  ASSUME NEW measured, SensorFaults(measured) = {}
  PROVE  Trusted(measured)
  BY DEF SensorFaults, Trusted

LEMMA NoObjections ==
  ASSUME NEW was, NEW measured, Objections(was, measured) = {}
  PROVE  AllPassed(measured)
  BY DEF Objections, Failures, AllPassed

LEMMA NoControls ==
  ASSUME NEW before, NEW after, ControlFailures(before, after) = {}
  PROVE  ~altered /\ before = after
  BY DEF ControlFailures, SensorTampering, Mutated

\* What was measured in two phases was measured in one of them.
LEMMA EitherPhase ==
  ASSUME NEW quick, NEW full, quick \in Seq(Result), full \in Seq(Result),
         NEW k \in DOMAIN (quick \o full)
  PROVE  \E measured \in {quick, full} : \E j \in DOMAIN measured :
           (quick \o full)[k] = measured[j]
<1>1. \/ k \in DOMAIN quick /\ (quick \o full)[k] = quick[k]
      \/ k - Len(quick) \in DOMAIN full /\ (quick \o full)[k] = full[k - Len(quick)]
  BY ConcatProperties, LenProperties
<1> QED
  BY <1>1

\* So what holds of the gates of each holds of them one after the other.
LEMMA BothPhases ==
  ASSUME NEW quick, NEW full, quick \in Seq(Result), full \in Seq(Result),
         AllPassed(quick), AllPassed(full), Trusted(quick), Trusted(full)
  PROVE  AllPassed(quick \o full) /\ Trusted(quick \o full)
  BY EitherPhase DEF AllPassed, Trusted

LEMMA Distinct ==
  /\ Running # Accepted /\ Failed \notin {Running, Accepted}
  /\ \A reasons : Rejected(reasons) \notin {Running, Accepted}
  /\ \A reasons : Escalated(reasons) \notin {Running, Accepted}
  BY DEF Running, Accepted, Failed, Rejected, Escalated

LEMMA Persisted ==
  ASSUME Persist
  PROVE  evidence'.decision # Accepted
  BY Distinct DEF Persist

LEMMA Begins == Init => Inv
<1> SUFFICES ASSUME Init PROVE Inv
  OBVIOUS
<1>1. Types
  BY EmptySeq DEF Init, Types, NoOutcome
<1>2. pc = "prepared" /\ tree = Unset /\ ending = Running /\ outcome.accepted = FALSE
  BY DEF Init, NoOutcome
<1>3. evidence.decision = Running
  BY DEF Init
<1>4. Grounded /\ Passing
  BY <1>2 DEF Grounded, Passing, Locations, Early, Measured_, InIteration
<1>5. Ending
  BY <1>2, <1>3, Distinct DEF Ending
<1> QED
  BY <1>1, <1>4, <1>5 DEF Inv

-----------------------------------------------------------------------------
(* One lemma per kind of step.                                               *)

\* Whatever the controller does while nothing it has concluded changes.
LEMMA Stays ==
  ASSUME Inv, UNCHANGED <<pc, ending, results, scope, outcome, baseline, attempt,
                          iterations>>,
         tree' = tree \/ tree # Unset, evidence' = evidence
  PROVE  Inv'
<1>1. Types'
  BY DEF Inv, Types
<1>2. Grounded'
  BY DEF Inv, Grounded
<1>3. Passing'
  BY DEF Inv, Passing
<1>4. Ending'
  BY DEF Inv, Ending, AcceptedRun, Final
<1> QED
  BY <1>1, <1>2, <1>3, <1>4 DEF Inv

\* An exception leaving the code at pc, other than the accepted end of converge.
LEMMA Leaves ==
  ASSUME Inv, NEW end, End(end), end \notin {Running, Accepted},
         pc \notin Ended, evidence'.decision # Accepted, Types',
         pc \in InIteration => Shape(attempt'),
         pc \in Early => tree' = Unset,
         tree' # Unset => Sound(baseline, "baseline"),
         baseline' = baseline \/ pc = "baseline"
  PROVE  Inv'
<1>1. /\ ending' = end /\ pc' \in {"keeping", "aborting", "closing"}
      /\ pc' = "keeping" <=> pc \in InIteration
  BY DEF End, InIteration
<1>2. Grounded'
  BY <1>1 DEF Inv, Grounded, Locations, Early, Measured_, InIteration
<1>3. Passing'
  BY <1>1 DEF Passing, InIteration
<1>4. Ending'
  BY <1>1 DEF Ending, Early, InIteration
<1> QED
  BY <1>2, <1>3, <1>4 DEF Inv

\* Where the candidate and the baseline are left as they are.
LEMMA LeavesAsIs ==
  ASSUME Inv, NEW end, End(end), end \notin {Running, Accepted},
         pc \notin Ended, evidence'.decision # Accepted, Types',
         pc \in InIteration => Shape(attempt'),
         tree' = tree, baseline' = baseline
  PROVE  Inv'
  BY Leaves DEF Inv, Grounded

\* What the record states while the controller is not over.
LEMMA NotStated ==
  ASSUME Inv, pc \notin Ended
  PROVE  evidence.decision # Accepted
  BY DEF Inv, Ending, Ended

LEMMA Verifies ==
  ASSUME Inv, VerifyControlInputs
  PROVE  Inv'
<1>1. pc = "prepared" /\ pc \notin Ended /\ pc \notin InIteration
  BY DEF VerifyControlInputs, Ended, InIteration
<1>2. UNCHANGED <<tree, results, scope, outcome, baseline, attempt, iterations, evidence>>
  BY DEF VerifyControlInputs, world, memory, disk
<1>3. Types'
  BY <1>2 DEF Inv, Types
<1>4. ASSUME Go("verified") PROVE Inv'
  <2>1. Grounded' /\ Passing'
    BY <1>1, <1>2, <1>4 DEF Go, Inv, Grounded, Passing, Locations, Early, Measured_, InIteration
  <2>2. Ending'
    BY <1>1, <1>2, <1>4, Distinct, NotStated DEF Go, Inv, Ending, Early
  <2> QED
    BY <1>3, <2>1, <2>2 DEF Inv
<1>5. CASE End(Rejected({<<"source", "not clean">>}))
  BY <1>1, <1>2, <1>3, <1>5, Distinct, NotStated, LeavesAsIs
<1> QED
  BY <1>4, <1>5 DEF VerifyControlInputs

LEMMA Freezes ==
  ASSUME Inv, FreezeExecutionEnvironment
  PROVE  Inv'
<1>1. pc = "verified" /\ pc \notin Ended /\ pc \notin InIteration
  BY DEF FreezeExecutionEnvironment, Ended, InIteration
<1>2. UNCHANGED <<tree, results, scope, outcome, baseline, attempt, iterations>>
  BY DEF FreezeExecutionEnvironment, world, memory
<1>3. Types'
  BY <1>2 DEF Inv, Types
<1>4. evidence'.decision # Accepted
  BY <1>1, NotStated, Persisted DEF FreezeExecutionEnvironment
<1>5. ASSUME NEW next \in {"installing", "baseline"}, Go(next) PROVE Inv'
  <2>1. Grounded' /\ Passing'
    BY <1>1, <1>2, <1>5 DEF Go, Inv, Grounded, Passing, Locations, Early, Measured_, InIteration
  <2>2. Ending'
    BY <1>1, <1>2, <1>4, <1>5, Distinct DEF Go, Inv, Ending, Early
  <2> QED
    BY <1>3, <2>1, <2>2 DEF Inv
<1>6. ASSUME NEW reason, End(Rejected(reason)) PROVE Inv'
  BY <1>1, <1>2, <1>3, <1>4, <1>6, Distinct, LeavesAsIs
<1> QED
  BY <1>5, <1>6 DEF FreezeExecutionEnvironment

LEMMA Installs ==
  ASSUME Inv, Install
  PROVE  Inv'
<1>1. pc \in {"installing", "cloned"} /\ pc \notin Ended /\ pc \notin InIteration
  BY DEF Install, Ended, InIteration
<1>2. UNCHANGED <<tree, results, scope, outcome, baseline, attempt, iterations>>
  BY DEF Install, world
<1>3. Types'
  BY <1>2 DEF Inv, Types
<1>4. evidence'.decision # Accepted
  BY <1>1, NotStated, Persisted DEF Install
<1>5. CASE Go(IF pc = "installing" THEN "baseline" ELSE "iterating")
  <2>1. Grounded' /\ Passing'
    BY <1>1, <1>2, <1>5 DEF Go, Inv, Grounded, Passing, Locations, Early, Measured_, InIteration
  <2>2. Ending'
    BY <1>1, <1>2, <1>4, <1>5, Distinct DEF Go, Inv, Ending, Early
  <2> QED
    BY <1>3, <2>1, <2>2 DEF Inv
<1>6. ASSUME NEW reason, End(Rejected(reason)) PROVE Inv'
  BY <1>1, <1>2, <1>3, <1>4, <1>6, Distinct, LeavesAsIs
<1> QED
  BY <1>5, <1>6 DEF Install

\* The baseline is on the record, and concluded from, only when it is sound.
LEMMA Concludes ==
  ASSUME Inv, FinishBaseline
  PROVE  Inv'
<1>1. pc = "baseline" /\ pc \notin Ended /\ pc \notin InIteration /\ pc \in Early
  BY DEF FinishBaseline, Ended, InIteration, Early
<1>2. UNCHANGED <<tree, results, scope, outcome, attempt, iterations>> /\ baseline' = results
  BY DEF FinishBaseline, world
<1>3. Types' /\ tree = Unset
  BY <1>1, <1>2 DEF Inv, Types, Grounded
<1>4. evidence'.decision # Accepted
  BY Persisted DEF FinishBaseline
<1>5. ASSUME Go("measured"), SensorFaults(results) = {}, AllPassed(results) PROVE Inv'
  <2>1. Sound(results, "baseline")
    BY <1>5, NoFaults DEF Inv, Types, Sound, FinishBaseline
  <2>2. Grounded' /\ Passing'
    BY <1>1, <1>2, <1>3, <1>5, <2>1
    DEF Go, Grounded, Passing, Locations, Early, Measured_, InIteration
  <2>3. Ending'
    BY <1>1, <1>2, <1>4, <1>5, Distinct DEF Go, Inv, Ending, Early
  <2> QED
    BY <1>3, <2>2, <2>3 DEF Inv
<1>6. ASSUME NEW reason, End(Rejected(reason)) PROVE Inv'
  BY <1>1, <1>2, <1>3, <1>4, <1>6, Distinct, Leaves
<1> QED
  BY <1>5, <1>6 DEF FinishBaseline, JudgeBaseline

LEMMA Clones ==
  ASSUME Inv, CreateCandidate
  PROVE  Inv'
<1>1. pc = "measured" /\ pc \notin Ended /\ pc \notin InIteration
  BY DEF CreateCandidate, Ended, InIteration
<1>2. UNCHANGED <<results, scope, outcome, baseline, attempt, iterations>>
  BY DEF CreateCandidate, memory
<1>3. Types'
  BY <1>2 DEF Inv, Types
<1>4. evidence'.decision # Accepted
  BY <1>1, NotStated, Persisted DEF CreateCandidate
<1>5. ASSUME Go("cloned") PROVE Inv'
  <2>1. Grounded' /\ Passing'
    BY <1>1, <1>2, <1>5 DEF Go, Inv, Grounded, Passing, Locations, Early, Measured_, InIteration
  <2>2. Ending'
    BY <1>1, <1>2, <1>4, <1>5, Distinct DEF Go, Inv, Ending, Early
  <2> QED
    BY <1>3, <2>1, <2>2 DEF Inv
<1>6. ASSUME End(Failed), tree' = tree PROVE Inv'
  BY <1>1, <1>2, <1>3, <1>4, <1>6, Distinct, LeavesAsIs
<1> QED
  BY <1>5, <1>6 DEF CreateCandidate

LEMMA Skips ==
  ASSUME Inv, SkipInstall
  PROVE  Inv'
<1>1. pc = "cloned" /\ Go("iterating") /\ evidence'.decision # Accepted
  BY Persisted DEF SkipInstall
<1>2. UNCHANGED <<tree, results, scope, outcome, baseline, attempt, iterations>>
  BY DEF SkipInstall, world, memory
<1>3. Types'
  BY <1>2 DEF Inv, Types
<1>4. Grounded' /\ Passing'
  BY <1>1, <1>2 DEF Go, Inv, Grounded, Passing, Locations, Early, Measured_, InIteration
<1>5. Ending'
  BY <1>1, <1>2, Distinct DEF Go, Inv, Ending, Early
<1> QED
  BY <1>3, <1>4, <1>5 DEF Inv

\* A gate adds a measurement, and disturbs what nothing has been concluded from.
LEMMA Measures ==
  ASSUME Inv, RunGate
  PROVE  Inv'
<1>1. pc \in {"baseline", "quick", "full"}
  BY DEF RunGate, Occasions
<1>2. /\ UNCHANGED <<pc, ending, scope, outcome, baseline, attempt, iterations, evidence>>
      /\ pc = "baseline" => tree' = tree
  BY DEF RunGate, SideEffects, disk
<1>3. results' \in Seq(Result)
  BY AppendProperties DEF RunGate, Inv, Types, Measurements
<1>4. Types'
  BY <1>2, <1>3 DEF Inv, Types
<1>5. Grounded' /\ Passing'
  BY <1>1, <1>2 DEF Inv, Grounded, Passing, Early, Measured_, InIteration
<1>6. Ending'
  BY <1>1, <1>2 DEF Inv, Ending, InIteration, Ended, Early
<1> QED
  BY <1>4, <1>5, <1>6 DEF Inv

LEMMA Refuses ==
  ASSUME Inv, RefuseObservation
  PROVE  Inv'
<1>1. pc \in Occasions /\ pc \notin Ended
  BY DEF RefuseObservation, Occasions, Ended
<1>2. UNCHANGED <<tree, results, scope, outcome, baseline, attempt, iterations, evidence>>
  BY DEF RefuseObservation, world, memory, disk
<1>3. Types' /\ (pc \in InIteration => Shape(attempt'))
  BY <1>2 DEF Inv, Types, Passing
<1>4. PICK reason : End(Rejected(reason))
  BY DEF RefuseObservation
<1> QED
  BY <1>1, <1>2, <1>3, <1>4, Distinct, NotStated, LeavesAsIs

LEMMA Starts ==
  ASSUME Inv, StartIteration
  PROVE  Inv'
<1>1. pc = "iterating" /\ Go("attempted") /\ Shape(attempt')
  BY Opened DEF StartIteration
<1>2. UNCHANGED <<tree, results, scope, outcome, baseline, iterations, evidence>>
  BY DEF StartIteration, world
<1>3. Types'
  BY <1>2 DEF Inv, Types
<1>4. Grounded' /\ Passing'
  BY <1>1, <1>2 DEF Go, Inv, Grounded, Passing, Locations, Early, Measured_, InIteration
<1>5. Ending'
  BY <1>1, <1>2, Distinct DEF Go, Inv, Ending, Early, InIteration
<1> QED
  BY <1>3, <1>4, <1>5 DEF Inv

LEMMA Actuates ==
  ASSUME Inv, Actuate
  PROVE  Inv'
<1>1. pc = "attempted" /\ pc \notin Ended /\ pc \in InIteration /\ pc \notin Early
  BY DEF Actuate, Ended, InIteration, Early
<1>2. UNCHANGED <<results, scope, outcome, baseline, iterations, evidence>>
  BY DEF Actuate
<1>3. Types' /\ Sound(baseline, "baseline") /\ Shape(attempt)
  BY <1>1, <1>2 DEF Inv, Types, Grounded, Passing, Measured_
<1>4. Shape(attempt') /\ (Go("acted") => attempt'.agent = "zero")
  <2>1. CASE /\ attempt' = [attempt EXCEPT !.agent = "error"]
             /\ End(Rejected({<<"agent", "error">>}))
    <3>1. Shape(attempt')
      BY <1>3, <2>1 DEF Shape, Fields
    <3>2. ~Go("acted")
      BY <1>1, <2>1 DEF End, Go
    <3> QED
      BY <3>1, <3>2
  <2>2. ASSUME NEW exit \in {"zero", "nonzero"},
               attempt' = [attempt EXCEPT !.agent = exit, !.actuator = tree'],
               IF exit = "zero" THEN Go("acted") ELSE End(Rejected({<<"agent", "exit code">>}))
        PROVE  Shape(attempt') /\ (Go("acted") => attempt'.agent = "zero")
    <3>1. Shape(attempt') /\ attempt'.agent = exit
      BY <1>3, <2>2 DEF Shape, Fields
    <3>2. exit = "zero" \/ ~Go("acted")
      BY <1>1, <2>2 DEF End, Go
    <3> QED
      BY <3>1, <3>2
  <2> QED
    BY <2>1, <2>2 DEF Actuate
<1>5. CASE Go("acted")
  <2>1. Grounded' /\ Passing'
    BY <1>1, <1>2, <1>3, <1>4, <1>5
    DEF Go, Inv, Grounded, Passing, Locations, Early, Measured_, InIteration
  <2>2. Ending'
    BY <1>1, <1>2, <1>5, Distinct DEF Go, Inv, Ending, Early, InIteration
  <2> QED
    BY <1>3, <2>1, <2>2 DEF Inv
<1>6. ASSUME NEW reason, End(Rejected(reason)) PROVE Inv'
  BY <1>1, <1>2, <1>3, <1>4, <1>6, Distinct, NotStated, Leaves
<1> QED
  BY <1>5, <1>6 DEF Actuate

LEMMA ReadsScope ==
  ASSUME Inv, MeasureScope
  PROVE  Inv'
<1>1. /\ pc = "acted" /\ Go("quick") /\ results' = <<>> /\ scope' \in BOOLEAN
      /\ UNCHANGED <<tree, outcome, baseline, attempt, iterations, evidence>>
  BY DEF MeasureScope, world, disk
<1>2. Types'
  BY <1>1, EmptySeq DEF Inv, Types
<1>3. Grounded' /\ Passing'
  BY <1>1 DEF Go, Inv, Grounded, Passing, Locations, Early, Measured_, InIteration
<1>4. Ending'
  BY <1>1, Distinct DEF Go, Inv, Ending, Early, InIteration
<1> QED
  BY <1>2, <1>3, <1>4 DEF Inv

LEMMA FinishesQuick ==
  ASSUME Inv, FinishQuick
  PROVE  Inv'
<1>1. /\ pc = "quick" /\ Go("quick measured") /\ Complete(results, "quick")
      /\ attempt' = [attempt EXCEPT !.observed = tree, !.scope = scope, !.quick = results]
      /\ UNCHANGED <<tree, results, scope, outcome, baseline, iterations, evidence>>
  BY DEF FinishQuick, world
<1>2. Shape(attempt) /\ attempt.agent = "zero"
  BY <1>1 DEF Inv, Passing, InIteration
<1>3. Shape(attempt') /\ attempt'.agent = "zero" /\ attempt'.scope = scope /\ attempt'.quick = results
  BY <1>1, <1>2 DEF Shape, Fields
<1>4. Types'
  BY <1>1 DEF Inv, Types
<1>5. Passing'
  BY <1>1, <1>3 DEF Go, Passing, InIteration
<1>6. Grounded'
  BY <1>1 DEF Go, Inv, Grounded, Locations, Early, Measured_, InIteration
<1>7. Ending'
  BY <1>1, Distinct DEF Go, Inv, Ending, Early, InIteration
<1> QED
  BY <1>4, <1>5, <1>6, <1>7 DEF Inv

\* What leaves an iteration undecided for the run: the attempt is kept for the next.
LEMMA Feeds ==
  ASSUME Inv, NEW stage, NEW reasons, NEW feedback, Decided(stage, reasons, feedback),
         pc \in InIteration,
         UNCHANGED <<tree, results, scope, baseline, iterations, evidence>>
  PROVE  Inv'
<1>1. /\ pc' = "keeping" /\ ending' = ending /\ outcome'.accepted = FALSE
      /\ attempt' = [attempt EXCEPT !.feedback = feedback] /\ Shape(attempt)
  BY DEF Decided, Go, Inv, Passing
<1>2. Shape(attempt')
  BY <1>1, Told
<1>3. Types'
  BY <1>1 DEF Inv, Types
<1>4. Grounded' /\ Passing'
  BY <1>1, <1>2 DEF Inv, Grounded, Passing, Locations, Early, Measured_, InIteration
<1>5. Ending'
  BY <1>1, Distinct DEF Inv, Ending, Early, InIteration, Ended
<1> QED
  BY <1>3, <1>4, <1>5 DEF Inv

LEMMA JudgesQuick ==
  ASSUME Inv, JudgeQuick
  PROVE  Inv'
<1>1. pc = "quick measured" /\ pc \in InIteration /\ pc \notin Ended
  BY DEF JudgeQuick, InIteration, Ended
<1>2. UNCHANGED <<tree, scope, baseline, iterations, evidence>>
  BY DEF JudgeQuick, Conclude
<1>3. /\ Shape(attempt) /\ attempt.agent = "zero" /\ attempt.scope = scope
      /\ attempt.quick = results /\ Complete(results, "quick")
      /\ results \in Seq(Result) /\ scope \in BOOLEAN
  BY <1>1 DEF Inv, Passing, Types
<1>4. ASSUME NEW reason, End(Rejected(reason)), UNCHANGED <<attempt, outcome, journal, results>>
      PROVE  Inv'
  <2>1. Types'
    BY <1>2, <1>4 DEF Inv, Types
  <2> QED
    BY <1>1, <1>2, <1>3, <1>4, <2>1, Distinct, NotStated, LeavesAsIs
<1>5. ASSUME NEW objections, Decided("quick", objections, objections), results' = results
      PROVE  Inv'
  BY <1>1, <1>2, <1>5, Feeds
<1>6. ASSUME SensorFaults(results) = {}, ControlFailures(attempt.actuator, attempt.observed) = {},
             scope, Objections(baseline, results) = {},
             results' = <<>>, Go("full"), UNCHANGED <<attempt, outcome, journal>>
      PROVE  Inv'
  <2>1. AllPassed(results) /\ Trusted(results) /\ attempt.observed = attempt.actuator
    BY <1>6, NoFaults, NoObjections, NoControls
  <2>2. QuickPassed(attempt)
    BY <1>3, <1>6, <2>1 DEF QuickPassed, Sound
  <2>3. Types'
    BY <1>2, <1>6, EmptySeq DEF Inv, Types
  <2>4. Grounded' /\ Passing'
    BY <1>1, <1>2, <1>3, <1>6, <2>2
    DEF Go, Inv, Grounded, Passing, Locations, Early, Measured_, InIteration
  <2>5. Ending'
    BY <1>1, <1>2, <1>6, Distinct DEF Go, Inv, Ending, Early, InIteration
  <2> QED
    BY <2>3, <2>4, <2>5 DEF Inv
<1> QED
  BY <1>4, <1>5, <1>6 DEF JudgeQuick

LEMMA FinishesFull ==
  ASSUME Inv, FinishFull
  PROVE  Inv'
<1>1. /\ pc = "full" /\ Go("full measured") /\ Complete(results, "full")
      /\ attempt' = [attempt EXCEPT !.full = results, !.full_state = tree]
      /\ UNCHANGED <<tree, results, scope, outcome, baseline, iterations>>
      /\ evidence'.decision # Accepted
  BY Persisted DEF FinishFull, world
<1>2. Shape(attempt) /\ QuickPassed(attempt)
  BY <1>1 DEF Inv, Passing, InIteration
<1>3. Shape(attempt') /\ QuickPassed(attempt') /\ attempt'.full = results
  <2>1. /\ Shape(attempt') /\ attempt'.full = results
        /\ attempt'.agent = attempt.agent /\ attempt'.scope = attempt.scope
        /\ attempt'.quick = attempt.quick /\ attempt'.observed = attempt.observed
        /\ attempt'.actuator = attempt.actuator
    BY <1>1, <1>2 DEF Shape, Fields
  <2> QED
    BY <1>2, <2>1 DEF QuickPassed
<1>4. Types'
  BY <1>1 DEF Inv, Types
<1>5. Passing'
  BY <1>1, <1>3 DEF Go, Passing, InIteration
<1>6. Grounded'
  BY <1>1 DEF Go, Inv, Grounded, Locations, Early, Measured_, InIteration
<1>7. Ending'
  BY <1>1, Distinct DEF Go, Inv, Ending, Early, InIteration
<1> QED
  BY <1>4, <1>5, <1>6, <1>7 DEF Inv

LEMMA JudgesFull ==
  ASSUME Inv, JudgeFull
  PROVE  Inv'
<1>1. pc = "full measured" /\ pc \in InIteration /\ pc \notin Ended
  BY DEF JudgeFull, InIteration, Ended
<1>2. UNCHANGED <<tree, results, scope, baseline, iterations>>
  BY DEF JudgeFull, Conclude
<1>3. /\ Shape(attempt) /\ QuickPassed(attempt)
      /\ attempt.full = results /\ Complete(results, "full") /\ results \in Seq(Result)
  BY <1>1 DEF Inv, Passing, Types
<1>4. ASSUME NEW reason, End(Rejected(reason)), UNCHANGED <<attempt, outcome, journal, evidence>>
      PROVE  Inv'
  <2>1. Types'
    BY <1>2, <1>4 DEF Inv, Types
  <2> QED
    BY <1>1, <1>2, <1>3, <1>4, <2>1, Distinct, NotStated, LeavesAsIs
<1>5. ASSUME NEW objections, Decided("full", objections, objections), evidence' = evidence
      PROVE  Inv'
  BY <1>1, <1>2, <1>5, Feeds
<1>6. ASSUME SensorFaults(results) = {},
             ControlFailures(attempt.observed, attempt.full_state) = {},
             Objections(baseline, results) = {},
             attempt' = [attempt EXCEPT !.review = Asked], Persist, Go("reviewing"),
             UNCHANGED <<outcome, journal>>
      PROVE  Inv'
  <2>1. /\ AllPassed(results) /\ Trusted(results)
        /\ ~altered /\ attempt.observed = attempt.full_state
    BY <1>6, NoFaults, NoObjections, NoControls
  <2>2. FullPassed(attempt)
    BY <1>3, <2>1 DEF FullPassed, QuickPassed, Sound
  <2>3. Shape(attempt') /\ FullPassed(attempt')
    BY <1>3, <1>6, <2>2, Answered
  <2>4. Types'
    BY <1>2, <1>6 DEF Inv, Types
  <2>5. Grounded' /\ Passing'
    BY <1>1, <1>2, <1>6, <2>1, <2>3
    DEF Go, Inv, Grounded, Passing, Locations, Early, Measured_, InIteration
  <2>6. Ending'
    BY <1>1, <1>2, <1>6, Persisted, Distinct DEF Go, Inv, Ending, Early, InIteration
  <2> QED
    BY <2>4, <2>5, <2>6 DEF Inv
<1> QED
  BY <1>4, <1>5, <1>6 DEF JudgeFull

\* Only an answer that satisfied everything accepts the candidate.
LEMMA Reviews_ ==
  ASSUME Inv, Review
  PROVE  Inv'
<1>1. pc = "reviewing" /\ pc \in InIteration /\ pc \notin Ended
  BY DEF Review, InIteration, Ended
<1>2. UNCHANGED <<tree, results, scope, baseline, iterations, evidence>>
  BY DEF Review, world
<1>3. /\ Shape(attempt) /\ FullPassed(attempt)
      /\ ending = Running /\ outcome.accepted = FALSE
  BY <1>1 DEF Inv, Passing, Ending
<1>4. ASSUME NEW end, end \notin {Running, Accepted}, End(end), Shape(attempt'), outcome' = outcome
      PROVE  Inv'
  <2>1. Types'
    BY <1>2, <1>4 DEF Inv, Types
  <2> QED
    BY <1>1, <1>2, <1>4, <2>1, NotStated, LeavesAsIs
<1>5. ASSUME Go("keeping"), Shape(attempt'),
             outcome'.accepted = FALSE
               \/ /\ outcome'.accepted = TRUE
                  /\ FullPassed(attempt') /\ FullySatisfied(attempt'.review)
      PROVE  Inv'
  <2>1. Types'
    BY <1>2, <1>5 DEF Inv, Types
  <2>2. Grounded' /\ Passing'
    BY <1>1, <1>2, <1>3, <1>5
    DEF Go, Inv, Grounded, Passing, Locations, Early, Measured_, InIteration
  <2>3. Ending'
    BY <1>1, <1>2, <1>3, <1>5, Distinct DEF Go, Inv, Ending, Early, InIteration, Ended
  <2> QED
    BY <2>1, <2>2, <2>3 DEF Inv
<1>6. CASE End(Rejected({<<"reviewer", "error">>})) /\ UNCHANGED <<attempt, outcome, journal>>
  BY <1>3, <1>4, <1>6, Distinct
<1>7. ASSUME NEW answer \in Reviews, NEW answered, answered = [attempt EXCEPT !.review = answer]
      PROVE  Shape(answered) /\ FullPassed(answered) /\ answered.review = answer
  BY <1>3, <1>7, Answered
<1>8. ASSUME NEW answer \in Reviews, NEW reasons,
             attempt' = [attempt EXCEPT !.review = answer], End(Rejected(reasons)), outcome' = outcome
      PROVE  Inv'
  BY <1>4, <1>7, <1>8, Distinct
<1>9. ASSUME NEW answer \in Reviews, NEW answered, answered = [attempt EXCEPT !.review = answer],
             NEW feedback, attempt' = [answered EXCEPT !.feedback = feedback]
      PROVE  Shape(attempt') /\ FullPassed(attempt') /\ attempt'.review = answer
  <2>1. Shape(answered) /\ FullPassed(answered) /\ answered.review = answer
    BY <1>7, <1>9
  <2> QED
    BY <1>9, <2>1, Told
<1>10. ASSUME NEW answer \in Reviews, ReviewReasons(answer) = {},
              Shape(attempt'), FullPassed(attempt'), attempt'.review = answer,
              IF ReviewEscalations(answer) # {}
              THEN End(Escalated(ReviewEscalations(answer))) /\ UNCHANGED outcome
              ELSE outcome' = [NoOutcome EXCEPT !.accepted = TRUE] /\ Go("keeping")
       PROVE  Inv'
  <2>1. CASE ReviewEscalations(answer) # {}
    BY <1>4, <1>10, <2>1, Distinct
  <2>2. CASE ReviewEscalations(answer) = {}
    <3>1. Listed(answer)
      BY ReviewsAssumption DEF Listed
    <3>2. FullySatisfied(answer)
      BY <1>10, <2>2, <3>1, SilenceSatisfied DEF SilenceMeansSatisfied
    <3>3. outcome'.accepted = TRUE
      BY <1>10, <2>2 DEF NoOutcome
    <3> QED
      BY <1>5, <1>10, <2>2, <3>2, <3>3
  <2> QED
    BY <2>1, <2>2
<1>11. ASSUME NEW answer \in Reviews, NEW reasons,
              attempt' = [[attempt EXCEPT !.review = answer]
                            EXCEPT !.feedback = ReviewFeedback(answer)],
              outcome' = [accepted |-> FALSE, reasons |-> reasons,
                          feedback |-> ReviewFeedback(answer), stage |-> "review"],
              Go("keeping")
       PROVE  Inv'
  <2>1. Shape(attempt')
    BY <1>9, <1>11
  <2> QED
    BY <1>5, <1>11, <2>1
<1>12. ASSUME NEW answer \in Reviews,
              attempt' = [[attempt EXCEPT !.review = answer] EXCEPT !.feedback = {}],
              ReviewReasons(answer) = {},
              IF ReviewEscalations(answer) # {}
              THEN End(Escalated(ReviewEscalations(answer))) /\ UNCHANGED outcome
              ELSE outcome' = [NoOutcome EXCEPT !.accepted = TRUE] /\ Go("keeping")
       PROVE  Inv'
  <2>1. Shape(attempt') /\ FullPassed(attempt') /\ attempt'.review = answer
    BY <1>9, <1>12
  <2> QED
    BY <1>10, <1>12, <2>1
<1> QED
  BY <1>6, <1>8, <1>11, <1>12 DEF Review

\* What the finally of _iterate keeps is the last iteration.
LEMMA Keeps ==
  ASSUME Inv, Kept = iterations'
  PROVE  /\ \E S : iterations' \in Seq(S)
         /\ Len(iterations') > 0 /\ Final' = attempt
<1>1. PICK S : iterations \in Seq(S)
  BY DEF Inv, Types
<1>2. iterations \in Seq(S \cup {attempt})
  BY <1>1, SeqMonotonic
<1>3. /\ iterations' \in Seq(S \cup {attempt})
      /\ Len(iterations') = Len(iterations) + 1 /\ iterations'[Len(iterations) + 1] = attempt
  BY <1>2, AppendProperties DEF Kept
<1>4. Len(iterations) \in Nat
  BY <1>1, LenProperties
<1> QED
  BY <1>3, <1>4 DEF Final

LEMMA KeepsIteration ==
  ASSUME Inv, KeepIteration
  PROVE  Inv'
<1>1. pc = "keeping" /\ pc \notin InIteration /\ pc \notin Ended /\ pc \notin Early
  BY DEF KeepIteration, InIteration, Ended, Early
<1>2. /\ UNCHANGED <<tree, results, scope, outcome, baseline>>
      /\ iterations' = Kept /\ evidence'.decision # Accepted
  BY Persisted DEF KeepIteration, world
<1>3. Types'
  BY <1>2, Keeps DEF Inv, Types
<1>4. Sound(baseline, "baseline") /\ outcome.accepted \in BOOLEAN
  BY <1>1 DEF Inv, Types, Grounded, Measured_
<1>5. ASSUME Go("iterating"), ending = Running, ~outcome.accepted PROVE Inv'
  <2>1. Grounded' /\ Passing'
    BY <1>1, <1>2, <1>4, <1>5 DEF Go, Grounded, Passing, Locations, Early, Measured_, InIteration
  <2>2. Ending'
    BY <1>2, <1>4, <1>5, Distinct DEF Go, Ending
  <2> QED
    BY <1>3, <2>1, <2>2 DEF Inv
<1>6. ASSUME ending = Running, outcome.accepted = TRUE, End(Accepted) PROVE Inv'
  <2>1. pc' = "closing" /\ ending' = Accepted
    BY <1>1, <1>6, Distinct DEF End
  <2>2. FullPassed(attempt) /\ FullySatisfied(attempt.review)
    BY <1>1, <1>6 DEF Inv, Passing
  <2>3. Len(iterations') > 0 /\ FullPassed(Final') /\ FullySatisfied(Final'.review)
    BY <1>2, <2>2, Keeps
  <2>4. AcceptedRun'
    BY <1>2, <1>4, <2>2, <2>3 DEF AcceptedRun
  <2>5. Grounded' /\ Passing'
    BY <1>2, <1>4, <2>1 DEF Grounded, Passing, Locations, Early, Measured_, InIteration
  <2>6. Ending'
    BY <1>2, <2>1, <2>4 DEF Ending, Early, InIteration
  <2> QED
    BY <1>3, <2>5, <2>6 DEF Inv
<1>7. ASSUME ending # Running, End(ending) PROVE Inv'
  <2>1. ending # Accepted
    BY <1>1 DEF Inv, Ending, Ended
  <2> QED
    BY <1>1, <1>2, <1>3, <1>7, <2>1, LeavesAsIs
<1> QED
  BY <1>4, <1>5, <1>6, <1>7 DEF KeepIteration

LEMMA Exhausts ==
  ASSUME Inv, ExhaustBudget
  PROVE  Inv'
<1>1. pc = "iterating" /\ pc \notin InIteration /\ pc \notin Ended
  BY DEF ExhaustBudget, InIteration, Ended
<1>2. UNCHANGED <<tree, results, scope, outcome, baseline, attempt, iterations, evidence>>
  BY DEF ExhaustBudget, world, memory
<1>3. Types'
  BY <1>2 DEF Inv, Types
<1>4. PICK reasons : End(Exhausted(reasons))
  BY DEF ExhaustBudget
<1>5. Exhausted(reasons) \notin {Running, Accepted}
  BY Distinct DEF Exhausted
<1> QED
  BY <1>1, <1>2, <1>3, <1>4, <1>5, NotStated, LeavesAsIs

\* The end of the run concludes nothing more.
LEMMA Closes ==
  ASSUME Inv, NEW end \in {"writing", "returned", "raised"}, Go(end),
         pc \in {"closing", "writing", "aborting"},
         UNCHANGED <<tree, results, scope, outcome, baseline, attempt, iterations>>,
         evidence' = evidence \/ (end = "returned" /\ evidence'.decision = ending),
         pc = "aborting" => end = "raised"
  PROVE  Inv'
<1>1. Types'
  BY DEF Inv, Types
<1>2. Grounded' /\ Passing'
  BY DEF Go, Inv, Grounded, Passing, Locations, Early, Measured_, InIteration, Ended
<1>3. AcceptedRun => AcceptedRun'
  BY DEF AcceptedRun, Final
<1>4. Ending'
  BY <1>3, NotStated DEF Go, Inv, Ending, Early, InIteration, Ended
<1> QED
  BY <1>1, <1>2, <1>4 DEF Inv

LEMMA Finishes ==
  ASSUME Inv, CloseJournal \/ WriteRecord \/ Abort
  PROVE  Inv'
<1>1. CASE CloseJournal
  BY <1>1, Closes DEF CloseJournal, world, memory
<1>2. CASE WriteRecord
  BY <1>2, Closes DEF WriteRecord, world, memory
<1>3. CASE Abort
  BY <1>3, Closes DEF Abort, world, memory
<1> QED
  BY <1>1, <1>2, <1>3

\* An exception concludes nothing either, wherever it strikes.
LEMMA Raises ==
  ASSUME Inv, Error
  PROVE  Inv'
<1>1. /\ UNCHANGED <<tree, results, scope, outcome, baseline, evidence>>
      /\ pc \notin Ended
  BY DEF Error, world, disk
<1>2. CASE pc \in {"closing", "writing", "aborting"}
  BY <1>1, <1>2, Closes DEF Error
<1>3. CASE pc \notin {"closing", "writing", "aborting"}
  <2>1. End(Failed)
    BY <1>3 DEF Error
  <2>2. Types'
    BY <1>1, Keeps DEF Error, Inv, Types
  <2>3. pc \in InIteration => Shape(attempt')
    BY DEF Error, Inv, Passing, InIteration
  <2> QED
    BY <1>1, <2>1, <2>2, <2>3, Distinct, NotStated, LeavesAsIs
<1> QED
  BY <1>2, <1>3

LEMMA Preserved == Inv /\ [Next]_vars => Inv'
<1> SUFFICES ASSUME Inv, [Next]_vars PROVE Inv'
  OBVIOUS
<1>1. CASE Controller
  BY <1>1, Verifies, Freezes, Installs, Concludes, Clones, Skips, Measures, Refuses, Starts,
     Actuates, ReadsScope, FinishesQuick, JudgesQuick, FinishesFull, JudgesFull, Reviews_,
     KeepsIteration, Exhausts, Finishes
  DEF Controller
<1>2. CASE Error
  BY <1>2, Raises
<1>3. CASE OperatorActs \/ LingeringWrite
  BY <1>3, Stays DEF OperatorActs, LingeringWrite, memory, disk
<1>4. CASE Terminated \/ UNCHANGED vars
  BY <1>4, Stays DEF Terminated, vars, world, memory, disk
<1> QED
  BY <1>1, <1>2, <1>3, <1>4 DEF Next

LEMMA Invariant == Spec => []Inv
  BY Begins, Preserved, PTL DEF Spec

-----------------------------------------------------------------------------
\* There is no candidate, so nothing actuates, before every baseline gate passed
\* and left a document that can be trusted.
THEOREM NoCandidateBeforeTheBaseline == Spec => []BaselineFirst
<1>1. Inv => BaselineFirst
  <2> SUFFICES ASSUME Inv, tree # Unset
               PROVE  /\ baseline # Unset /\ Complete(baseline, "baseline")
                      /\ AllPassed(baseline) /\ Trusted(baseline)
    BY DEF BaselineFirst
  <2>1. Sound(baseline, "baseline")
    BY DEF Inv, Grounded
  <2> QED
    BY <2>1, MeasuredAssumption DEF Sound
<1> QED
  BY <1>1, Invariant, PTL

\* A phase concluded over an altered sensor ends the run it is part of, and
\* whatever strikes before the run is over leaves it rejected or failed.
LEMMA OverlookedStep ==
  ASSUME Inv, NothingRestsOnAlteredSensors, [Next]_vars
  PROVE  NothingRestsOnAlteredSensors'
<1>1. /\ Failed.status = "failed" /\ Running.status = "RUNNING"
      /\ \A reasons : Rejected(reasons).status = "REJECTED"
  BY DEF Failed, Running, Rejected
<1>2. ending = Running => ~overlooked
  BY <1>1 DEF NothingRestsOnAlteredSensors
<1>3. ASSUME overlooked' = overlooked, ending' \in {ending, Failed} \/ ending = Running
      PROVE  NothingRestsOnAlteredSensors'
  BY <1>1, <1>2, <1>3 DEF NothingRestsOnAlteredSensors
<1>4. CASE JudgeQuick
  <2>1. ending = Running
    BY <1>4 DEF JudgeQuick, Inv, Ending, InIteration
  <2>2. altered => ControlFailures(attempt.actuator, attempt.observed) # {}
    BY DEF ControlFailures, SensorTampering
  <2>3. altered => \E reasons : ending' = Rejected(reasons)
    BY <1>4, <2>2 DEF JudgeQuick, End
  <2> QED
    BY <1>1, <1>2, <1>4, <2>1, <2>3 DEF JudgeQuick, Conclude, NothingRestsOnAlteredSensors
<1>5. CASE JudgeFull
  <2>1. ending = Running
    BY <1>5 DEF JudgeFull, Inv, Ending, InIteration
  <2>2. altered => ControlFailures(attempt.observed, attempt.full_state) # {}
    BY DEF ControlFailures, SensorTampering
  <2>3. altered => \E reasons : ending' = Rejected(reasons)
    BY <1>5, <2>2 DEF JudgeFull, End
  <2> QED
    BY <1>1, <1>2, <1>5, <2>1, <2>3 DEF JudgeFull, Conclude, NothingRestsOnAlteredSensors
<1>6. CASE \/ VerifyControlInputs \/ FreezeExecutionEnvironment \/ Install \/ FinishBaseline
           \/ CreateCandidate \/ SkipInstall \/ RunGate \/ RefuseObservation
           \/ StartIteration \/ Actuate \/ MeasureScope \/ FinishQuick \/ FinishFull \/ Review
           \/ ExhaustBudget
  <2>1. overlooked' = overlooked
    BY <1>6
    DEF VerifyControlInputs, FreezeExecutionEnvironment, Install, FinishBaseline, CreateCandidate,
        SkipInstall, RunGate, SideEffects, RefuseObservation, StartIteration, Actuate,
        MeasureScope, FinishQuick, FinishFull, Review, ExhaustBudget, world
  <2>2. pc \in Early \cup {"measured", "cloned", "iterating"} \cup InIteration
    BY <1>6
    DEF VerifyControlInputs, FreezeExecutionEnvironment, Install, FinishBaseline, CreateCandidate,
        SkipInstall, RunGate, RefuseObservation, StartIteration, Actuate,
        MeasureScope, FinishQuick, FinishFull, Review, ExhaustBudget, Early, InIteration, Occasions
  <2> QED
    BY <1>3, <2>1, <2>2 DEF Inv, Ending
<1>7. CASE KeepIteration
  BY <1>3, <1>7 DEF KeepIteration, End, Go, world
<1>8. CASE CloseJournal \/ WriteRecord \/ Abort
  BY <1>3, <1>8 DEF CloseJournal, WriteRecord, Abort, Go, world
<1>9. CASE Error
  BY <1>3, <1>9 DEF Error, End, Go, world
<1>10. CASE OperatorActs \/ LingeringWrite
  BY <1>3, <1>10 DEF OperatorActs, LingeringWrite
<1>11. CASE Terminated \/ UNCHANGED vars
  BY <1>3, <1>11 DEF Terminated, vars, world
<1> QED
  BY <1>4, <1>5, <1>6, <1>7, <1>8, <1>9, <1>10, <1>11 DEF Next, Controller

\* Whoever alters a sensor and whenever, gate or process left behind: if it is
\* altered as a phase is concluded, that phase is the last of its run, which is
\* rejected or fails.
THEOREM NeverOverAlteredSensors == Spec => []NothingRestsOnAlteredSensors
<1>1. Init => NothingRestsOnAlteredSensors
  BY DEF Init, NothingRestsOnAlteredSensors
<1> QED
  BY <1>1, OverlookedStep, Invariant, PTL DEF Spec

\* A run is accepted only on a passing baseline and an iteration that passed every
\* deterministic control over one tree, with a reviewer fully satisfied: whatever
\* gates, agents, what they leave behind, the operator and exceptions do.
THEOREM NothingAcceptedUnmeasured == Spec => []AcceptedWasMeasured
<1>1. Inv => AcceptedWasMeasured
  <2> SUFFICES ASSUME Inv, evidence.decision = Accepted
               PROVE  /\ baseline # Unset /\ Complete(baseline, "baseline") /\ AllPassed(baseline)
                      /\ iterations # <<>> /\ PassedEveryControl(Final)
                      /\ FullySatisfied(Final.review)
    BY DEF AcceptedWasMeasured
  <2>1. AcceptedRun
    BY DEF Inv, Ending
  <2>2. /\ Sound(baseline, "baseline") /\ Len(iterations) > 0
        /\ Sound(Final.quick, "quick") /\ Sound(Final.full, "full")
        /\ Final.agent = "zero" /\ Final.scope = TRUE
        /\ Final.observed = Final.actuator /\ Final.full_state = Final.actuator
        /\ FullySatisfied(Final.review)
    BY <2>1 DEF AcceptedRun, FullPassed, QuickPassed
  <2>3. AllPassed(Final.quick \o Final.full) /\ Trusted(Final.quick \o Final.full)
    BY <2>2, BothPhases DEF Sound
  <2>4. PassedEveryControl(Final)
    BY <2>2, <2>3, MeasuredAssumption DEF PassedEveryControl, Sound
  <2>5. iterations # <<>>
    BY <2>2, EmptySeq
  <2> QED
    BY <2>2, <2>4, <2>5, MeasuredAssumption DEF Sound
<1> QED
  BY <1>1, Invariant, PTL

-----------------------------------------------------------------------------
(* Where no process outlives what started it, the candidate is touched by the *)
(* actuator and the gates alone, so what a control was told of a tree still    *)
(* holds of it.                                                                *)

\* What an iteration is told, and the tree it starts from, after the last one.
Owed(told, start) ==
  IF Len(iterations) = 0 THEN told = {} /\ start = Base
  ELSE told = Final.feedback /\ told # {} /\ start = Final.observed

Chain ==
  /\ FeedbackChain
  /\ pc \in Early \cup {"measured", "cloned"} => Len(iterations) = 0 /\ outcome.feedback = {}
  /\ pc = "cloned" => tree = Base
  /\ pc = "iterating" => Owed(outcome.feedback, tree)
  /\ pc \in InIteration \cup {"keeping"} => Owed(attempt.received, attempt.input)
  /\ pc = "keeping" /\ ending = Running =>
       /\ tree = attempt.observed
       /\ ~outcome.accepted => outcome.feedback = attempt.feedback /\ outcome.feedback # {}

Installed ==
  /\ Provider = "shared" /\ pc \in {"baseline", "measured", "cloned"} => installed
  /\ Provider # "none" /\ pc \in {"iterating", "keeping"} \cup InIteration => installed

\* What the patch of an accepted run is compared with.
Comparable(it) ==
  /\ BrokenRatchets(baseline, it.quick) = {} /\ BrokenRatchets(baseline, it.full) = {}
  /\ Provider # "none" => it.full_state \in Prepared
  /\ tree = it.full_state /\ tree \in InScope

Still ==
  /\ ~lingering
  /\ pc = "acted" => tree = attempt.actuator
  /\ pc \in {"quick", "quick measured"} => (scope => attempt.actuator \in InScope)
  /\ pc = "quick measured" => tree = attempt.observed
  /\ pc \in {"full", "full measured", "reviewing"} =>
       attempt.actuator \in InScope /\ BrokenRatchets(baseline, attempt.quick) = {}
  /\ pc = "full measured" => tree = attempt.full_state
  /\ pc = "reviewing" => Comparable(attempt)
  /\ pc = "keeping" /\ ending = Running /\ outcome.accepted => Comparable(attempt)
  /\ ending = Accepted => Comparable(Final)
  /\ pc \in {"writing", "returned"} => patch = tree

Quiet == Chain /\ Installed /\ Still

LEMMA InstalledFirst ==
  ASSUME Installed, Next
  PROVE  Installed'
<1> USE DEF Installed, InIteration
<1>1. CASE VerifyControlInputs
  BY <1>1 DEF VerifyControlInputs, Go, End, memory
<1>2. CASE FreezeExecutionEnvironment
  BY <1>2, RequestAssumption DEF FreezeExecutionEnvironment, Go, End, memory
<1>3. CASE Install
  BY <1>3 DEF Install, Go, End
<1>4. CASE FinishBaseline
  BY <1>4 DEF FinishBaseline, JudgeBaseline, Go, End
<1>5. CASE CreateCandidate
  BY <1>5 DEF CreateCandidate, Go, End, memory
<1>6. CASE SkipInstall
  BY <1>6, RequestAssumption DEF SkipInstall, Go, memory
<1>7. CASE RunGate
  BY <1>7 DEF RunGate
<1>8. CASE RefuseObservation
  BY <1>8 DEF RefuseObservation, End, memory
<1>9. CASE StartIteration
  BY <1>9 DEF StartIteration, Go
<1>10. CASE Actuate
  BY <1>10 DEF Actuate, Go, End
<1>11. CASE MeasureScope
  BY <1>11 DEF MeasureScope, Go
<1>12. CASE FinishQuick
  BY <1>12 DEF FinishQuick, Go
<1>13. CASE JudgeQuick
  BY <1>13 DEF JudgeQuick, Decided, Go, End
<1>14. CASE FinishFull
  BY <1>14 DEF FinishFull, Go
<1>15. CASE JudgeFull
  BY <1>15 DEF JudgeFull, Decided, Go, End
<1>16. CASE Review
  BY <1>16 DEF Review, Go, End
<1>17. CASE KeepIteration
  BY <1>17 DEF KeepIteration, Go, End
<1>18. CASE ExhaustBudget
  BY <1>18 DEF ExhaustBudget, Go, End, memory
<1>19. CASE CloseJournal \/ WriteRecord \/ Abort
  BY <1>19 DEF CloseJournal, WriteRecord, Abort, Go, memory
<1>20. CASE Error
  BY <1>20 DEF Error, Go, End
<1>21. CASE OperatorActs \/ LingeringWrite \/ Terminated
  BY <1>21 DEF OperatorActs, LingeringWrite, Terminated, vars, memory
<1> QED
  BY <1>1, <1>2, <1>3, <1>4, <1>5, <1>6, <1>7, <1>8, <1>9, <1>10, <1>11, <1>12, <1>13, <1>14,
     <1>15, <1>16, <1>17, <1>18, <1>19, <1>20, <1>21
  DEF Next, Controller

-----------------------------------------------------------------------------
(* What an iteration is told, step by step.                                  *)

SameStart == attempt'.received = attempt.received /\ attempt'.input = attempt.input

LEMMA ChainLeaves ==
  ASSUME Chain, NEW end, End(end), end # Running, pc # "keeping", iterations' = iterations,
         pc \in InIteration => SameStart
  PROVE  Chain'
<1>1. /\ ending' = end /\ pc' \in {"keeping", "aborting", "closing"}
      /\ pc' = "keeping" => pc \in InIteration
  BY DEF End, InIteration
<1>2. FeedbackChain'
  BY DEF Chain, FeedbackChain
<1> QED
  BY <1>1, <1>2 DEF Chain, Owed, Final, SameStart, InIteration, Early

LEMMA ChainGoesOn ==
  ASSUME Chain, NEW next \in InIteration, Go(next), pc \in InIteration, iterations' = iterations,
         SameStart
  PROVE  Chain'
<1>1. FeedbackChain'
  BY DEF Chain, FeedbackChain
<1> QED
  BY <1>1 DEF Go, Chain, Owed, Final, SameStart, InIteration, Early

\* Before the first iteration there is nothing to tell.
LEMMA ChainOpens ==
  ASSUME Chain, NEW next \in {"verified", "installing", "baseline", "measured", "cloned"},
         Go(next), pc \in Early \cup {"measured"}, UNCHANGED <<iterations, outcome>>,
         next = "cloned" => tree' = Base
  PROVE  Chain'
<1>1. FeedbackChain'
  BY DEF Chain, FeedbackChain
<1> QED
  BY <1>1 DEF Go, Chain, InIteration, Early

LEMMA ChainBegins ==
  ASSUME Chain, Go("iterating"), pc = "cloned", UNCHANGED <<iterations, outcome, tree>>
  PROVE  Chain'
<1>1. FeedbackChain'
  BY DEF Chain, FeedbackChain
<1> QED
  BY <1>1 DEF Go, Chain, Owed, InIteration, Early

\* An iteration that objected, told what it objected to.
LEMMA ChainDecides ==
  ASSUME Inv, Chain, NEW stage, NEW objections, Decided(stage, objections, objections),
         objections # {}, pc \in InIteration, tree = attempt.observed,
         UNCHANGED <<iterations, tree>>
  PROVE  Chain'
<1>1. FeedbackChain'
  BY DEF Chain, FeedbackChain
<1>2. Shape(attempt) /\ attempt' = [attempt EXCEPT !.feedback = objections]
  BY DEF Inv, Passing, Decided
<1>3. /\ SameStart /\ attempt'.observed = attempt.observed
      /\ attempt'.feedback = objections
  BY <1>2 DEF Shape, Fields, SameStart
<1>4. pc' = "keeping" /\ outcome'.feedback = objections
  BY DEF Decided, Go
<1> QED
  BY <1>1, <1>3, <1>4 DEF Chain, Owed, Final, SameStart, InIteration, Early

\* The iteration kept is one link more, and the last.
LEMMA ChainKept ==
  ASSUME Inv, Chain, pc = "keeping", iterations' = Kept
  PROVE  FeedbackChain' /\ Len(iterations') > 0 /\ Final' = attempt
<1>1. Len(iterations') > 0 /\ Final' = attempt
  BY Keeps
<1>2. PICK S : iterations \in Seq(S)
  BY DEF Inv, Types
<1>3. iterations \in Seq(S \cup {attempt})
  BY <1>2, SeqMonotonic
<1>4. /\ Len(iterations) \in Nat /\ DOMAIN iterations = 1 .. Len(iterations)
      /\ DOMAIN iterations' = 1 .. (Len(iterations) + 1)
      /\ \A i \in 1 .. Len(iterations) : iterations'[i] = iterations[i]
      /\ iterations'[Len(iterations) + 1] = attempt
  BY <1>3, AppendProperties, LenProperties DEF Kept
<1>5. Owed(attempt.received, attempt.input)
  BY DEF Chain
<1>6. ASSUME NEW i \in DOMAIN iterations'
      PROVE  IF i = 1 THEN iterations'[i].received = {} /\ iterations'[i].input = Base
             ELSE /\ iterations'[i].received = iterations'[i - 1].feedback
                  /\ iterations'[i].received # {}
                  /\ iterations'[i].input = iterations'[i - 1].observed
  <2>1. CASE i \in DOMAIN iterations
    <3>1. i = 1 \/ i - 1 \in 1 .. Len(iterations)
      BY <1>4, <2>1
    <3> QED
      BY <1>4, <2>1, <3>1 DEF Chain, FeedbackChain
  <2>2. CASE i = Len(iterations) + 1
    <3>1. CASE Len(iterations) = 0
      BY <1>4, <1>5, <2>2, <3>1 DEF Owed
    <3>2. CASE Len(iterations) > 0
      <4>1. i # 1 /\ i - 1 = Len(iterations) /\ iterations'[i - 1] = Final
        BY <1>4, <2>2, <3>2 DEF Final
      <4> QED
        BY <1>4, <1>5, <2>2, <3>2, <4>1 DEF Owed
    <3> QED
      BY <1>4, <3>1, <3>2
  <2> QED
    BY <1>4, <1>6, <2>1, <2>2
<1>7. FeedbackChain'
  BY <1>6 DEF FeedbackChain
<1> QED
  BY <1>1, <1>7

\* A review that names no fault and objects says what it objects to.
LEMMA ObjectionsFedBack ==
  ASSUME NEW answer, ReviewFaults(answer) = {}, ReviewReasons(answer) # {}
  PROVE  ReviewFeedback(answer) # {}
  BY DEF ReviewFaults, ReviewReasons, ReviewFeedback

LEMMA ChainStep ==
  ASSUME Inv, Chain, Still, Next
  PROVE  Chain'
<1>1. CASE VerifyControlInputs
  <2>1. pc = "prepared" /\ iterations' = iterations /\ outcome' = outcome
    BY <1>1 DEF VerifyControlInputs, memory
  <2>2. Go("verified") \/ \E reason : End(Rejected(reason))
    BY <1>1 DEF VerifyControlInputs
  <2> QED
    BY <2>1, <2>2, ChainOpens, ChainLeaves, Distinct DEF Early, InIteration
<1>2. CASE FreezeExecutionEnvironment
  <2>1. pc = "verified" /\ iterations' = iterations /\ outcome' = outcome
    BY <1>2 DEF FreezeExecutionEnvironment, memory
  <2>2. Go("baseline") \/ Go("installing") \/ \E reason : End(Rejected(reason))
    BY <1>2 DEF FreezeExecutionEnvironment
  <2> QED
    BY <2>1, <2>2, ChainOpens, ChainLeaves, Distinct DEF Early, InIteration
<1>3. CASE Install
  <2>1. pc \in {"installing", "cloned"} /\ UNCHANGED <<tree, iterations, outcome>>
    BY <1>3 DEF Install, world
  <2>2. \/ Go(IF pc = "installing" THEN "baseline" ELSE "iterating")
        \/ \E reason : End(Rejected(reason))
    BY <1>3 DEF Install
  <2>3. CASE Go(IF pc = "installing" THEN "baseline" ELSE "iterating")
    <3>1. \/ pc = "installing" /\ Go("baseline")
          \/ pc = "cloned" /\ Go("iterating")
      BY <2>1, <2>3 DEF Go
    <3> QED
      BY <2>1, <3>1, ChainOpens, ChainBegins DEF Early
  <2>4. CASE \E reason : End(Rejected(reason))
    BY <2>1, <2>4, ChainLeaves, Distinct DEF InIteration
  <2> QED
    BY <2>2, <2>3, <2>4
<1>4. CASE FinishBaseline
  <2>1. pc = "baseline" /\ iterations' = iterations /\ outcome' = outcome
    BY <1>4 DEF FinishBaseline
  <2>2. Go("measured") \/ \E reason : End(Rejected(reason))
    BY <1>4 DEF FinishBaseline, JudgeBaseline
  <2> QED
    BY <2>1, <2>2, ChainOpens, ChainLeaves, Distinct DEF Early, InIteration
<1>5. CASE CreateCandidate
  <2>1. pc = "measured" /\ iterations' = iterations /\ outcome' = outcome
    BY <1>5 DEF CreateCandidate, memory
  <2>2. (Go("cloned") /\ tree' = Base) \/ End(Failed)
    BY <1>5 DEF CreateCandidate
  <2> QED
    BY <2>1, <2>2, ChainOpens, ChainLeaves, Distinct DEF Early, InIteration
<1>6. CASE SkipInstall
  BY <1>6, ChainBegins DEF SkipInstall, world, memory
<1>7. CASE RunGate
  <2>1. /\ pc \in {"baseline", "quick", "full"}
        /\ UNCHANGED <<pc, ending, outcome, attempt, iterations>>
    BY <1>7 DEF RunGate, Occasions
  <2>2. FeedbackChain'
    BY <2>1 DEF Chain, FeedbackChain
  <2> QED
    BY <2>1, <2>2 DEF Chain, Owed, Final, Early, InIteration
<1>8. CASE RefuseObservation
  <2>1. /\ pc \in {"baseline", "quick", "full"} /\ UNCHANGED <<attempt, iterations>>
        /\ \E reason : End(Rejected(reason))
    BY <1>8 DEF RefuseObservation, Occasions, memory
  <2> QED
    BY <2>1, ChainLeaves, Distinct DEF SameStart
<1>9. CASE StartIteration
  <2>1. /\ pc = "iterating" /\ pc' = "attempted" /\ iterations' = iterations
        /\ attempt'.received = outcome.feedback /\ attempt'.input = tree
    BY <1>9 DEF StartIteration, Go, Attempted
  <2>2. FeedbackChain'
    BY <2>1 DEF Chain, FeedbackChain
  <2> QED
    BY <2>1, <2>2 DEF Chain, Owed, Final, Early, InIteration
<1>10. CASE Actuate
  <2>1. /\ pc = "attempted" /\ pc \in InIteration /\ pc # "keeping" /\ iterations' = iterations
        /\ Go("acted") \/ \E reason : End(Rejected(reason))
    BY <1>10 DEF Actuate, InIteration
  <2>2. /\ Shape(attempt)
        /\ \E agent, actuator : \/ attempt' = [attempt EXCEPT !.agent = agent]
                                \/ attempt' = [attempt EXCEPT !.agent = agent, !.actuator = actuator]
    BY <1>10, <2>1 DEF Inv, Passing, Actuate
  <2>3. SameStart
    BY <2>2 DEF Shape, Fields, SameStart
  <2> QED
    BY <2>1, <2>3, ChainGoesOn, ChainLeaves, Distinct DEF InIteration
<1>11. CASE MeasureScope
  BY <1>11, ChainGoesOn DEF MeasureScope, InIteration, SameStart
<1>12. CASE FinishQuick
  <2>1. /\ pc = "quick" /\ Go("quick measured") /\ iterations' = iterations
        /\ attempt' = [attempt EXCEPT !.observed = tree, !.scope = scope, !.quick = results]
        /\ Shape(attempt)
    BY <1>12 DEF FinishQuick, Inv, Passing, InIteration
  <2>2. SameStart
    BY <2>1 DEF Shape, Fields, SameStart
  <2> QED
    BY <2>1, <2>2, ChainGoesOn DEF InIteration
<1>13. CASE JudgeQuick
  <2>1. /\ pc = "quick measured" /\ pc \in InIteration /\ UNCHANGED <<tree, iterations>>
        /\ tree = attempt.observed
    BY <1>13 DEF JudgeQuick, Conclude, InIteration, Still
  <2>2. \/ attempt' = attempt /\ \E reason : End(Rejected(reason))
        \/ \E objections : objections # {} /\ Decided("quick", objections, objections)
        \/ attempt' = attempt /\ Go("full")
    BY <1>13 DEF JudgeQuick
  <2> QED
    BY <2>1, <2>2, ChainGoesOn, ChainDecides, ChainLeaves, Distinct DEF InIteration, SameStart
<1>14. CASE FinishFull
  <2>1. /\ pc = "full" /\ Go("full measured") /\ iterations' = iterations
        /\ attempt' = [attempt EXCEPT !.full = results, !.full_state = tree]
        /\ Shape(attempt)
    BY <1>14 DEF FinishFull, Inv, Passing, InIteration
  <2>2. SameStart
    BY <2>1 DEF Shape, Fields, SameStart
  <2> QED
    BY <2>1, <2>2, ChainGoesOn DEF InIteration
<1>15. CASE JudgeFull
  <2>1. /\ pc = "full measured" /\ pc \in InIteration /\ UNCHANGED <<tree, iterations>>
        /\ tree = attempt.full_state /\ Shape(attempt)
    BY <1>15 DEF JudgeFull, Conclude, InIteration, Still, Inv, Passing
  <2>2. \/ attempt' = attempt /\ \E reason : End(Rejected(reason))
        \/ /\ ControlFailures(attempt.observed, attempt.full_state) = {}
           /\ \E objections : objections # {} /\ Decided("full", objections, objections)
        \/ attempt' = [attempt EXCEPT !.review = Asked] /\ Go("reviewing")
    BY <1>15 DEF JudgeFull
  <2>3. CASE attempt' = attempt /\ \E reason : End(Rejected(reason))
    BY <2>1, <2>3, ChainLeaves, Distinct DEF SameStart
  <2>4. ASSUME ControlFailures(attempt.observed, attempt.full_state) = {},
               NEW objections, objections # {}, Decided("full", objections, objections)
        PROVE  Chain'
    <3>1. tree = attempt.observed
      <4>1. attempt.observed = attempt.full_state
        BY <2>4, NoControls
      <4> QED
        BY <2>1, <4>1
    <3> QED
      BY <2>1, <2>4, <3>1, ChainDecides
  <2>5. CASE attempt' = [attempt EXCEPT !.review = Asked] /\ Go("reviewing")
    <3>1. SameStart
      BY <2>1, <2>5 DEF Shape, Fields, SameStart
    <3> QED
      BY <2>1, <2>5, <3>1, ChainGoesOn DEF InIteration
  <2> QED
    BY <2>2, <2>3, <2>4, <2>5
<1>16. CASE Review
  <2>1. /\ pc = "reviewing" /\ pc \in InIteration /\ UNCHANGED <<tree, iterations>>
        /\ tree = attempt.observed /\ Shape(attempt)
    BY <1>16
    DEF Review, InIteration, world, Still, Comparable, Inv, Passing, FullPassed, QuickPassed
  <2>2. ASSUME NEW answer \in Reviews, attempt' = [attempt EXCEPT !.review = answer]
        PROVE  SameStart
    BY <2>1, <2>2 DEF Shape, Fields, SameStart
  <2>3. ASSUME NEW answer \in Reviews, NEW feedback,
               attempt' = [[attempt EXCEPT !.review = answer] EXCEPT !.feedback = feedback]
        PROVE  SameStart /\ attempt'.observed = attempt.observed /\ attempt'.feedback = feedback
    BY <2>1, <2>3 DEF Shape, Fields, SameStart
  <2>4. ASSUME NEW end, end # Running, End(end), SameStart PROVE Chain'
    BY <2>1, <2>4, ChainLeaves
  <2>5. ASSUME Go("keeping"), SameStart, attempt'.observed = attempt.observed,
               outcome'.accepted \/ (/\ outcome'.feedback = attempt'.feedback
                                     /\ outcome'.feedback # {})
        PROVE  Chain'
    <3>1. FeedbackChain'
      BY <2>1 DEF Chain, FeedbackChain
    <3> QED
      BY <2>1, <2>5, <3>1 DEF Go, Chain, Owed, Final, SameStart, InIteration, Early
  <2>6. CASE End(Rejected({<<"reviewer", "error">>})) /\ UNCHANGED <<attempt, outcome, journal>>
    BY <2>4, <2>6, Distinct DEF SameStart
  <2>7. ASSUME NEW answer \in Reviews, NEW reasons,
               attempt' = [attempt EXCEPT !.review = answer], End(Rejected(reasons))
        PROVE  Chain'
    BY <2>2, <2>4, <2>7, Distinct
  <2>8. ASSUME NEW answer \in Reviews, NEW reasons,
               ReviewFaults(answer) = {}, ReviewReasons(answer) # {},
               attempt' = [[attempt EXCEPT !.review = answer]
                             EXCEPT !.feedback = ReviewFeedback(answer)],
               outcome' = [accepted |-> FALSE, reasons |-> reasons,
                           feedback |-> ReviewFeedback(answer), stage |-> "review"],
               Go("keeping")
        PROVE  Chain'
    <3>1. SameStart /\ attempt'.observed = attempt.observed /\ attempt'.feedback = ReviewFeedback(answer)
      BY <2>3, <2>8
    <3>2. outcome'.feedback = ReviewFeedback(answer) /\ ReviewFeedback(answer) # {}
      BY <2>8, ObjectionsFedBack
    <3> QED
      BY <2>5, <2>8, <3>1, <3>2
  <2>9. ASSUME NEW answer \in Reviews,
               attempt' = [[attempt EXCEPT !.review = answer] EXCEPT !.feedback = {}],
               IF ReviewEscalations(answer) # {}
               THEN End(Escalated(ReviewEscalations(answer))) /\ UNCHANGED outcome
               ELSE outcome' = [NoOutcome EXCEPT !.accepted = TRUE] /\ Go("keeping")
        PROVE  Chain'
    <3>1. SameStart /\ attempt'.observed = attempt.observed
      BY <2>3, <2>9
    <3>2. CASE ReviewEscalations(answer) # {}
      BY <2>4, <2>9, <3>1, <3>2, Distinct
    <3>3. CASE ReviewEscalations(answer) = {}
      <4>1. outcome'.accepted = TRUE
        BY <2>9, <3>3 DEF NoOutcome
      <4> QED
        BY <2>5, <2>9, <3>1, <3>3, <4>1
    <3> QED
      BY <3>2, <3>3
  <2> QED
    BY <1>16, <2>6, <2>7, <2>8, <2>9 DEF Review
<1>17. CASE KeepIteration
  <2>1. /\ pc = "keeping" /\ iterations' = Kept /\ UNCHANGED <<tree, outcome>>
        /\ \/ Go("iterating") /\ ending = Running /\ ~outcome.accepted
           \/ \E end : End(end)
    BY <1>17 DEF KeepIteration, world
  <2>2. FeedbackChain' /\ Len(iterations') > 0 /\ Final' = attempt
    BY <2>1, ChainKept
  <2>3. CASE Go("iterating") /\ ending = Running /\ ~outcome.accepted
    <3>1. /\ tree = attempt.observed
          /\ outcome.feedback = attempt.feedback /\ outcome.feedback # {}
      BY <2>1, <2>3 DEF Chain
    <3>2. Owed(outcome.feedback, tree)'
      BY <2>1, <2>2, <3>1 DEF Owed
    <3> QED
      BY <2>2, <2>3, <3>2 DEF Go, Chain, InIteration, Early
  <2>4. ASSUME NEW end, End(end) PROVE Chain'
    BY <2>1, <2>2, <2>4 DEF End, Chain, InIteration, Early
  <2> QED
    BY <2>1, <2>3, <2>4
<1>18. CASE ExhaustBudget
  <2>1. pc = "iterating" /\ iterations' = iterations
    BY <1>18 DEF ExhaustBudget, memory
  <2>2. PICK reasons : End(Exhausted(reasons))
    BY <1>18 DEF ExhaustBudget
  <2>3. Exhausted(reasons) # Running
    BY Distinct DEF Exhausted
  <2> QED
    BY <2>1, <2>2, <2>3, ChainLeaves DEF InIteration
<1>19. CASE CloseJournal \/ WriteRecord \/ Abort
  <2>1. pc' \in {"writing", "returned", "raised"} /\ iterations' = iterations
    BY <1>19 DEF CloseJournal, WriteRecord, Abort, Go, memory
  <2>2. FeedbackChain'
    BY <2>1 DEF Chain, FeedbackChain
  <2> QED
    BY <2>1, <2>2 DEF Chain, InIteration, Early
<1>20. CASE Error
  <2>1. CASE pc = "keeping"
    <3>1. pc' = "aborting" /\ iterations' = Kept
      BY <1>20, <2>1 DEF Error, End, InIteration
    <3>2. FeedbackChain'
      BY <2>1, <3>1, ChainKept
    <3> QED
      BY <3>1, <3>2 DEF Chain, InIteration, Early
  <2>2. CASE pc \in {"closing", "writing", "aborting"}
    <3>1. pc' = "raised" /\ iterations' = iterations
      BY <1>20, <2>2 DEF Error, Go
    <3>2. FeedbackChain'
      BY <3>1 DEF Chain, FeedbackChain
    <3> QED
      BY <3>1, <3>2 DEF Chain, InIteration, Early
  <2>3. CASE pc \notin {"keeping", "closing", "writing", "aborting"}
    BY <1>20, <2>3, ChainLeaves, Distinct DEF Error, SameStart
  <2> QED
    BY <2>1, <2>2, <2>3
<1>21. CASE OperatorActs \/ LingeringWrite \/ Terminated
  <2>1. UNCHANGED <<pc, ending, tree, outcome, attempt, iterations>>
    BY <1>21 DEF OperatorActs, LingeringWrite, Terminated, vars, world, memory, Still
  <2>2. FeedbackChain'
    BY <2>1 DEF Chain, FeedbackChain
  <2> QED
    BY <2>1, <2>2 DEF Chain, Owed, Final
<1> QED
  BY <1>1, <1>2, <1>3, <1>4, <1>5, <1>6, <1>7, <1>8, <1>9, <1>10, <1>11, <1>12, <1>13, <1>14,
     <1>15, <1>16, <1>17, <1>18, <1>19, <1>20, <1>21
  DEF Next, Controller

-----------------------------------------------------------------------------
(* What a control was told of the tree, step by step.                         *)

LEMMA StillLeaves ==
  ASSUME NEW end, End(end), end \notin {Running, Accepted}, pc \notin Ended, ~lingering'
  PROVE  Still'
<1>1. ending' = end /\ pc' \in {"keeping", "aborting", "closing"}
  BY DEF End
<1> QED
  BY <1>1 DEF Still

\* Where no tree is compared with anything.
LEMMA StillGoes ==
  ASSUME Inv, NEW next \in Early \cup {"measured", "cloned", "iterating", "attempted"}, Go(next),
         pc \in Early \cup {"measured", "cloned", "iterating"}, ~lingering'
  PROVE  Still'
<1>1. pc' = next /\ ending' = ending /\ ending # Accepted
  BY Distinct DEF Go, Inv, Ending
<1> QED
  BY <1>1 DEF Still, Early

LEMMA StillDecides ==
  ASSUME Inv, Still, NEW stage, NEW reasons, NEW feedback, Decided(stage, reasons, feedback),
         pc \in InIteration, lingering' = lingering
  PROVE  Still'
<1>1. pc' = "keeping" /\ ending' = ending /\ ending # Accepted /\ outcome'.accepted = FALSE
  BY Distinct DEF Decided, Go, Inv, Ending
<1> QED
  BY <1>1 DEF Still

LEMMA NoBrokenRatchets ==
  ASSUME NEW measured, Objections(baseline, measured) = {}
  PROVE  BrokenRatchets(baseline, measured) = {}
  BY DEF Objections

\* A candidate whose environment did not change holds the prepared files.
LEMMA Unchanged ==
  ASSUME NEW before, NEW after, ControlFailures(before, after) = {}, installed
  PROVE  tree \in Prepared
  BY DEF ControlFailures, ChangedEnvironment

LEMMA StillStep ==
  ASSUME Inv, Installed, Still, Next, "linger" \notin Hazards
  PROVE  Still'
<1>1. CASE VerifyControlInputs
  <2>1. pc = "prepared" /\ lingering' = lingering
    BY <1>1 DEF VerifyControlInputs, world
  <2>2. Go("verified") \/ \E reason : End(Rejected(reason))
    BY <1>1 DEF VerifyControlInputs
  <2> QED
    BY <2>1, <2>2, StillGoes, StillLeaves, Distinct DEF Early, Ended, Still
<1>2. CASE FreezeExecutionEnvironment
  <2>1. pc = "verified" /\ lingering' = lingering
    BY <1>2 DEF FreezeExecutionEnvironment, world
  <2>2. Go("baseline") \/ Go("installing") \/ \E reason : End(Rejected(reason))
    BY <1>2 DEF FreezeExecutionEnvironment
  <2> QED
    BY <2>1, <2>2, StillGoes, StillLeaves, Distinct DEF Early, Ended, Still
<1>3. CASE Install
  <2>1. pc \in {"installing", "cloned"} /\ lingering' = lingering
    BY <1>3 DEF Install, world
  <2>2. \/ \E next \in {"baseline", "iterating"} : Go(next)
        \/ \E reason : End(Rejected(reason))
    BY <1>3 DEF Install
  <2> QED
    BY <2>1, <2>2, StillGoes, StillLeaves, Distinct DEF Early, Ended, Still
<1>4. CASE FinishBaseline
  <2>1. pc = "baseline" /\ lingering' = lingering
    BY <1>4 DEF FinishBaseline, world
  <2>2. Go("measured") \/ \E reason : End(Rejected(reason))
    BY <1>4 DEF FinishBaseline, JudgeBaseline
  <2> QED
    BY <2>1, <2>2, StillGoes, StillLeaves, Distinct DEF Early, Ended, Still
<1>5. CASE CreateCandidate
  <2>1. pc = "measured" /\ lingering' = lingering
    BY <1>5 DEF CreateCandidate
  <2>2. Go("cloned") \/ End(Failed)
    BY <1>5 DEF CreateCandidate
  <2> QED
    BY <2>1, <2>2, StillGoes, StillLeaves, Distinct DEF Early, Ended, Still
<1>6. CASE SkipInstall
  BY <1>6, StillGoes DEF SkipInstall, world, Still
<1>7. CASE RunGate
  <2>1. /\ pc \in {"baseline", "quick", "full"} /\ ~lingering'
        /\ UNCHANGED <<pc, ending, scope, outcome, baseline, attempt, iterations, patch>>
    BY <1>7 DEF RunGate, SideEffects, Occasions, disk, Still
  <2>2. ending # Accepted
    BY <2>1, Distinct DEF Inv, Ending, Early, InIteration
  <2> QED
    BY <2>1, <2>2 DEF Still
<1>8. CASE RefuseObservation
  <2>1. /\ pc \in {"baseline", "quick", "full"} /\ lingering' = lingering
        /\ \E reason : End(Rejected(reason))
    BY <1>8 DEF RefuseObservation, Occasions, world
  <2> QED
    BY <2>1, StillLeaves, Distinct DEF Still, Ended
<1>9. CASE StartIteration
  BY <1>9, StillGoes DEF StartIteration, world, Still
<1>10. CASE Actuate
  <2>1. pc = "attempted" /\ ~lingering' /\ pc \notin Ended /\ Shape(attempt) /\ ending # Accepted
    <3>1. pc = "attempted" /\ ~lingering'
      <4>1. /\ pc = "attempted"
            /\ lingering' = lingering \/ ("linger" \in Hazards /\ lingering' = TRUE)
        BY <1>10 DEF Actuate
      <4>2. ~lingering
        BY DEF Still
      <4> QED
        BY <4>1, <4>2
    <3>2. Shape(attempt) /\ ending # Accepted
      BY <3>1, Distinct DEF Inv, Passing, Ending, InIteration
    <3> QED
      BY <3>1, <3>2 DEF Ended
  <2>2. \/ \E reason : End(Rejected(reason))
        \/ /\ \E exit : attempt' = [attempt EXCEPT !.agent = exit, !.actuator = tree']
           /\ Go("acted")
    BY <1>10 DEF Actuate
  <2>3. CASE \E reason : End(Rejected(reason))
    BY <2>1, <2>3, StillLeaves, Distinct
  <2>4. ASSUME Go("acted"), NEW exit, attempt' = [attempt EXCEPT !.agent = exit, !.actuator = tree']
        PROVE  Still'
    <3>1. attempt'.actuator = tree'
      BY <2>1, <2>4 DEF Shape, Fields
    <3> QED
      BY <2>1, <2>4, <3>1 DEF Go, Still
  <2> QED
    BY <2>2, <2>3, <2>4
<1>11. CASE MeasureScope
  <2>1. /\ pc = "acted" /\ pc' = "quick" /\ ending' = ending /\ scope' = (tree \in InScope)
        /\ UNCHANGED <<tree, lingering, attempt>>
    BY <1>11 DEF MeasureScope, Go, world
  <2>2. ending # Accepted
    BY <2>1, Distinct DEF Inv, Ending, InIteration
  <2> QED
    BY <2>1, <2>2 DEF Still
<1>12. CASE FinishQuick
  <2>1. /\ pc = "quick" /\ pc' = "quick measured" /\ ending' = ending
        /\ attempt' = [attempt EXCEPT !.observed = tree, !.scope = scope, !.quick = results]
        /\ UNCHANGED <<tree, lingering, scope>>
    BY <1>12 DEF FinishQuick, Go, world
  <2>2. ending # Accepted /\ Shape(attempt)
    BY <2>1, Distinct DEF Inv, Ending, Passing, InIteration
  <2>3. attempt'.observed = tree /\ attempt'.actuator = attempt.actuator
    BY <2>1, <2>2 DEF Shape, Fields
  <2> QED
    BY <2>1, <2>2, <2>3 DEF Still
<1>13. CASE JudgeQuick
  <2>1. /\ pc = "quick measured" /\ pc \in InIteration /\ pc \notin Ended
        /\ UNCHANGED <<tree, lingering, baseline>>
    BY <1>13 DEF JudgeQuick, Conclude, InIteration, Ended
  <2>2. ending # Accepted /\ attempt.quick = results
    BY <2>1, Distinct DEF Inv, Ending, Passing
  <2>3. \/ \E reason : End(Rejected(reason))
        \/ \E objections : Decided("quick", objections, objections)
        \/ /\ scope /\ Objections(baseline, results) = {} /\ attempt' = attempt /\ Go("full")
    BY <1>13 DEF JudgeQuick
  <2>4. ASSUME scope, Objections(baseline, results) = {}, attempt' = attempt, Go("full")
        PROVE  Still'
    BY <2>1, <2>2, <2>4, NoBrokenRatchets DEF Go, Still
  <2> QED
    BY <2>1, <2>3, <2>4, StillLeaves, StillDecides, Distinct DEF Still
<1>14. CASE FinishFull
  <2>1. /\ pc = "full" /\ pc' = "full measured" /\ ending' = ending
        /\ attempt' = [attempt EXCEPT !.full = results, !.full_state = tree]
        /\ UNCHANGED <<tree, lingering, baseline>>
    BY <1>14 DEF FinishFull, Go, world
  <2>2. ending # Accepted /\ Shape(attempt)
    BY <2>1, Distinct DEF Inv, Ending, Passing, InIteration
  <2>3. /\ attempt'.full_state = tree /\ attempt'.actuator = attempt.actuator
        /\ attempt'.quick = attempt.quick
    BY <2>1, <2>2 DEF Shape, Fields
  <2> QED
    BY <2>1, <2>2, <2>3 DEF Still
<1>15. CASE JudgeFull
  <2>1. /\ pc = "full measured" /\ pc \in InIteration /\ pc \notin Ended
        /\ UNCHANGED <<tree, lingering, baseline>>
    BY <1>15 DEF JudgeFull, Conclude, InIteration, Ended
  <2>2. /\ ending # Accepted /\ attempt.full = results /\ Shape(attempt)
        /\ attempt.observed = attempt.actuator
    BY <2>1, Distinct DEF Inv, Ending, Passing, InIteration, QuickPassed
  <2>3. \/ \E reason : End(Rejected(reason))
        \/ \E objections : Decided("full", objections, objections)
        \/ /\ ControlFailures(attempt.observed, attempt.full_state) = {}
           /\ Objections(baseline, results) = {}
           /\ attempt' = [attempt EXCEPT !.review = Asked] /\ Go("reviewing")
    BY <1>15 DEF JudgeFull
  <2>4. ASSUME ControlFailures(attempt.observed, attempt.full_state) = {},
               Objections(baseline, results) = {},
               attempt' = [attempt EXCEPT !.review = Asked], Go("reviewing")
        PROVE  Still'
    <3>1. attempt.full_state = attempt.observed
      BY <2>4, NoControls
    <3>2. Provider # "none" => tree \in Prepared
      BY <2>1, <2>4, Unchanged DEF Installed
    <3>3. BrokenRatchets(baseline, attempt.full) = {}
      BY <2>2, <2>4, NoBrokenRatchets
    <3>4. /\ attempt'.full_state = attempt.full_state /\ attempt'.actuator = attempt.actuator
          /\ attempt'.quick = attempt.quick /\ attempt'.full = attempt.full
      BY <2>2, <2>4 DEF Shape, Fields
    <3>5. tree = attempt.full_state /\ tree \in InScope /\ BrokenRatchets(baseline, attempt.quick) = {}
      BY <2>1, <2>2, <3>1 DEF Still
    <3>6. Comparable(attempt)'
      BY <2>1, <3>2, <3>3, <3>4, <3>5 DEF Comparable
    <3> QED
      BY <2>1, <2>2, <2>4, <3>4, <3>5, <3>6, <3>1 DEF Go, Still
  <2> QED
    BY <2>1, <2>3, <2>4, StillLeaves, StillDecides, Distinct DEF Still
<1>16. CASE Review
  <2>1. /\ pc = "reviewing" /\ pc \notin Ended /\ UNCHANGED <<tree, lingering, baseline>>
    BY <1>16 DEF Review, Ended, world
  <2>2. ending # Accepted /\ Shape(attempt) /\ Comparable(attempt)
    BY <2>1, Distinct DEF Inv, Ending, Passing, InIteration, Still
  <2>3. \/ \E reason : End(Rejected(reason)) \/ End(Escalated(reason))
        \/ /\ Go("keeping")
           /\ \E answer, feedback :
                attempt' = [[attempt EXCEPT !.review = answer] EXCEPT !.feedback = feedback]
    BY <1>16 DEF Review
  <2>4. ASSUME Go("keeping"), NEW answer, NEW feedback,
               attempt' = [[attempt EXCEPT !.review = answer] EXCEPT !.feedback = feedback]
        PROVE  Still'
    <3>1. /\ attempt'.full_state = attempt.full_state
          /\ attempt'.quick = attempt.quick /\ attempt'.full = attempt.full
      BY <2>2, <2>4 DEF Shape, Fields
    <3>2. Comparable(attempt)'
      BY <2>1, <2>2, <3>1 DEF Comparable
    <3> QED
      BY <2>1, <2>2, <2>4, <3>2 DEF Go, Still
  <2> QED
    BY <2>1, <2>3, <2>4, StillLeaves, Distinct DEF Still
<1>17. CASE KeepIteration
  <2>1. /\ pc = "keeping" /\ iterations' = Kept /\ UNCHANGED <<tree, lingering, baseline, outcome>>
    BY <1>17 DEF KeepIteration, world
  <2>2. Final' = attempt /\ ending # Accepted
    BY <2>1, Keeps DEF Inv, Ending, Ended
  <2>3. \/ Go("iterating")
        \/ ending = Running /\ outcome.accepted /\ End(Accepted)
        \/ ending # Running /\ End(ending)
    BY <1>17 DEF KeepIteration
  <2>4. CASE Go("iterating")
    BY <2>1, <2>2, <2>4 DEF Go, Still
  <2>5. CASE ending = Running /\ outcome.accepted /\ End(Accepted)
    <3>1. Comparable(attempt)
      BY <2>1, <2>5 DEF Still
    <3>2. Comparable(Final)'
      BY <2>1, <2>2, <3>1 DEF Comparable
    <3>3. pc' = "closing" /\ ending' = Accepted
      BY <2>1, <2>5, Distinct DEF End, InIteration
    <3> QED
      BY <2>1, <3>2, <3>3 DEF Still
  <2>6. CASE ending # Running /\ End(ending)
    BY <2>1, <2>2, <2>6, StillLeaves DEF Still, Ended
  <2> QED
    BY <2>3, <2>4, <2>5, <2>6
<1>18. CASE ExhaustBudget
  <2>1. pc = "iterating" /\ lingering' = lingering
    BY <1>18 DEF ExhaustBudget, world
  <2>2. PICK reasons : End(Exhausted(reasons))
    BY <1>18 DEF ExhaustBudget
  <2>3. Exhausted(reasons) \notin {Running, Accepted}
    BY Distinct DEF Exhausted
  <2> QED
    BY <2>1, <2>2, <2>3, StillLeaves DEF Still, Ended
<1>19. CASE CloseJournal \/ WriteRecord \/ Abort
  <2>1. /\ pc' \in {"writing", "returned", "raised"}
        /\ UNCHANGED <<ending, tree, lingering, baseline, iterations>>
        /\ pc' \in {"writing", "returned"} => patch' = tree
    BY <1>19 DEF CloseJournal, WriteRecord, Abort, Go, world, memory, Still
  <2> QED
    BY <2>1 DEF Still, Comparable, Final
<1>20. CASE Error
  <2>1. UNCHANGED <<tree, lingering, baseline>> /\ pc \notin Ended
    BY <1>20 DEF Error, world
  <2>2. CASE pc \in {"closing", "writing", "aborting"}
    <3>1. pc' = "raised" /\ UNCHANGED <<ending, iterations>>
      BY <1>20, <2>2 DEF Error, Go
    <3> QED
      BY <2>1, <3>1 DEF Still, Comparable, Final
  <2>3. CASE pc \notin {"closing", "writing", "aborting"}
    BY <1>20, <2>1, <2>3, StillLeaves, Distinct DEF Error, Still
  <2> QED
    BY <2>2, <2>3
<1>21. CASE OperatorActs \/ LingeringWrite \/ Terminated
  <2>1. /\ UNCHANGED <<pc, ending, tree, lingering, scope, outcome, baseline, attempt>>
        /\ UNCHANGED <<iterations, patch>>
    BY <1>21 DEF OperatorActs, LingeringWrite, Terminated, vars, world, memory, disk, Still
  <2> QED
    BY <2>1 DEF Still, Comparable, Final
<1> QED
  BY <1>1, <1>2, <1>3, <1>4, <1>5, <1>6, <1>7, <1>8, <1>9, <1>10, <1>11, <1>12, <1>13, <1>14,
     <1>15, <1>16, <1>17, <1>18, <1>19, <1>20, <1>21
  DEF Next, Controller

LEMMA QuietBegins ==
  ASSUME Init
  PROVE  Quiet
<1>1. pc = "prepared" /\ ending = Running /\ lingering = FALSE /\ Len(iterations) = 0
      /\ outcome.feedback = {} /\ DOMAIN iterations = {}
  BY EmptySeq DEF Init, NoOutcome
<1>2. Chain
  BY <1>1 DEF Chain, FeedbackChain, InIteration
<1>3. Installed /\ Still
  BY <1>1, Distinct DEF Installed, Still, InIteration
<1> QED
  BY <1>2, <1>3 DEF Quiet

LEMMA QuietPreserved ==
  ASSUME "linger" \notin Hazards
  PROVE  Inv /\ Quiet /\ [Next]_vars => Quiet'
<1> SUFFICES ASSUME Inv, Quiet, [Next]_vars PROVE Quiet'
  OBVIOUS
<1>1. CASE Next
  BY <1>1, ChainStep, InstalledFirst, StillStep DEF Quiet
<1>2. CASE UNCHANGED vars
  <2>1. /\ UNCHANGED <<pc, ending, tree, lingering, scope, outcome, installed, baseline>>
        /\ UNCHANGED <<attempt, iterations, patch>>
    BY <1>2 DEF vars, world, memory, disk
  <2>2. FeedbackChain'
    BY <2>1 DEF Quiet, Chain, FeedbackChain
  <2>3. Chain'
    BY <2>1, <2>2 DEF Quiet, Chain, Owed, Final
  <2>4. Installed' /\ Still'
    BY <2>1 DEF Quiet, Installed, Still, Comparable, Final
  <2> QED
    BY <2>3, <2>4 DEF Quiet
<1> QED
  BY <1>1, <1>2

LEMMA QuietInvariant ==
  ASSUME "linger" \notin Hazards
  PROVE  Spec => []Quiet
<1>1. Init => Quiet
  BY QuietBegins
<1>2. Inv /\ Quiet /\ [Next]_vars => Quiet'
  BY QuietPreserved
<1> QED
  BY <1>1, <1>2, Invariant, PTL DEF Spec

-----------------------------------------------------------------------------
\* Each iteration is told what the one before it was refused for, never nothing,
\* and starts from the tree that one was measured on, where nothing writes in the
\* candidate behind the controller.
THEOREM EachIterationIsTold ==
  ASSUME "linger" \notin Hazards
  PROVE  Spec => []FeedbackChain
<1>1. Quiet => FeedbackChain
  BY DEF Quiet, Chain
<1> QED
  BY <1>1, QuietInvariant, PTL

\* Under the same condition, the patch an accepted run leaves is the tree its full
\* gates measured, and it is in scope, though close takes it again from the
\* workspace.
THEOREM ThePatchWasMeasured ==
  ASSUME "linger" \notin Hazards
  PROVE  Spec => []LandsWhatWasMeasured
<1>1. Inv /\ Quiet => LandsWhatWasMeasured
  BY DEF Inv, Ending, Quiet, Still, Comparable, LandsWhatWasMeasured
<1> QED
  BY <1>1, Invariant, QuietInvariant, PTL

\* And no metric of an accepted candidate moved against its ratchet, over the
\* provider files that were prepared.
THEOREM RatchetsAreKept ==
  ASSUME "linger" \notin Hazards
  PROVE  Spec => []AcceptedKeepsTheRatchets
<1>1. Inv /\ Quiet => AcceptedKeepsTheRatchets
  <2> SUFFICES ASSUME Inv, Quiet, evidence.decision = Accepted
               PROVE  AcceptedKeepsTheRatchets
    BY DEF AcceptedKeepsTheRatchets
  <2>1. /\ Comparable(Final) /\ Sound(baseline, "baseline")
        /\ Sound(Final.quick, "quick") /\ Sound(Final.full, "full")
    BY DEF Inv, Ending, AcceptedRun, FullPassed, QuickPassed, Quiet, Still
  <2>2. ASSUME NEW measured \in {Final.quick, Final.full},
               NEW b \in DOMAIN baseline, NEW k \in DOMAIN measured,
               measured[k].gate = baseline[b].gate,
               baseline[b].metric # NoMetric, measured[k].metric # NoMetric
        PROVE  LET direction == Constitution[baseline[b].gate].ratchet
               IN  /\ direction = "at_most" => measured[k].metric <= baseline[b].metric
                   /\ direction = "at_least" => measured[k].metric >= baseline[b].metric
    <3>1. BrokenRatchets(baseline, measured) = {} /\ Passed(measured[k])
      BY <2>1 DEF Comparable, Sound, AllPassed
    <3>2. Constitution[baseline[b].gate].ratchet # "none" =>
            Holds(Constitution[baseline[b].gate].ratchet, baseline[b].metric, measured[k].metric)
      BY <2>2, <3>1 DEF BrokenRatchets
    <3> QED
      BY <3>2 DEF Holds
  <2>3. ASSUME NEW k \in DOMAIN (Final.quick \o Final.full)
        PROVE  \E measured \in {Final.quick, Final.full} : \E j \in DOMAIN measured :
                 (Final.quick \o Final.full)[k] = measured[j]
    <3> DEFINE quick == Final.quick
               full == Final.full
    <3>1. quick \in Seq(Result) /\ full \in Seq(Result)
      BY <2>1 DEF Sound
    <3>2. k \in DOMAIN (quick \o full)
      OBVIOUS
    <3> HIDE DEF quick, full
    <3>3. \E measured \in {quick, full} : \E j \in DOMAIN measured : (quick \o full)[k] = measured[j]
      BY <3>1, <3>2, EitherPhase
    <3> QED
      BY <3>3 DEF quick, full
  <2>4. Provider # "none" => Final.full_state \in Prepared
    BY <2>1 DEF Comparable
  <2>5. ASSUME NEW b \in DOMAIN baseline, NEW k \in DOMAIN (Final.quick \o Final.full),
               (Final.quick \o Final.full)[k].gate = baseline[b].gate,
               baseline[b].metric # NoMetric, (Final.quick \o Final.full)[k].metric # NoMetric
        PROVE  LET direction == Constitution[baseline[b].gate].ratchet
                   now == (Final.quick \o Final.full)[k].metric
               IN  /\ direction = "at_most" => now <= baseline[b].metric
                   /\ direction = "at_least" => now >= baseline[b].metric
    <3>1. PICK measured \in {Final.quick, Final.full} : \E j \in DOMAIN measured :
            (Final.quick \o Final.full)[k] = measured[j]
      BY <2>3
    <3>2. PICK j \in DOMAIN measured : (Final.quick \o Final.full)[k] = measured[j]
      BY <3>1
    <3> QED
      BY <2>2, <2>5, <3>2
  <2> QED
    BY <2>4, <2>5 DEF AcceptedKeepsTheRatchets
<1> QED
  BY <1>1, Invariant, QuietInvariant, PTL

-----------------------------------------------------------------------------
(* The lifecycle: what the journal closes on, and what the record states.     *)

Reasons == SUBSET Reason

Closers == {"decision.recorded", "run.finished"}

\* Events of none of some types.
Without(events, types) ==
  (\E S : events \in Seq(S)) /\ \A i \in DOMAIN events : events[i][1] \notin types

\* Events that close nothing.
Plain(events) == Without(events, Closers)

Deciding ==
  /\ ending \in Decisions \cup {Running, Failed} /\ outcome.reasons \in Reasons
  /\ pc = "closing" => ending \in Decisions
  /\ pc = "writing" => ending \in Decisions /\ ClosedOn = ending
  /\ pc # "returned" => evidence.decision = Running
  /\ pc \notin {"writing"} \cup Ended => Plain(journal)

LEMMA WithoutBoth ==
  ASSUME NEW types, NEW before, NEW after, Without(before, types), Without(after, types)
  PROVE  Without(before \o after, types)
<1>1. PICK S : before \in Seq(S)
  BY DEF Without
<1>2. PICK T : after \in Seq(T)
  BY DEF Without
<1>3. before \in Seq(S \cup T) /\ after \in Seq(S \cup T)
  BY <1>1, <1>2, SeqMonotonic
<1>4. before \o after \in Seq(S \cup T)
  BY <1>3, ConcatProperties
<1>5. ASSUME NEW i \in DOMAIN (before \o after)
      PROVE  \/ i \in DOMAIN before /\ (before \o after)[i] = before[i]
             \/ i - Len(before) \in DOMAIN after /\ (before \o after)[i] = after[i - Len(before)]
  BY <1>3, ConcatProperties, LenProperties
<1> QED
  BY <1>4, <1>5 DEF Without

LEMMA WithoutOne ==
  ASSUME NEW types, NEW event, event[1] \notin types
  PROVE  Without(<<event>>, types)
<1>1. <<event>> \in Seq({event}) /\ DOMAIN <<event>> = {1} /\ <<event>>[1] = event
  OBVIOUS
<1> QED
  BY <1>1 DEF Without

LEMMA WithoutTwo ==
  ASSUME NEW types, NEW event, event[1] \notin types, NEW next, next[1] \notin types
  PROVE  Without(<<event, next>>, types)
<1>1. /\ <<event, next>> \in Seq({event, next}) /\ DOMAIN <<event, next>> = {1, 2}
      /\ <<event, next>>[1] = event /\ <<event, next>>[2] = next
  OBVIOUS
<1> QED
  BY <1>1 DEF Without

LEMMA PlainBoth ==
  ASSUME NEW before, NEW after, Plain(before), Plain(after)
  PROVE  Plain(before \o after)
  BY WithoutBoth DEF Plain

LEMMA PlainOne ==
  ASSUME NEW event, event[1] \notin Closers
  PROVE  Plain(<<event>>)
  BY WithoutOne DEF Plain

LEMMA PlainTwo ==
  ASSUME NEW event, event[1] \notin Closers, NEW next, next[1] \notin Closers
  PROVE  Plain(<<event, next>>)
  BY WithoutTwo DEF Plain

LEMMA PlainGates ==
  ASSUME NEW occasion, NEW measured \in Seq(Result)
  PROVE  Plain(GateEvents(occasion, measured))
<1> DEFINE event(k) == <<"gate.finished", occasion, Name(measured[k].gate), Passed(measured[k])>>
           S == {event(k) : k \in DOMAIN measured}
<1>1. DOMAIN measured = 1 .. Len(measured) /\ Len(measured) \in Nat
  BY LenProperties
<1>2. GateEvents(occasion, measured) = [k \in DOMAIN measured |-> event(k)]
  BY DEF GateEvents
<1> HIDE DEF event
<1>3. [k \in DOMAIN measured |-> event(k)] \in [1 .. Len(measured) -> S]
  BY <1>1
<1>4. GateEvents(occasion, measured) \in Seq(S)
  BY <1>1, <1>2, <1>3, SeqDef
<1>5. \A k \in DOMAIN measured : event(k)[1] = "gate.finished"
  BY DEF event
<1> QED
  BY <1>2, <1>4, <1>5 DEF Plain, Without, Closers

\* What the reasons of a decision are made of.
LEMMA Reasoned ==
  ASSUME NEW reasons \in Reasons
  PROVE  Rejected(reasons) \in Decisions /\ Escalated(reasons) \in Decisions
  BY DEF Rejected, Escalated, Decisions, Reasons, Reason

LEMMA OneReason ==
  ASSUME NEW said \in Said, NEW subject \in Subjects, NEW reason, reason = <<said, subject>>
  PROVE  reason \in Reason /\ {reason} \in Reasons
<1>1. reason \in Reason
  BY DEF Reason
<1> QED
  BY <1>1 DEF Reasons

LEMMA GateReasons ==
  ASSUME NEW measured \in Seq(Result), NEW was
  PROVE  SensorFaults(measured) \in Reasons /\ Objections(was, measured) \in Reasons
<1>1. ASSUME NEW k \in DOMAIN measured
      PROVE  Constitution[measured[k].gate].name \in Subjects
  <2>1. measured[k] \in Result
    BY LenProperties, ElementOfSeq
  <2> QED
    BY <2>1 DEF Result, Subjects, Name
<1>2. SensorFaults(measured) \in Reasons
  <2>1. ASSUME NEW reason \in SensorFaults(measured) PROVE reason \in Reason
    <3>1. PICK k \in DOMAIN measured : reason = <<"sensor error", Constitution[measured[k].gate].name>>
      BY DEF SensorFaults
    <3> QED
      BY <1>1, <3>1 DEF Reason, Said
  <2> QED
    BY <2>1 DEF Reasons
<1>3. Failures(measured) \in Reasons
  <2>1. ASSUME NEW reason \in Failures(measured) PROVE reason \in Reason
    <3>1. PICK k \in DOMAIN measured : reason = <<"gate failed", Constitution[measured[k].gate].name>>
      BY DEF Failures
    <3> QED
      BY <1>1, <3>1 DEF Reason, Said
  <2> QED
    BY <2>1 DEF Reasons
<1>4. BrokenRatchets(was, measured) \in Reasons
  <2>1. ASSUME NEW reason \in BrokenRatchets(was, measured) PROVE reason \in Reason
    <3>1. PICK k \in DOMAIN measured : reason = <<"ratchet broken", Constitution[measured[k].gate].name>>
      BY DEF BrokenRatchets
    <3> QED
      BY <1>1, <3>1 DEF Reason, Said
  <2> QED
    BY <2>1 DEF Reasons
<1> QED
  BY <1>2, <1>3, <1>4 DEF Objections, Reasons

LEMMA ControlReasons ==
  ASSUME NEW before, NEW after
  PROVE  ControlFailures(before, after) \in Reasons
<1>1. ASSUME NEW reason \in ControlFailures(before, after) PROVE reason \in Reason
  <2>1. PICK said \in {"sensor", "environment", "workspace"}, subject \in {"altered", "changed"} :
          reason = <<said, subject>>
    BY DEF ControlFailures, SensorTampering, ChangedEnvironment, Mutated
  <2>2. said \in Said /\ subject \in Subjects
    BY DEF Said, Subjects
  <2> QED
    BY <2>1, <2>2, OneReason
<1> QED
  BY <1>1 DEF Reasons

LEMMA AnswerReasons ==
  ASSUME NEW answer \in Reviews
  PROVE  ReviewReasons(answer) \in Reasons /\ ReviewEscalations(answer) \in Reasons
<1>1. Ids(answer) \subseteq Subjects /\ Duplicated(answer) \subseteq Subjects
  <2>1. Ids(answer) \subseteq Subjects
    BY DEF Subjects
  <2>2. Duplicated(answer) \subseteq Ids(answer)
    BY DEF Ids, Duplicated
  <2> QED
    BY <2>1, <2>2
<1>2. Reviewed \subseteq Subjects /\ Blocking \subseteq Subjects
  BY DEF Subjects
<1>3. ASSUME NEW reason \in ReviewReasons(answer) PROVE reason \in Reason
  <2>1. PICK said \in {"duplicated", "missing", "criterion", "unknown", "finding"},
             c \in Ids(answer) \cup Duplicated(answer) \cup Reviewed \cup Blocking :
               reason = <<said, c>>
    BY DEF ReviewReasons, BlockingFindings
  <2>2. said \in Said /\ c \in Subjects
    BY <1>1, <1>2 DEF Said
  <2> QED
    BY <2>1, <2>2, OneReason
<1>4. ASSUME NEW reason \in ReviewEscalations(answer) PROVE reason \in Reason
  <2>1. PICK said \in {"not_verifiable", "contradicts"}, c \in Ids(answer) : reason = <<said, c>>
    BY DEF ReviewEscalations
  <2>2. said \in Said /\ c \in Subjects
    BY <1>1 DEF Said
  <2> QED
    BY <2>1, <2>2, OneReason
<1> QED
  BY <1>3, <1>4 DEF Reasons

-----------------------------------------------------------------------------
LEMMA DecidingLeaves ==
  ASSUME Deciding, NEW end \in Decisions \cup {Failed}, End(end), pc # "returned",
         evidence'.decision = Running, Plain(journal'), outcome'.reasons \in Reasons
  PROVE  Deciding'
<1>1. /\ ending' = end /\ pc' \in {"keeping", "aborting", "closing"}
      /\ pc' = "closing" => end # Failed
  BY DEF End
<1> QED
  BY <1>1 DEF Deciding, Ended

LEMMA DecidingGoes ==
  ASSUME Deciding, Go(pc'), pc' \notin {"closing", "writing"} \cup Ended, pc # "returned",
         evidence'.decision = Running, Plain(journal'), outcome'.reasons \in Reasons
  PROVE  Deciding'
  BY DEF Deciding, Go, Ended

LEMMA DecidingOpens ==
  ASSUME Init
  PROVE  Deciding
<1>1. /\ pc = "prepared" /\ ending = Running /\ evidence.decision = Running
      /\ outcome.reasons \in Reasons
  BY DEF Init, NoOutcome, Reasons
<1>2. journal = <<<<"run.started">>, <<"inputs.frozen">>>> \o <<<<"inference.profiles_frozen">>>>
  BY DEF Init
<1>3. Plain(journal)
  BY <1>2, PlainOne, PlainTwo, PlainBoth DEF Closers
<1> QED
  BY <1>1, <1>3 DEF Deciding, Ended

LEMMA Logged ==
  ASSUME Plain(journal), NEW events, Log(events), Plain(events)
  PROVE  Plain(journal')
  BY PlainBoth DEF Log

LEMMA PersistsRunning ==
  ASSUME Persist
  PROVE  evidence'.decision = Running
  BY DEF Persist

\* The reasons stated where they arise.
LEMMA Stated ==
  /\ Rejected({<<"source", "not clean">>}) \in Decisions
  /\ Rejected({<<"environment", "unresolved">>}) \in Decisions
  /\ Rejected({<<"environment", "not installed">>}) \in Decisions
  /\ Rejected({<<"baseline", "failed">>}) \in Decisions
  /\ Rejected({<<"baseline", "mutated the source">>}) \in Decisions
  /\ Rejected({<<"agent", "error">>}) \in Decisions
  /\ Rejected({<<"agent", "exit code">>}) \in Decisions
  /\ Rejected({<<"reviewer", "error">>}) \in Decisions
  /\ \A g \in Gates : Rejected({<<"observation location", Name(g)>>}) \in Decisions
<1>1. ASSUME NEW said \in Said, NEW subject \in Subjects
      PROVE  Rejected({<<said, subject>>}) \in Decisions
  BY OneReason, Reasoned
<1>2. /\ {"source", "environment", "baseline", "agent", "reviewer", "observation location"} \subseteq Said
      /\ {"not clean", "unresolved", "not installed", "failed", "mutated the source", "error",
          "exit code"} \subseteq Subjects
  BY DEF Said, Subjects
<1>3. \A g \in Gates : Name(g) \in Subjects
  BY DEF Subjects
<1> QED
  BY <1>1, <1>2, <1>3, Zenon

LEMMA DecidingBefore ==
  ASSUME Deciding, VerifyControlInputs \/ FreezeExecutionEnvironment \/ Install \/ FinishBaseline
                   \/ CreateCandidate \/ SkipInstall, Types
  PROVE  Deciding'
<1> DEFINE Known == Plain(journal) /\ evidence.decision = Running /\ outcome.reasons \in Reasons
<1>1. CASE VerifyControlInputs
  <2>1. /\ pc = "prepared" /\ UNCHANGED <<outcome, journal, evidence>>
        /\ \/ Go("verified")
           \/ End(Rejected({<<"source", "not clean">>}))
    BY <1>1 DEF VerifyControlInputs, memory, disk
  <2>2. Known
    BY <2>1 DEF Deciding, Ended
  <2> QED
    BY <2>1, <2>2, DecidingLeaves, DecidingGoes, Stated DEF Ended, Go
<1>2. CASE FreezeExecutionEnvironment
  <2>1. pc = "verified" /\ outcome' = outcome /\ Known
    BY <1>2 DEF FreezeExecutionEnvironment, memory, Deciding, Ended
  <2>2. journal' = journal \/ \E resolved : Log(<<<<"environment.validated", resolved>>>>)
    BY <1>2 DEF FreezeExecutionEnvironment
  <2>3. Plain(journal')
    BY <2>1, <2>2, Logged, PlainOne DEF Closers
  <2>4. evidence'.decision = Running
    BY <1>2, <2>1, PersistsRunning DEF FreezeExecutionEnvironment
  <2>5. \/ Go("baseline") \/ Go("installing")
        \/ End(Rejected({<<"environment", "unresolved">>}))
        \/ End(Rejected({<<"environment", "not installed">>}))
    BY <1>2 DEF FreezeExecutionEnvironment
  <2> QED
    BY <2>1, <2>3, <2>4, <2>5, DecidingLeaves, DecidingGoes, Stated DEF Ended, Go
<1>3. CASE Install
  <2>1. pc \in {"installing", "cloned"} /\ outcome' = outcome /\ Known
    BY <1>3 DEF Install, Deciding, Ended
  <2>2. Log(<<<<"environment.prepared">>>>)
    BY <1>3 DEF Install
  <2>3. Plain(journal')
    BY <2>1, <2>2, Logged, PlainOne DEF Closers
  <2>4. evidence'.decision = Running
    BY <1>3, <2>1, PersistsRunning DEF Install
  <2>5. \/ Go(IF pc = "installing" THEN "baseline" ELSE "iterating")
        \/ End(Rejected({<<"environment", "not installed">>}))
    BY <1>3 DEF Install
  <2> QED
    BY <2>1, <2>3, <2>4, <2>5, DecidingLeaves, DecidingGoes, Stated DEF Ended, Go
<1>4. CASE FinishBaseline
  <2>1. pc = "baseline" /\ outcome' = outcome /\ Known
    BY <1>4 DEF FinishBaseline, Deciding, Ended
  <2>2. Log(GateEvents("baseline", results) \o <<<<"baseline.finished", AllPassed(results)>>>>)
    BY <1>4 DEF FinishBaseline
  <2>3. Plain(journal')
    <3>1. Plain(GateEvents("baseline", results))
      BY PlainGates DEF Types
    <3>2. Plain(<<<<"baseline.finished", AllPassed(results)>>>>)
      BY PlainOne DEF Closers
    <3> QED
      BY <2>1, <2>2, <3>1, <3>2, PlainBoth, Logged
  <2>4. evidence'.decision = Running
    BY <1>4, PersistsRunning DEF FinishBaseline
  <2>5. \/ Go("measured") \/ End(Rejected(SensorFaults(results)))
        \/ End(Rejected({<<"baseline", "failed">>}))
        \/ End(Rejected({<<"baseline", "mutated the source">>}))
    BY <1>4 DEF FinishBaseline, JudgeBaseline
  <2>6. Rejected(SensorFaults(results)) \in Decisions
    BY GateReasons, Reasoned DEF Types
  <2> QED
    BY <2>1, <2>3, <2>4, <2>5, <2>6, DecidingLeaves, DecidingGoes, Stated DEF Ended, Go
<1>5. CASE CreateCandidate
  <2>1. pc = "measured" /\ outcome' = outcome /\ Known
    BY <1>5 DEF CreateCandidate, memory, Deciding, Ended
  <2>2. journal' = journal \/ Log(<<<<"workspace.ready">>>>)
    BY <1>5 DEF CreateCandidate
  <2>3. Plain(journal')
    BY <2>1, <2>2, Logged, PlainOne DEF Closers
  <2>4. evidence'.decision = Running
    BY <1>5, <2>1, PersistsRunning DEF CreateCandidate
  <2>5. Go("cloned") \/ End(Failed)
    BY <1>5 DEF CreateCandidate
  <2> QED
    BY <2>1, <2>3, <2>4, <2>5, DecidingLeaves, DecidingGoes DEF Ended, Go
<1>6. CASE SkipInstall
  <2>1. /\ pc = "cloned" /\ outcome' = outcome /\ Known /\ journal' = journal
        /\ Go("iterating") /\ evidence'.decision = Running
    BY <1>6, PersistsRunning DEF SkipInstall, memory, Deciding, Ended
  <2> QED
    BY <2>1, DecidingGoes DEF Ended, Go
<1> QED
  BY <1>1, <1>2, <1>3, <1>4, <1>5, <1>6

LEMMA DecidingInside ==
  ASSUME Deciding, Types, RunGate \/ RefuseObservation \/ StartIteration \/ Actuate \/ MeasureScope
                          \/ FinishQuick \/ FinishFull
  PROVE  Deciding'
<1> DEFINE Known == Plain(journal) /\ evidence.decision = Running /\ outcome.reasons \in Reasons
<1>1. CASE RunGate
  <2>1. UNCHANGED <<pc, ending, outcome, journal, evidence>> /\ pc \in Occasions
    BY <1>1 DEF RunGate, disk
  <2> QED
    BY <2>1 DEF Deciding, Occasions
<1>2. CASE RefuseObservation
  <2>1. pc \in Occasions /\ UNCHANGED <<outcome, journal, evidence>> /\ Known
    BY <1>2 DEF RefuseObservation, memory, disk, Deciding, Ended, Occasions
  <2>2. PICK g \in Gates : End(Rejected({<<"observation location", Name(g)>>}))
    BY <1>2 DEF RefuseObservation, NextGate, GatesOf
  <2> QED
    BY <2>1, <2>2, DecidingLeaves, Stated DEF Occasions
<1>3. CASE StartIteration
  <2>1. /\ pc = "iterating" /\ Go("attempted") /\ Log(<<<<"actuator.started">>>>)
        /\ UNCHANGED <<outcome, evidence>> /\ Known
    BY <1>3 DEF StartIteration, Deciding, Ended
  <2>2. Plain(journal')
    BY <2>1, Logged, PlainOne DEF Closers
  <2> QED
    BY <2>1, <2>2, DecidingGoes DEF Ended, Go
<1>4. CASE Actuate
  <2>1. pc = "attempted" /\ UNCHANGED <<outcome, evidence>> /\ Known
    BY <1>4 DEF Actuate, Deciding, Ended
  <2>2. journal' = journal \/ Log(<<<<"actuator.finished">>, <<"actuator.profile_observed">>>>)
    BY <1>4 DEF Actuate
  <2>3. Plain(journal')
    BY <2>1, <2>2, Logged, PlainTwo DEF Closers
  <2>4. \/ Go("acted") \/ End(Rejected({<<"agent", "error">>}))
        \/ End(Rejected({<<"agent", "exit code">>}))
    BY <1>4 DEF Actuate
  <2> QED
    BY <2>1, <2>3, <2>4, DecidingLeaves, DecidingGoes, Stated DEF Ended, Go
<1>5. CASE MeasureScope
  <2>1. /\ pc = "acted" /\ Go("quick") /\ UNCHANGED <<outcome, journal, evidence>> /\ Known
    BY <1>5 DEF MeasureScope, disk, Deciding, Ended
  <2> QED
    BY <2>1, DecidingGoes DEF Ended, Go
<1>6. CASE FinishQuick
  <2>1. /\ pc = "quick" /\ Go("quick measured") /\ UNCHANGED <<outcome, evidence>> /\ Known
        /\ Log(GateEvents("quick", results))
    BY <1>6 DEF FinishQuick, Deciding, Ended
  <2>2. Plain(journal')
    BY <2>1, Logged, PlainGates DEF Types
  <2> QED
    BY <2>1, <2>2, DecidingGoes DEF Ended, Go
<1>7. CASE FinishFull
  <2>1. /\ pc = "full" /\ Go("full measured") /\ outcome' = outcome /\ Known
        /\ Log(GateEvents("full", results)) /\ evidence'.decision = Running
    BY <1>7, PersistsRunning DEF FinishFull, Deciding, Ended
  <2>2. Plain(journal')
    BY <2>1, Logged, PlainGates DEF Types
  <2> QED
    BY <2>1, <2>2, DecidingGoes DEF Ended, Go
<1> QED
  BY <1>1, <1>2, <1>3, <1>4, <1>5, <1>6, <1>7

LEMMA DecidingDecides ==
  ASSUME NEW stage, NEW objections \in Reasons, Decided(stage, objections, objections),
         Deciding, pc \in InIteration, evidence' = evidence
  PROVE  Deciding'
<1>1. /\ Plain(journal) /\ evidence.decision = Running /\ pc # "returned"
  BY DEF Deciding, Ended, InIteration
<1>2. Go("keeping") /\ Log(<<<<"feedback.emitted", stage>>>>) /\ outcome'.reasons = objections
  BY DEF Decided
<1>3. Plain(journal')
  BY <1>1, <1>2, Logged, PlainOne DEF Closers
<1> QED
  BY <1>1, <1>2, <1>3, DecidingGoes DEF Ended, Go

LEMMA DecidingJudges ==
  ASSUME Deciding, Types, JudgeQuick \/ JudgeFull
  PROVE  Deciding'
<1>1. /\ pc \in {"quick measured", "full measured"} /\ pc \in InIteration
      /\ Plain(journal) /\ evidence.decision = Running /\ outcome.reasons \in Reasons
  BY DEF JudgeQuick, JudgeFull, Deciding, InIteration, Ended
<1>2. \A was : SensorFaults(results) \in Reasons /\ Objections(was, results) \in Reasons
  BY GateReasons DEF Types
<1>3. ASSUME NEW reasons \in Reasons, End(Rejected(reasons)), UNCHANGED <<outcome, journal, evidence>>
      PROVE  Deciding'
  BY <1>1, <1>3, Reasoned, DecidingLeaves
<1>4. ASSUME NEW next \in {"full", "reviewing"}, Go(next), UNCHANGED <<outcome, journal>>,
             evidence' = evidence \/ Persist
      PROVE  Deciding'
  BY <1>1, <1>4, PersistsRunning, DecidingGoes DEF Ended, Go
<1>5. CASE JudgeQuick
  <2> DEFINE controls == ControlFailures(attempt.actuator, attempt.observed)
             scoped == IF scope THEN {} ELSE {<<"scope", "violated">>}
             objections == scoped \cup Objections(baseline, results)
  <2>1. controls \in Reasons
    BY ControlReasons
  <2>2. objections \in Reasons
    <3>1. "scope" \in Said /\ "violated" \in Subjects
      BY DEF Said, Subjects
    <3>2. scoped \in Reasons
      BY <3>1, OneReason DEF Reasons
    <3> QED
      BY <1>2, <3>2 DEF Reasons
  <2>3. evidence' = evidence
    BY <1>5 DEF JudgeQuick
  <2>4. \/ /\ End(Rejected(SensorFaults(results))) \/ End(Rejected(controls))
           /\ UNCHANGED <<outcome, journal>>
        \/ Decided("quick", objections, objections)
        \/ Go("full") /\ UNCHANGED <<outcome, journal>>
    BY <1>5 DEF JudgeQuick
  <2> HIDE DEF controls, objections
  <2> QED
    BY <1>1, <1>2, <1>3, <1>4, <2>1, <2>2, <2>3, <2>4, DecidingDecides
<1>6. CASE JudgeFull
  <2> DEFINE controls == ControlFailures(attempt.observed, attempt.full_state)
             objections == Objections(baseline, results)
  <2>1. controls \in Reasons /\ objections \in Reasons
    BY <1>2, ControlReasons
  <2>2. \/ /\ End(Rejected(SensorFaults(results))) \/ End(Rejected(controls))
           /\ UNCHANGED <<outcome, journal, evidence>>
        \/ Decided("full", objections, objections) /\ evidence' = evidence
        \/ Go("reviewing") /\ UNCHANGED <<outcome, journal>> /\ Persist
    BY <1>6 DEF JudgeFull
  <2> HIDE DEF controls, objections
  <2> QED
    BY <1>1, <1>2, <1>3, <1>4, <2>1, <2>2, DecidingDecides
<1> QED
  BY <1>5, <1>6

LEMMA DecidingReview ==
  ASSUME Deciding, Review
  PROVE  Deciding'
<1>1. /\ pc = "reviewing" /\ evidence' = evidence
      /\ Plain(journal) /\ evidence.decision = Running /\ outcome.reasons \in Reasons
  BY DEF Review, Deciding, Ended
<1> DEFINE events == <<<<"review.finished">>, <<"review.profile_observed">>>>
<1>2. \/ journal' = journal \/ Log(events)
      \/ Log(events \o <<<<"feedback.emitted", "review">>>>)
  BY DEF Review
<1>3. Plain(journal')
  <2>1. Plain(events) /\ Plain(<<<<"feedback.emitted", "review">>>>)
    BY PlainOne, PlainTwo DEF Closers
  <2> HIDE DEF events
  <2> QED
    BY <1>1, <1>2, <2>1, PlainBoth, Logged
<1>4. \/ End(Rejected({<<"reviewer", "error">>})) /\ outcome' = outcome
      \/ \E answer \in Reviews :
           \/ /\ End(Rejected(ReviewReasons(answer))) \/ End(Escalated(ReviewEscalations(answer)))
              /\ outcome' = outcome
           \/ /\ outcome' = [accepted |-> FALSE, reasons |-> ReviewReasons(answer),
                             feedback |-> ReviewFeedback(answer), stage |-> "review"]
              /\ Go("keeping")
           \/ outcome' = [NoOutcome EXCEPT !.accepted = TRUE] /\ Go("keeping")
  BY DEF Review
<1>5. \A answer \in Reviews : /\ ReviewReasons(answer) \in Reasons
                              /\ Rejected(ReviewReasons(answer)) \in Decisions
                              /\ Escalated(ReviewEscalations(answer)) \in Decisions
  BY AnswerReasons, Reasoned
<1>6. ASSUME NEW end \in Decisions, End(end), outcome' = outcome PROVE Deciding'
  BY <1>1, <1>3, <1>6, DecidingLeaves
<1>7. ASSUME Go("keeping"), outcome'.reasons \in Reasons PROVE Deciding'
  BY <1>1, <1>3, <1>7, DecidingGoes DEF Ended, Go
<1>8. [NoOutcome EXCEPT !.accepted = TRUE].reasons \in Reasons
  <2>1. [NoOutcome EXCEPT !.accepted = TRUE].reasons = {}
    BY DEF NoOutcome
  <2> QED
    BY <2>1 DEF Reasons
<1>9. ASSUME NEW answer \in Reviews,
             outcome' = [accepted |-> FALSE, reasons |-> ReviewReasons(answer),
                         feedback |-> ReviewFeedback(answer), stage |-> "review"]
      PROVE  outcome'.reasons \in Reasons
  BY <1>5, <1>9
<1>10. CASE End(Rejected({<<"reviewer", "error">>})) /\ outcome' = outcome
  BY <1>6, <1>10, Stated
<1> QED
  BY <1>4, <1>5, <1>6, <1>7, <1>8, <1>9, <1>10

LEMMA DecidingKeeps ==
  ASSUME Deciding, KeepIteration
  PROVE  Deciding'
<1>1. /\ pc = "keeping" /\ outcome' = outcome /\ journal' = journal
      /\ Plain(journal) /\ outcome.reasons \in Reasons
  BY DEF KeepIteration, Deciding, Ended
<1>2. evidence'.decision = Running
  BY PersistsRunning DEF KeepIteration
<1>3. ending \in Decisions \cup {Running, Failed} /\ Accepted \in Decisions
  BY DEF Deciding, Decisions
<1>4. \/ Go("iterating")
      \/ End(Accepted)
      \/ End(ending) /\ ending # Running
  BY DEF KeepIteration
<1> QED
  BY <1>1, <1>2, <1>3, <1>4, DecidingLeaves, DecidingGoes DEF Ended, Go

LEMMA DecidingExhausts ==
  ASSUME Deciding, ExhaustBudget
  PROVE  Deciding'
<1> DEFINE reasons == {<<"budget", "exhausted">>} \cup outcome.reasons
<1>1. /\ pc = "iterating" /\ outcome' = outcome /\ evidence' = evidence
      /\ Log(<<<<"budget.exhausted">>>>) /\ End(Exhausted(reasons))
  BY DEF ExhaustBudget, memory
<1>2. Plain(journal) /\ evidence.decision = Running /\ outcome.reasons \in Reasons
  BY <1>1 DEF Deciding, Ended
<1>3. Plain(journal')
  BY <1>1, <1>2, Logged, PlainOne DEF Closers
<1>4. reasons \in Reasons
  <2>1. "budget" \in Said /\ "exhausted" \in Subjects
    BY DEF Said, Subjects
  <2>2. {<<"budget", "exhausted">>} \in Reasons
    BY <2>1, OneReason
  <2> QED
    BY <1>2, <2>2 DEF Reasons
<1> HIDE DEF reasons
<1>5. Exhausted(reasons) \in Decisions
  BY <1>4, Reasoned DEF Exhausted
<1> QED
  BY <1>1, <1>2, <1>3, <1>5, DecidingLeaves

\* The journal of a run that closes it: two events more, the first naming the
\* decision, and no other decision in it.
LEMMA ClosesOn ==
  ASSUME Plain(journal), NEW status,
         Log(<<<<"decision.recorded", ending>>, <<"run.finished", status>>>>)
  PROVE  ClosedOn' = ending
<1> DEFINE first == <<"decision.recorded", ending>>
           last == <<"run.finished", status>>
<1>1. PICK S : journal \in Seq(S)
  BY DEF Plain, Without
<1>2. first[1] = "decision.recorded" /\ first[2] = ending /\ last[1] = "run.finished"
  OBVIOUS
<1> HIDE DEF first, last
<1>3. /\ <<first, last>> \in Seq({first, last}) /\ Len(<<first, last>>) = 2
      /\ <<first, last>>[1] = first /\ <<first, last>>[2] = last
  OBVIOUS
<1>4. journal' = journal \o <<first, last>>
  BY DEF Log, first, last
<1>5. journal \in Seq(S \cup {first, last}) /\ <<first, last>> \in Seq(S \cup {first, last})
  BY <1>1, <1>3, SeqMonotonic
<1> DEFINE n == Len(journal)
<1>6. /\ n \in Nat /\ DOMAIN journal = 1 .. n /\ DOMAIN journal' = 1 .. n + 2
      /\ \A i \in 1 .. n : journal'[i] = journal[i]
      /\ journal'[n + 1] = first /\ journal'[n + 2] = last
  <2>1. /\ Len(journal') = n + 2 /\ n \in Nat /\ journal' \in Seq(S \cup {first, last})
        /\ \A i \in 1 .. n + 2 :
             journal'[i] = IF i <= n THEN journal[i] ELSE <<first, last>>[i - n]
    BY <1>3, <1>4, <1>5, ConcatProperties, LenProperties
  <2>2. DOMAIN journal = 1 .. n /\ DOMAIN journal' = 1 .. n + 2
    BY <1>1, <2>1, LenProperties
  <2> QED
    BY <1>3, <2>1, <2>2
<1> HIDE DEF n
<1>7. \A i \in DOMAIN journal' : journal'[i][1] = "decision.recorded" => journal'[i] = first
  <2>1. \A i \in 1 .. n : journal'[i][1] # "decision.recorded"
    BY <1>6 DEF Plain, Without, Closers
  <2>2. \A i \in DOMAIN journal' : i \in 1 .. n \/ i = n + 1 \/ i = n + 2
    BY <1>6
  <2> QED
    BY <1>2, <1>6, <2>1, <2>2
<1>8. n + 1 \in DOMAIN journal' /\ n + 2 \in DOMAIN journal'
  BY <1>6
<1>9. Closed'
  BY <1>2, <1>6, <1>8 DEF Closed
<1>10. (CHOOSE e \in {journal'[i] : i \in DOMAIN journal'} : e[1] = "decision.recorded") = first
  BY <1>2, <1>6, <1>7, <1>8
<1> QED
  BY <1>2, <1>9, <1>10 DEF ClosedOn

\* Nothing is closed on before the journal holds a closing event.
LEMMA ClosedOnNothing ==
  ASSUME Plain(journal)
  PROVE  ClosedOn = Running
<1>1. ~Closed
  BY DEF Closed, Plain, Without, Closers
<1> QED
  BY <1>1 DEF ClosedOn

LEMMA DecidingEnds ==
  ASSUME Deciding, CloseJournal \/ WriteRecord \/ Abort
  PROVE  Deciding'
<1>1. CASE CloseJournal
  <2>1. /\ pc = "closing" /\ pc' = "writing" /\ ending' = ending
        /\ outcome' = outcome /\ evidence' = evidence
    BY <1>1 DEF CloseJournal, Go, memory
  <2>2. ClosedOn' = ending
    BY <1>1, <2>1, ClosesOn DEF CloseJournal, Deciding, Ended
  <2> QED
    BY <2>1, <2>2 DEF Deciding, Ended
<1>2. CASE WriteRecord
  BY <1>2 DEF WriteRecord, Deciding, Go, memory, Ended
<1>3. CASE Abort
  BY <1>3 DEF Abort, Deciding, Go, memory, Ended
<1> QED
  BY <1>1, <1>2, <1>3

LEMMA DecidingErrs ==
  ASSUME Deciding, Error
  PROVE  Deciding'
<1>1. /\ pc \notin Ended /\ outcome' = outcome /\ journal' = journal /\ evidence' = evidence
  BY DEF Error, disk
<1>2. CASE pc \in {"closing", "writing", "aborting"}
  <2>1. pc' = "raised" /\ ending' = ending
    BY <1>2 DEF Error, Go
  <2> QED
    BY <1>1, <2>1 DEF Deciding, Ended
<1>3. CASE pc \notin {"closing", "writing", "aborting"}
  <2>1. End(Failed)
    BY <1>3 DEF Error
  <2>2. Plain(journal') /\ evidence'.decision = Running /\ outcome'.reasons \in Reasons
        /\ pc # "returned"
    BY <1>1, <1>3 DEF Deciding, Ended
  <2> QED
    BY <2>1, <2>2, DecidingLeaves
<1> QED
  BY <1>2, <1>3

LEMMA DecidingKept ==
  ASSUME Deciding, Types, [Next]_vars
  PROVE  Deciding'
<1>1. ASSUME UNCHANGED <<pc, ending, outcome, journal, evidence>>
      PROVE  Deciding'
  BY <1>1 DEF Deciding, ClosedOn, Closed
<1>2. CASE Controller
  BY <1>2, DecidingBefore, DecidingInside, DecidingJudges, DecidingReview, DecidingKeeps,
     DecidingExhausts, DecidingEnds DEF Controller
<1>3. CASE Error
  BY <1>3, DecidingErrs
<1>4. CASE OperatorActs
  BY <1>1, <1>4 DEF OperatorActs, memory, disk
<1>5. CASE LingeringWrite
  BY <1>1, <1>5 DEF LingeringWrite, memory, disk
<1>6. CASE Terminated
  BY <1>1, <1>6 DEF Terminated, vars, memory, disk
<1>7. CASE UNCHANGED vars
  BY <1>1, <1>7 DEF vars, memory, disk
<1> QED
  BY <1>2, <1>3, <1>4, <1>5, <1>6, <1>7 DEF Next

LEMMA DecidingInvariant == Spec => []Deciding
<1>1. Inv => Types
  BY DEF Inv
<1> QED
  BY <1>1, DecidingOpens, DecidingKept, Invariant, PTL DEF Spec

\* Where the lifecycle is, as the refinement maps it.
Stage == IF pc \in Ended THEN "over" ELSE IF pc = "writing" THEN "decided" ELSE "open"

\* A run that is over takes no step, one whose journal closed ends without
\* touching it, and any other logs no closing event or closes on its decision.
LEMMA StageMoves ==
  ASSUME Deciding, Deciding', [Next]_vars
  PROVE  /\ Stage = "over" => UNCHANGED <<pc, journal, evidence>>
         /\ Stage = "decided" /\ pc' # "writing" =>
              /\ pc' \in Ended /\ journal' = journal /\ ending' = ending
              /\ pc' = "returned" => evidence'.decision = ending
         /\ Stage = "decided" /\ pc' = "writing" => UNCHANGED <<journal, evidence>>
         /\ Stage = "open" /\ Stage' = "over" => pc' = "raised" /\ Plain(journal')
<1>1. CASE Stage = "over"
  <2>1. pc \in Ended
    BY <1>1 DEF Stage
  <2>2. ~Controller /\ ~Error /\ ~OperatorActs /\ ~LingeringWrite
    BY <2>1 DEF Ended, Occasions, Controller, VerifyControlInputs, FreezeExecutionEnvironment,
       Install, FinishBaseline, CreateCandidate, SkipInstall, RunGate, RefuseObservation,
       StartIteration, Actuate, MeasureScope, FinishQuick, JudgeQuick, FinishFull, JudgeFull,
       Review, KeepIteration, ExhaustBudget, CloseJournal, WriteRecord, Abort, Error,
       OperatorActs, LingeringWrite
  <2> QED
    BY <1>1, <2>2 DEF Next, Terminated, vars, disk
<1>2. CASE Stage = "decided"
  <2>1. pc = "writing"
    BY <1>2 DEF Stage
  <2>2. CASE Controller
    <3>1. WriteRecord
      BY <2>1, <2>2 DEF Occasions, Controller, VerifyControlInputs, FreezeExecutionEnvironment,
         Install, FinishBaseline, CreateCandidate, SkipInstall, RunGate, RefuseObservation,
         StartIteration, Actuate, MeasureScope, FinishQuick, JudgeQuick, FinishFull, JudgeFull,
         Review, KeepIteration, ExhaustBudget, CloseJournal, Abort
    <3> QED
      BY <1>2, <3>1 DEF WriteRecord, Go, Ended
  <2>3. CASE Error
    BY <1>2, <2>1, <2>3 DEF Error, Go, disk, Ended
  <2>4. CASE OperatorActs \/ LingeringWrite \/ Terminated \/ UNCHANGED vars
    BY <1>2, <2>1, <2>4 DEF OperatorActs, LingeringWrite, Terminated, vars, disk, Ended
  <2> QED
    BY <1>2, <2>2, <2>3, <2>4 DEF Next
<1>3. CASE Stage = "open"
  <2> SUFFICES ASSUME Stage' = "over" PROVE pc' = "raised" /\ Plain(journal')
    BY <1>3
  <2>1. pc \notin {"writing"} \cup Ended /\ pc' \in Ended /\ Plain(journal)
    BY <1>3 DEF Stage, Deciding
  <2>2. CASE Controller
    <3>1. Abort
      BY <2>1, <2>2 DEF Ended, Occasions, Go, End, InIteration, Decided, JudgeBaseline,
         Controller, VerifyControlInputs, FreezeExecutionEnvironment,
         Install, FinishBaseline, CreateCandidate, SkipInstall, RunGate, RefuseObservation,
         StartIteration, Actuate, MeasureScope, FinishQuick, JudgeQuick, FinishFull, JudgeFull,
         Review, KeepIteration, ExhaustBudget, CloseJournal, WriteRecord
    <3>2. Log(<<<<"run.aborted">>>>) /\ pc' = "raised"
      BY <3>1 DEF Abort, Go
    <3> QED
      BY <2>1, <3>2, Logged, PlainOne DEF Closers
  <2>3. CASE Error
    BY <2>1, <2>3 DEF Error, Go, End, disk, Ended
  <2>4. CASE OperatorActs \/ LingeringWrite \/ Terminated \/ UNCHANGED vars
    BY <2>1, <2>4 DEF OperatorActs, LingeringWrite, Terminated, vars
  <2> QED
    BY <2>2, <2>3, <2>4 DEF Next
<1> QED
  BY <1>1, <1>2, <1>3 DEF Stage

\* Whatever happens to it, the control loop is a run lifecycle: it decides at most
\* once, closes the journal on that decision before the record states it, never
\* states another, and once over changes no more.
THEOREM LoopRefinesLifecycle == Spec => ImplementsLifecycle
<1>1. Init => Lifecycle!Init
  <2> SUFFICES ASSUME Init PROVE Lifecycle!Init
    OBVIOUS
  <2>1. pc = "prepared" /\ evidence.decision = Running
    BY DEF Init
  <2>2. ClosedOn = Running
    BY <2>1, DecidingOpens, ClosedOnNothing DEF Deciding, Ended
  <2> QED
    BY <2>1, <2>2 DEF Lifecycle!Init, Ended
<1>2. Deciding /\ Deciding' /\ [Next]_vars => [Lifecycle!Next]_(Lifecycle!vars)
  <2> SUFFICES ASSUME Deciding, Deciding', [Next]_vars
               PROVE  [Lifecycle!Next]_(Lifecycle!vars)
    OBVIOUS
  <2> USE DEF Lifecycle!vars, Lifecycle!Next, Lifecycle!Decide, Lifecycle!State, Lifecycle!Stop
  <2>1. UNCHANGED journal => ClosedOn' = ClosedOn
    BY DEF ClosedOn, Closed
  <2>2. pc \notin {"writing"} \cup Ended => ClosedOn = Running
    BY ClosedOnNothing DEF Deciding
  <2>3. Plain(journal') => ClosedOn' = Running
    BY DEF ClosedOn, Closed, Plain, Without, Closers
  <2>4. CASE Stage = "over"
    BY <2>1, <2>4, StageMoves DEF Stage
  <2>5. CASE Stage = "decided"
    <3>1. pc = "writing" /\ pc \notin Ended /\ evidence.decision = Running /\ ClosedOn = ending
      BY <2>5 DEF Stage, Deciding, Ended
    <3>2. CASE pc' = "writing"
      BY <2>1, <2>5, <3>1, <3>2, StageMoves DEF Ended
    <3>3. CASE pc' = "returned"
      BY <2>1, <2>5, <3>1, <3>3, StageMoves DEF Ended
    <3>4. CASE pc' = "raised"
      <4>1. evidence'.decision = Running /\ UNCHANGED journal
        BY <2>5, <3>4, StageMoves DEF Deciding
      <4> QED
        BY <2>1, <3>1, <3>4, <4>1 DEF Ended
    <3> QED
      BY <2>5, <3>2, <3>3, <3>4, StageMoves DEF Ended
  <2>6. CASE Stage = "open"
    <3>1. pc \notin {"writing"} \cup Ended /\ evidence.decision = Running /\ ClosedOn = Running
      BY <2>2, <2>6 DEF Stage, Deciding, Ended
    <3>2. CASE pc' \notin {"writing"} \cup Ended
      <4>1. evidence'.decision = Running /\ ClosedOn' = Running
        BY <2>3, <3>2 DEF Deciding, Ended
      <4> QED
        BY <3>1, <3>2, <4>1
    <3>3. CASE pc' = "writing"
      <4>1. evidence'.decision = Running /\ ClosedOn' \in Decisions
        BY <3>3 DEF Deciding, Ended
      <4> QED
        BY <3>1, <3>3, <4>1 DEF Ended
    <3>4. CASE pc' \in Ended
      <4>1. pc' = "raised" /\ Plain(journal')
        BY <2>6, <3>4, StageMoves DEF Stage
      <4>2. evidence'.decision = Running /\ ClosedOn' = Running
        BY <2>3, <4>1 DEF Deciding
      <4> QED
        BY <3>1, <3>4, <4>2
    <3> QED
      BY <3>2, <3>3, <3>4
  <2> QED
    BY <2>4, <2>5, <2>6 DEF Stage
<1> QED
  BY <1>1, <1>2, DecidingInvariant, PTL DEF Spec, ImplementsLifecycle, Lifecycle!Spec

-----------------------------------------------------------------------------
(* What is tried again, and what is left to a person.                         *)

\* What the attempt does not hold yet.
Blank ==
  /\ pc \in {"attempted", "acted", "quick"} => attempt.quick = Unset
  /\ pc \in {"attempted", "acted", "quick", "quick measured", "full"} => attempt.full = Unset
  /\ pc \in InIteration \ {"reviewing"} => attempt.review = Unset
  /\ pc = "reviewing" => attempt.review = Asked

\* The provider files a phase was measured over.
OverPrepared(it) == Provider # "none" \/ installed => it.observed \in Prepared

Retrying ==
  /\ \A i \in DOMAIN iterations :
       i < Len(iterations) \/ pc \in {"iterating", "keeping"} \cup InIteration =>
         Retriable(iterations[i])
  /\ pc \in {"full", "full measured", "reviewing"} => OverPrepared(attempt)
  /\ pc = "keeping" /\ ending = Running => Retriable(attempt)

LEMMA BlankLeaves ==
  ASSUME NEW end, End(end)
  PROVE  Blank'
<1>1. pc' \in {"keeping", "aborting", "closing"}
  BY DEF End
<1> QED
  BY <1>1 DEF Blank, InIteration

LEMMA BlankStep ==
  ASSUME Inv, Blank, Next
  PROVE  Blank'
<1> USE DEF InIteration
<1>1. CASE \E end : End(end)
  BY <1>1, BlankLeaves
<1>2. CASE VerifyControlInputs
  BY <1>1, <1>2 DEF VerifyControlInputs, Go, Blank
<1>3. CASE FreezeExecutionEnvironment
  BY <1>1, <1>3 DEF FreezeExecutionEnvironment, Go, Blank
<1>4. CASE Install
  BY <1>1, <1>4 DEF Install, Go, Blank
<1>5. CASE FinishBaseline
  BY <1>1, <1>5 DEF FinishBaseline, JudgeBaseline, Go, Blank
<1>6. CASE CreateCandidate
  BY <1>1, <1>6 DEF CreateCandidate, Go, Blank
<1>7. CASE SkipInstall
  BY <1>1, <1>7 DEF SkipInstall, Go, Blank
<1>8. CASE RunGate
  BY <1>8 DEF RunGate, Blank
<1>9. CASE RefuseObservation
  BY <1>1, <1>9 DEF RefuseObservation
<1>10. CASE StartIteration
  BY <1>10 DEF StartIteration, Attempted, Go, Blank
<1>11. CASE Actuate
  <2>1. Shape(attempt) /\ pc = "attempted"
    BY <1>11 DEF Actuate, Inv, Passing
  <2>2. ASSUME NEW exit, attempt' = [attempt EXCEPT !.agent = exit, !.actuator = tree'], Go("acted")
        PROVE  Blank'
    <3>1. /\ attempt'.quick = attempt.quick /\ attempt'.full = attempt.full
          /\ attempt'.review = attempt.review
      BY <2>1, <2>2 DEF Shape, Fields
    <3> QED
      BY <2>1, <2>2, <3>1 DEF Go, Blank
  <2> QED
    BY <1>1, <1>11, <2>2 DEF Actuate
<1>12. CASE MeasureScope
  BY <1>12 DEF MeasureScope, Go, Blank
<1>13. CASE FinishQuick
  <2>1. /\ Shape(attempt) /\ pc = "quick" /\ Go("quick measured")
        /\ attempt' = [attempt EXCEPT !.observed = tree, !.scope = scope, !.quick = results]
    BY <1>13 DEF FinishQuick, Inv, Passing
  <2>2. attempt'.full = attempt.full /\ attempt'.review = attempt.review
    BY <2>1 DEF Shape, Fields
  <2> QED
    BY <2>1, <2>2 DEF Go, Blank
<1>14. CASE JudgeQuick
  <2>1. ASSUME Go("keeping") PROVE Blank'
    BY <2>1 DEF Go, Blank
  <2>2. ASSUME Go("full"), attempt' = attempt, pc = "quick measured" PROVE Blank'
    BY <2>2 DEF Go, Blank
  <2> QED
    BY <1>1, <1>14, <2>1, <2>2 DEF JudgeQuick, Decided
<1>15. CASE FinishFull
  <2>1. /\ Shape(attempt) /\ pc = "full" /\ Go("full measured")
        /\ attempt' = [attempt EXCEPT !.full = results, !.full_state = tree]
    BY <1>15 DEF FinishFull, Inv, Passing
  <2>2. attempt'.review = attempt.review
    BY <2>1 DEF Shape, Fields
  <2> QED
    BY <2>1, <2>2 DEF Go, Blank
<1>16. CASE JudgeFull
  <2>1. ASSUME Go("keeping") PROVE Blank'
    BY <2>1 DEF Go, Blank
  <2>2. ASSUME Go("reviewing"), attempt' = [attempt EXCEPT !.review = Asked], Shape(attempt)
        PROVE  Blank'
    <3>1. attempt'.review = Asked
      BY <2>2 DEF Shape, Fields
    <3> QED
      BY <2>2, <3>1 DEF Go, Blank
  <2>3. Shape(attempt)
    BY <1>16 DEF JudgeFull, Inv, Passing
  <2> QED
    BY <1>1, <1>16, <2>1, <2>2, <2>3 DEF JudgeFull, Decided
<1>17. CASE Review
  <2>1. ASSUME Go("keeping") PROVE Blank'
    BY <2>1 DEF Go, Blank
  <2> QED
    BY <1>1, <1>17, <2>1 DEF Review
<1>18. CASE KeepIteration
  BY <1>1, <1>18 DEF KeepIteration, Go, Blank
<1>19. CASE ExhaustBudget
  BY <1>1, <1>19 DEF ExhaustBudget
<1>20. CASE CloseJournal \/ WriteRecord \/ Abort
  BY <1>20 DEF CloseJournal, WriteRecord, Abort, Go, Blank
<1>21. CASE Error
  BY <1>1, <1>21 DEF Error, Go, Blank
<1>22. CASE OperatorActs \/ LingeringWrite \/ Terminated
  BY <1>22 DEF OperatorActs, LingeringWrite, Terminated, vars, memory, Blank
<1> QED
  BY <1>2, <1>3, <1>4, <1>5, <1>6, <1>7, <1>8, <1>9, <1>10, <1>11, <1>12, <1>13, <1>14, <1>15,
     <1>16, <1>17, <1>18, <1>19, <1>20, <1>21, <1>22
  DEF Next, Controller

LEMMA NothingKept ==
  ASSUME Inv, Chain, pc \in Early \cup {"measured", "cloned"}
  PROVE  DOMAIN iterations = {} /\ Len(iterations) = 0 /\ iterations = <<>>
<1>1. PICK S : iterations \in Seq(S)
  BY DEF Inv, Types
<1>2. Len(iterations) = 0
  BY DEF Chain
<1> QED
  BY <1>1, <1>2, EmptySeq, LenProperties

LEMMA RetryingBegins ==
  ASSUME Inv, Chain, pc \in Early \cup {"measured", "cloned"}, iterations' = iterations,
         pc' \in Early \cup {"measured", "cloned", "iterating", "aborting", "closing"}
  PROVE  Retrying'
<1>1. DOMAIN iterations' = {}
  BY NothingKept
<1> QED
  BY <1>1 DEF Retrying, Early

LEMMA RetryingLeaves ==
  ASSUME Retrying, NEW end, End(end), end # Running, pc # "keeping", iterations' = iterations
  PROVE  Retrying'
<1>1. /\ ending' = end /\ pc' \in {"keeping", "aborting", "closing"}
      /\ pc' = "keeping" => pc \in InIteration
  BY DEF End
<1> QED
  BY <1>1 DEF Retrying, Retriable, InIteration

LEMMA RetryingGoes ==
  ASSUME Retrying, NEW next \in InIteration, Go(next), pc \in {"iterating"} \cup InIteration,
         iterations' = iterations,
         next \in {"full", "full measured", "reviewing"} => OverPrepared(attempt)'
  PROVE  Retrying'
<1>1. pc' = next
  BY DEF Go
<1> QED
  BY <1>1 DEF Retrying, Retriable, InIteration, OverPrepared

LEMMA RetryingKeeps ==
  ASSUME Retrying, Go("keeping"), pc \in InIteration, iterations' = iterations, Retriable(attempt')
  PROVE  Retrying'
<1>1. pc' = "keeping" /\ ending' = ending
  BY DEF Go
<1> QED
  BY <1>1 DEF Retrying, Retriable, InIteration

\* What a phase decided leaves everything else of the attempt as it was.
LEMMA RetriableTold ==
  ASSUME NEW it, Shape(it), Retriable(it), NEW feedback
  PROVE  Retriable([it EXCEPT !.feedback = feedback])
<1> DEFINE now == [it EXCEPT !.feedback = feedback]
<1>1. /\ now.agent = it.agent /\ now.quick = it.quick /\ now.observed = it.observed
      /\ now.actuator = it.actuator /\ now.full = it.full /\ now.full_state = it.full_state
      /\ now.review = it.review
  BY DEF Shape, Fields
<1> HIDE DEF now
<1> QED
  BY <1>1 DEF Retriable

LEMMA RetriableAnswered ==
  ASSUME NEW it, Shape(it), FullPassed(it), OverPrepared(it),
         it.review # Unset => ReviewFaults(it.review) = {}
  PROVE  Retriable(it)
  BY DEF Retriable, FullPassed, QuickPassed, Sound, OverPrepared

\* The candidate a phase left, over the provider files it was given.
LEMMA PhasePrepared ==
  ASSUME Installed, pc \in InIteration, NEW before, NEW after, ControlFailures(before, after) = {}
  PROVE  Provider # "none" \/ installed => tree \in Prepared
  BY Unchanged DEF Installed

LEMMA RetryingJudgesQuick ==
  ASSUME Inv, Quiet, Blank, Retrying, JudgeQuick
  PROVE  Retrying'
<1>1. /\ pc = "quick measured" /\ pc \in InIteration /\ pc # "keeping"
      /\ UNCHANGED <<iterations, installed>>
      /\ Shape(attempt) /\ attempt.agent = "zero" /\ attempt.quick = results
      /\ tree = attempt.observed /\ attempt.full = Unset /\ attempt.review = Unset
  BY DEF JudgeQuick, InIteration, Inv, Passing, Quiet, Still, Blank
<1>2. ASSUME SensorFaults(results) = {}, ControlFailures(attempt.actuator, attempt.observed) = {}
      PROVE  OverPrepared(attempt) /\ Retriable(attempt)
  <2>1. Trusted(results) /\ attempt.observed = attempt.actuator
    BY <1>2, NoFaults, NoControls
  <2>2. OverPrepared(attempt)
    BY <1>1, <1>2, PhasePrepared DEF Quiet, OverPrepared
  <2> QED
    BY <1>1, <2>1, <2>2 DEF Retriable, OverPrepared
<1>3. \/ \E reasons : End(Rejected(reasons))
      \/ /\ SensorFaults(results) = {} /\ ControlFailures(attempt.actuator, attempt.observed) = {}
         /\ \/ \E objections : Decided("quick", objections, objections)
            \/ Go("full") /\ attempt' = attempt
  BY DEF JudgeQuick
<1>4. CASE \E reasons : End(Rejected(reasons))
  BY <1>1, <1>4, Distinct, RetryingLeaves
<1>5. ASSUME NEW objections, Decided("quick", objections, objections), Retriable(attempt)
      PROVE  Retrying'
  <2>1. Go("keeping") /\ attempt' = [attempt EXCEPT !.feedback = objections]
    BY <1>5 DEF Decided
  <2>2. Retriable(attempt')
    BY <1>1, <1>5, <2>1, RetriableTold
  <2> QED
    BY <1>1, <2>1, <2>2, RetryingKeeps
<1>6. ASSUME Go("full"), attempt' = attempt, OverPrepared(attempt) PROVE Retrying'
  <2>1. OverPrepared(attempt)'
    BY <1>1, <1>6 DEF OverPrepared
  <2> QED
    BY <1>1, <1>6, <2>1, RetryingGoes DEF InIteration
<1> QED
  BY <1>2, <1>3, <1>4, <1>5, <1>6

LEMMA RetryingJudgesFull ==
  ASSUME Inv, Blank, Retrying, JudgeFull
  PROVE  Retrying'
<1>1. /\ pc = "full measured" /\ pc \in InIteration /\ pc # "keeping"
      /\ UNCHANGED <<iterations, installed>>
      /\ Shape(attempt) /\ QuickPassed(attempt) /\ attempt.full = results
      /\ attempt.review = Unset /\ OverPrepared(attempt)
  BY DEF JudgeFull, InIteration, Inv, Passing, Blank, Retrying
<1>2. ASSUME SensorFaults(results) = {}, ControlFailures(attempt.observed, attempt.full_state) = {}
      PROVE  Retriable(attempt)
  <2>1. Trusted(results) /\ attempt.full_state = attempt.observed
    BY <1>2, NoFaults, NoControls
  <2> QED
    BY <1>1, <2>1 DEF Retriable, OverPrepared, QuickPassed, Sound
<1>3. \/ \E reasons : End(Rejected(reasons))
      \/ /\ SensorFaults(results) = {} /\ ControlFailures(attempt.observed, attempt.full_state) = {}
         /\ \/ \E objections : Decided("full", objections, objections)
            \/ Go("reviewing") /\ attempt' = [attempt EXCEPT !.review = Asked]
  BY DEF JudgeFull
<1>4. CASE \E reasons : End(Rejected(reasons))
  BY <1>1, <1>4, Distinct, RetryingLeaves
<1>5. ASSUME NEW objections, Decided("full", objections, objections), Retriable(attempt)
      PROVE  Retrying'
  <2>1. Go("keeping") /\ attempt' = [attempt EXCEPT !.feedback = objections]
    BY <1>5 DEF Decided
  <2>2. Retriable(attempt')
    BY <1>1, <1>5, <2>1, RetriableTold
  <2> QED
    BY <1>1, <2>1, <2>2, RetryingKeeps
<1>6. ASSUME Go("reviewing"), attempt' = [attempt EXCEPT !.review = Asked] PROVE Retrying'
  <2>1. attempt'.observed = attempt.observed
    BY <1>1, <1>6 DEF Shape, Fields
  <2>2. OverPrepared(attempt)'
    BY <1>1, <2>1 DEF OverPrepared
  <2> QED
    BY <1>1, <1>6, <2>2, RetryingGoes DEF InIteration
<1> QED
  BY <1>2, <1>3, <1>4, <1>5, <1>6

\* What an answer adds to the attempt.
LEMMA AnsweredAndTold ==
  ASSUME Shape(attempt), FullPassed(attempt), NEW answer, NEW feedback,
         attempt' = [[attempt EXCEPT !.review = answer] EXCEPT !.feedback = feedback]
  PROVE  /\ Shape(attempt') /\ FullPassed(attempt') /\ attempt'.review = answer
         /\ attempt'.observed = attempt.observed
<1> DEFINE answered == [attempt EXCEPT !.review = answer]
<1>1. answered = [attempt EXCEPT !.review = answer]
  OBVIOUS
<1>2. attempt' = [answered EXCEPT !.feedback = feedback]
  OBVIOUS
<1> HIDE DEF answered
<1>3. Shape(answered) /\ FullPassed(answered) /\ answered.review = answer
  BY <1>1, Answered
<1>4. answered.observed = attempt.observed
  BY <1>1 DEF Shape, Fields
<1>5. Shape(attempt') /\ FullPassed(attempt') /\ attempt'.review = answered.review
  BY <1>2, <1>3, Told
<1>6. attempt'.observed = answered.observed
  BY <1>2, <1>3 DEF Shape, Fields
<1> QED
  BY <1>3, <1>4, <1>5, <1>6

LEMMA RetryingReviews ==
  ASSUME Inv, Blank, Retrying, Review
  PROVE  Retrying'
<1>1. /\ pc = "reviewing" /\ pc \in InIteration /\ pc # "keeping" /\ iterations' = iterations
      /\ Shape(attempt) /\ FullPassed(attempt) /\ OverPrepared(attempt)
  BY DEF Review, InIteration, Inv, Passing, Retrying
<1>2. \/ \E reasons : End(Rejected(reasons)) \/ End(Escalated(reasons))
      \/ \E answer \in Reviews : \E feedback :
           /\ ReviewFaults(answer) = {} /\ Go("keeping")
           /\ attempt' = [[attempt EXCEPT !.review = answer] EXCEPT !.feedback = feedback]
  BY DEF Review
<1>3. CASE \E reasons : End(Rejected(reasons)) \/ End(Escalated(reasons))
  BY <1>1, <1>3, Distinct, RetryingLeaves
<1>4. ASSUME NEW answer \in Reviews, NEW feedback, ReviewFaults(answer) = {}, Go("keeping"),
             attempt' = [[attempt EXCEPT !.review = answer] EXCEPT !.feedback = feedback]
      PROVE  Retrying'
  <2>1. /\ Shape(attempt') /\ FullPassed(attempt') /\ attempt'.review = answer
        /\ attempt'.observed = attempt.observed
    BY <1>1, <1>4, AnsweredAndTold
  <2>2. OverPrepared(attempt')
    BY <1>1, <2>1 DEF OverPrepared
  <2>3. Retriable(attempt')
    BY <1>4, <2>1, <2>2, RetriableAnswered
  <2> QED
    BY <1>1, <1>4, <2>3, RetryingKeeps
<1> QED
  BY <1>2, <1>3, <1>4

\* The iteration kept is the last, and the ones before it are what they were.
LEMMA RetryingKept ==
  ASSUME Inv, Retrying, pc = "keeping", iterations' = Kept,
         pc' \in {"aborting", "closing"} \/ (pc' = "iterating" /\ ending = Running)
  PROVE  Retrying'
<1>1. PICK S : iterations \in Seq(S)
  BY DEF Inv, Types
<1>2. iterations \in Seq(S \cup {attempt})
  BY <1>1, SeqMonotonic
<1>3. /\ Len(iterations) \in Nat /\ DOMAIN iterations = 1 .. Len(iterations)
      /\ DOMAIN iterations' = 1 .. (Len(iterations) + 1)
      /\ Len(iterations') = Len(iterations) + 1
      /\ \A i \in 1 .. Len(iterations) : iterations'[i] = iterations[i]
      /\ iterations'[Len(iterations) + 1] = attempt
  BY <1>2, AppendProperties, LenProperties DEF Kept
<1>4. \A i \in DOMAIN iterations : Retriable(iterations[i])
  BY DEF Retrying
<1>5. \A i \in DOMAIN iterations' :
        i \in DOMAIN iterations \/ (i = Len(iterations) + 1 /\ ~(i < Len(iterations')))
  BY <1>3
<1>6. pc' = "iterating" => Retriable(attempt)
  BY DEF Retrying
<1>7. \A i \in DOMAIN iterations' : i < Len(iterations') \/ pc' = "iterating" =>
        Retriable(iterations'[i])
  BY <1>3, <1>4, <1>5, <1>6
<1> QED
  BY <1>7 DEF Retrying, Retriable, InIteration

LEMMA RetryingStep ==
  ASSUME Inv, Quiet, Blank, Retrying, Next
  PROVE  Retrying'
<1>2. CASE VerifyControlInputs \/ FreezeExecutionEnvironment \/ Install \/ FinishBaseline
             \/ CreateCandidate \/ SkipInstall
  <2>1. /\ pc \in Early \cup {"measured", "cloned"} /\ iterations' = iterations
        /\ pc' \in Early \cup {"measured", "cloned", "iterating", "aborting", "closing"}
    BY <1>2 DEF Early, InIteration, Go, End, memory, VerifyControlInputs,
       FreezeExecutionEnvironment, Install, FinishBaseline, JudgeBaseline, CreateCandidate,
       SkipInstall
  <2> QED
    BY <2>1, RetryingBegins DEF Quiet
<1>3. CASE RunGate
  <2>1. UNCHANGED <<pc, ending, attempt, iterations, installed>>
    BY <1>3 DEF RunGate
  <2> QED
    BY <2>1 DEF Retrying, Retriable, OverPrepared
<1>4. CASE RefuseObservation
  <2>1. pc # "keeping" /\ iterations' = iterations /\ \E reasons : End(Rejected(reasons))
    BY <1>4 DEF RefuseObservation, Occasions, memory
  <2> QED
    BY <2>1, Distinct, RetryingLeaves
<1>5. CASE StartIteration
  <2>1. pc = "iterating" /\ Go("attempted") /\ iterations' = iterations
    BY <1>5 DEF StartIteration
  <2> QED
    BY <2>1, RetryingGoes DEF InIteration
<1>6. CASE Actuate
  <2>1. /\ pc = "attempted" /\ iterations' = iterations
        /\ Go("acted") \/ \E reasons : End(Rejected(reasons))
    BY <1>6 DEF Actuate
  <2> QED
    BY <2>1, Distinct, RetryingGoes, RetryingLeaves DEF InIteration
<1>7. CASE MeasureScope
  <2>1. pc = "acted" /\ Go("quick") /\ iterations' = iterations
    BY <1>7 DEF MeasureScope
  <2> QED
    BY <2>1, RetryingGoes DEF InIteration
<1>8. CASE FinishQuick
  <2>1. pc = "quick" /\ Go("quick measured") /\ iterations' = iterations
    BY <1>8 DEF FinishQuick
  <2> QED
    BY <2>1, RetryingGoes DEF InIteration
<1>9. CASE JudgeQuick
  BY <1>9, RetryingJudgesQuick
<1>10. CASE FinishFull
  <2>1. /\ pc = "full" /\ Go("full measured") /\ iterations' = iterations /\ Shape(attempt)
        /\ attempt' = [attempt EXCEPT !.full = results, !.full_state = tree]
        /\ OverPrepared(attempt) /\ installed' = installed
    BY <1>10 DEF FinishFull, Inv, Passing, InIteration, Retrying
  <2>2. attempt'.observed = attempt.observed
    BY <2>1 DEF Shape, Fields
  <2>3. OverPrepared(attempt)'
    BY <2>1, <2>2 DEF OverPrepared
  <2> QED
    BY <2>1, <2>3, RetryingGoes DEF InIteration
<1>11. CASE JudgeFull
  BY <1>11, RetryingJudgesFull
<1>12. CASE Review
  BY <1>12, RetryingReviews
<1>13. CASE KeepIteration
  <2>1. /\ pc = "keeping" /\ iterations' = Kept
        /\ pc' \in {"aborting", "closing"} \/ (pc' = "iterating" /\ ending = Running)
    BY <1>13 DEF KeepIteration, Go, End, InIteration
  <2> QED
    BY <2>1, RetryingKept
<1>14. CASE ExhaustBudget
  <2>1. pc = "iterating" /\ iterations' = iterations /\ \E reasons : End(Exhausted(reasons))
    BY <1>14 DEF ExhaustBudget, memory
  <2>2. \A reasons : Exhausted(reasons) # Running
    BY Distinct DEF Exhausted
  <2> QED
    BY <2>1, <2>2, RetryingLeaves
<1>15. CASE CloseJournal \/ WriteRecord \/ Abort
  <2>1. pc' \in {"writing", "returned", "raised"} /\ iterations' = iterations
    BY <1>15 DEF CloseJournal, WriteRecord, Abort, Go, memory
  <2> QED
    BY <2>1 DEF Retrying, Retriable, InIteration
<1>16. CASE Error
  <2>1. CASE pc = "keeping"
    <3>1. pc' = "aborting" /\ iterations' = Kept
      BY <1>16, <2>1 DEF Error, End, InIteration
    <3> QED
      BY <2>1, <3>1, RetryingKept
  <2>2. CASE pc \in {"closing", "writing", "aborting"}
    <3>1. pc' = "raised" /\ iterations' = iterations
      BY <1>16, <2>2 DEF Error, Go
    <3> QED
      BY <3>1 DEF Retrying, Retriable, InIteration
  <2>3. CASE pc \notin {"keeping", "closing", "writing", "aborting"}
    BY <1>16, <2>3, Distinct, RetryingLeaves DEF Error
  <2> QED
    BY <2>1, <2>2, <2>3
<1>17. CASE OperatorActs \/ LingeringWrite \/ Terminated
  <2>1. UNCHANGED <<pc, ending, attempt, iterations, installed>>
    BY <1>17 DEF OperatorActs, LingeringWrite, Terminated, vars, memory
  <2> QED
    BY <2>1 DEF Retrying, Retriable, OverPrepared
<1> QED
  BY <1>2, <1>3, <1>4, <1>5, <1>6, <1>7, <1>8, <1>9, <1>10, <1>11, <1>12, <1>13, <1>14, <1>15,
     <1>16, <1>17
  DEF Next, Controller

LEMMA RetryInvariant ==
  ASSUME "linger" \notin Hazards
  PROVE  Spec => [](Blank /\ Retrying)
<1>1. Init => Blank /\ Retrying
  <2> SUFFICES ASSUME Init PROVE Blank /\ Retrying
    OBVIOUS
  <2>1. pc = "prepared" /\ DOMAIN iterations = {}
    BY EmptySeq DEF Init
  <2> QED
    BY <2>1 DEF Blank, Retrying, InIteration
<1>2. Inv /\ Quiet /\ Blank /\ Retrying /\ [Next]_vars => Blank' /\ Retrying'
  <2> SUFFICES ASSUME Inv, Quiet, Blank, Retrying, [Next]_vars PROVE Blank' /\ Retrying'
    OBVIOUS
  <2>1. CASE Next
    BY <2>1, BlankStep, RetryingStep
  <2>2. CASE UNCHANGED vars
    <3>1. UNCHANGED <<pc, ending, attempt, iterations, installed>>
      BY <2>2 DEF vars, memory
    <3> QED
      BY <3>1 DEF Blank, Retrying, Retriable, OverPrepared
  <2> QED
    BY <2>1, <2>2
<1> QED
  BY <1>1, <1>2, Invariant, QuietInvariant, PTL DEF Spec

\* Where nothing writes in the candidate behind the controller, no candidate is
\* given another attempt over a measurement that cannot be trusted: _iterate feeds
\* back what a phase objected to, and nothing else.
THEOREM OnlyTrustedMeasurementsAreRetried ==
  ASSUME "linger" \notin Hazards
  PROVE  Spec => []NoRetryOnABrokenControl
<1>1. Retrying => NoRetryOnABrokenControl
  BY DEF Retrying, NoRetryOnABrokenControl
<1> QED
  BY <1>1, RetryInvariant, PTL

-----------------------------------------------------------------------------
(* What a run that objected, or could not settle, ends on.                    *)

\* An iteration that some control objected to, or whose review never came or was
\* misreported.
Objected(it) ==
  PassedEveryControl(it) =>
    overlooked \/ Regressed(it) \/ it.review = Asked \/ ReviewFaults(it.review) # {}

\* An iteration that passed every control and that a proper review is not
\* satisfied with.
ToAPerson(it) ==
  FullPassed(it) /\ ReviewFaults(it.review) = {} /\ ~FullySatisfied(it.review)

\* What the reasons of the last iteration are worth to an exhausted budget.
Due(it) == IF outcome.stage = "review" THEN ToAPerson(it) ELSE Objected(it)

EndsOn(it) ==
  /\ ending.status = "REJECTED" => Objected(it)
  /\ ending.status = "ESCALATED" => ToAPerson(it)

Over == {"closing", "writing", "aborting"} \cup Ended

Settled ==
  /\ pc \in Early \cup {"measured", "cloned"} => outcome.stage = "none"
  /\ pc = "iterating" => IF Len(iterations) = 0 THEN outcome.stage = "none" ELSE Due(Final)
  /\ pc = "keeping" /\ ending = Running /\ ~outcome.accepted => Due(attempt)
  /\ pc = "keeping" => EndsOn(attempt)
  /\ pc \in Over => IF Len(iterations) = 0 THEN ending.status # "ESCALATED" ELSE EndsOn(Final)
  /\ pc = "returned" => evidence.decision = ending

LEMMA Statuses_ ==
  /\ Running.status = "RUNNING" /\ Failed.status = "failed" /\ Accepted.status = "ACCEPTED"
  /\ \A reasons : Rejected(reasons).status = "REJECTED" /\ Escalated(reasons).status = "ESCALATED"
  BY DEF Running, Failed, Accepted, Rejected, Escalated

\* A step within a location range where nothing ended yet.
LEMMA SettledGoes ==
  ASSUME Settled, NEW next \in Early \cup {"measured", "cloned"} \cup InIteration, Go(next),
         pc \in Early \cup {"measured", "cloned", "iterating"} \cup InIteration,
         next \in Early \cup {"measured", "cloned"} =>
           pc \in Early \cup {"measured", "cloned"} /\ outcome' = outcome
  PROVE  Settled'
<1>1. pc' = next
  BY DEF Go
<1> QED
  BY <1>1 DEF Settled, Early, InIteration, Over, Ended

\* An exception before the first iteration decides nothing of one.
LEMMA SettledBefore ==
  ASSUME Inv, Chain, NEW end, End(end), end.status # "ESCALATED",
         pc \in Early \cup {"measured", "cloned"}, iterations' = iterations
  PROVE  Settled'
<1>1. Len(iterations') = 0
  BY NothingKept
<1>2. ending' = end /\ pc' \in {"aborting", "closing"}
  BY DEF End, Early, InIteration
<1> QED
  BY <1>1, <1>2 DEF Settled, Early, Over, Ended

\* An exception inside one is about the attempt.
LEMMA SettledLeaves ==
  ASSUME NEW end, End(end), end # Running, pc \in InIteration,
         end.status = "REJECTED" => Objected(attempt)',
         end.status = "ESCALATED" => ToAPerson(attempt)'
  PROVE  Settled'
<1>1. ending' = end /\ pc' = "keeping"
  BY DEF End
<1> QED
  BY <1>1 DEF Settled, Early, Over, Ended, EndsOn

LEMMA SettledKeeps ==
  ASSUME Inv, Go("keeping"), pc \in InIteration, outcome'.accepted = TRUE \/ Due(attempt)'
  PROVE  Settled'
<1>1. pc' = "keeping" /\ ending' = Running
  BY DEF Go, Inv, Ending
<1> QED
  BY <1>1, Statuses_ DEF Settled, Early, Over, Ended, EndsOn

\* A phase not measured yet, or not to its end, let nothing through.
LEMMA NotYet ==
  ASSUME NEW it, it.agent # "zero" \/ it.quick = Unset \/ it.full = Unset
  PROVE  ~PassedEveryControl(it)
  BY DEF PassedEveryControl

\* What failed in the full phase failed in the two.
LEMMA FullPhase ==
  ASSUME NEW quick, NEW full, quick \in Seq(Result), full \in Seq(Result)
  PROVE  /\ AllPassed(quick \o full) => AllPassed(full)
         /\ Trusted(quick \o full) => Trusted(full)
<1>1. ASSUME NEW k \in DOMAIN full
      PROVE  /\ k + Len(quick) \in DOMAIN (quick \o full)
             /\ (quick \o full)[k + Len(quick)] = full[k]
  BY ConcatProperties, LenProperties
<1> QED
  BY <1>1 DEF AllPassed, Trusted

LEMMA EveryControl ==
  ASSUME NEW it, FullPassed(it)
  PROVE  PassedEveryControl(it)
<1>1. AllPassed(it.quick \o it.full) /\ Trusted(it.quick \o it.full)
  BY BothPhases DEF FullPassed, QuickPassed, Sound
<1> QED
  BY <1>1, MeasuredAssumption DEF PassedEveryControl, FullPassed, QuickPassed, Sound

\* A review that objects, or leaves something to a person, is not satisfied.
LEMMA NotSatisfied ==
  ASSUME NEW answer \in Reviews, ReviewReasons(answer) # {} \/ ReviewEscalations(answer) # {}
  PROVE  ~FullySatisfied(answer)
<1>1. Listed(answer)
  BY ReviewsAssumption DEF Listed
<1> QED
  BY <1>1, SatisfiedSilent DEF SatisfiedMeansSilence

LEMMA SettledFails ==
  ASSUME End(Failed), pc # "returned"
  PROVE  Settled'
<1>1. ending' = Failed /\ pc' \in {"keeping", "aborting"}
  BY DEF End
<1> QED
  BY <1>1, Statuses_ DEF Settled, Early, Over, Ended, EndsOn

LEMMA SettledEarly ==
  ASSUME Inv, Chain, Settled,
         VerifyControlInputs \/ FreezeExecutionEnvironment \/ Install \/ FinishBaseline
           \/ CreateCandidate \/ SkipInstall
  PROVE  Settled'
<1>1. /\ pc \in Early \cup {"measured", "cloned"} /\ UNCHANGED <<iterations, outcome>>
      /\ \/ \E next \in Early \cup {"measured", "cloned"} : Go(next)
         \/ Go("iterating")
         \/ \E reasons : End(Rejected(reasons))
         \/ End(Failed)
  BY DEF Early, memory, VerifyControlInputs, FreezeExecutionEnvironment, Install, FinishBaseline,
     JudgeBaseline, CreateCandidate, SkipInstall
<1>2. CASE \E next \in Early \cup {"measured", "cloned"} : Go(next)
  BY <1>1, <1>2, SettledGoes
<1>3. CASE Go("iterating")
  <2>1. pc' = "iterating" /\ Len(iterations') = 0 /\ outcome'.stage = "none"
    BY <1>1, <1>3, NothingKept DEF Go, Settled
  <2> QED
    BY <2>1 DEF Settled, Early, Over, Ended
<1>4. CASE \E reasons : End(Rejected(reasons))
  BY <1>1, <1>4, Statuses_, SettledBefore
<1>5. CASE End(Failed)
  BY <1>1, <1>5, SettledFails DEF Early
<1> QED
  BY <1>1, <1>2, <1>3, <1>4, <1>5

LEMMA SettledInside ==
  ASSUME Inv, Blank, Settled,
         RunGate \/ RefuseObservation \/ StartIteration \/ Actuate \/ MeasureScope \/ FinishQuick
           \/ FinishFull,
         Chain
  PROVE  Settled'
<1>1. CASE RunGate
  <2>1. pc \in Occasions /\ UNCHANGED <<pc, outcome>>
    BY <1>1 DEF RunGate
  <2> QED
    BY <2>1 DEF Settled, Occasions, Early, Over, Ended
<1>2. CASE RefuseObservation
  <2>1. /\ pc \in Occasions /\ UNCHANGED <<iterations, attempt>>
        /\ \E reasons : End(Rejected(reasons))
    BY <1>2 DEF RefuseObservation, memory
  <2>2. CASE pc = "baseline"
    BY <2>1, <2>2, Statuses_, SettledBefore DEF Early
  <2>3. CASE pc \in {"quick", "full"}
    <3>1. attempt'.full = Unset
      BY <2>1, <2>3 DEF Blank
    <3>2. Objected(attempt)'
      BY <3>1, NotYet DEF Objected
    <3>3. pc \in InIteration
      BY <2>3 DEF InIteration
    <3> QED
      BY <2>1, <3>2, <3>3, Distinct, Statuses_, SettledLeaves
  <2> QED
    BY <2>1, <2>2, <2>3 DEF Occasions
<1>3. CASE Actuate
  <2>1. pc = "attempted" /\ pc \in InIteration /\ Shape(attempt)
    BY <1>3 DEF Actuate, InIteration, Inv, Passing
  <2>2. \/ Go("acted")
        \/ /\ \E reasons : End(Rejected(reasons))
           /\ \/ attempt' = [attempt EXCEPT !.agent = "error"]
              \/ attempt' = [attempt EXCEPT !.agent = "nonzero", !.actuator = tree']
    BY <1>3 DEF Actuate
  <2>3. CASE Go("acted")
    BY <2>1, <2>3, SettledGoes DEF InIteration, Early
  <2>4. ASSUME NEW reasons, End(Rejected(reasons)),
               \/ attempt' = [attempt EXCEPT !.agent = "error"]
               \/ attempt' = [attempt EXCEPT !.agent = "nonzero", !.actuator = tree']
        PROVE  Settled'
    <3>1. attempt'.agent \in {"error", "nonzero"}
      BY <2>1, <2>4 DEF Shape, Fields
    <3>2. Objected(attempt)'
      BY <3>1, NotYet DEF Objected
    <3> QED
      BY <2>1, <2>4, <3>2, Distinct, Statuses_, SettledLeaves
  <2> QED
    BY <2>2, <2>3, <2>4
<1>4. CASE StartIteration \/ MeasureScope \/ FinishQuick \/ FinishFull
  <2>1. /\ pc \in {"iterating"} \cup InIteration
        /\ \E next \in InIteration : Go(next)
    BY <1>4 DEF InIteration, StartIteration, MeasureScope, FinishQuick, FinishFull
  <2>2. \A next \in InIteration : next \notin Early \cup {"measured", "cloned"}
    BY DEF InIteration, Early
  <2> QED
    BY <2>1, <2>2, SettledGoes
<1> QED
  BY <1>1, <1>2, <1>3, <1>4

LEMMA SettledJudgesQuick ==
  ASSUME Inv, Blank, Settled, JudgeQuick
  PROVE  Settled'
<1>1. pc = "quick measured" /\ pc \in InIteration /\ Shape(attempt) /\ attempt.full = Unset
  BY DEF JudgeQuick, InIteration, Inv, Passing, Blank
<1>2. \/ attempt' = attempt /\ \E reasons : End(Rejected(reasons))
      \/ \E objections : Decided("quick", objections, objections)
      \/ Go("full")
  BY DEF JudgeQuick
<1>3. ASSUME NEW reasons, attempt' = attempt, End(Rejected(reasons)) PROVE Settled'
  <2>1. Objected(attempt)'
    BY <1>1, <1>3, NotYet DEF Objected
  <2> QED
    BY <1>1, <1>3, <2>1, Distinct, Statuses_, SettledLeaves
<1>4. ASSUME NEW objections, Decided("quick", objections, objections) PROVE Settled'
  <2>1. /\ Go("keeping") /\ outcome'.stage = "quick"
        /\ attempt' = [attempt EXCEPT !.feedback = objections]
    BY <1>4 DEF Decided
  <2>2. attempt'.full = Unset
    BY <1>1, <2>1 DEF Shape, Fields
  <2>3. Due(attempt)'
    BY <2>1, <2>2, NotYet DEF Due, Objected
  <2> QED
    BY <1>1, <2>1, <2>3, SettledKeeps
<1>5. CASE Go("full")
  BY <1>1, <1>5, SettledGoes DEF InIteration, Early
<1> QED
  BY <1>2, <1>3, <1>4, <1>5

LEMMA SettledJudgesFull ==
  ASSUME Inv, Quiet, Blank, Retrying, Settled, JudgeFull
  PROVE  Settled'
<1>1. /\ pc = "full measured" /\ pc \in InIteration /\ Shape(attempt) /\ attempt.full = results
      /\ results \in Seq(Result) /\ attempt.quick \in Seq(Result)
      /\ tree = attempt.full_state /\ OverPrepared(attempt)
      /\ UNCHANGED baseline /\ overlooked' = (overlooked \/ altered)
  BY DEF JudgeFull, Conclude, InIteration, Inv, Passing, Types, QuickPassed, Sound, Quiet,
     Still, Retrying
<1>2. SensorFaults(results) # {} => ~PassedEveryControl(attempt)
  <2>1. SensorFaults(results) # {} => ~Trusted(results)
    BY DEF SensorFaults, Trusted
  <2> QED
    BY <1>1, <2>1, FullPhase DEF PassedEveryControl
<1>3. ControlFailures(attempt.observed, attempt.full_state) # {} =>
        altered \/ ~PassedEveryControl(attempt)
  <2>1. ControlFailures(attempt.observed, attempt.full_state) # {} =>
          altered \/ (installed /\ tree \notin Prepared) \/ attempt.observed # attempt.full_state
    BY DEF ControlFailures, SensorTampering, ChangedEnvironment, Mutated
  <2> QED
    BY <1>1, <2>1 DEF PassedEveryControl, OverPrepared
<1>4. Objections(baseline, results) # {} => Regressed(attempt) \/ ~PassedEveryControl(attempt)
  <2>1. Objections(baseline, results) # {} =>
          ~AllPassed(results) \/ BrokenRatchets(baseline, results) # {}
    BY DEF Objections, Failures, AllPassed
  <2> QED
    BY <1>1, <2>1, FullPhase DEF PassedEveryControl, Regressed
<1>5. \/ /\ attempt' = attempt /\ \E reasons : End(Rejected(reasons))
         /\ \/ SensorFaults(results) # {}
            \/ ControlFailures(attempt.observed, attempt.full_state) # {}
      \/ /\ Objections(baseline, results) # {}
         /\ \E objections : Decided("full", objections, objections)
      \/ Go("reviewing")
  BY DEF JudgeFull
<1>6. ASSUME NEW reasons, attempt' = attempt, End(Rejected(reasons)),
             altered \/ ~PassedEveryControl(attempt)
      PROVE  Settled'
  <2>1. Objected(attempt)'
    BY <1>1, <1>6 DEF Objected
  <2> QED
    BY <1>1, <1>6, <2>1, Distinct, Statuses_, SettledLeaves
<1>7. ASSUME NEW objections, Decided("full", objections, objections),
             Regressed(attempt) \/ ~PassedEveryControl(attempt)
      PROVE  Settled'
  <2>1. /\ Go("keeping") /\ outcome'.stage = "full"
        /\ attempt' = [attempt EXCEPT !.feedback = objections]
    BY <1>7 DEF Decided
  <2>2. /\ attempt'.agent = attempt.agent /\ attempt'.scope = attempt.scope
        /\ attempt'.quick = attempt.quick /\ attempt'.full = attempt.full
        /\ attempt'.observed = attempt.observed /\ attempt'.actuator = attempt.actuator
        /\ attempt'.full_state = attempt.full_state
    BY <1>1, <2>1 DEF Shape, Fields
  <2>3. /\ PassedEveryControl(attempt') => PassedEveryControl(attempt)
        /\ Regressed(attempt) => Regressed(attempt)'
    BY <1>1, <2>2 DEF PassedEveryControl, Regressed
  <2>4. Due(attempt)'
    BY <1>7, <2>1, <2>3 DEF Due, Objected
  <2> QED
    BY <1>1, <2>1, <2>4, SettledKeeps
<1>8. CASE Go("reviewing")
  BY <1>1, <1>8, SettledGoes DEF InIteration, Early
<1> QED
  BY <1>2, <1>3, <1>4, <1>5, <1>6, <1>7, <1>8

LEMMA SettledReviews ==
  ASSUME Inv, Blank, Settled, Review
  PROVE  Settled'
<1>1. /\ pc = "reviewing" /\ pc \in InIteration /\ Shape(attempt) /\ FullPassed(attempt)
      /\ attempt.review = Asked
  BY DEF Review, InIteration, Inv, Passing, Blank
<1>2. CASE End(Rejected({<<"reviewer", "error">>})) /\ UNCHANGED <<attempt, outcome, journal>>
  <2>1. Objected(attempt)'
    BY <1>1, <1>2 DEF Objected
  <2> QED
    BY <1>1, <1>2, <2>1, Distinct, Statuses_, SettledLeaves
<1>3. ASSUME NEW answer \in Reviews, NEW reasons, ReviewFaults(answer) # {},
             attempt' = [attempt EXCEPT !.review = answer], End(Rejected(reasons))
      PROVE  Settled'
  <2>1. attempt'.review = answer
    BY <1>1, <1>3 DEF Shape, Fields
  <2>2. Objected(attempt)'
    BY <1>3, <2>1 DEF Objected
  <2> QED
    BY <1>1, <1>3, <2>2, Distinct, Statuses_, SettledLeaves
<1>4. ASSUME NEW answer \in Reviews, NEW feedback, ReviewFaults(answer) = {},
             attempt' = [[attempt EXCEPT !.review = answer] EXCEPT !.feedback = feedback],
             ReviewReasons(answer) # {} \/ ReviewEscalations(answer) # {}
      PROVE  ToAPerson(attempt)'
  <2>1. FullPassed(attempt') /\ attempt'.review = answer
    BY <1>1, <1>4, AnsweredAndTold
  <2>2. ~FullySatisfied(answer)
    BY <1>4, NotSatisfied
  <2> QED
    BY <1>4, <2>1, <2>2 DEF ToAPerson
<1>5. ASSUME NEW answer \in Reviews, ReviewFaults(answer) = {}, ReviewReasons(answer) # {},
             attempt' = [[attempt EXCEPT !.review = answer]
                           EXCEPT !.feedback = ReviewFeedback(answer)],
             outcome' = [accepted |-> FALSE, reasons |-> ReviewReasons(answer),
                         feedback |-> ReviewFeedback(answer), stage |-> "review"],
             Go("keeping")
      PROVE  Settled'
  <2>1. ToAPerson(attempt)' /\ outcome'.stage = "review"
    BY <1>4, <1>5
  <2> QED
    BY <1>1, <1>5, <2>1, SettledKeeps DEF Due
<1>6. ASSUME NEW answer \in Reviews, ReviewFaults(answer) = {},
             attempt' = [[attempt EXCEPT !.review = answer] EXCEPT !.feedback = {}],
             IF ReviewEscalations(answer) # {}
             THEN End(Escalated(ReviewEscalations(answer))) /\ UNCHANGED outcome
             ELSE outcome' = [NoOutcome EXCEPT !.accepted = TRUE] /\ Go("keeping")
      PROVE  Settled'
  <2>1. CASE ReviewEscalations(answer) # {}
    <3>1. ToAPerson(attempt)'
      BY <1>4, <1>6, <2>1
    <3> QED
      BY <1>1, <1>6, <2>1, <3>1, Distinct, Statuses_, SettledLeaves
  <2>2. CASE ReviewEscalations(answer) = {}
    <3>1. outcome'.accepted = TRUE
      BY <1>6, <2>2 DEF NoOutcome
    <3> QED
      BY <1>1, <1>6, <2>2, <3>1, SettledKeeps
  <2> QED
    BY <2>1, <2>2
<1> QED
  BY <1>2, <1>3, <1>5, <1>6 DEF Review

LEMMA SettledKept ==
  ASSUME Inv, Settled, KeepIteration
  PROVE  Settled'
<1>1. /\ pc = "keeping" /\ UNCHANGED <<overlooked, outcome, baseline>> /\ iterations' = Kept
      /\ \/ Go("iterating") /\ ending = Running /\ ~outcome.accepted
         \/ End(Accepted)
         \/ End(ending)
  BY DEF KeepIteration, world
<1>2. Len(iterations') > 0 /\ Final' = attempt
  BY <1>1, Keeps
<1>3. CASE Go("iterating") /\ ending = Running /\ ~outcome.accepted
  <2>1. Due(attempt)
    BY <1>1, <1>3 DEF Settled
  <2>2. Due(Final)'
    BY <1>1, <1>2, <2>1 DEF Due, Objected, Regressed
  <2> QED
    BY <1>2, <1>3, <2>2 DEF Go, Settled, Early, Over, Ended
<1>4. CASE End(Accepted)
  <2>1. pc' \in {"aborting", "closing"} /\ ending' = Accepted
    BY <1>1, <1>4 DEF End, InIteration
  <2> QED
    BY <1>2, <2>1, Statuses_ DEF Settled, Early, Over, Ended, EndsOn
<1>5. CASE End(ending)
  <2>1. pc' \in {"aborting", "closing"} /\ ending' = ending /\ EndsOn(attempt)
    BY <1>1, <1>5 DEF End, InIteration, Settled
  <2>2. EndsOn(Final)'
    BY <1>1, <1>2, <2>1 DEF EndsOn, Objected, Regressed
  <2> QED
    BY <1>2, <2>1, <2>2 DEF Settled, Early, Over, Ended
<1> QED
  BY <1>1, <1>3, <1>4, <1>5

LEMMA SettledExhausts ==
  ASSUME Settled, ExhaustBudget
  PROVE  Settled'
<1>1. /\ pc = "iterating" /\ UNCHANGED <<overlooked, outcome, baseline, iterations>>
      /\ \E reasons : End(Exhausted(reasons))
  BY DEF ExhaustBudget, memory, world
<1>2. /\ pc' \in {"aborting", "closing"}
      /\ ending'.status = IF outcome.stage = "review" THEN "ESCALATED" ELSE "REJECTED"
  BY <1>1, Statuses_ DEF End, Exhausted, InIteration
<1>3. IF Len(iterations) = 0 THEN outcome.stage = "none" ELSE Due(Final)
  BY <1>1 DEF Settled
<1>4. Len(iterations) # 0 => EndsOn(Final)'
  BY <1>1, <1>2, <1>3 DEF Due, EndsOn, Objected, Regressed, Final
<1> QED
  BY <1>1, <1>2, <1>3, <1>4 DEF Settled, Early, Over, Ended

LEMMA SettledEnds ==
  ASSUME Settled, CloseJournal \/ WriteRecord \/ Abort
  PROVE  Settled'
<1>1. /\ pc \in Over /\ pc' \in {"writing", "returned", "raised"}
      /\ UNCHANGED <<ending, overlooked, baseline, iterations>>
      /\ pc' = "returned" => evidence'.decision = ending
  BY DEF CloseJournal, WriteRecord, Abort, Go, world, memory, Over
<1>2. IF Len(iterations) = 0 THEN ending.status # "ESCALATED" ELSE EndsOn(Final)
  BY <1>1 DEF Settled
<1>3. IF Len(iterations') = 0 THEN ending'.status # "ESCALATED" ELSE EndsOn(Final)'
  BY <1>1, <1>2 DEF EndsOn, Objected, Regressed, Final
<1> QED
  BY <1>1, <1>3 DEF Settled, Early

LEMMA SettledErrs ==
  ASSUME Settled, Error
  PROVE  Settled'
<1>1. CASE pc \in {"closing", "writing", "aborting"}
  <2>1. pc \in Over /\ pc' = "raised" /\ UNCHANGED <<ending, overlooked, baseline, iterations>>
    BY <1>1 DEF Error, Go, world, Over
  <2>2. IF Len(iterations') = 0 THEN ending'.status # "ESCALATED" ELSE EndsOn(Final)'
    BY <2>1 DEF Settled, EndsOn, Objected, Regressed, Final
  <2> QED
    BY <2>1, <2>2 DEF Settled, Early
<1>2. CASE pc \notin {"closing", "writing", "aborting"}
  BY <1>2, SettledFails DEF Error, Ended
<1> QED
  BY <1>1, <1>2

LEMMA SettledStep ==
  ASSUME Inv, Quiet, Blank, Retrying, Settled, [Next]_vars
  PROVE  Settled'
<1>1. ASSUME UNCHANGED <<pc, ending, overlooked, outcome, baseline, attempt, iterations, evidence>>
      PROVE  Settled'
  BY <1>1 DEF Settled, Due, EndsOn, Objected, Regressed, Final
<1>2. CASE Controller
  BY <1>2, SettledEarly, SettledInside, SettledJudgesQuick, SettledJudgesFull, SettledReviews,
     SettledKept, SettledExhausts, SettledEnds DEF Controller, Quiet
<1>3. CASE Error
  BY <1>3, SettledErrs
<1>4. CASE OperatorActs
  BY <1>1, <1>4 DEF OperatorActs, memory, disk
<1>5. CASE LingeringWrite
  BY <1>1, <1>5 DEF LingeringWrite, memory, disk
<1>6. CASE Terminated
  BY <1>1, <1>6 DEF Terminated, vars, world, memory, disk
<1>7. CASE UNCHANGED vars
  BY <1>1, <1>7 DEF vars, world, memory, disk
<1> QED
  BY <1>2, <1>3, <1>4, <1>5, <1>6, <1>7 DEF Next

\* Where nothing writes in the candidate behind the controller, a run is escalated
\* only over a candidate that passed every control and a proper review that is not
\* satisfied with it, and never rejected over such a one.
THEOREM APersonSettlesTheReview ==
  ASSUME "linger" \notin Hazards
  PROVE  Spec => []TheReviewIsSettledByAPerson
<1>1. Init => Settled
  <2> SUFFICES ASSUME Init PROVE Settled
    OBVIOUS
  <2>1. pc = "prepared" /\ outcome.stage = "none"
    BY DEF Init, NoOutcome
  <2> QED
    BY <2>1 DEF Settled, Over, Ended
<1>2. Inv /\ Deciding /\ Settled => TheReviewIsSettledByAPerson
  <2> SUFFICES ASSUME Inv, Deciding, Settled PROVE TheReviewIsSettledByAPerson
    OBVIOUS
  <2>1. evidence.decision.status \in {"ESCALATED", "REJECTED"} =>
          evidence.decision = ending /\ pc \in Over
    BY Statuses_ DEF Deciding, Settled, Over, Ended
  <2>2. iterations # <<>> <=> Len(iterations) # 0
    BY EmptySeq DEF Inv, Types
  <2>3. evidence.decision.status = "ESCALATED" => Len(iterations) # 0 /\ ToAPerson(Final)
    BY <2>1 DEF Settled, EndsOn
  <2>4. evidence.decision.status = "REJECTED" /\ Len(iterations) # 0 => Objected(Final)
    BY <2>1 DEF Settled, EndsOn
  <2>5. ToAPerson(Final) => PassedEveryControl(Final)
    BY EveryControl DEF ToAPerson
  <2> QED
    BY <2>2, <2>3, <2>4, <2>5 DEF TheReviewIsSettledByAPerson, ToAPerson, Objected
<1> QED
  BY <1>1, <1>2, SettledStep, Invariant, QuietInvariant, RetryInvariant, DecidingInvariant, PTL
  DEF Spec

-----------------------------------------------------------------------------
(* Typing: what the run has of its surroundings, and what it holds itself.    *)

\* Where the candidate workspace is there to be read.
WithCandidate == {"cloned", "iterating", "keeping"} \cup InIteration

Surroundings ==
  /\ source \in [clean : BOOLEAN, moved : BOOLEAN]
  /\ tree \in Trees \cup {Unset} /\ patch \in Trees \cup {Unset}
  /\ {altered, lingering, overlooked} \subseteq BOOLEAN
  /\ pc \in WithCandidate => tree \in Trees

Outcomes ==
  [accepted : BOOLEAN, reasons : Reasons, feedback : Reasons,
   stage : {"none", "quick", "full", "review"}]

Held ==
  /\ installed \in BOOLEAN /\ outcome \in Outcomes /\ baseline \in Seq(Result) \cup {Unset}
  /\ attempt \in Attempts \cup {Unset}
  /\ attempt # Unset <=> pc \in InIteration \cup {"keeping"}
  /\ iterations \in Seq(Attempts) /\ Len(iterations) <= MaxIterations
  /\ pc \in InIteration \cup {"keeping"} => Len(iterations) < MaxIterations

\* What one step makes of the surroundings.
LEMMA SurroundingsMove ==
  ASSUME Surroundings, [Next]_vars
  PROVE  Surroundings'
<1> DEFINE Source == source' = source \/ source' \in [clean : BOOLEAN, moved : BOOLEAN]
           Candidate == tree' = tree \/ tree' \in Trees
           Rest == /\ {altered', lingering', overlooked'} \subseteq BOOLEAN
                   /\ patch' = patch \/ patch' = tree
           There == pc' \in WithCandidate => pc \in WithCandidate \/ tree' \in Trees
<1> SUFFICES Source /\ Candidate /\ Rest /\ There
  BY DEF Surroundings
<1> USE DEF Go, End, WithCandidate, InIteration, world
<1>1. CASE VerifyControlInputs \/ FreezeExecutionEnvironment \/ Install \/ FinishBaseline
  <2>1. UNCHANGED world /\ patch' = patch
    BY <1>1 DEF VerifyControlInputs, FreezeExecutionEnvironment, Install, FinishBaseline, disk
  <2>2. There
    BY <1>1 DEF VerifyControlInputs, FreezeExecutionEnvironment, Install, FinishBaseline,
       JudgeBaseline
  <2> QED
    BY <2>1, <2>2 DEF Surroundings
<1>2. CASE CreateCandidate
  BY <1>2, TreesAssumption DEF CreateCandidate, Surroundings
<1>3. CASE SkipInstall \/ RefuseObservation \/ MeasureScope \/ FinishQuick \/ JudgeQuick
           \/ FinishFull \/ JudgeFull \/ Review \/ KeepIteration \/ ExhaustBudget
           \/ CloseJournal \/ WriteRecord \/ Abort \/ StartIteration
  <2>1. /\ UNCHANGED <<source, tree, altered, lingering>>
        /\ overlooked' = overlooked \/ overlooked' = (overlooked \/ altered)
        /\ patch' = patch \/ patch' = tree
    BY <1>3 DEF SkipInstall, RefuseObservation, MeasureScope, FinishQuick, JudgeQuick,
       FinishFull, JudgeFull, Review, KeepIteration, ExhaustBudget,
       CloseJournal, WriteRecord, Abort, StartIteration, Conclude, disk
  <2>2. There
    <3>1. pc \in WithCandidate \/ pc' \notin WithCandidate
      BY <1>3 DEF SkipInstall, RefuseObservation, MeasureScope, FinishQuick, JudgeQuick,
         FinishFull, JudgeFull, Review, KeepIteration, ExhaustBudget,
         CloseJournal, WriteRecord, Abort, StartIteration, Occasions
    <3> QED
      BY <3>1
  <2> QED
    BY <2>1, <2>2 DEF Surroundings
<1>4. CASE RunGate
  BY <1>4 DEF RunGate, SideEffects, Tamper, Surroundings, disk
<1>5. CASE Actuate
  BY <1>5 DEF Actuate, Surroundings
<1>6. CASE Error
  BY <1>6 DEF Error, Surroundings, disk
<1>7. CASE OperatorActs
  BY <1>7 DEF OperatorActs, Surroundings, disk
<1>8. CASE LingeringWrite
  BY <1>8 DEF LingeringWrite, Tamper, Surroundings, disk
<1>9. CASE Terminated \/ UNCHANGED vars
  BY <1>9 DEF Terminated, vars, Surroundings, disk
<1> QED
  BY <1>1, <1>2, <1>3, <1>4, <1>5, <1>6, <1>7, <1>8, <1>9 DEF Next, Controller

-----------------------------------------------------------------------------
(* Iterations, typed field by field.                                         *)

LEMMA OpenedIsTyped ==
  ASSUME NEW received \in Reasons, NEW input \in Trees
  PROVE  Attempted(received, input) \in Attempts
  BY DEF Attempted, Attempts, Reasons

LEMMA ActedIsTyped ==
  ASSUME NEW it \in Attempts, NEW agent \in {"error", "zero", "nonzero"}, NEW left \in Trees,
         NEW now, \/ now = [it EXCEPT !.agent = agent]
                  \/ now = [it EXCEPT !.agent = agent, !.actuator = left]
  PROVE  now \in Attempts
<1>1. CASE now = [it EXCEPT !.agent = agent]
  BY <1>1 DEF Attempts
<1>2. CASE now = [it EXCEPT !.agent = agent, !.actuator = left]
  BY <1>2 DEF Attempts
<1> QED
  BY <1>1, <1>2

LEMMA MeasuredIsTyped ==
  ASSUME NEW it \in Attempts, NEW at \in Trees, NEW measured \in Seq(Result), NEW scoped \in BOOLEAN,
         NEW now, \/ now = [it EXCEPT !.observed = at, !.scope = scoped, !.quick = measured]
                  \/ now = [it EXCEPT !.full = measured, !.full_state = at]
  PROVE  now \in Attempts
  BY DEF Attempts

LEMMA ReviewedIsTyped ==
  ASSUME NEW it \in Attempts, NEW answer \in Reviews \cup {Asked},
         NEW now, now = [it EXCEPT !.review = answer]
  PROVE  now \in Attempts
  BY DEF Attempts

LEMMA ToldIsTyped ==
  ASSUME NEW it \in Attempts, NEW feedback \in Reasons, NEW now, now = [it EXCEPT !.feedback = feedback]
  PROVE  now \in Attempts
  BY DEF Attempts, Reasons

LEMMA FeedbackReasons ==
  ASSUME NEW answer \in Reviews
  PROVE  ReviewFeedback(answer) \in Reasons
<1>1. ASSUME NEW reason \in ReviewFeedback(answer) PROVE reason \in Reason
  <2>1. PICK said \in {"criterion", "finding"}, c \in Ids(answer) \cup Blocking : reason = <<said, c>>
    BY DEF ReviewFeedback, BlockingFindings
  <2>2. said \in Said /\ c \in Subjects
    BY DEF Said, Subjects
  <2> QED
    BY <2>1, <2>2, OneReason
<1> QED
  BY <1>1 DEF Reasons

-----------------------------------------------------------------------------
(* What a step makes of what the run holds.                                  *)

\* The attempt and the iterations as they were.
LEMMA HeldStays ==
  ASSUME Held, UNCHANGED <<attempt, iterations>>,
         installed' \in BOOLEAN, outcome' \in Outcomes, baseline' \in Seq(Result) \cup {Unset},
         pc' \in InIteration \cup {"keeping"} <=> pc \in InIteration \cup {"keeping"}
  PROVE  Held'
  BY DEF Held

\* The attempt one measurement further.
LEMMA HeldFills ==
  ASSUME Held, attempt' \in Attempts, UNCHANGED <<installed, baseline, iterations>>,
         outcome' \in Outcomes, pc \in InIteration, pc' \in InIteration \cup {"keeping"}
  PROVE  Held'
  BY AttemptsAssumption DEF Held

\* The attempt kept.
LEMMA HeldKeeps ==
  ASSUME Held, iterations' = Kept, attempt' = Unset, UNCHANGED <<installed, outcome, baseline>>,
         pc = "keeping", pc' \notin InIteration \cup {"keeping"}
  PROVE  Held'
<1>1. attempt \in Attempts /\ iterations \in Seq(Attempts) /\ Len(iterations) < MaxIterations
  BY DEF Held
<1>2. Kept \in Seq(Attempts) /\ Len(Kept) = Len(iterations) + 1 /\ Len(iterations) \in Nat
  BY <1>1, AppendProperties, LenProperties DEF Kept
<1>3. Len(Kept) <= MaxIterations
  BY <1>1, <1>2, RequestAssumption
<1> QED
  BY <1>2, <1>3 DEF Held

LEMMA HeldBefore ==
  ASSUME Held, Types, VerifyControlInputs \/ FreezeExecutionEnvironment \/ Install \/ FinishBaseline
                      \/ CreateCandidate \/ SkipInstall
  PROVE  Held'
<1>1. UNCHANGED <<outcome, attempt, iterations>>
  BY DEF VerifyControlInputs, FreezeExecutionEnvironment, Install, FinishBaseline,
     CreateCandidate, SkipInstall, memory
<1>2. installed' \in {installed, TRUE} /\ baseline' \in {baseline, results}
  BY DEF VerifyControlInputs, FreezeExecutionEnvironment, Install, FinishBaseline,
     CreateCandidate, SkipInstall, memory
<1>3. /\ pc \notin InIteration \cup {"keeping"}
      /\ pc' \notin InIteration \cup {"keeping"}
  BY DEF VerifyControlInputs, FreezeExecutionEnvironment, Install, FinishBaseline,
     CreateCandidate, SkipInstall, JudgeBaseline, Go, End, InIteration
<1>4. installed' \in BOOLEAN /\ outcome' \in Outcomes /\ baseline' \in Seq(Result) \cup {Unset}
  BY <1>1, <1>2 DEF Held, Types
<1> QED
  BY <1>1, <1>3, <1>4, HeldStays

LEMMA HeldInside ==
  ASSUME Held, Types, Surroundings, Surroundings',
         RunGate \/ RefuseObservation \/ StartIteration \/ Actuate \/ MeasureScope
         \/ FinishQuick \/ FinishFull
  PROVE  Held'
<1>1. CASE RunGate \/ RefuseObservation \/ MeasureScope
  <2>1. UNCHANGED <<installed, outcome, baseline, attempt, iterations>>
    BY <1>1 DEF RunGate, RefuseObservation, MeasureScope, memory
  <2>2. pc' \in InIteration \cup {"keeping"} <=> pc \in InIteration \cup {"keeping"}
    BY <1>1 DEF RunGate, RefuseObservation, MeasureScope, Go, End, InIteration, Occasions
  <2> QED
    BY <2>1, <2>2, HeldStays DEF Held
<1>2. CASE StartIteration
  <2>1. /\ pc = "iterating" /\ pc' = "attempted" /\ Len(iterations) < MaxIterations
        /\ UNCHANGED <<installed, outcome, baseline, iterations>>
    BY <1>2 DEF StartIteration, BudgetLeft, Go
  <2>2. outcome.feedback \in Reasons /\ tree \in Trees
    BY <2>1 DEF Held, Outcomes, Surroundings, WithCandidate
  <2>3. attempt' \in Attempts
    BY <1>2, <2>2, OpenedIsTyped DEF StartIteration
  <2> QED
    BY <2>1, <2>3, AttemptsAssumption DEF Held, InIteration
<1>3. CASE Actuate
  <2>1. /\ pc \in InIteration /\ pc' \in InIteration \cup {"keeping"} /\ tree' \in Trees
        /\ UNCHANGED <<installed, outcome, baseline, iterations>>
    BY <1>3 DEF Actuate, Go, End, InIteration
  <2>2. attempt \in Attempts
    BY <2>1 DEF Held
  <2>3. PICK agent \in {"error", "zero", "nonzero"} :
          \/ attempt' = [attempt EXCEPT !.agent = agent]
          \/ attempt' = [attempt EXCEPT !.agent = agent, !.actuator = tree']
    BY <1>3 DEF Actuate
  <2>4. attempt' \in Attempts
    BY <2>1, <2>2, <2>3, ActedIsTyped
  <2> QED
    BY <2>1, <2>4, HeldFills DEF Held
<1>4. CASE FinishQuick \/ FinishFull
  <2>1. /\ pc \in InIteration /\ pc' \in InIteration
        /\ UNCHANGED <<installed, outcome, baseline, iterations>>
    BY <1>4 DEF FinishQuick, FinishFull, Go, InIteration
  <2>2. attempt \in Attempts /\ tree \in Trees /\ results \in Seq(Result) /\ scope \in BOOLEAN
    BY <2>1 DEF Held, Surroundings, WithCandidate, Types
  <2>3. \/ attempt' = [attempt EXCEPT !.observed = tree, !.scope = scope, !.quick = results]
        \/ attempt' = [attempt EXCEPT !.full = results, !.full_state = tree]
    BY <1>4 DEF FinishQuick, FinishFull
  <2>4. attempt' \in Attempts
    BY <2>2, <2>3, MeasuredIsTyped
  <2> QED
    BY <2>1, <2>4, HeldFills DEF Held
<1> QED
  BY <1>1, <1>2, <1>3, <1>4

LEMMA HeldDecides ==
  ASSUME Held, NEW stage \in {"quick", "full"}, NEW objections \in Reasons,
         Decided(stage, objections, objections),
         pc \in InIteration, UNCHANGED <<installed, baseline, iterations>>
  PROVE  Held'
<1>1. /\ attempt' = [attempt EXCEPT !.feedback = objections] /\ pc' = "keeping"
      /\ outcome' = [accepted |-> FALSE, reasons |-> objections, feedback |-> objections,
                     stage |-> stage]
  BY DEF Decided, Go
<1>2. attempt \in Attempts
  BY DEF Held
<1>3. attempt' \in Attempts
  BY <1>1, <1>2, ToldIsTyped
<1>4. outcome' \in Outcomes
  BY <1>1 DEF Outcomes
<1> QED
  BY <1>1, <1>3, <1>4, HeldFills

LEMMA HeldJudges ==
  ASSUME Held, Types, JudgeQuick \/ JudgeFull
  PROVE  Held'
<1>1. pc \in InIteration /\ UNCHANGED <<installed, baseline, iterations>> /\ attempt \in Attempts
  BY DEF JudgeQuick, JudgeFull, InIteration, Held
<1>2. ASSUME UNCHANGED <<attempt, outcome>>, pc' \in InIteration \cup {"keeping"}
      PROVE  Held'
  BY <1>1, <1>2, HeldStays DEF Held
<1>3. \A was : Objections(was, results) \in Reasons
  BY GateReasons DEF Types
<1>4. CASE JudgeQuick
  <2> DEFINE scoped == IF scope THEN {} ELSE {<<"scope", "violated">>}
             objections == scoped \cup Objections(baseline, results)
  <2>1. objections \in Reasons
    <3>1. "scope" \in Said /\ "violated" \in Subjects
      BY DEF Said, Subjects
    <3>2. scoped \in Reasons
      BY <3>1, OneReason DEF Reasons
    <3> QED
      BY <1>3, <3>2 DEF Reasons
  <2>2. \/ UNCHANGED <<attempt, outcome>> /\ pc' \in InIteration \cup {"keeping"}
        \/ Decided("quick", objections, objections)
    BY <1>1, <1>4 DEF JudgeQuick, End, Go, InIteration
  <2> HIDE DEF objections
  <2> QED
    BY <1>1, <1>2, <2>1, <2>2, HeldDecides
<1>5. CASE JudgeFull
  <2> DEFINE objections == Objections(baseline, results)
  <2>1. objections \in Reasons
    BY <1>3
  <2>2. \/ UNCHANGED <<attempt, outcome>> /\ pc' \in InIteration \cup {"keeping"}
        \/ Decided("full", objections, objections)
        \/ /\ attempt' = [attempt EXCEPT !.review = Asked] /\ pc' = "reviewing"
           /\ outcome' = outcome
    BY <1>1, <1>5 DEF JudgeFull, End, Go, InIteration
  <2> HIDE DEF objections
  <2>3. ASSUME attempt' = [attempt EXCEPT !.review = Asked] PROVE attempt' \in Attempts
    BY <1>1, <2>3, ReviewedIsTyped
  <2>4. ASSUME attempt' \in Attempts, pc' = "reviewing", outcome' = outcome PROVE Held'
    BY <1>1, <2>4, HeldFills DEF Held, InIteration
  <2> QED
    BY <1>1, <1>2, <2>1, <2>2, <2>3, <2>4, HeldDecides
<1> QED
  BY <1>4, <1>5

LEMMA HeldReviews ==
  ASSUME Held, Review
  PROVE  Held'
<1>1. /\ pc \in InIteration /\ UNCHANGED <<installed, baseline, iterations>>
      /\ attempt \in Attempts /\ pc' \in InIteration \cup {"keeping"}
  BY DEF Review, InIteration, Held, Go, End
<1>2. \/ UNCHANGED <<attempt, outcome>>
      \/ \E answer \in Reviews :
           LET answered == [attempt EXCEPT !.review = answer]
           IN  \/ attempt' = answered /\ outcome' = outcome
               \/ /\ attempt' = [answered EXCEPT !.feedback = ReviewFeedback(answer)]
                  /\ outcome' = [accepted |-> FALSE, reasons |-> ReviewReasons(answer),
                                 feedback |-> ReviewFeedback(answer), stage |-> "review"]
               \/ /\ attempt' = [answered EXCEPT !.feedback = {}]
                  /\ \/ outcome' = outcome
                     \/ outcome' = [NoOutcome EXCEPT !.accepted = TRUE]
  BY DEF Review
<1>3. CASE UNCHANGED <<attempt, outcome>>
  BY <1>1, <1>3, HeldStays DEF Held
<1>4. ASSUME NEW answer \in Reviews,
             NEW answered, answered = [attempt EXCEPT !.review = answer],
             \/ attempt' = answered /\ outcome' = outcome
             \/ /\ attempt' = [answered EXCEPT !.feedback = ReviewFeedback(answer)]
                /\ outcome' = [accepted |-> FALSE, reasons |-> ReviewReasons(answer),
                               feedback |-> ReviewFeedback(answer), stage |-> "review"]
             \/ /\ attempt' = [answered EXCEPT !.feedback = {}]
                /\ \/ outcome' = outcome
                   \/ outcome' = [NoOutcome EXCEPT !.accepted = TRUE]
      PROVE  Held'
  <2>1. answered \in Attempts
    BY <1>1, <1>4, ReviewedIsTyped
  <2>2. /\ ReviewReasons(answer) \in Reasons /\ ReviewFeedback(answer) \in Reasons
        /\ {} \in Reasons
    BY AnswerReasons, FeedbackReasons DEF Reasons
  <2>3. attempt' \in Attempts
    BY <1>4, <2>1, <2>2, ToldIsTyped
  <2>4. [NoOutcome EXCEPT !.accepted = TRUE] \in Outcomes
    BY <2>2 DEF NoOutcome, Outcomes
  <2>5. [accepted |-> FALSE, reasons |-> ReviewReasons(answer),
         feedback |-> ReviewFeedback(answer), stage |-> "review"] \in Outcomes
    BY <2>2 DEF Outcomes
  <2>6. outcome' \in Outcomes
    BY <1>4, <2>4, <2>5 DEF Held
  <2> QED
    BY <1>1, <2>3, <2>6, HeldFills
<1> QED
  BY <1>2, <1>3, <1>4

LEMMA HeldStep ==
  ASSUME Held, Types, Surroundings, Surroundings', [Next]_vars
  PROVE  Held'
<1>1. CASE VerifyControlInputs \/ FreezeExecutionEnvironment \/ Install \/ FinishBaseline
           \/ CreateCandidate \/ SkipInstall
  BY <1>1, HeldBefore
<1>2. CASE RunGate \/ RefuseObservation \/ StartIteration \/ Actuate \/ MeasureScope
           \/ FinishQuick \/ FinishFull
  BY <1>2, HeldInside
<1>3. CASE JudgeQuick \/ JudgeFull
  BY <1>3, HeldJudges
<1>4. CASE Review
  BY <1>4, HeldReviews
<1>5. CASE KeepIteration
  <2>1. pc' \notin InIteration \cup {"keeping"} /\ pc = "keeping"
    BY <1>5 DEF KeepIteration, Go, End, InIteration
  <2> QED
    BY <1>5, <2>1, HeldKeeps DEF KeepIteration
<1>6. CASE ExhaustBudget \/ CloseJournal \/ WriteRecord \/ Abort \/ OperatorActs \/ LingeringWrite
           \/ Terminated \/ UNCHANGED vars
  <2>1. UNCHANGED memory
    BY <1>6 DEF ExhaustBudget, CloseJournal, WriteRecord, Abort, OperatorActs, LingeringWrite,
       Terminated, vars
  <2>2. pc' \in InIteration \cup {"keeping"} <=> pc \in InIteration \cup {"keeping"}
    BY <1>6 DEF ExhaustBudget, CloseJournal, WriteRecord, Abort, OperatorActs, LingeringWrite,
       Terminated, vars, Go, End, InIteration
  <2> QED
    BY <2>1, <2>2, HeldStays DEF memory, Held
<1>7. CASE Error
  <2>1. UNCHANGED <<installed, outcome, baseline>>
    BY <1>7 DEF Error
  <2>2. CASE pc = "keeping"
    <3>1. iterations' = Kept /\ attempt' = Unset /\ pc' \notin InIteration \cup {"keeping"}
      BY <1>7, <2>2 DEF Error, End, InIteration
    <3> QED
      BY <2>1, <2>2, <3>1, HeldKeeps
  <2>3. CASE pc # "keeping"
    <3>1. /\ UNCHANGED <<attempt, iterations>>
          /\ pc' \in InIteration \cup {"keeping"} <=> pc \in InIteration \cup {"keeping"}
      BY <1>7, <2>3 DEF Error, End, Go, InIteration
    <3> QED
      BY <2>1, <3>1, HeldStays DEF Held
  <2> QED
    BY <2>2, <2>3
<1> QED
  BY <1>1, <1>2, <1>3, <1>4, <1>5, <1>6, <1>7 DEF Next, Controller

LEMMA TypedBegins == Init => Surroundings /\ Held
<1> SUFFICES ASSUME Init PROVE Surroundings /\ Held
  OBVIOUS
<1>1. pc = "prepared" /\ pc \notin WithCandidate
  BY DEF Init, WithCandidate, InIteration
<1>2. Surroundings
  BY <1>1 DEF Init, Surroundings
<1>3. NoOutcome \in Outcomes
  BY DEF NoOutcome, Outcomes, Reasons
<1>4. <<>> \in Seq(Attempts) /\ Len(<<>>) = 0 /\ 0 <= MaxIterations
  BY EmptySeq, RequestAssumption
<1>5. Held
  BY <1>1, <1>3, <1>4 DEF Init, Held, WithCandidate
<1> QED
  BY <1>2, <1>5

LEMMA TypedInvariant == Spec => [](Surroundings /\ Held)
<1>1. Inv => Types
  BY DEF Inv
<1> QED
  BY <1>1, TypedBegins, SurroundingsMove, HeldStep, Invariant, PTL DEF Spec

\* Whatever gates, agents, the reviewer, the operator and exceptions do, the run holds
\* values of its types: the reasons name what the constitution, the task and the answers
\* name, an iteration is open exactly inside _iterate, and no budget is overrun.
THEOREM EverythingTyped == Spec => []TypeOK
<1>1. Inv /\ Deciding /\ Surroundings /\ Held => TypeOK
  BY DEF Inv, Types, Deciding, Surroundings, Held, TypeOK, Outcomes, Reasons
<1> QED
  BY <1>1, TypedInvariant, DecidingInvariant, Invariant, PTL

-----------------------------------------------------------------------------
(* What is selected of a journal, and what a record tells.                    *)

\* The events of one type, event by event.
Keeping(events, type, kept) ==
  /\ kept[0] = <<>>
  /\ \A n \in 1 .. Len(events) :
       kept[n] = IF events[n][1] = type THEN Append(kept[n - 1], events[n]) ELSE kept[n - 1]
  /\ Selected(events, type) = kept[Len(events)]

LEMMA SelectedByOne ==
  ASSUME NEW E, NEW events \in Seq(E), NEW type
  PROVE  \E kept \in [0 .. Len(events) -> Seq(E)] : Keeping(events, type, kept)
<1> DEFINE N == Len(events)
           Body(kept) == [n \in 0 .. N |->
                            IF n = 0 THEN <<>>
                            ELSE IF events[n][1] = type THEN Append(kept[n - 1], events[n])
                            ELSE kept[n - 1]]
           kept == CHOOSE kept : kept = Body(kept)
           step == [x \in (1 .. N) \X Seq(E) |->
                      IF events[x[1]][1] = type THEN Append(x[2], events[x[1]]) ELSE x[2]]
<1>1. N \in Nat /\ \A n \in 1 .. N : events[n] \in E
  BY LenProperties, ElementOfSeq
<1>2. Selected(events, type) = kept[N]
  BY DEF Selected
<1> HIDE DEF N
<1>3. \A n \in 1 .. N, x \in Seq(E) :
        /\ step[<<n, x>>] = IF events[n][1] = type THEN Append(x, events[n]) ELSE x
        /\ step[<<n, x>>] \in Seq(E)
  BY <1>1, AppendProperties
<1>4. \E f : f = Body(f)
  <2>1. <<>> \in Seq(E)
    BY EmptySeq
  <2>2. \E f : Iterates(f, N, Seq(E), <<>>, step)
    <3>1. N \in Nat /\ \A n \in 1 .. N, x \in Seq(E) : step[<<n, x>>] \in Seq(E)
      BY <1>1, <1>3
    <3> HIDE DEF step
    <3> QED
      BY <2>1, <3>1, Iterated, Zenon
  <2>3. PICK f : Iterates(f, N, Seq(E), <<>>, step)
    BY <2>2
  <2> HIDE DEF step
  <2>4. ASSUME NEW n \in 0 .. N
        PROVE  f[n] = IF n = 0 THEN <<>>
                      ELSE IF events[n][1] = type THEN Append(f[n - 1], events[n]) ELSE f[n - 1]
    <3>1. CASE n = 0
      BY <2>3, <3>1 DEF Iterates
    <3>2. CASE n # 0
      <4>1. n \in 1 .. N /\ n - 1 \in 0 .. N
        BY <1>1, <3>2
      <4>2. f[n] = step[<<n, f[n - 1]>>] /\ f[n - 1] \in Seq(E)
        BY <2>3, <4>1 DEF Iterates
      <4> QED
        BY <1>3, <3>2, <4>1, <4>2
    <3> QED
      BY <3>1, <3>2
  <2>5. f = [n \in 0 .. N |-> f[n]]
    BY <2>3 DEF Iterates
  <2>6. f = Body(f)
    <3>1. [n \in 0 .. N |-> f[n]] = Body(f)
      BY <2>4
    <3> QED
      BY <2>5, <3>1
  <2> HIDE DEF Body
  <2> QED
    BY <2>6
<1>5. kept = Body(kept)
  BY <1>4
<1> HIDE DEF kept, step
<1>6. /\ kept[0] = <<>>
      /\ \A n \in 1 .. N :
           kept[n] = IF events[n][1] = type THEN Append(kept[n - 1], events[n]) ELSE kept[n - 1]
  <2>1. \A n \in 0 .. N :
          kept[n] = IF n = 0 THEN <<>>
                    ELSE IF events[n][1] = type THEN Append(kept[n - 1], events[n])
                    ELSE kept[n - 1]
    <3> DEFINE same == Body(kept)
    <3>1. \A n \in 0 .. N :
            same[n] = IF n = 0 THEN <<>>
                      ELSE IF events[n][1] = type THEN Append(kept[n - 1], events[n])
                      ELSE kept[n - 1]
      OBVIOUS
    <3>2. kept = same
      BY <1>5
    <3> HIDE DEF same
    <3> QED
      BY <3>1, <3>2
  <2>2. 0 \in 0 .. N /\ \A n \in 1 .. N : n \in 0 .. N /\ n # 0
    BY <1>1
  <2> HIDE DEF Body
  <2> QED
    BY <2>1, <2>2
<1>7. kept \in [0 .. N -> Seq(E)]
  <2> DEFINE P == {n \in 0 .. N : kept[n] \in Seq(E)}
  <2>1. 0 \in P
    <3>1. 0 \in 0 .. N /\ <<>> \in Seq(E)
      BY <1>1, EmptySeq
    <3> QED
      BY <1>6, <3>1
  <2>2. ASSUME NEW n \in 1 .. N, n - 1 \in P PROVE n \in P
    <3>1. kept[n - 1] \in Seq(E) /\ events[n] \in E /\ n \in 0 .. N
      BY <1>1, <2>2
    <3>2. Append(kept[n - 1], events[n]) \in Seq(E)
      BY <3>1, AppendProperties
    <3>3. kept[n] \in {Append(kept[n - 1], events[n]), kept[n - 1]}
      BY <1>6
    <3> QED
      BY <3>1, <3>2, <3>3
  <2>3. 0 .. N \subseteq P
    <3> HIDE DEF P
    <3> QED
      BY <1>1, <2>1, <2>2, UptoInduction
  <2>4. DOMAIN kept = 0 .. N /\ kept = [n \in 0 .. N |-> kept[n]]
    BY <1>5
  <2> QED
    BY <2>3, <2>4
<1> QED
  BY <1>2, <1>6, <1>7 DEF N, Keeping

\* Appending past a concatenation appends to its second part.
Extends(before, after, event) == Append(before \o after, event) = before \o Append(after, event)

LEMMA AppendsToTheSecond ==
  ASSUME NEW E, NEW before \in Seq(E), NEW after \in Seq(E), NEW event \in E
  PROVE  Extends(before, after, event)
<1>1. before \o after \in Seq(E) /\ <<event>> \in Seq(E)
  BY ConcatProperties
<1>2. Append(before \o after, event) = (before \o after) \o <<event>>
  BY <1>1, AppendIsConcat
<1>3. (before \o after) \o <<event>> = before \o (after \o <<event>>)
  BY <1>1, ConcatAssociative
<1>4. after \o <<event>> = Append(after, event)
  BY AppendIsConcat
<1> QED
  BY <1>2, <1>3, <1>4 DEF Extends

\* What is selected of two journals, one after the other.
Joined(both, before, after, type) ==
  Selected(both, type) = Selected(before, type) \o Selected(after, type)

LEMMA SelectedOfBoth ==
  ASSUME NEW E, NEW before \in Seq(E), NEW after \in Seq(E), NEW type,
         NEW both, both = before \o after
  PROVE  Joined(both, before, after, type) /\ Selected(before, type) \in Seq(E)
<1> DEFINE N == Len(before)
           M == Len(after)
<1>1. /\ N \in Nat /\ M \in Nat /\ both \in Seq(E) /\ Len(both) = N + M
      /\ \A i \in 1 .. N : both[i] = before[i] /\ before[i] \in E
      /\ \A i \in 1 .. M : both[N + i] = after[i] /\ after[i] \in E
  <2>1. /\ N \in Nat /\ M \in Nat /\ both \in Seq(E) /\ Len(both) = N + M
        /\ \A i \in 1 .. N + M : both[i] = IF i <= N THEN before[i] ELSE after[i - N]
    BY ConcatProperties, LenProperties
  <2>2. /\ \A i \in 1 .. N : before[i] \in E
        /\ \A i \in 1 .. M : after[i] \in E
    BY ElementOfSeq
  <2> HIDE DEF N, M
  <2> QED
    BY <2>1, <2>2
<1>2. PICK first \in [0 .. N -> Seq(E)] : Keeping(before, type, first)
  BY SelectedByOne
<1>3. PICK second \in [0 .. M -> Seq(E)] : Keeping(after, type, second)
  BY SelectedByOne
<1>4. PICK kept \in [0 .. N + M -> Seq(E)] : Keeping(both, type, kept)
  <2>1. \E kept \in [0 .. Len(both) -> Seq(E)] : Keeping(both, type, kept)
    BY <1>1, SelectedByOne
  <2> QED
    BY <1>1, <2>1
<1> HIDE DEF N, M
<1>5. /\ first[0] = <<>> /\ second[0] = <<>> /\ kept[0] = <<>>
      /\ \A n \in 1 .. N : first[n] = IF before[n][1] = type THEN Append(first[n - 1], before[n])
                                      ELSE first[n - 1]
      /\ \A n \in 1 .. M : second[n] = IF after[n][1] = type THEN Append(second[n - 1], after[n])
                                       ELSE second[n - 1]
      /\ \A n \in 1 .. N + M : kept[n] = IF both[n][1] = type THEN Append(kept[n - 1], both[n])
                                         ELSE kept[n - 1]
  BY <1>1, <1>2, <1>3, <1>4 DEF Keeping, N, M
<1>6. /\ Selected(before, type) = first[N] /\ Selected(after, type) = second[M]
      /\ Selected(both, type) = kept[N + M]
  BY <1>1, <1>2, <1>3, <1>4 DEF Keeping, N, M
<1>7. kept[N] = first[N]
  <2> DEFINE P == {n \in 0 .. N : kept[n] = first[n]}
  <2>1. 0 \in P
    BY <1>1, <1>5
  <2>2. ASSUME NEW n \in 1 .. N, n - 1 \in P PROVE n \in P
    <3>1. both[n] = before[n] /\ kept[n - 1] = first[n - 1] /\ n \in 1 .. N + M /\ n \in 0 .. N
      BY <1>1, <2>2
    <3> QED
      BY <1>5, <3>1
  <2>3. N \in 0 .. N
    BY <1>1
  <2>4. 0 .. N \subseteq P
    <3> HIDE DEF P
    <3> QED
      BY <1>1, <2>1, <2>2, UptoInduction
  <2> QED
    BY <2>3, <2>4
<1>8. kept[N + M] = first[N] \o second[M]
  <2> DEFINE P == {n \in 0 .. M : kept[N + n] = first[N] \o second[n]}
  <2>1. 0 \in P
    <3>1. first[N] \o <<>> = first[N]
      BY <1>1, <1>2, ConcatEmptySeq
    <3>2. 0 \in 0 .. M /\ N + 0 = N
      BY <1>1
    <3> QED
      BY <1>5, <1>7, <3>1, <3>2
  <2>2. ASSUME NEW n \in 1 .. M, n - 1 \in P PROVE n \in P
    <3>1. /\ n \in 0 .. M /\ n - 1 \in 0 .. M /\ N + n \in 1 .. N + M
          /\ (N + n) - 1 = N + (n - 1) /\ N \in 0 .. N
      BY <1>1
    <3>2. both[N + n] = after[n] /\ after[n] \in E
      BY <1>1
    <3>3. kept[N + (n - 1)] = first[N] \o second[n - 1]
      BY <2>2
    <3>4. kept[N + n] = IF after[n][1] = type THEN Append(first[N] \o second[n - 1], after[n])
                        ELSE first[N] \o second[n - 1]
      <4>1. \A k \in 1 .. N + M :
              kept[k] = IF both[k][1] = type THEN Append(kept[k - 1], both[k]) ELSE kept[k - 1]
        BY <1>5
      <4>2. kept[N + n] = IF both[N + n][1] = type THEN Append(kept[(N + n) - 1], both[N + n])
                          ELSE kept[(N + n) - 1]
        BY <3>1, <4>1
      <4> QED
        BY <3>1, <3>2, <3>3, <4>2
    <3>5. first[N] \in Seq(E) /\ second[n - 1] \in Seq(E)
      BY <1>2, <1>3, <3>1
    <3>6. Append(first[N] \o second[n - 1], after[n]) = first[N] \o Append(second[n - 1], after[n])
      <4>1. Extends(first[N], second[n - 1], after[n])
        BY <3>2, <3>5, AppendsToTheSecond
      <4> QED
        BY <4>1 DEF Extends
    <3>7. second[n] = IF after[n][1] = type THEN Append(second[n - 1], after[n]) ELSE second[n - 1]
      BY <1>5
    <3>8. kept[N + n] = first[N] \o second[n]
      BY <3>4, <3>6, <3>7
    <3> QED
      BY <3>1, <3>8
  <2>3. M \in 0 .. M
    BY <1>1
  <2>4. 0 .. M \subseteq P
    <3> HIDE DEF P
    <3> QED
      BY <1>1, <2>1, <2>2, UptoInduction
  <2> QED
    BY <2>3, <2>4
<1>9. first[N] \in Seq(E)
  BY <1>1, <1>2
<1> QED
  BY <1>6, <1>8, <1>9 DEF Joined

\* Of events none of which has the type, nothing; of events all of which have it, all.
LEMMA SelectedOfNone ==
  ASSUME NEW E, NEW events \in Seq(E), NEW type, \A i \in DOMAIN events : events[i][1] # type
  PROVE  Selected(events, type) = <<>>
<1> DEFINE N == Len(events)
<1>1. N \in Nat /\ DOMAIN events = 1 .. N
  BY LenProperties
<1>2. PICK kept \in [0 .. N -> Seq(E)] : Keeping(events, type, kept)
  BY SelectedByOne
<1>3. /\ kept[0] = <<>> /\ Selected(events, type) = kept[N]
      /\ \A n \in 1 .. N : kept[n] = kept[n - 1]
  BY <1>1, <1>2 DEF Keeping
<1> HIDE DEF N
<1> DEFINE P == {n \in 0 .. N : kept[n] = <<>>}
<1>4. 0 \in P /\ N \in 0 .. N
  BY <1>1, <1>3
<1>5. ASSUME NEW n \in 1 .. N, n - 1 \in P PROVE n \in P
  BY <1>1, <1>3, <1>5
<1>6. 0 .. N \subseteq P
  <2> HIDE DEF P
  <2> QED
    BY <1>1, <1>4, <1>5, UptoInduction
<1> QED
  BY <1>3, <1>4, <1>6

LEMMA SelectedOfAll ==
  ASSUME NEW E, NEW events \in Seq(E), NEW type, \A i \in DOMAIN events : events[i][1] = type
  PROVE  Selected(events, type) = events
<1> DEFINE N == Len(events)
<1>1. N \in Nat /\ DOMAIN events = 1 .. N /\ \A i \in 1 .. N : events[i] \in E
  BY LenProperties, ElementOfSeq
<1>2. PICK kept \in [0 .. N -> Seq(E)] : Keeping(events, type, kept)
  BY SelectedByOne
<1>3. /\ kept[0] = <<>> /\ Selected(events, type) = kept[N]
      /\ \A n \in 1 .. N : kept[n] = Append(kept[n - 1], events[n])
  BY <1>1, <1>2 DEF Keeping
<1> HIDE DEF N
<1> DEFINE P == {n \in 0 .. N : Len(kept[n]) = n /\ \A i \in 1 .. n : kept[n][i] = events[i]}
<1>4. 0 \in P /\ N \in 0 .. N
  BY <1>1, <1>3, EmptySeq
<1>5. ASSUME NEW n \in 1 .. N, n - 1 \in P PROVE n \in P
  <2>1. /\ Len(kept[n - 1]) = n - 1 /\ \A i \in 1 .. n - 1 : kept[n - 1][i] = events[i]
        /\ n - 1 \in 0 .. N /\ n \in 0 .. N
    BY <1>5
  <2>2. kept[n - 1] \in Seq(E) /\ events[n] \in E
    BY <1>1, <1>2, <2>1
  <2>3. /\ Len(kept[n]) = (n - 1) + 1 /\ kept[n][(n - 1) + 1] = events[n]
        /\ \A i \in 1 .. n - 1 : kept[n][i] = kept[n - 1][i]
    <3>1. \A s \in Seq(E), e \in E :
            /\ Len(Append(s, e)) = Len(s) + 1 /\ Append(s, e)[Len(s) + 1] = e
            /\ \A i \in 1 .. Len(s) : Append(s, e)[i] = s[i]
      BY AppendProperties
    <3>2. kept[n] = Append(kept[n - 1], events[n])
      BY <1>3
    <3> QED
      BY <2>1, <2>2, <3>1, <3>2
  <2>4. \A i \in 1 .. n : i \in 1 .. n - 1 \/ i = n
    OBVIOUS
  <2> QED
    BY <2>1, <2>3, <2>4
<1>6. 0 .. N \subseteq P
  <2> HIDE DEF P
  <2> QED
    BY <1>1, <1>4, <1>5, UptoInduction
<1>7. kept[N] \in Seq(E) /\ Len(kept[N]) = N /\ \A i \in 1 .. N : kept[N][i] = events[i]
  BY <1>2, <1>4, <1>6
<1> QED
  BY <1>3, <1>7, SeqEqual DEF N

-----------------------------------------------------------------------------
(* The gate events of a record, iteration by iteration.                      *)

GateEvent == {<<"gate.finished", occasion, Name(g), passed>> :
                occasion \in Occasions, g \in Gates, passed \in BOOLEAN}

PhasesTold(it) == Measured(it.quick, "quick") \o Measured(it.full, "full")

LEMMA EventsOfAPhase ==
  ASSUME NEW occasion \in Occasions, NEW measured \in Seq(Result) \cup {Unset}
  PROVE  /\ Measured(measured, occasion) \in Seq(GateEvent)
         /\ measured # Unset => Measured(measured, occasion) = GateEvents(occasion, measured)
<1>1. CASE measured = Unset
  <2>1. Measured(measured, occasion) = <<>>
    BY <1>1 DEF Measured
  <2> QED
    BY <1>1, <2>1, EmptySeq
<1>2. CASE measured # Unset
  <2> DEFINE event(k) == <<"gate.finished", occasion, Name(measured[k].gate), Passed(measured[k])>>
             n == Len(measured)
  <2>1. measured \in Seq(Result) /\ DOMAIN measured = 1 .. n /\ n \in Nat
    BY <1>2, LenProperties
  <2>2. ASSUME NEW k \in 1 .. n PROVE event(k) \in GateEvent
    <3>1. measured[k].gate \in Gates /\ Passed(measured[k]) \in BOOLEAN
      <4>1. measured[k] \in Result
        BY <2>1, ElementOfSeq
      <4> QED
        BY <4>1 DEF Result, Passed
    <3> QED
      BY <3>1 DEF GateEvent
  <2>3. Measured(measured, occasion) = [k \in 1 .. n |-> event(k)]
    BY <1>2, <2>1 DEF Measured, GateEvents
  <2> HIDE DEF event, n
  <2>4. [k \in 1 .. n |-> event(k)] \in [1 .. n -> GateEvent]
    BY <2>2
  <2>5. [k \in 1 .. n |-> event(k)] \in Seq(GateEvent)
    BY <2>1, <2>4, SeqDef
  <2> QED
    BY <1>2, <2>3, <2>5 DEF Measured
<1> QED
  BY <1>1, <1>2

LEMMA EventsOfAnIteration ==
  ASSUME NEW it \in Attempts
  PROVE  PhasesTold(it) \in Seq(GateEvent)
<1>1. it.quick \in Seq(Result) \cup {Unset} /\ it.full \in Seq(Result) \cup {Unset}
  BY DEF Attempts
<1>2. "quick" \in Occasions /\ "full" \in Occasions
  BY DEF Occasions
<1>3. Measured(it.quick, "quick") \in Seq(GateEvent) /\ Measured(it.full, "full") \in Seq(GateEvent)
  BY <1>1, <1>2, EventsOfAPhase
<1> QED
  BY <1>3, ConcatProperties DEF PhasesTold

\* The events of a record, as they are told one iteration at a time.
Telling(was, its, told) ==
  /\ told \in [0 .. Len(its) -> Seq(GateEvent)]
  /\ told[0] = Measured(was, "baseline")
  /\ \A n \in 1 .. Len(its) : told[n] = told[n - 1] \o PhasesTold(its[n])
  /\ GatesTold(was, its) = told[Len(its)]

LEMMA ToldByOne ==
  ASSUME NEW was \in Seq(Result) \cup {Unset}, NEW its \in Seq(Attempts)
  PROVE  \E told : Telling(was, its, told)
<1> DEFINE N == Len(its)
           Body(told) == [n \in 0 .. N |->
                            IF n = 0 THEN Measured(was, "baseline")
                            ELSE told[n - 1] \o (Measured(its[n].quick, "quick")
                                                   \o Measured(its[n].full, "full"))]
           told == CHOOSE told : told = Body(told)
           step == [x \in (1 .. N) \X Seq(GateEvent) |-> x[2] \o PhasesTold(its[x[1]])]
           first == Measured(was, "baseline")
<1>1. N \in Nat /\ \A n \in 1 .. N : its[n] \in Attempts
  BY LenProperties, ElementOfSeq
<1>2. GatesTold(was, its) = told[N]
  BY DEF GatesTold
<1>3. first \in Seq(GateEvent)
  BY EventsOfAPhase DEF Occasions
<1> HIDE DEF N, first
<1>4. \A n \in 1 .. N, s \in Seq(GateEvent) :
        step[<<n, s>>] = s \o PhasesTold(its[n]) /\ step[<<n, s>>] \in Seq(GateEvent)
  <2> TAKE n \in 1 .. N, s \in Seq(GateEvent)
  <2>1. step[<<n, s>>] = s \o PhasesTold(its[n])
    OBVIOUS
  <2>2. PhasesTold(its[n]) \in Seq(GateEvent)
    BY <1>1, EventsOfAnIteration
  <2>3. s \o PhasesTold(its[n]) \in Seq(GateEvent)
    BY <2>2, ConcatProperties
  <2> QED
    BY <2>1, <2>3
<1>5. \E f : Iterates(f, N, Seq(GateEvent), first, step)
  <2>1. N \in Nat /\ \A n \in 1 .. N, s \in Seq(GateEvent) : step[<<n, s>>] \in Seq(GateEvent)
    BY <1>1, <1>4
  <2> HIDE DEF step
  <2> QED
    BY <1>3, <2>1, Iterated, Zenon
<1> HIDE DEF step
<1>6. \E f : f = Body(f)
  <2>1. PICK f : Iterates(f, N, Seq(GateEvent), first, step)
    BY <1>5
  <2>2. ASSUME NEW n \in 0 .. N
        PROVE  f[n] = IF n = 0 THEN Measured(was, "baseline")
                      ELSE f[n - 1] \o (Measured(its[n].quick, "quick")
                                          \o Measured(its[n].full, "full"))
    <3>1. CASE n = 0
      BY <2>1, <3>1 DEF Iterates, first
    <3>2. CASE n # 0
      <4>1. n \in 1 .. N /\ n - 1 \in 0 .. N
        BY <1>1, <3>2
      <4>2. f[n] = step[<<n, f[n - 1]>>] /\ f[n - 1] \in Seq(GateEvent)
        BY <2>1, <4>1 DEF Iterates
      <4>3. f[n] = f[n - 1] \o PhasesTold(its[n])
        BY <1>4, <4>1, <4>2
      <4> QED
        BY <3>2, <4>3 DEF PhasesTold
    <3> QED
      BY <3>1, <3>2
  <2>3. f = [n \in 0 .. N |-> f[n]]
    BY <2>1 DEF Iterates
  <2>4. [n \in 0 .. N |-> f[n]] = Body(f)
    BY <2>2
  <2>5. f = Body(f)
    BY <2>3, <2>4
  <2> HIDE DEF Body
  <2> QED
    BY <2>5
<1>7. told = Body(told)
  BY <1>6
<1> HIDE DEF told
<1>8. \A n \in 0 .. N : told[n] = IF n = 0 THEN first ELSE told[n - 1] \o PhasesTold(its[n])
  <2> DEFINE same == Body(told)
  <2>1. \A n \in 0 .. N : same[n] = IF n = 0 THEN first ELSE told[n - 1] \o PhasesTold(its[n])
    BY DEF first, PhasesTold
  <2>2. told = same /\ DOMAIN same = 0 .. N
    BY <1>7
  <2> HIDE DEF same
  <2> QED
    BY <2>1, <2>2
<1>9. DOMAIN told = 0 .. N /\ told = [n \in 0 .. N |-> told[n]]
  BY <1>7
<1> HIDE DEF Body
<1>10. told[0] = first /\ \A n \in 1 .. N : told[n] = told[n - 1] \o PhasesTold(its[n])
  <2>1. 0 \in 0 .. N /\ \A n \in 1 .. N : n \in 0 .. N /\ n # 0
    BY <1>1
  <2> QED
    BY <1>8, <2>1
<1>11. told \in [0 .. N -> Seq(GateEvent)]
  <2> DEFINE P == {n \in 0 .. N : told[n] \in Seq(GateEvent)}
  <2>1. 0 \in P
    BY <1>1, <1>3, <1>10
  <2>2. ASSUME NEW n \in 1 .. N, n - 1 \in P PROVE n \in P
    <3>1. told[n - 1] \in Seq(GateEvent) /\ n \in 0 .. N
      BY <1>1, <2>2
    <3>2. PhasesTold(its[n]) \in Seq(GateEvent)
      BY <1>1, EventsOfAnIteration
    <3>3. told[n - 1] \o PhasesTold(its[n]) \in Seq(GateEvent)
      BY <3>1, <3>2, ConcatProperties
    <3> QED
      BY <1>10, <3>1, <3>3
  <2>3. 0 .. N \subseteq P
    <3> HIDE DEF P
    <3> QED
      BY <1>1, <2>1, <2>2, UptoInduction
  <2> QED
    BY <1>9, <2>3
<1>12. Telling(was, its, told)
  BY <1>2, <1>10, <1>11 DEF Telling, N, first
<1> QED
  BY <1>12

LEMMA ToldOfNone ==
  ASSUME NEW was \in Seq(Result) \cup {Unset}
  PROVE  GatesTold(was, <<>>) = Measured(was, "baseline")
<1>1. <<>> \in Seq(Attempts) /\ Len(<<>>) = 0
  BY EmptySeq
<1>2. PICK told : Telling(was, <<>>, told)
  BY <1>1, ToldByOne
<1> QED
  BY <1>1, <1>2 DEF Telling

\* One iteration more is told after the ones before it.
LEMMA ToldOfOneMore ==
  ASSUME NEW was \in Seq(Result) \cup {Unset}, NEW its \in Seq(Attempts), NEW it \in Attempts
  PROVE  /\ GatesTold(was, Append(its, it)) = GatesTold(was, its) \o PhasesTold(it)
         /\ GatesTold(was, its) \in Seq(GateEvent)
<1> DEFINE N == Len(its)
<1>1. PICK more : more = Append(its, it)
  OBVIOUS
<1>2. /\ N \in Nat /\ more \in Seq(Attempts) /\ Len(more) = N + 1 /\ more[N + 1] = it
      /\ \A i \in 1 .. N : more[i] = its[i]
  BY <1>1, AppendProperties, LenProperties
<1>3. PICK told : Telling(was, its, told)
  BY ToldByOne
<1>4. PICK longer : Telling(was, more, longer)
  BY <1>2, ToldByOne
<1>5. /\ told[0] = Measured(was, "baseline")
      /\ \A n \in 1 .. N : told[n] = told[n - 1] \o PhasesTold(its[n])
      /\ told \in [0 .. N -> Seq(GateEvent)] /\ GatesTold(was, its) = told[N]
  BY <1>3 DEF Telling
<1>6. /\ longer[0] = Measured(was, "baseline") /\ GatesTold(was, more) = longer[N + 1]
      /\ \A n \in 1 .. N + 1 : longer[n] = longer[n - 1] \o PhasesTold(more[n])
  BY <1>2, <1>4 DEF Telling
<1> HIDE DEF N
<1> DEFINE P == {n \in 0 .. N : longer[n] = told[n]}
<1>7. 0 \in P /\ N \in 0 .. N
  BY <1>2, <1>5, <1>6
<1>8. ASSUME NEW n \in 1 .. N, n - 1 \in P PROVE n \in P
  <2>1. n \in 1 .. N + 1 /\ n \in 0 .. N /\ more[n] = its[n] /\ longer[n - 1] = told[n - 1]
    BY <1>2, <1>8
  <2> QED
    BY <1>5, <1>6, <2>1
<1>9. 0 .. N \subseteq P
  <2> HIDE DEF P
  <2> QED
    BY <1>2, <1>7, <1>8, UptoInduction
<1>10. longer[N + 1] = longer[N] \o PhasesTold(it)
  <2>1. N + 1 \in 1 .. N + 1 /\ (N + 1) - 1 = N
    BY <1>2
  <2>2. longer[N + 1] = longer[(N + 1) - 1] \o PhasesTold(more[N + 1])
    BY <1>6, <2>1
  <2> QED
    BY <1>2, <2>1, <2>2
<1>11. longer[N] = told[N] /\ told[N] \in Seq(GateEvent)
  BY <1>5, <1>7, <1>9
<1>12. GatesTold(was, more) = GatesTold(was, its) \o PhasesTold(it)
  BY <1>5, <1>6, <1>10, <1>11
<1> QED
  BY <1>1, <1>5, <1>11, <1>12

-----------------------------------------------------------------------------
(* What the journal tells of the gates and of the actuator, at every moment.  *)

Tellers == {"gate.finished", "actuator.started"}

\* The gate events of the attempt that is not on the record yet.
InFlight == IF attempt = Unset THEN <<>> ELSE PhasesTold(attempt)

Journalled ==
  /\ \E S : journal \in Seq(S)
  /\ Selected(journal, "gate.finished") = GatesTold(baseline, iterations) \o InFlight
  /\ Len(Selected(journal, "actuator.started")) =
       Len(iterations) + (IF attempt = Unset THEN 0 ELSE 1)

\* What is not measured yet, by where the controller is.
Unmeasured ==
  /\ pc \in Early => baseline = Unset
  /\ pc \in Early \cup {"measured", "cloned"} => iterations = <<>>
  /\ pc \in {"attempted", "acted", "quick"} => attempt.quick = Unset /\ attempt.full = Unset
  /\ pc \in {"quick measured", "full"} => attempt.full = Unset

\* A record that states a decision holds what the run does.
Recorded ==
  evidence.decision # Running =>
    pc = "returned" /\ evidence.baseline = baseline /\ evidence.iterations = iterations

Telltale == Journalled /\ Unmeasured /\ Recorded

\* A journal that goes on with events of other types tells no more.
LEMMA TellsNoMore ==
  ASSUME \E S : journal \in Seq(S), NEW events, Without(events, Tellers), Log(events)
  PROVE  /\ \E S : journal' \in Seq(S)
         /\ \A type \in Tellers : Selected(journal', type) = Selected(journal, type)
<1>1. PICK S : journal \in Seq(S)
  OBVIOUS
<1>2. PICK T : events \in Seq(T)
  BY DEF Without
<1>3. journal \in Seq(S \cup T) /\ events \in Seq(S \cup T)
  BY <1>1, <1>2, SeqMonotonic
<1>4. journal' = journal \o events
  BY DEF Log
<1>5. journal' \in Seq(S \cup T)
  BY <1>3, <1>4, ConcatProperties
<1>6. ASSUME NEW type \in Tellers PROVE Selected(journal', type) = Selected(journal, type)
  <2>1. \A i \in DOMAIN events : events[i][1] # type
    BY DEF Without
  <2>2. Selected(events, type) = <<>>
    BY <1>3, <2>1, SelectedOfNone
  <2>3. Joined(journal', journal, events, type) /\ Selected(journal, type) \in Seq(S \cup T)
    BY <1>3, <1>4, SelectedOfBoth, Zenon
  <2>4. Selected(journal, type) \o <<>> = Selected(journal, type)
    BY <2>3, ConcatEmptySeq
  <2> QED
    BY <2>2, <2>3, <2>4 DEF Joined
<1> QED
  BY <1>5, <1>6

\* One that goes on with the events of a phase tells that phase.
LEMMA TellsThePhase ==
  ASSUME \E S : journal \in Seq(S), NEW occasion \in Occasions, NEW measured \in Seq(Result),
         NEW rest, Without(rest, Tellers), Log(GateEvents(occasion, measured) \o rest)
  PROVE  /\ \E S : journal' \in Seq(S)
         /\ Selected(journal', "gate.finished") =
              Selected(journal, "gate.finished") \o Measured(measured, occasion)
         /\ Selected(journal', "actuator.started") = Selected(journal, "actuator.started")
<1> DEFINE gates == GateEvents(occasion, measured)
<1>1. gates \in Seq(GateEvent) /\ gates = Measured(measured, occasion)
  <2>1. measured # Unset
    BY MeasuredAssumption
  <2> QED
    BY <2>1, EventsOfAPhase
<1>2. PICK S : journal \in Seq(S)
  OBVIOUS
<1>3. PICK T : rest \in Seq(T)
  BY DEF Without
<1> DEFINE E == S \cup T \cup GateEvent
<1>4. journal \in Seq(E) /\ rest \in Seq(E) /\ gates \in Seq(E)
  BY <1>1, <1>2, <1>3, SeqMonotonic
<1>5. \A i \in DOMAIN gates : gates[i][1] = "gate.finished"
  <2>1. \A i \in DOMAIN gates : gates[i] \in GateEvent
    BY <1>1, LenProperties
  <2> QED
    BY <2>1 DEF GateEvent
<1>6. journal' = journal \o (gates \o rest)
  BY DEF Log
<1> HIDE DEF gates, E
<1>7. gates \o rest \in Seq(E) /\ journal \o (gates \o rest) \in Seq(E)
  BY <1>4, ConcatProperties
<1>8. ASSUME NEW type \in Tellers
      PROVE  /\ Selected(journal', type) =
                  Selected(journal, type) \o (Selected(gates, type) \o Selected(rest, type))
             /\ Selected(rest, type) = <<>>
             /\ Selected(journal, type) \in Seq(E) /\ Selected(gates, type) \in Seq(E)
  <2>1. \A i \in DOMAIN rest : rest[i][1] # type
    BY DEF Without
  <2>2. Selected(rest, type) = <<>>
    BY <1>4, <2>1, SelectedOfNone
  <2>3. Joined(gates \o rest, gates, rest, type) /\ Selected(gates, type) \in Seq(E)
    BY <1>4, SelectedOfBoth, Zenon
  <2>4. Joined(journal', journal, gates \o rest, type) /\ Selected(journal, type) \in Seq(E)
    BY <1>4, <1>6, <1>7, SelectedOfBoth, Zenon
  <2> QED
    BY <2>2, <2>3, <2>4 DEF Joined
<1>9. Selected(gates, "gate.finished") = gates /\ Selected(gates, "actuator.started") = <<>>
  <2>1. \A i \in DOMAIN gates : gates[i][1] # "actuator.started"
    BY <1>5
  <2> QED
    BY <1>4, <1>5, <2>1, SelectedOfAll, SelectedOfNone
<1>10. "gate.finished" \in Tellers /\ "actuator.started" \in Tellers
  BY DEF Tellers
<1>11. Selected(journal', "gate.finished") = Selected(journal, "gate.finished") \o gates
  <2>1. gates \o <<>> = gates
    BY <1>4, ConcatEmptySeq
  <2> QED
    BY <1>8, <1>9, <1>10, <2>1
<1>12. Selected(journal', "actuator.started") = Selected(journal, "actuator.started")
  <2>1. <<>> \o <<>> = <<>> /\ Selected(journal, "actuator.started") \o <<>> =
                                 Selected(journal, "actuator.started")
    BY <1>8, <1>10, EmptySeq, ConcatEmptySeq
  <2> QED
    BY <1>8, <1>9, <1>10, <2>1
<1> QED
  BY <1>1, <1>6, <1>7, <1>11, <1>12

LEMMA TellsOfARecord ==
  ASSUME NEW was \in Seq(Result) \cup {Unset}, NEW its \in Seq(Attempts)
  PROVE  GatesTold(was, its) \in Seq(GateEvent)
<1>1. PICK told : Telling(was, its, told)
  BY ToldByOne
<1>2. Len(its) \in 0 .. Len(its)
  BY LenProperties
<1> QED
  BY <1>1, <1>2 DEF Telling

-----------------------------------------------------------------------------
(* One lemma per way the journal grows.                                      *)

\* Past events of other types, over the same measurements.
LEMMA JournalledGoes ==
  ASSUME Journalled, UNCHANGED <<baseline, iterations>>, InFlight' = InFlight,
         attempt' = Unset <=> attempt = Unset,
         journal' = journal \/ \E events : Without(events, Tellers) /\ Log(events)
  PROVE  Journalled'
<1>1. /\ \E S : journal' \in Seq(S)
      /\ \A type \in Tellers : Selected(journal', type) = Selected(journal, type)
  BY TellsNoMore DEF Journalled
<1>2. "gate.finished" \in Tellers /\ "actuator.started" \in Tellers
  BY DEF Tellers
<1>3. /\ Selected(journal', "gate.finished") = Selected(journal, "gate.finished")
      /\ Selected(journal', "actuator.started") = Selected(journal, "actuator.started")
  BY <1>1, <1>2
<1>4. Selected(journal', "gate.finished") = GatesTold(baseline', iterations') \o InFlight'
  BY <1>3 DEF Journalled
<1>5. Len(Selected(journal', "actuator.started")) =
        Len(iterations') + (IF attempt' = Unset THEN 0 ELSE 1)
  BY <1>3 DEF Journalled
<1> QED
  BY <1>1, <1>4, <1>5 DEF Journalled

\* With the gates of the baseline.
LEMMA JournalledBaseline ==
  ASSUME Journalled, Held, Types, Unmeasured, FinishBaseline
  PROVE  Journalled'
<1> DEFINE rest == <<<<"baseline.finished", AllPassed(results)>>>>
           told == Measured(results, "baseline")
<1>1. /\ pc = "baseline" /\ baseline' = results /\ UNCHANGED <<attempt, iterations>>
      /\ Log(GateEvents("baseline", results) \o rest)
  BY DEF FinishBaseline
<1>2. /\ baseline = Unset /\ iterations = <<>> /\ attempt = Unset /\ results \in Seq(Result)
      /\ \E S : journal \in Seq(S)
  BY <1>1 DEF Unmeasured, Held, Types, Early, InIteration, Journalled
<1>3. "baseline" \in Occasions /\ Without(rest, Tellers)
  BY WithoutOne DEF Occasions, Tellers
<1> HIDE DEF rest
<1>4. /\ \E S : journal' \in Seq(S)
      /\ Selected(journal', "gate.finished") = Selected(journal, "gate.finished") \o told
      /\ Selected(journal', "actuator.started") = Selected(journal, "actuator.started")
  BY <1>1, <1>2, <1>3, TellsThePhase
<1>5. told \in Seq(GateEvent)
  BY <1>2, <1>3, EventsOfAPhase
<1>6. GatesTold(Unset, <<>>) = <<>> /\ GatesTold(results, <<>>) = told
  <2>1. Measured(Unset, "baseline") = <<>>
    BY DEF Measured
  <2> QED
    BY <1>2, <2>1, ToldOfNone
<1>7. InFlight = <<>> /\ InFlight' = <<>>
  BY <1>1, <1>2 DEF InFlight
<1>8. Selected(journal, "gate.finished") = <<>>
  <2>1. <<>> \o <<>> = <<>>
    BY EmptySeq, ConcatEmptySeq
  <2> QED
    BY <1>2, <1>6, <1>7, <2>1 DEF Journalled
<1>9. Selected(journal', "gate.finished") = told
  <2> HIDE DEF told
  <2>1. <<>> \o told = told
    BY <1>5, ConcatEmptySeq
  <2> QED
    BY <1>4, <1>8, <2>1
<1>10. Selected(journal', "gate.finished") = GatesTold(baseline', iterations') \o InFlight'
  <2> HIDE DEF told
  <2>1. told \o <<>> = told
    BY <1>5, ConcatEmptySeq
  <2> QED
    BY <1>1, <1>2, <1>6, <1>7, <1>9, <2>1
<1>11. Len(Selected(journal', "actuator.started")) =
         Len(iterations') + (IF attempt' = Unset THEN 0 ELSE 1)
  BY <1>1, <1>4 DEF Journalled
<1> QED
  BY <1>4, <1>10, <1>11 DEF Journalled

\* With the gates of a phase of the attempt.
LEMMA JournalledPhase ==
  ASSUME Journalled, Held, Types, NEW occasion \in Occasions, Log(GateEvents(occasion, results)),
         UNCHANGED <<baseline, iterations>>, attempt \in Attempts, attempt' \in Attempts,
         InFlight' = InFlight \o Measured(results, occasion)
  PROVE  Journalled'
<1> DEFINE gates == GateEvents(occasion, results)
           told == Measured(results, occasion)
           record == GatesTold(baseline, iterations)
<1>1. results \in Seq(Result) /\ results # Unset /\ \E S : journal \in Seq(S)
  BY MeasuredAssumption DEF Types, Journalled
<1>2. told \in Seq(GateEvent) /\ told = gates
  BY <1>1, EventsOfAPhase
<1>3. Log(gates \o <<>>) /\ Without(<<>>, Tellers)
  <2>1. gates \o <<>> = gates
    BY <1>2, ConcatEmptySeq
  <2>2. Without(<<>>, Tellers)
    BY EmptySeq DEF Without
  <2> HIDE DEF gates
  <2>3. Log(gates)
    BY DEF gates
  <2> QED
    BY <2>1, <2>2, <2>3
<1>4. /\ \E S : journal' \in Seq(S)
      /\ Selected(journal', "gate.finished") = Selected(journal, "gate.finished") \o told
      /\ Selected(journal', "actuator.started") = Selected(journal, "actuator.started")
  BY <1>1, <1>3, TellsThePhase
<1>5. record \in Seq(GateEvent) /\ InFlight \in Seq(GateEvent)
  <2>1. record \in Seq(GateEvent)
    BY TellsOfARecord DEF Held
  <2>2. InFlight = PhasesTold(attempt)
    BY AttemptsAssumption DEF InFlight
  <2> QED
    BY <2>1, <2>2, EventsOfAnIteration
<1> HIDE DEF told, gates, record
<1>6. (record \o InFlight) \o told = record \o (InFlight \o told)
  BY ONLY <1>2, <1>5, ConcatAssociative
<1>7. Selected(journal, "gate.finished") = record \o InFlight
  BY DEF Journalled, record
<1>8. Selected(journal', "gate.finished") = GatesTold(baseline', iterations') \o InFlight'
  <2>1. GatesTold(baseline', iterations') = record /\ InFlight' = InFlight \o told
    BY DEF record, told
  <2> QED
    BY <1>4, <1>6, <1>7, <2>1
<1>9. Len(Selected(journal', "actuator.started")) =
        Len(iterations') + (IF attempt' = Unset THEN 0 ELSE 1)
  BY <1>4, AttemptsAssumption DEF Journalled
<1> QED
  BY <1>4, <1>8, <1>9 DEF Journalled

\* With the start of the actuator.
LEMMA JournalledStart ==
  ASSUME Journalled, Held, Log(<<<<"actuator.started">>>>), UNCHANGED <<baseline, iterations>>,
         attempt = Unset, attempt' \in Attempts, attempt'.quick = Unset, attempt'.full = Unset
  PROVE  Journalled'
<1> DEFINE event == <<"actuator.started">>
           events == <<event>>
<1>1. PICK S : journal \in Seq(S)
  BY DEF Journalled
<1> DEFINE E == S \cup {event}
<1>2. events \in Seq({event}) /\ DOMAIN events = {1} /\ events[1] = event /\ Len(events) = 1
  OBVIOUS
<1>3. event[1] = "actuator.started" /\ journal' = journal \o events
  BY DEF Log
<1> HIDE DEF event, events
<1>4. journal \in Seq(E) /\ events \in Seq(E)
  BY <1>1, <1>2, SeqMonotonic
<1> HIDE DEF E
<1>5. journal' \in Seq(E)
  BY <1>3, <1>4, ConcatProperties
<1>6. Selected(events, "actuator.started") = events
  BY <1>2, <1>3, <1>4, SelectedOfAll
<1>7. Selected(events, "gate.finished") = <<>>
  <2>1. \A i \in DOMAIN events : events[i][1] # "gate.finished"
    BY <1>2, <1>3
  <2> QED
    BY <1>4, <2>1, SelectedOfNone
<1>8. \A type : Joined(journal', journal, events, type) /\ Selected(journal, type) \in Seq(E)
  BY <1>3, <1>4, SelectedOfBoth, Zenon
<1>9. Selected(journal', "gate.finished") = Selected(journal, "gate.finished")
  <2>1. Selected(journal, "gate.finished") \o <<>> = Selected(journal, "gate.finished")
    BY <1>8, ConcatEmptySeq
  <2> QED
    BY <1>7, <1>8, <2>1 DEF Joined
<1>10. Selected(journal', "gate.finished") = GatesTold(baseline', iterations') \o InFlight'
  <2>1. InFlight = <<>>
    BY DEF InFlight
  <2>2. InFlight' = <<>>
    <3>1. InFlight' = Measured(Unset, "quick") \o Measured(Unset, "full")
      BY AttemptsAssumption DEF InFlight, PhasesTold
    <3>2. Measured(Unset, "quick") = <<>> /\ Measured(Unset, "full") = <<>>
      BY DEF Measured
    <3>3. <<>> \o <<>> = <<>>
      BY EmptySeq, ConcatEmptySeq
    <3> QED
      BY <3>1, <3>2, <3>3
  <2> QED
    BY <1>9, <2>1, <2>2 DEF Journalled
<1>11. Len(Selected(journal', "actuator.started")) =
         Len(iterations') + (IF attempt' = Unset THEN 0 ELSE 1)
  <2>1. Selected(journal', "actuator.started") = Selected(journal, "actuator.started") \o events
    BY <1>6, <1>8 DEF Joined
  <2>2. Len(Selected(journal, "actuator.started") \o events) =
          Len(Selected(journal, "actuator.started")) + Len(events)
    BY <1>4, <1>8, ConcatProperties
  <2>3. Len(Selected(journal, "actuator.started")) = Len(iterations) + 0
    BY DEF Journalled
  <2>4. Len(iterations) \in Nat /\ attempt' # Unset
    BY LenProperties, AttemptsAssumption DEF Held
  <2> QED
    BY <1>2, <2>1, <2>2, <2>3, <2>4
<1> QED
  BY <1>5, <1>10, <1>11 DEF Journalled

\* The attempt kept, and nothing told.
LEMMA JournalledKeeps ==
  ASSUME Journalled, Held, pc = "keeping", iterations' = Kept, attempt' = Unset,
         UNCHANGED <<baseline, journal>>
  PROVE  Journalled'
<1> DEFINE record == GatesTold(baseline, iterations)
<1>1. attempt \in Attempts /\ attempt # Unset /\ iterations \in Seq(Attempts)
      /\ baseline \in Seq(Result) \cup {Unset}
  BY DEF Held
<1>2. iterations' = Append(iterations, attempt) /\ Len(iterations') = Len(iterations) + 1
      /\ Len(iterations) \in Nat
  BY <1>1, AppendProperties, LenProperties DEF Kept
<1>3. /\ GatesTold(baseline, Append(iterations, attempt)) = record \o PhasesTold(attempt)
      /\ record \in Seq(GateEvent) /\ PhasesTold(attempt) \in Seq(GateEvent)
  BY <1>1, ToldOfOneMore, EventsOfAnIteration
<1>4. InFlight = PhasesTold(attempt) /\ InFlight' = <<>>
  BY <1>1 DEF InFlight
<1>5. Selected(journal, "gate.finished") = record \o PhasesTold(attempt)
  BY <1>4 DEF Journalled
<1>6. GatesTold(baseline', iterations') = record \o PhasesTold(attempt)
  BY <1>2, <1>3
<1> HIDE DEF record
<1>7. record \o PhasesTold(attempt) \in Seq(GateEvent)
  BY <1>3, ConcatProperties
<1>8. (record \o PhasesTold(attempt)) \o <<>> = record \o PhasesTold(attempt)
  BY <1>7, ConcatEmptySeq
<1>9. Selected(journal', "gate.finished") = GatesTold(baseline', iterations') \o InFlight'
  BY <1>4, <1>5, <1>6, <1>8
<1>10. Len(Selected(journal', "actuator.started")) =
         Len(iterations') + (IF attempt' = Unset THEN 0 ELSE 1)
  BY <1>1, <1>2 DEF Journalled
<1> QED
  BY <1>9, <1>10 DEF Journalled

-----------------------------------------------------------------------------
(* Every step.                                                               *)

\* What is not measured stays so until its phase is measured.
SameMeasurements(now, it) == now.quick = it.quick /\ now.full = it.full

LEMMA ActingMeasuresNothing ==
  ASSUME NEW it \in Attempts, NEW agent, NEW left, NEW now,
         \/ now = [it EXCEPT !.agent = agent]
         \/ now = [it EXCEPT !.agent = agent, !.actuator = left]
  PROVE  SameMeasurements(now, it)
  BY DEF Attempts, SameMeasurements

LEMMA ReviewingMeasuresNothing ==
  ASSUME NEW it \in Attempts, NEW answer, NEW now, now = [it EXCEPT !.review = answer]
  PROVE  SameMeasurements(now, it)
  BY DEF Attempts, SameMeasurements

LEMMA TellingMeasuresNothing ==
  ASSUME NEW it \in Attempts, NEW feedback, NEW now, now = [it EXCEPT !.feedback = feedback]
  PROVE  SameMeasurements(now, it)
  BY DEF Attempts, SameMeasurements

LEMMA SameInFlight ==
  ASSUME attempt \in Attempts, attempt' \in Attempts, SameMeasurements(attempt', attempt)
  PROVE  InFlight' = InFlight
  BY AttemptsAssumption DEF InFlight, PhasesTold, SameMeasurements

LEMMA ActuateMeasuresNothing ==
  ASSUME Held, Actuate
  PROVE  attempt \in Attempts /\ SameMeasurements(attempt', attempt)
<1>1. attempt \in Attempts
  BY DEF Held, Actuate, InIteration
<1>2. PICK agent \in {"error", "zero", "nonzero"} :
        \/ attempt' = [attempt EXCEPT !.agent = agent]
        \/ attempt' = [attempt EXCEPT !.agent = agent, !.actuator = tree']
  BY DEF Actuate
<1> QED
  BY <1>1, <1>2, ActingMeasuresNothing

LEMMA JudgesMeasureNothing ==
  ASSUME Held, JudgeQuick \/ JudgeFull
  PROVE  attempt \in Attempts /\ SameMeasurements(attempt', attempt)
<1>1. attempt \in Attempts
  BY DEF Held, JudgeQuick, JudgeFull, InIteration
<1>2. \/ attempt' = attempt
      \/ \E feedback : attempt' = [attempt EXCEPT !.feedback = feedback]
      \/ attempt' = [attempt EXCEPT !.review = Asked]
  BY DEF JudgeQuick, JudgeFull, Decided
<1>3. CASE attempt' = attempt
  BY <1>1, <1>3 DEF SameMeasurements
<1>4. ASSUME NEW feedback, attempt' = [attempt EXCEPT !.feedback = feedback]
      PROVE  SameMeasurements(attempt', attempt)
  BY <1>1, <1>4, TellingMeasuresNothing
<1>5. CASE attempt' = [attempt EXCEPT !.review = Asked]
  BY <1>1, <1>5, ReviewingMeasuresNothing
<1> QED
  BY <1>1, <1>2, <1>3, <1>4, <1>5

LEMMA ReviewMeasuresNothing ==
  ASSUME Held, Review
  PROVE  attempt \in Attempts /\ SameMeasurements(attempt', attempt)
<1>1. attempt \in Attempts
  BY DEF Held, Review, InIteration
<1>2. \/ attempt' = attempt
      \/ \E answer \in Reviews :
           LET answered == [attempt EXCEPT !.review = answer]
           IN  attempt' = answered \/ \E feedback \in Reasons :
                                        attempt' = [answered EXCEPT !.feedback = feedback]
  BY FeedbackReasons DEF Review, Reasons
<1>3. ASSUME NEW answer \in Reviews, NEW answered, answered = [attempt EXCEPT !.review = answer],
             \/ attempt' = answered
             \/ \E feedback \in Reasons : attempt' = [answered EXCEPT !.feedback = feedback]
      PROVE  SameMeasurements(attempt', attempt)
  <2>1. answered \in Attempts /\ SameMeasurements(answered, attempt)
    BY <1>1, <1>3, ReviewedIsTyped, ReviewingMeasuresNothing
  <2>2. SameMeasurements(attempt', answered)
    <3>1. CASE attempt' = answered
      BY <3>1 DEF SameMeasurements
    <3>2. ASSUME NEW feedback \in Reasons, attempt' = [answered EXCEPT !.feedback = feedback]
          PROVE  SameMeasurements(attempt', answered)
      BY <2>1, <3>2, TellingMeasuresNothing
    <3> QED
      BY <1>3, <3>1, <3>2
  <2> QED
    BY <2>1, <2>2 DEF SameMeasurements
<1> QED
  BY <1>1, <1>2, <1>3 DEF SameMeasurements

LEMMA UnmeasuredBegins ==
  ASSUME Init
  PROVE  Unmeasured
  BY DEF Init, Unmeasured, Early

LEMMA UnmeasuredStep ==
  ASSUME Unmeasured, Held, Inv, [Next]_vars
  PROVE  Unmeasured'
<1> USE DEF Early
<1>1. CASE VerifyControlInputs \/ FreezeExecutionEnvironment \/ Install \/ FinishBaseline
           \/ CreateCandidate \/ SkipInstall
  <2>1. iterations' = iterations
    BY <1>1 DEF VerifyControlInputs, FreezeExecutionEnvironment, Install, FinishBaseline,
       CreateCandidate, SkipInstall, memory
  <2>2. pc \in Early \cup {"measured", "cloned"}
    BY <1>1 DEF VerifyControlInputs, FreezeExecutionEnvironment, Install, FinishBaseline,
       CreateCandidate, SkipInstall
  <2>3. pc' \in Early => pc \in Early /\ baseline' = baseline
    BY <1>1 DEF VerifyControlInputs, FreezeExecutionEnvironment, Install, FinishBaseline,
       CreateCandidate, SkipInstall, JudgeBaseline, memory, Go, End, InIteration
  <2>4. pc' \notin {"attempted", "acted", "quick", "quick measured", "full"}
    BY <1>1 DEF VerifyControlInputs, FreezeExecutionEnvironment, Install, FinishBaseline,
       CreateCandidate, SkipInstall, JudgeBaseline, memory, Go, End, InIteration
  <2> QED
    BY <2>1, <2>2, <2>3, <2>4 DEF Unmeasured
<1>2. CASE RunGate
  BY <1>2 DEF RunGate, Unmeasured
<1>3. CASE RefuseObservation \/ KeepIteration \/ ExhaustBudget \/ CloseJournal \/ WriteRecord \/ Abort
           \/ Error \/ FinishFull
  <2>1. pc' \notin Early \cup {"measured", "cloned", "attempted", "acted", "quick", "quick measured",
                             "full"}
    BY <1>3 DEF RefuseObservation, KeepIteration, ExhaustBudget, CloseJournal, WriteRecord, Abort,
       Error, FinishFull, Go, End, InIteration
  <2> QED
    BY <2>1 DEF Unmeasured
<1>4. CASE StartIteration
  <2>1. pc' = "attempted" /\ attempt' = Attempted(outcome.feedback, tree)
    BY <1>4 DEF StartIteration, Go
  <2> QED
    BY <2>1 DEF Unmeasured, Attempted
<1>5. CASE Actuate
  <2>1. pc = "attempted" /\ pc' \in {"acted", "keeping"}
    BY <1>5 DEF Actuate, Go, End, InIteration
  <2> QED
    BY <1>5, <2>1, ActuateMeasuresNothing DEF Unmeasured, SameMeasurements
<1>6. CASE MeasureScope
  BY <1>6 DEF MeasureScope, Unmeasured, Go
<1>7. CASE FinishQuick
  <2>1. /\ pc = "quick" /\ pc' = "quick measured" /\ attempt \in Attempts
        /\ attempt' = [attempt EXCEPT !.observed = tree, !.scope = scope, !.quick = results]
    BY <1>7 DEF FinishQuick, Go, Held, InIteration
  <2>2. attempt'.full = attempt.full
    BY <2>1 DEF Attempts
  <2> QED
    BY <2>1, <2>2 DEF Unmeasured
<1>8. CASE JudgeQuick \/ JudgeFull
  <2>1. pc' = "full" => pc = "quick measured"
    BY <1>8 DEF JudgeQuick, JudgeFull, Decided, Go, End, InIteration
  <2>2. pc' \notin Early \cup {"measured", "cloned", "attempted", "acted", "quick", "quick measured"}
    BY <1>8 DEF JudgeQuick, JudgeFull, Decided, Go, End, InIteration
  <2> QED
    BY <1>8, <2>1, <2>2, JudgesMeasureNothing DEF Unmeasured, SameMeasurements
<1>9. CASE Review
  <2>1. pc' = "keeping"
    BY <1>9 DEF Review, Go, End, InIteration
  <2> QED
    BY <2>1 DEF Unmeasured
<1>10. CASE OperatorActs \/ LingeringWrite \/ Terminated \/ UNCHANGED vars
  BY <1>10 DEF OperatorActs, LingeringWrite, Terminated, vars, memory, Unmeasured
<1> QED
  BY <1>1, <1>2, <1>3, <1>4, <1>5, <1>6, <1>7, <1>8, <1>9, <1>10 DEF Next, Controller

LEMMA RecordedStep ==
  ASSUME Recorded, Deciding, Deciding', [Next]_vars
  PROVE  Recorded'
<1>1. CASE WriteRecord
  BY <1>1 DEF WriteRecord, Recorded, Go, memory
<1>2. CASE pc = "returned"
  <2>1. UNCHANGED vars
    BY <1>2 DEF Next, Controller, VerifyControlInputs, FreezeExecutionEnvironment, Install,
       FinishBaseline, CreateCandidate, SkipInstall, RunGate, RefuseObservation, StartIteration,
       Actuate, MeasureScope, FinishQuick, JudgeQuick, FinishFull, JudgeFull, Review,
       KeepIteration, ExhaustBudget, CloseJournal, WriteRecord, Abort, Error, OperatorActs,
       LingeringWrite, Terminated, Ended, Occasions
  <2> QED
    BY <2>1 DEF vars, memory, disk, Recorded
<1>3. CASE pc # "returned" /\ ~WriteRecord
  <2>1. pc' # "returned"
    <3>1. ~Controller \/ pc' # "returned"
      BY <1>3 DEF Controller, VerifyControlInputs, FreezeExecutionEnvironment, Install,
         FinishBaseline, JudgeBaseline, CreateCandidate, SkipInstall, RunGate, RefuseObservation,
         StartIteration, Actuate, MeasureScope, FinishQuick, JudgeQuick, FinishFull, JudgeFull,
         Review, KeepIteration, ExhaustBudget, CloseJournal, Abort, Decided, Go, End
    <3>2. ~Error \/ pc' # "returned"
      BY DEF Error, Go, End
    <3> QED
      BY <1>3, <3>1, <3>2 DEF Next, OperatorActs, LingeringWrite, Terminated, vars
  <2> QED
    BY <2>1 DEF Deciding, Recorded
<1> QED
  BY <1>1, <1>2, <1>3

LEMMA JournalledBefore ==
  ASSUME Journalled, Held, Types, Unmeasured,
         VerifyControlInputs \/ FreezeExecutionEnvironment \/ Install \/ FinishBaseline
         \/ CreateCandidate \/ SkipInstall
  PROVE  Journalled'
<1>1. CASE FinishBaseline
  BY <1>1, JournalledBaseline
<1>2. CASE VerifyControlInputs \/ FreezeExecutionEnvironment \/ Install \/ CreateCandidate
           \/ SkipInstall
  <2>1. UNCHANGED <<baseline, attempt, iterations>>
    BY <1>2 DEF VerifyControlInputs, FreezeExecutionEnvironment, Install, CreateCandidate,
       SkipInstall, memory
  <2>2. \/ journal' = journal
        \/ \E event : event[1] \notin Tellers /\ Log(<<event>>)
    BY <1>2 DEF VerifyControlInputs, FreezeExecutionEnvironment, Install, CreateCandidate,
       SkipInstall, disk, Tellers
  <2>3. journal' = journal \/ \E events : Without(events, Tellers) /\ Log(events)
    BY <2>2, WithoutOne
  <2>4. InFlight' = InFlight
    BY <2>1 DEF InFlight
  <2> QED
    BY <2>1, <2>3, <2>4, JournalledGoes
<1> QED
  BY <1>1, <1>2

LEMMA JournalledPhases ==
  ASSUME Journalled, Held, Types, Unmeasured, Held', FinishQuick \/ FinishFull
  PROVE  Journalled'
<1>1. /\ attempt \in Attempts /\ attempt' \in Attempts /\ results \in Seq(Result)
      /\ UNCHANGED <<baseline, iterations>>
  BY DEF FinishQuick, FinishFull, Held, InIteration, Types, Go
<1>2. InFlight = PhasesTold(attempt) /\ InFlight' = PhasesTold(attempt')
  BY <1>1, AttemptsAssumption DEF InFlight
<1>3. "quick" \in Occasions /\ "full" \in Occasions
  BY DEF Occasions
<1>4. Measured(Unset, "quick") = <<>> /\ Measured(Unset, "full") = <<>>
  BY DEF Measured
<1>5. CASE FinishQuick
  <2> DEFINE told == Measured(results, "quick")
  <2>1. /\ attempt' = [attempt EXCEPT !.observed = tree, !.scope = scope, !.quick = results]
        /\ attempt.quick = Unset /\ attempt.full = Unset /\ Log(GateEvents("quick", results))
    BY <1>5 DEF FinishQuick, Unmeasured
  <2>2. attempt'.quick = results /\ attempt'.full = Unset
    BY <1>1, <2>1 DEF Attempts
  <2>3. told \in Seq(GateEvent)
    BY <1>1, <1>3, EventsOfAPhase
  <2>4. PhasesTold(attempt) = <<>> \o <<>> /\ PhasesTold(attempt') = told \o <<>>
    BY <1>4, <2>1, <2>2 DEF PhasesTold
  <2> HIDE DEF told
  <2>5. <<>> \o <<>> = <<>> /\ <<>> \o told = told /\ told \o <<>> = told
    BY <2>3, EmptySeq, ConcatEmptySeq
  <2>6. InFlight' = InFlight \o told
    BY <1>2, <2>4, <2>5
  <2> QED
    BY <1>1, <1>3, <2>1, <2>6, JournalledPhase DEF told
<1>6. CASE FinishFull
  <2> DEFINE quick == Measured(attempt.quick, "quick")
             told == Measured(results, "full")
  <2>1. /\ attempt' = [attempt EXCEPT !.full = results, !.full_state = tree]
        /\ attempt.full = Unset /\ Log(GateEvents("full", results))
    BY <1>6 DEF FinishFull, Unmeasured
  <2>2. attempt'.quick = attempt.quick /\ attempt'.full = results
    BY <1>1, <2>1 DEF Attempts
  <2>3. quick \in Seq(GateEvent)
    <3>1. attempt.quick \in Seq(Result) \cup {Unset}
      BY <1>1 DEF Attempts
    <3> QED
      BY <1>3, <3>1, EventsOfAPhase
  <2>4. PhasesTold(attempt) = quick \o <<>> /\ PhasesTold(attempt') = quick \o told
    BY <1>4, <2>1, <2>2 DEF PhasesTold
  <2> HIDE DEF quick, told
  <2>5. quick \o <<>> = quick
    BY <2>3, ConcatEmptySeq
  <2>6. InFlight' = InFlight \o told
    BY <1>2, <2>4, <2>5
  <2> QED
    BY <1>1, <1>3, <2>1, <2>6, JournalledPhase DEF told
<1> QED
  BY <1>5, <1>6

LEMMA JournalledInside ==
  ASSUME Journalled, Held, Held',
         StartIteration \/ Actuate \/ JudgeQuick \/ JudgeFull \/ Review
  PROVE  Journalled'
<1>1. UNCHANGED <<baseline, iterations>>
  BY DEF StartIteration, Actuate, JudgeQuick, JudgeFull, Review
<1>2. CASE StartIteration
  <2>1. /\ attempt = Unset /\ attempt' \in Attempts
    BY <1>2 DEF StartIteration, Held, InIteration, Go
  <2>2. attempt'.quick = Unset /\ attempt'.full = Unset /\ Log(<<<<"actuator.started">>>>)
    BY <1>2 DEF StartIteration, Attempted
  <2> QED
    BY <1>1, <2>1, <2>2, JournalledStart
<1>3. CASE Actuate \/ JudgeQuick \/ JudgeFull \/ Review
  <2>1. attempt \in Attempts /\ SameMeasurements(attempt', attempt)
    BY <1>3, ActuateMeasuresNothing, JudgesMeasureNothing, ReviewMeasuresNothing
  <2>2. attempt' \in Attempts
    <3>1. pc' \in InIteration \cup {"keeping"}
      BY <1>3 DEF Actuate, JudgeQuick, JudgeFull, Review, Decided, Go, End, InIteration
    <3> QED
      BY <3>1 DEF Held
  <2>3. InFlight' = InFlight
    BY <2>1, <2>2, SameInFlight
  <2> DEFINE told == <<<<"review.finished">>, <<"review.profile_observed">>>>
             fed == <<<<"feedback.emitted", "review">>>>
  <2>4. \/ journal' = journal
        \/ Log(<<<<"actuator.finished">>, <<"actuator.profile_observed">>>>)
        \/ \E stage : Log(<<<<"feedback.emitted", stage>>>>)
        \/ Log(told) \/ Log(told \o fed)
    BY <1>3 DEF Actuate, JudgeQuick, JudgeFull, Review, Decided
  <2>5. /\ Without(<<<<"actuator.finished">>, <<"actuator.profile_observed">>>>, Tellers)
        /\ \A stage : Without(<<<<"feedback.emitted", stage>>>>, Tellers)
        /\ Without(told, Tellers) /\ Without(fed, Tellers)
    <3>1. \A stage : <<"feedback.emitted", stage>>[1] \notin Tellers
      BY DEF Tellers
    <3>2. \A stage : Without(<<<<"feedback.emitted", stage>>>>, Tellers)
      BY <3>1, WithoutOne, Zenon
    <3>3. /\ Without(<<<<"actuator.finished">>, <<"actuator.profile_observed">>>>, Tellers)
          /\ Without(told, Tellers) /\ Without(fed, Tellers)
      BY WithoutOne, WithoutTwo DEF Tellers
    <3> QED
      BY <3>2, <3>3
  <2> HIDE DEF told, fed
  <2>6. Without(told \o fed, Tellers)
    BY <2>5, WithoutBoth
  <2>7. journal' = journal \/ \E events : Without(events, Tellers) /\ Log(events)
    BY <2>4, <2>5, <2>6
  <2>8. attempt # Unset /\ attempt' # Unset
    BY <2>1, <2>2, AttemptsAssumption
  <2> QED
    BY <1>1, <2>3, <2>7, <2>8, JournalledGoes
<1> QED
  BY <1>2, <1>3

LEMMA JournalledAside ==
  ASSUME Journalled, Held,
         RunGate \/ RefuseObservation \/ MeasureScope \/ KeepIteration \/ ExhaustBudget
         \/ CloseJournal \/ WriteRecord \/ Abort \/ Error \/ OperatorActs \/ LingeringWrite
         \/ Terminated \/ UNCHANGED vars
  PROVE  Journalled'
<1>1. CASE KeepIteration \/ (Error /\ pc = "keeping")
  <2>1. /\ pc = "keeping" /\ iterations' = Kept /\ attempt' = Unset
        /\ UNCHANGED <<baseline, journal>>
    BY <1>1 DEF KeepIteration, Error, disk
  <2> QED
    BY <2>1, JournalledKeeps
<1>2. CASE ~KeepIteration /\ ~(Error /\ pc = "keeping")
  <2>1. UNCHANGED <<baseline, attempt, iterations>>
    BY <1>2 DEF RunGate, RefuseObservation, MeasureScope, ExhaustBudget, CloseJournal,
       WriteRecord, Abort, Error, OperatorActs, LingeringWrite, Terminated, vars, memory
  <2>2. \/ journal' = journal \/ Log(<<<<"budget.exhausted">>>>) \/ Log(<<<<"run.aborted">>>>)
        \/ Log(<<<<"decision.recorded", ending>>, <<"run.finished", ending.status>>>>)
    BY <1>2 DEF RunGate, RefuseObservation, MeasureScope, ExhaustBudget, CloseJournal,
       WriteRecord, Abort, Error, OperatorActs, LingeringWrite, Terminated, vars, disk
  <2>3. /\ Without(<<<<"budget.exhausted">>>>, Tellers) /\ Without(<<<<"run.aborted">>>>, Tellers)
        /\ Without(<<<<"decision.recorded", ending>>, <<"run.finished", ending.status>>>>, Tellers)
    BY WithoutOne, WithoutTwo DEF Tellers
  <2>4. journal' = journal \/ \E events : Without(events, Tellers) /\ Log(events)
    BY <2>2, <2>3
  <2>5. InFlight' = InFlight
    BY <2>1 DEF InFlight
  <2> QED
    BY <2>1, <2>4, <2>5, JournalledGoes
<1> QED
  BY <1>1, <1>2

LEMMA JournalledBegins ==
  ASSUME Init
  PROVE  Journalled
<1> DEFINE first == <<<<"run.started">>, <<"inputs.frozen">>>>
           second == <<<<"inference.profiles_frozen">>>>
<1>1. /\ journal = first \o second /\ baseline = Unset /\ attempt = Unset /\ iterations = <<>>
  BY DEF Init
<1>2. Without(first, Tellers) /\ Without(second, Tellers)
  BY WithoutOne, WithoutTwo DEF Tellers
<1> HIDE DEF first, second
<1>3. Without(journal, Tellers)
  BY <1>1, <1>2, WithoutBoth
<1>4. PICK S : journal \in Seq(S)
  BY <1>3 DEF Without
<1>5. Selected(journal, "gate.finished") = <<>> /\ Selected(journal, "actuator.started") = <<>>
  <2>1. \A i \in DOMAIN journal : journal[i][1] # "gate.finished" /\ journal[i][1] # "actuator.started"
    BY <1>3 DEF Without, Tellers
  <2> QED
    BY <1>4, <2>1, SelectedOfNone
<1>6. GatesTold(Unset, <<>>) = <<>>
  <2>1. Measured(Unset, "baseline") = <<>>
    BY DEF Measured
  <2> QED
    BY <2>1, ToldOfNone
<1>7. InFlight = <<>> /\ <<>> \o <<>> = <<>> /\ Len(<<>>) = 0
  BY <1>1, EmptySeq, ConcatEmptySeq DEF InFlight
<1> QED
  BY <1>1, <1>4, <1>5, <1>6, <1>7 DEF Journalled

LEMMA JournalledStep ==
  ASSUME Journalled, Held, Held', Types, Unmeasured, [Next]_vars
  PROVE  Journalled'
<1>1. CASE VerifyControlInputs \/ FreezeExecutionEnvironment \/ Install \/ FinishBaseline
           \/ CreateCandidate \/ SkipInstall
  BY <1>1, JournalledBefore
<1>2. CASE FinishQuick \/ FinishFull
  BY <1>2, JournalledPhases
<1>3. CASE StartIteration \/ Actuate \/ JudgeQuick \/ JudgeFull \/ Review
  BY <1>3, JournalledInside
<1>4. CASE RunGate \/ RefuseObservation \/ MeasureScope \/ KeepIteration \/ ExhaustBudget
           \/ CloseJournal \/ WriteRecord \/ Abort \/ Error \/ OperatorActs \/ LingeringWrite
           \/ Terminated \/ UNCHANGED vars
  BY <1>4, JournalledAside
<1> QED
  BY <1>1, <1>2, <1>3, <1>4 DEF Next, Controller

LEMMA TelltaleInvariant == Spec => []Telltale
<1>1. Init => Telltale
  <2> SUFFICES ASSUME Init PROVE Telltale
    OBVIOUS
  <2>1. Recorded
    BY DEF Init, Recorded
  <2> QED
    BY <2>1, JournalledBegins, UnmeasuredBegins DEF Telltale
<1>2. Telltale /\ Held /\ Held' /\ Inv /\ Deciding /\ Deciding' /\ [Next]_vars => Telltale'
  <2>1. Inv => Types
    BY DEF Inv
  <2> QED
    BY <2>1, JournalledStep, UnmeasuredStep, RecordedStep DEF Telltale
<1> QED
  BY <1>1, <1>2, TypedInvariant, DecidingInvariant, Invariant, PTL DEF Spec

\* Whatever happens to a run, the gate events of a journal that closed are the
\* measurements its record holds, in order, none missing and none twice, and the
\* record holds one iteration for each time the actuator was started.
THEOREM TheJournalTellsTheRecord == Spec => []JournalTellsTheRecord
<1>1. Telltale /\ Held => JournalTellsTheRecord
  <2> SUFFICES ASSUME Telltale, Held, evidence.decision # Running
               PROVE  /\ Selected(journal, "gate.finished") =
                           GatesTold(evidence.baseline, evidence.iterations)
                      /\ Len(Selected(journal, "actuator.started")) = Len(evidence.iterations)
    BY DEF JournalTellsTheRecord
  <2> DEFINE record == GatesTold(baseline, iterations)
  <2>1. pc = "returned" /\ evidence.baseline = baseline /\ evidence.iterations = iterations
    BY DEF Telltale, Recorded
  <2>2. attempt = Unset /\ record \in Seq(GateEvent) /\ Len(iterations) \in Nat
    BY <2>1, TellsOfARecord, LenProperties DEF Held, InIteration
  <2>3. InFlight = <<>>
    BY <2>2 DEF InFlight
  <2>4. Selected(journal, "gate.finished") = record \o <<>>
    BY <2>3 DEF Telltale, Journalled
  <2>5. Len(Selected(journal, "actuator.started")) = Len(iterations)
    BY <2>2 DEF Telltale, Journalled
  <2>6. record \o <<>> = record
    <3> HIDE DEF record
    <3> QED
      BY <2>2, ConcatEmptySeq
  <2> QED
    BY <2>1, <2>4, <2>5, <2>6
<1> QED
  BY <1>1, TelltaleInvariant, TypedInvariant, PTL
=============================================================================
