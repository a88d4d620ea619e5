----------------------------- MODULE Confinement -----------------------------
(***************************************************************************)
(* What each process of a run may reach (controller/isolation.py), the two    *)
(* mechanisms that hold it to that (runtime/seatbelt.py, bubblewrap.py,       *)
(* confinement.py), and the three callers that start a process under one and  *)
(* decide what it answered (runtime/process.py for a gate, the two adapters   *)
(* of actuators/ for an implementer and a reviewer).                          *)
(*                                                                           *)
(* Places stand for the paths of the host, Within[p] for p and every directory*)
(* that holds it.  A layout says which places the run's trees, records and     *)
(* environments are.  A confined process touches what its mechanism lets it    *)
(* touch; nothing else about what it does is said.                            *)
(***************************************************************************)
EXTENDS Naturals

CONSTANTS
  Places,   \* the paths that matter
  Within,   \* [Places -> SUBSET Places]: a path and the directories it is under
  Layouts,  \* where a run's trees may be, see Layout
  Optional, \* the places that may not exist when the run starts
  NoPlace   \* the provider directory of a run that declares no provider

Layout == [repo : Places, git_dir : Places, runs : Places, run_dir : Places,
           sensors : Places, state_git : Places, worktree : Places, worktree_git : Places,
           source_provider : Places \cup {NoPlace},
           candidate_provider : Places \cup {NoPlace},
           shared : BOOLEAN]   \* the provider keeps its tools outside every tree

ASSUME PlacesAssumption ==
  /\ NoPlace \notin Places /\ Optional \subseteq Places /\ Layouts \subseteq Layout
  /\ Within \in [Places -> SUBSET Places]
  /\ \A p \in Places : p \in Within[p] /\ \A q \in Within[p] : Within[q] \subseteq Within[p]

Mechanisms == {"macos-sandbox-exec", "linux-bubblewrap"}

Backends == {"claude", "codex"}

\* What is started: a gate in either tree, or a session of a backend.
Callers == {<<"source gate", "none">>, <<"candidate gate", "none">>}
             \cup ({"implementer", "reviewer"} \X Backends)

\* Two exit codes sandbox-exec ends on when it could not start the command, and
\* which a command may end on itself.
DidNotRun == {65, 71}

ExitCodes == {0, 1} \cup DidNotRun

\* What an agent left as its answer, by how its adapter reads it.
Answers == {"an object", "not an object", "unreadable", "an error"}

VARIABLES
  host,     \* the mechanism and the layout of the run
  present,  \* the places that exist
  call,     \* the process under way, or the last one
  touched,  \* the last place it reached, and how
  outcome   \* what its caller made of it

confinementVars == <<host, present, call, touched, outcome>>

\* Not returned yet; an exit code; a review; no exit code; ActuatorError; and
\* SandboxError, for a command that did not run or a path that is not there.
Outcomes == {"none", "exit code", "answer", "timed out", "actuator error", "sandbox error",
             "missing path"}

NoCall == [caller |-> <<"source gate", "none">>, pc |-> "idle", applied |-> FALSE, exit |-> 0,
           stderr |-> "its own", messages |-> {}, answer |-> "an object", found |-> {}]

Untouched == [access |-> "none", place |-> NoPlace]

-----------------------------------------------------------------------------
(* The profiles of a run.                                                    *)

\* A place under one of those given.
Under(place, roots) == Within[place] \cap roots # {}

\* protected_paths: the metadata of the tree and the environment it runs through.
Protected(git, provider) == {git} \cup ({provider} \ {NoPlace})

\* confinement: the actuator's, the two gates', and, in Confinement.reviewer, what
\* the record says of the reviewer's.
Actuator(l) ==
  [denied    |-> {l.runs, l.sensors, l.state_git, l.git_dir},
   read_only |-> {l.repo} \cup Protected(l.worktree_git, l.candidate_provider)]

SourceGates(l) ==
  [denied |-> {}, read_only |-> {l.run_dir} \cup Protected(l.git_dir, l.source_provider)]

CandidateGates(l) ==
  [denied |-> {}, read_only |-> {l.run_dir} \cup Protected(l.worktree_git, l.candidate_provider)]

RecordedReviewer(l) ==
  [denied    |-> Actuator(l).denied,
   read_only |-> {p \in Actuator(l).read_only : l.worktree \notin Within[p]} \cup {l.worktree}]

-----------------------------------------------------------------------------
(* Mutated forms, used only to show that a property notices them.           *)

\* bubblewrap's rules in the reverse order: a read-only tree over its denials.
DenialsFirst(rules, found, place) ==
  IF Under(place, rules.read_only) THEN "read"
  ELSE IF Under(place, rules.denied \cap found) THEN "none" ELSE "write"

\* The reviewer started under the profile the adapter was handed.
ReviewerAsHanded(l) == Actuator(l)

\* The first message taken for the one that says the command ran.
AnyMessage(c) == c.messages = {}

-----------------------------------------------------------------------------
\* What run_reviewer of either adapter adds to the actuator's profile it is handed.
Reviewer(l) ==
  [denied |-> Actuator(l).denied, read_only |-> Actuator(l).read_only \cup {l.worktree}]

Profile(caller, l) ==
  CASE caller[1] = "source gate"    -> SourceGates(l)
    [] caller[1] = "candidate gate" -> CandidateGates(l)
    [] caller[1] = "implementer"    -> Actuator(l)
    [] caller[1] = "reviewer"       -> Reviewer(l)

-----------------------------------------------------------------------------
(* The two mechanisms.                                                       *)

\* seatbelt.profile: a list of denials over a default that allows, by path,
\* whether or not the path exists.
SeatbeltReach(rules, place) ==
  IF Under(place, rules.denied) THEN "none"
  ELSE IF Under(place, rules.read_only) THEN "read" ELSE "write"

\* bubblewrap._rules: mounts in order, the later winning; what was not there when
\* the process started is not mounted over.
BubblewrapReach(rules, found, place) ==
  IF Under(place, rules.denied \cap found) THEN "none"
  ELSE IF Under(place, rules.read_only) THEN "read" ELSE "write"

Reach(rules, found, place) ==
  IF host.mechanism = "macos-sandbox-exec" THEN SeatbeltReach(rules, place)
                                           ELSE BubblewrapReach(rules, found, place)

\* bubblewrap refuses to mount a read-only path that is not there.
Missing(rules) == host.mechanism = "linux-bubblewrap" /\ ~(rules.read_only \subseteq present)

SeatbeltFault(c) == c.exit \in DidNotRun /\ c.stderr = "the mechanism's"

BubblewrapFault(c) == "exit-code" \notin c.messages

Fault(c) == IF host.mechanism = "macos-sandbox-exec" THEN SeatbeltFault(c) ELSE BubblewrapFault(c)

-----------------------------------------------------------------------------

ConfinementInit ==
  /\ host \in [mechanism : Mechanisms, layout : Layouts]
  /\ LET l == host.layout IN
       \E absent \in SUBSET Optional :
         \* the candidate is not made yet; tools kept outside the trees are
         \* installed before anything is measured
         /\ present = {p \in Places : /\ Within[p] \cap absent = {}
                                      /\ l.worktree \notin Within[p]}
         /\ {l.repo, l.git_dir, l.runs, l.run_dir} \cap absent = {}
         /\ l.shared => l.source_provider \notin absent
  /\ call = NoCall /\ touched = Untouched /\ outcome = "none"

Made == host.layout.worktree \in present

\* An error of either kind ends the run: a gate's aborts it, a session's rejects it.
Between ==
  /\ call.pc \in {"idle", "returned"}
  /\ outcome \notin {"actuator error", "sandbox error", "missing path"}

\* The checkout and, when the provider keeps its tools in the tree, its install.
MakeCandidate ==
  /\ Between /\ ~Made
  /\ present' = present \cup {p \in Places : host.layout.worktree \in Within[p]}
  /\ call' = NoCall /\ touched' = Untouched /\ outcome' = "none"
  /\ UNCHANGED host

\* A baseline gate that measures through a provider of the tree is refused by the
\* environment phase unless the source has it installed; here the gates of the
\* baseline name no task.  confined, and what applied builds before it yields.
Start(caller) ==
  /\ Between
  /\ (caller[1] = "source gate") <=> ~Made
  /\ touched' = Untouched
  /\ UNCHANGED <<host, present>>
  /\ \/ /\ Missing(Profile(caller, host.layout))
        /\ call' = [NoCall EXCEPT !.caller = caller, !.pc = "returned", !.found = present]
        /\ outcome' = "missing path"
     \/ /\ ~Missing(Profile(caller, host.layout))
        /\ call' = [NoCall EXCEPT !.caller = caller, !.pc = "started", !.found = present]
        /\ outcome' = "none"

\* The mechanism takes hold and the command runs.
Apply ==
  /\ call.pc = "started"
  /\ call' = [call EXCEPT !.pc = "running", !.applied = TRUE, !.messages = {"child-pid"}]
  /\ UNCHANGED <<host, present, touched, outcome>>

\* The mechanism gives up: it has its own exit codes, its own report, and
\* bubblewrap has already written the child's pid.
FailToApply ==
  /\ call.pc = "started"
  /\ \E exit \in ExitCodes :
       /\ IF host.mechanism = "macos-sandbox-exec" THEN exit \in DidNotRun ELSE exit = 1
       /\ call' = [call EXCEPT !.pc = "completed", !.exit = exit, !.stderr = "the mechanism's",
                               !.messages = IF host.mechanism = "macos-sandbox-exec" THEN {}
                                            ELSE {"child-pid"}]
  /\ UNCHANGED <<host, present, touched, outcome>>

\* The command reaches a place as far as it is let; writing makes it exist.  A
\* gate that made the checkout's directory would only make its creation fail.
Touch(place) ==
  /\ call.pc = "running"
  /\ Under(place, {host.layout.worktree}) => Made
  /\ LET reach == Reach(Profile(call.caller, host.layout), call.found, place) IN
       \/ /\ reach # "none" /\ place \in present
          /\ touched' = [access |-> "read", place |-> place]
          /\ UNCHANGED present
       \/ /\ reach = "write"
          /\ touched' = [access |-> "write", place |-> place]
          /\ present' = present \cup Within[place]
  /\ UNCHANGED <<host, call, outcome>>

\* The command ends on an exit code of its own, a session with its answer, and
\* what it wrote first on stderr may read like sandbox-exec's report.
Complete(exit, answer) ==
  /\ call.pc = "running"
  /\ call.caller[2] = "none" => answer = "an object"
  /\ \E stderr \in {"its own", "the mechanism's"} :
       /\ exit \notin DidNotRun => stderr = "its own"
       /\ call' = [call EXCEPT !.pc = "completed", !.exit = exit, !.answer = answer,
                               !.stderr = stderr, !.messages = @ \cup {"exit-code"}]
  /\ touched' = Untouched
  /\ UNCHANGED <<host, present, outcome>>

\* What each adapter reads in the session it started, once it ran confined:
\* run_implementer and run_reviewer of claude_code, then of codex.
ClaudeImplementer(c) ==
  IF c.exit = 0 /\ c.answer = "an error" THEN "actuator error" ELSE "exit code"

ClaudeReviewer(c) ==
  IF c.exit = 0 /\ c.answer = "an object" THEN "answer" ELSE "actuator error"

CodexImplementer(c) == "exit code"

CodexReviewer(c) ==
  IF c.exit = 0 /\ c.answer # "unreadable" THEN "answer" ELSE "actuator error"

Session(c) ==
  CASE c.caller = <<"implementer", "claude">> -> ClaudeImplementer(c)
    [] c.caller = <<"reviewer", "claude">>    -> ClaudeReviewer(c)
    [] c.caller = <<"implementer", "codex">>  -> CodexImplementer(c)
    [] c.caller = <<"reviewer", "codex">>     -> CodexReviewer(c)

\* confirm, and what the caller makes of a process that completed.
Return ==
  /\ call.pc = "completed"
  /\ call' = [call EXCEPT !.pc = "returned"]
  /\ outcome' = IF Fault(call) THEN "sandbox error"
                ELSE IF call.caller[2] = "none" THEN "exit code" ELSE Session(call)
  /\ UNCHANGED <<host, present, touched>>

\* The time is up: nothing is confirmed, a gate has no exit code and a session fails.
TimeOut ==
  /\ call.pc \in {"started", "running"}
  /\ call' = [call EXCEPT !.pc = "returned"]
  /\ touched' = Untouched
  /\ outcome' = IF call.caller[2] = "none" THEN "timed out" ELSE "actuator error"
  /\ UNCHANGED <<host, present>>

ConfinementNext ==
  \/ MakeCandidate
  \/ \E caller \in Callers : Start(caller)
  \/ Apply
  \/ FailToApply
  \/ \E place \in Places : Touch(place)
  \/ \E exit \in ExitCodes, answer \in Answers : Complete(exit, answer)
  \/ Return
  \/ TimeOut

ConfinementSpec == ConfinementInit /\ [][ConfinementNext]_confinementVars

-----------------------------------------------------------------------------

Call == [caller : Callers, pc : {"idle", "started", "running", "completed", "returned"},
         applied : BOOLEAN, exit : ExitCodes, stderr : {"its own", "the mechanism's"},
         messages : SUBSET {"child-pid", "exit-code"}, answer : Answers,
         found : SUBSET Places]

ConfinementTypeOK ==
  /\ host \in [mechanism : Mechanisms, layout : Layouts]
  /\ present \subseteq Places
  /\ call \in Call
  /\ touched \in [access : {"none", "read", "write"}, place : Places \cup {NoPlace}]
  /\ outcome \in Outcomes

\* What nothing of the run may look at, of what was there when it started; what no
\* session may write; what a gate may not write in the tree it measures.
Secret(l) == {l.runs, l.sensors, l.state_git, l.git_dir}

Sealed(caller, l) ==
  CASE caller[1] = "source gate"    -> {l.run_dir, l.git_dir, l.source_provider}
    [] caller[1] = "candidate gate" -> {l.run_dir, l.worktree_git, l.candidate_provider}
    [] caller[1] = "implementer"    -> {l.repo, l.worktree_git, l.candidate_provider}
    [] caller[1] = "reviewer"       -> {l.repo, l.worktree}

\* Whichever mechanism holds it and wherever the run keeps its things: a session
\* sees nothing of the records, the sensors and the source's history that was
\* there when it started; a session writes neither the source, nor the record,
\* nor the metadata and the environment of the candidate, and a reviewer nothing
\* of the candidate at all; a gate writes neither the record nor the metadata and
\* the environment of the tree it measures (isolation.py:1-7, 21-43, 97-111).
KeepsToItsProfile ==
  touched # Untouched =>
    LET l == host.layout IN
    /\ touched.access = "write" => ~Under(touched.place, Sealed(call.caller, l))
    /\ call.caller[2] # "none" => ~Under(touched.place, Secret(l) \cap call.found)

\* What the record says a reviewer was confined to is what it was confined to:
\* review.py writes a profile of its own before the call, the adapter builds the
\* one it applies, and neither reads the other's (review.py:152-170).
RecordedIsApplied ==
  Made => \A place \in Places :
    Reach(RecordedReviewer(host.layout), present, place)
      = Reach(Profile(<<"reviewer", "claude">>, host.layout), present, place)

\* An exit code or an answer is of a command that ran under its profile, and the
\* only command that ran and is refused is one that imitates sandbox-exec's own
\* report.  The mechanism's failure and the command's may end on the same number
\* (confinement.py:11-16).
NoVerdictUnlessRan ==
  call.pc = "returned" =>
    /\ outcome \in {"exit code", "answer"} => call.applied
    /\ (outcome = "sandbox error" /\ call.applied) =>
         host.mechanism = "macos-sandbox-exec" /\ call.exit \in DidNotRun

\* A gate of the baseline that names no task runs whether or not the source has the
\* provider's environment installed: the source environment "must already be there
\* for a baseline task gate" (docs/ARCHITECTURE.md:152, phases/environment.py:83-86).
OnlyTaskGatesNeedTheEnvironment ==
  call.caller[1] = "source gate" => outcome # "missing path"
=============================================================================
