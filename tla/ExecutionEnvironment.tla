------------------------ MODULE ExecutionEnvironment ------------------------
(***************************************************************************)
(* The toolchain a run measures through: controller/environment.py,          *)
(* controller/phases/environment.py and the providers under workspace/.      *)
(* ControlLoop keeps one flag of it (Prepared); here are the files, the       *)
(* tools, and what is read when.                                             *)
(*                                                                           *)
(* The content of a manifest or of a lockfile is the version of the tools it *)
(* names; they agree when they name the same.  pixi installs in the tree it   *)
(* measures, mise in one directory of the controller's that outlives runs.   *)
(***************************************************************************)
EXTENDS Naturals, FiniteSets

CONSTANTS
  Versions,       \* contents of a manifest or of a lockfile
  Gone,           \* a file that is not there
  Unset,          \* what nothing has read yet
  Providers,      \* those a constitution declares, of "pixi" and "mise"
  MaxIterations,  \* the budget of the run
  Hazards         \* who writes provider files: "operator", "agent", "gate"

ASSUME ProvidersAssumption ==
  /\ Providers \subseteq {"pixi", "mise"} /\ MaxIterations \in Nat
  /\ Gone \notin Versions /\ Unset \notin Versions /\ Unset \notin BOOLEAN

VARIABLES
  provider,    \* the one declared
  commit,      \* the base commit: its manifest and lockfile, never a config
  pc,          \* where the controller is
  ending,      \* how the run ended
  source,      \* the provider files of the source repository, as they are now
  candidate,   \* those of the candidate
  tools,       \* the versions installed in each tree and in the shared directory
  record,      \* the environment block: [frozen, inventory, digests, unchanged]
  passed,      \* whether every gate of the running phase passed
  iterations,  \* how many began
  measured,    \* what the gates that passed in the candidate ran, and over what
  disturbed    \* whether a gate wrote provider files in the candidate

files == <<source, candidate, tools>>
measures == <<passed, iterations, measured, disturbed>>
vars == <<provider, commit, pc, ending, files, record, measures>>

Contents == Versions \cup {Gone}
Files == [manifest : Contents, lock : Contents, config : BOOLEAN]

\* The block of the record, before anything established a field of it.
Unread == [frozen |-> Unset, inventory |-> Unset, digests |-> Unset, unchanged |-> Unset]

Shared == provider = "mise"

\* create_worktree: the files the base commit holds, and no configuration.
Checkout == [manifest |-> commit.manifest, lock |-> commit.lock, config |-> FALSE]

Init ==
  /\ provider \in Providers
  /\ commit \in [manifest : Contents, lock : Contents]
  /\ pc = "clean" /\ ending = "none"
  /\ \E config \in BOOLEAN :
       source = [manifest |-> commit.manifest, lock |-> commit.lock, config |-> config]
  /\ candidate = Unset
  /\ tools \in [source : {{}} \cup {{v} : v \in Versions}, candidate : {{}}, shared : SUBSET Versions]
  /\ record = Unread
  /\ passed = Unset /\ iterations = 0 /\ measured = {} /\ disturbed = FALSE

-----------------------------------------------------------------------------
(* Mutated forms, used only to show that a property notices them.           *)

\* The configuration that overrides a manifest left out of the digests.
DigestsOfTwoFiles(tree) == [manifest |-> tree.manifest, lock |-> tree.lock, config |-> FALSE]

\* The digests of a shared installation kept, though they are of the source.
PrepareNothing ==
  /\ pc = "cloned" /\ Shared
  /\ pc' = "acting"
  /\ UNCHANGED <<provider, commit, ending, files, record, measures>>

-----------------------------------------------------------------------------
(* The providers.                                                            *)

\* What resolves without being resolved anew: lock_disagreements, `pixi list
\* --locked`, `pixi install --locked`, and mise under MISE_LOCKED.
Agrees(tree) == tree.manifest = tree.lock /\ tree.lock # Gone

\* The versions a task may run on in a tree.  pixi runs what is installed there,
\* as it is; mise runs what the lockfile of the tree pins, if it is installed.
PixiRuns(tree, where) == IF tree.manifest = Gone THEN {} ELSE tools[where]
MiseRuns(tree) == IF Agrees(tree) THEN {tree.lock} \cap tools.shared ELSE {}

Runs(tree, where) == IF Shared THEN MiseRuns(tree) ELSE PixiRuns(tree, where)

\* mise is told to ignore the file that would override its manifest.
Overridden(tree) == ~Shared /\ tree.config

\* candidate_digests.
Digests(tree) == tree

-----------------------------------------------------------------------------
(* Before the candidate.                                                     *)

Go(location) == pc' = location /\ UNCHANGED ending
End(how) == pc' = "ended" /\ ending' = how

\* The declaration is read in the base commit, whatever the tree holds now.
FreezeDeclaration ==
  /\ pc = "clean"
  /\ IF Gone \in {commit.manifest, commit.lock}
     THEN End("unresolved") /\ UNCHANGED record
     ELSE Go("frozen") /\ record' = [record EXCEPT !.frozen = commit]
  /\ UNCHANGED <<provider, commit, files, measures>>

\* mise is asked nothing before the two files of the source were compared.  A
\* file that is gone raises what no handler takes for a refusal.
CompareLock ==
  /\ pc = "frozen" /\ Shared
  /\ IF Gone \in {source.manifest, source.lock} THEN End("raised")
     ELSE IF ~Agrees(source) THEN End("unresolved")
     ELSE Go("compared")
  /\ UNCHANGED <<provider, commit, files, record, measures>>

\* freeze: the inventory, then the description and its tasks; any command may
\* fail, or describe no such environment or task.
Resolved == Agrees(source) /\ record' = [record EXCEPT !.inventory = source.lock]
Unresolved == End("unresolved") /\ UNCHANGED record

\* pixi must already be installed in the source, where the controller installs
\* nothing.
PixiFreeze ==
  /\ pc = "frozen" /\ ~Shared
  /\ \/ Unresolved
     \/ Resolved /\ IF tools.source = {} THEN End("not installed") ELSE Go("baseline")
  /\ UNCHANGED <<provider, commit, files, measures>>

MiseFreeze ==
  /\ pc = "compared"
  /\ Unresolved \/ (Resolved /\ Go("installing"))
  /\ UNCHANGED <<provider, commit, files, measures>>

\* _install, of what a tree pins in the directory the provider uses.  Cut short
\* or refused it leaves tools or none; the digests are taken after it.
Install(tree, where, next) ==
  /\ \/ UNCHANGED tools
     \/ Agrees(tree) /\ tools' = [tools EXCEPT ![where] = @ \cup {tree.lock}]
  /\ \/ End("not installed") /\ UNCHANGED record
     \/ /\ record' = [record EXCEPT !.digests = Digests(tree)]
        /\ \/ End("not installed")
           \/ Agrees(tree) /\ tools'[where] # {} /\ Go(next)
  /\ UNCHANGED <<provider, commit, source, candidate, measures>>

MiseInstall == pc = "installing" /\ Install(source, "shared", "baseline")
PixiInstall == pc = "cloned" /\ ~Shared /\ Install(candidate, "candidate", "acting")

MeasureBaseline ==
  /\ pc = "baseline"
  /\ \/ Runs(source, "source") # {} /\ Go("measured")
     \/ End("baseline failed")
  /\ UNCHANGED <<provider, commit, files, record, measures>>

\* The end of measure_baseline, then create_candidate: a configuration that Git
\* ignores does not make the source unclean, and is not cloned.
Clone ==
  /\ pc = "measured"
  /\ IF source.manifest = commit.manifest /\ source.lock = commit.lock
     THEN Go("cloned") /\ candidate' = Checkout
     ELSE End("baseline failed") /\ UNCHANGED candidate
  /\ UNCHANGED <<provider, commit, source, tools, record, measures>>

\* prepare_candidate_environment, where it does not install.
PrepareShared ==
  /\ pc = "cloned" /\ Shared
  /\ record' = [record EXCEPT !.digests = Digests(candidate)]
  /\ Go("acting")
  /\ UNCHANGED <<provider, commit, files, measures>>

-----------------------------------------------------------------------------
(* Iterations.                                                               *)

Writes(who) == IF who \in Hazards THEN Files ELSE {candidate}

\* An agent leaves any provider files; where the budget is spent, none acts.
Act ==
  /\ pc = "acting"
  /\ IF iterations = MaxIterations
     THEN End("rejected") /\ UNCHANGED <<candidate, iterations>>
     ELSE /\ Go("quick")
          /\ candidate' \in Writes("agent")
          /\ iterations' = iterations + 1
  /\ UNCHANGED <<provider, commit, source, tools, record, passed, measured, disturbed>>

\* A task gate runs the task its manifest declares; it may fail on its own
\* account, and fails where there is nothing to run it on.
RunGate ==
  /\ pc \in {"quick", "full"}
  /\ \/ \E version \in Runs(candidate, "candidate") :
          /\ measured' = measured \cup {[manifest |-> candidate.manifest, version |-> version,
                                         overridden |-> Overridden(candidate)]}
          /\ passed' = (passed # FALSE)
     \/ passed' = FALSE /\ UNCHANGED measured
  /\ candidate' \in Writes("gate")
  /\ disturbed' = (disturbed \/ candidate' # candidate)
  /\ UNCHANGED <<provider, commit, pc, ending, source, tools, record, iterations>>

\* The end of a phase: changed_environment before the gates are judged.  What it
\* found is on the record before it ends the run.
JudgePhase ==
  /\ pc \in {"quick", "full"} /\ passed # Unset
  /\ LET unchanged == Digests(candidate) = record.digests
     IN  /\ record' = [record EXCEPT !.unchanged = unchanged]
         /\ \/ ~unchanged /\ End("changed")
            \/ unchanged /\ passed /\ pc = "quick" /\ Go("full")
            \/ unchanged /\ passed /\ pc = "full" /\ End("accepted")
            \/ unchanged /\ Go("acting")
  /\ passed' = Unset
  /\ UNCHANGED <<provider, commit, files, iterations, measured, disturbed>>

\* An agent that could not run, or a document nobody can trust, ends the run
\* before the files are compared.
EndUncompared ==
  /\ pc \in {"quick", "full"}
  /\ End("rejected")
  /\ UNCHANGED <<provider, commit, files, record, measures>>

\* The operator edits, restores and installs in the source until it is cloned.
OperatorActs ==
  /\ "operator" \in Hazards /\ candidate = Unset /\ pc # "ended"
  /\ \/ source' \in Files /\ UNCHANGED tools
     \/ /\ \E v \in Versions : tools' = [tools EXCEPT !.source = {v}]
        /\ UNCHANGED source
     \/ tools' = [tools EXCEPT !.source = {}] /\ UNCHANGED source
  /\ UNCHANGED <<provider, commit, pc, ending, candidate, record, measures>>

Ended == pc = "ended" /\ UNCHANGED vars

Next ==
  \/ FreezeDeclaration \/ CompareLock \/ PixiFreeze \/ MiseFreeze \/ MiseInstall
  \/ MeasureBaseline \/ Clone \/ PixiInstall \/ PrepareShared \/ Act \/ RunGate \/ JudgePhase \/ EndUncompared
  \/ OperatorActs \/ Ended

Spec == Init /\ [][Next]_vars

-----------------------------------------------------------------------------
(* What a run may say of the toolchain it measured through.                  *)

\* A candidate is accepted with the provider files of the base commit, and every
\* gate that passed on it ran the task they declare over the tools they pin,
\* whatever the operator did in the source, whatever the shared directory held
\* and whatever the agents wrote; unless a gate wrote them and put them back.
\* Its record says that the environment held.
MeasuredAsFrozen ==
  ending = "accepted" =>
    /\ candidate = Checkout /\ record.unchanged = TRUE
    /\ disturbed \/ measured = {[manifest |-> commit.manifest, version |-> commit.lock,
                                 overridden |-> FALSE]}

\* A run is ended for a changed environment only where the candidate no longer
\* holds what was cloned, never for what the source holds or held.
OnlyChangesEndIt == record.unchanged = FALSE => ending = "changed" /\ candidate # Checkout
=============================================================================
