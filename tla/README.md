# Codeservo, specified

Codeservo asks a coding agent for a change and decides, by controls the agent
cannot reach, whether to accept it. One command, `codeservo run`, freezes its
inputs, measures a baseline on the source repository, clones it, lets the agent
work in the clone, measures the tree the agent left, asks an independent
reviewer, feeds what objected back, and ends on one of three decisions:
`ACCEPTED`, `REJECTED`, `ESCALATED`. What happened is a directory: a record
(`evidence.json`), a journal chained by digests (`events.jsonl`), a patch.
`codeservo land` commits an accepted patch; `codeservo verify-run` says whether
a directory still tells one story. This project specifies that system in TLA+,
checks it with TLC and proves part of it with TLAPS.

Paths below are relative to `src/src/codeservo/` unless they start with `src/`.

## 1. Inventory

| Component | Code | State it keeps | Operations | Modelled by |
|---|---|---|---|---|
| Control loop | `controller/run.py`, `controller/phases/`, `controller/errors.py` | where the run is, the decision in flight, the current iteration, the outcome of the last | freeze, baseline, clone, actuate, scope, quick gates, full gates, review, close, abort | `ControlLoop` |
| Execution environment of a run | `controller/environment.py`, `controller/phases/environment.py` | the frozen lock and what it installed | declare, resolve, install, compare | `ExecutionEnvironment`, one flag of it in `ControlLoop` |
| Run record and journal | `controller/record.py`, `controller/document.py`, `evidence/journal.py`, `evidence/digests.py` | the document, the open attempt, the tail of the chain, two files | record, persist, keep, close, abort, resume | `RunRecord` |
| Verification | `evidence/verify.py` | none | `verify_run` | `RunDirectory`, abstracted by `Verification` |
| Acceptance rules | `controller/decision.py`, `domain/task.py` | none | read a task; faults, reasons, escalations, feedback | `Declarations`, `ReviewDecision` |
| Gate results, ratchets | `controller/gate_results.py`, `controller/ratchet.py` | none | faults, reasons, feedback, broken ratchets | `GateResults` |
| Gate runner | `sensors/gates.py`, `sensors/observations.py` | files of the gate under measurement | locate, list, run, classify, project, remove | `GateRunner`, its answers in `GateResults` |
| Scope sensor | `sensors/scope.py` | none | one verdict over a tree | `ControlLoop` (partly) |
| Frozen sensors | `controller/freeze.py` | copies and their digests | freeze, tampered | `ControlLoop` (partly) |
| Snapshots | `controller/snapshots.py` | digests of a tree at a moment | snapshot, mutated | `ControlLoop` |
| Landing | `controller/landing.py` | what it read so far | `land` | `Landing` |
| Findings register | `evidence/register.py` | one shared file | append rows | `Landing` (partly) |
| Git | `workspace/git.py` | the repositories | clone, patch, apply, commit | `ControlLoop`, `Landing` (partly) |
| Preparation | `controller/context.py`, `provenance.py`, `isolation.py`, `inference.py` | the run context | prepare, build the profiles | `RunRecord`, `Declarations`, `Confinement`, `Sessions` (partly) |
| Process runner | `runtime/process.py` | none | run under a profile and a timeout | `Confinement`, `ControlLoop` |
| Actuators | `actuators/` | the stream of a session | act, review, read what a session reported | `ControlLoop`, `Confinement`, `Sessions` (partly) |
| Environment providers | `workspace/pixi.py`, `mise.py`, `provider.py` | what they installed | resolve, install, run a task | `ExecutionEnvironment` (partly) |
| Report projections | `sensors/junit.py`, `sarif.py`, `lcov.py`, `reports.py` | none | refuse, merge, count, name | `Reports`, `GateRunner` (partly) |
| Constitution reader | `policies/constitution.py`, `domain/constitution.py` | none | load, refuse | `Declarations`, `Constitutions` (partly) |
| Confinement | `runtime/sandbox.py`, `confinement.py`, `seatbelt.py`, `bubblewrap.py` | what a mechanism reported | apply a profile, confirm a command ran | `Confinement` |
| Pricing and consumption | `controller/pricing.py`, `actuators/catalogue.py` | none | rate a session | `Sessions` |
| Command line, resources | `cli/`, `resources/` | none | | not modelled |

How they interact. One Python process drives everything, synchronously: there
are no threads, callbacks or queues. What runs beside it are *other processes*:
the gates and agents it starts and waits for under a timeout, whatever these
leave behind when it stops waiting, the operator in the source repository, and
other invocations of `codeservo land`. They share the file system: the source
repository, the candidate workspace, the frozen sensors, the run directory, the
register.

What is hard in it, and what makes each part correct:

- **An exception anywhere.** `run()` has two exception classes that are
  decisions and one handler for all the others; `_iterate` has a `finally` that
  keeps the iteration; `close()` is outside the `try`. The record must never
  state what the journal does not hold (`RunRecord`), and must tell the same
  measurements as the journal (`ControlLoop`).
- **Measurements that go stale.** A gate can change the tree, a frozen sensor
  or a provider file that the next gate measures through. Only comparisons of
  snapshots around each phase show it. An accepted run must rest on controls
  that all saw one tree, and that tree must be the patch.
- **Documents that are not of this measurement.** A gate may answer by reports
  its tool leaves in the tree, where earlier measurements left theirs and a
  process that outlived one may still write. A green result must rest on what
  this measurement wrote (`GateRunner`).
- **A toolchain in two places.** The declaration is of a commit, the inventory of
  a working tree, the tools of a directory, the measurement of the candidate. An
  accepted run must have measured on what the commit pins
  (`ExecutionEnvironment`).
- **A directory that anyone may edit.** Record, journal and artefacts check one
  another; each check is code of its own and one that is missing is an edit that
  verifies (`RunDirectory`).
- **Two mechanisms, one promise.** The same profile is a list of path rules under
  `sandbox-exec` and a sequence of mounts under `bubblewrap`. Either must hold every
  process to it, and a mechanism that could not start a command must not be taken
  for a verdict of that command (`Confinement`).
- **Declarations, reports and streams written by others.** Files of people, tools
  and agents that may be torn, contradictory or silent. A reader that passes over
  what it does not understand makes a control that says nothing, a count of what
  was not measured, a cost of part of a session (`Declarations`, `Reports`,
  `Sessions`).
- **A budget and a feedback.** Each iteration is told what the one before was
  refused for, and starts from the tree it left. The way the budget ends
  decides who settles the run: a rejection by a control, a person when the
  reviewer alone objected.
- **An answer written by a model.** The reviewer may repeat, forget or invent
  criteria. Four functions read its answer, and they must agree.
- **A shared repository.** `land` reads, refuses, applies, commits, names the
  commit, appends to the journal, appends to the register: seven steps, any of
  which may be the last.

`PROJECT.json` lists each hazard at its line, with the properties aimed at it.

## 2. Modules

```
 RunLifecycle           what a run promises; RunRecord and ControlLoop refine it
 Verification           verify_run, coarse; RunRecord and Landing use it, RunDirectory refines it
 Constitutions          what the phases assume of a constitution; Declarations establishes it
 ReviewDecision         the acceptance rules over a review
 GateResults            what a phase reads in its results; GateRunner produces them
 RunRecord              record and journal under any accident
 RunDirectory           verify_run in full, over an edited directory
 GateRunner             one tree, one gate measured after the other
 ExecutionEnvironment   the toolchain, from the commit to the measurement
 ControlLoop            a whole run: composes ReviewDecision and GateResults
 Landing                codeservo land
 Declarations           the readers of a constitution and a task
 Confinement            profiles, mechanisms, and whether a command ran
 Reports                from the reports of a tool to the document of a gate
 Sessions               from the stream of an agent to what the record tells of it
 Answers                every answer of a reviewer, over ReviewDecision
 CommonLemmas           induction, sums, and what the acceptance rules say of one answer
 <module>Proofs         for RunRecord, RunDirectory, ControlLoop, GateRunner,
                        ExecutionEnvironment and Landing
 BoundaryProofs         for Declarations, Confinement, Reports, Sessions and Answers
 MC<module>             the instances TLC checks; MCBoundary those five together
```

**`RunLifecycle`** is the abstract specification. A run is open, decided or
over; the journal closes on a decision, then the record states that decision,
or the controller stops and states nothing. Both `RunRecord` and `ControlLoop`
are shown to implement it, with the same mapping: `closed` is the decision the
journal's `run.finished` carries, `stated` what the record says.

**`Verification`** is `verify_run` as a function of the record and the journal:
the chain, the events block (as a count), the decision, the landing. An event is
`[sequence, type, decision]`. The link to the previous event and the digest are
not separate fields: `Journal` draws the sequence and the link from one tail, so
for journals written by this program the three hold or fail together.

**`RunRecord`** is the run directory under any accident. The location `pc` is
the code between two writes. `journal` is the file and `sequence` the tail in
memory; they differ exactly when `Journal.record` was interrupted between line
151 (append and sync) and 152. `Error` is an exception before the current
write, `ErrorInAppend` one after the line reached the file, `ErrorInWrite` one
between the truncation and the write of `write_json`, `Kill` the end of the
process. What the controller measures is left out: it appends, persists, opens
and keeps iterations in any order the code allows.

**`GateResults`** is what a phase reads in its results. A result is
`[gate, ending, document, metric]`: how the command ended, what became of the
document it was to write, the metric a ratchet holds. `Measurements(g)` is the
set of results the runner can produce for a gate, `SensorFaults` and `Failures`
the two judgements, `BrokenRatchets` the comparison with the baseline.

**`GateRunner`** is where these results come from, one step per thing `run_gates`
does for a gate: make its observation location or list the reports, run the
command, list again, classify the document or project the reports, remove the
location. Between two steps a process that outlived an earlier command may write,
truncate or remove a report. A report is its size and write time, which is all
`list_reports` reads, whether its reader takes it (`readable`: to its end, or for a
tracefile up to the end of any record), and (for the properties only) the measurement
it was written in.

**`RunDirectory`** is `verify_run` in full: the artefacts, the blocks of the
record that carry a digest, the chain, the events block, the decision and the
landing, over a directory left at any stage and edited at up to `MaxEdits` places
by someone who can recompute digests, and who may remove from the record what it
names, a digest, the run's identifier or a whole list (`Stripped`): each check skips
what is absent (`evidence/verify.py:210-212`, `225-227`, `269`, `325-326`). A digest is the value it is of, marked, so
that an edit may also put the right digest beside what it changed.
`VerificationAbstracts` states that `Verification` accepts whatever it accepts,
and says the same of every directory the controller left.

**`ExecutionEnvironment`** is the toolchain of a run under either provider. The
content of a manifest or lockfile is the version of the tools it names. `source`
and `candidate` are the provider files of the two trees, `tools` what is
installed: pixi in each tree, mise in one directory that outlives runs. `record`
is the environment block; `FreezeDeclaration` reads the commit, `PixiFreeze` and
`MiseFreeze` the working tree, `JudgePhase` is `changed_environment`. `disturbed`
remembers, for the properties, that a gate wrote provider files in the candidate.

**`ReviewDecision`** holds the four functions over a review:
`ReviewFaults` (the answer is not one), `ReviewReasons` (what objects),
`ReviewEscalations` (what it could not settle), `ReviewFeedback` (what the next
iteration is told). The code's `{item.id: item}` dictionary keeps the *last*
item of an identifier: `LastReport`.

**`ControlLoop`** composes the two above into one run. Each action is the code
between two things the controller does not control: one gate, one agent, one
installation, one read of a tree others may write. Every append and persist the
code makes in that stretch is part of the action. `tree` is the content of the
workspace as a patch states it, so `make_patch`, `snapshot` and the scope sensor
are reads of `tree`. `altered` is whether some frozen sensor is not now what was
frozen: gates and what they leave behind alter and restore sensors, and the code
compares digests as a quick or full phase ends. `overlooked` remembers, for the
properties, that a phase ended over an altered one. Actions carry the names of the functions they translate:
`FinishBaseline` is the end of `measure_baseline`, `FinishQuick` and
`JudgeQuick` are `_measure` and `_quick_verdict`, `FinishFull` and `JudgeFull`
are `measure_full`, `KeepIteration` the `finally` of `_iterate`, `CloseJournal`
and `WriteRecord` are `RunRecord.close`.

**`Landing`** is `codeservo land`, several invocations of it, one action per
step that reads or writes what others share. Commits are positions in the
history after the commit the runs measured, each a sequence of changes, because a
change can be made twice: where `Reapplies`, `git apply --index` may take a patch
over a tree that holds it already, at an offset, if the lines it expects stand a second
time. `Twins` says whether two invocations of one run may be under way at once, `Empty`
names the runs that changed nothing, and `crowded` remembers, for the properties, that
two invocations overlapped.

**`Declarations`** is a constitution written table by table and a task criterion by
criterion, each refusal of the readers a conjunct of `ReadableGate`,
`ReadableConstitution`, `ReadableCriterion` or `ReadableTask`. `Constitutions`
holds what the phases assume of what was accepted, `IsConstitution`: `GateResults`
assumes it of its constant, and `AcceptedLeavesNoControlMute` says the readers
establish it.

**`Confinement`** has the profiles of `controller/isolation.py` over the places of a
host (`Within` says which holds which), what each mechanism makes of a profile
(`SeatbeltReach`, `BubblewrapReach`), and the protocol of a call: `Start` builds the
command, `Apply` and `FailToApply` are the mechanism taking hold or not, `Touch` the
process at work, `Complete` its end, `Return` is `confirm` and what the caller makes
of it, `TimeOut` the other way a wait ends. Four operators say what each adapter
reads in a session that ran.

**`Reports`** is the reports of one measurement, written entry by entry by a tool
that may stop anywhere, and for each format what is refused, how the rest is merged
and counted, and the identifiers of its findings (`Unique`). A name is the sequence
it is spelled with, because a numbered name may be spelled by the tool itself. A source
file of a tracefile is what its records call it, and `PathOf` where that is in the
tree: `merged` keys by the one, findings are named by the other.

**`Sessions`** is the sessions of one role of one backend: the lines an agent writes,
the usage and the model read in them, and the cost. `None` is a field nothing was
reported for, and absorbs in every sum.

**`Answers`** is the reviewer assembling its answer, item by item, so that every answer
is a state, and what the four functions of `ReviewDecision` are to agree on.

`MCBoundary` is the sum of these five: they share no state, so it lets one of them
run and the others rest. `MC*` modules give the constants that a `.cfg` cannot write: small
constitutions, the reviewer's answers, the decisions.

## 3. Runs

| Run | Question | Instance | Distinct states |
|---|---|---|---|
| `record` | What does a directory say after any accident? | 4 decisions (two rejections apart by reasons only), 4 transitions, 3 iterations, all 4 accidents | 6,585 |
| `verify` | What does verification conclude of a directory edited afterwards? | 3 decisions, 5 stages, 1 artefact and the patch, 1 block, 2 edits | 39,117 |
| `gates` | Does a result rest on what its own measurement wrote? | 4 measurements by 3 gates in one tree (one gate twice), 1 report, 2 sizes, 2 times, processes that outlive | 1,095,556 |
| `environment` | Is what is accepted measured on the tools the commit pins? | 2 versions, both providers, 2 iterations; operator, agents and gates write provider files | 655,168 |
| `boundary` | Do readers, confinement, projections and adapters keep what the loop assumes of them, and do the four acceptance functions agree on every answer? | 2 gates and 2 criteria; 14 places, 6 layouts, both mechanisms; 2 reports of up to 6 entries in 3 formats, one source file by two spellings; 2 backends, 3 lines a session, 2 sessions told; 2 reviewed criteria, 1 gated, 1 undeclared, every answer of up to 4 items with any findings | 1,314,916 |
| `mechanisms` | *finding* | the same | violation |
| `loop` | Is the loop right over two iterations when gates write, the operator edits and commits, exceptions strike? | 3 gates, 3 trees (base, in scope, out of scope), 6 answers | 189,062 |
| `documents` | Do documents, ratchets and a prepared environment keep what they promise, and does a run still decide? | 2 gates with documents and opposite ratchets, 2 metric values, environment in the candidate | 621,480 |
| `hostile` | Does anything rest on a phase concluded over an altered sensor, when gates and what they leave behind alter and restore sensors? | 2 iterations, shared provider, tampering, writes, lingering processes | 2,284,467 |
| `landing` | Is what is said to be landed the measured patch, and do run directories and the register survive, whatever is killed and whichever overlap? | 3 invocations, those of different runs overlapping; 2 accepted runs, 1 rejected, 1 that changed nothing; patches may apply twice | 241,788 |
| `landing_race` | *finding* | 2 invocations at once, of different runs | violation |
| `landing_twice` | *finding* | 2 invocations at once, of any run | violation |

What the passing runs show:

- *The record follows the journal* (`RecordFollowsJournal`,
  `ImplementsLifecycle`): a status in `evidence.json` is one the chain closed on.
  *A directory verifies exactly when its run returned, and is then the decision*
  (`ValidIsTheDecision`), and the controller makes an `INVALID` one in a single way
  (`InvalidOnlyAfterHalfAppend`): an exception between the sync of a line and the
  move of the tail (`evidence/journal.py:151-153`), after which `run.aborted` repeats
  a sequence. `src/docs/features/evidence.md:91-93` says an aborted run verifies
  unfinished; in that window it does not. `HistoryIsKept` is the two histories that
  must not be rewritten, the journal's lines and the record's iterations.
- *What verification sees* (`OnePartCannotLie`, `UnseenEdits`): no edits of one
  file alone turn a run into another decision that verifies. A single edit of
  a decided run is reported, but for those the property lists: in the record, whatever
  is no longer named, named without a digest, or never verified; a landing cut off; and
  of a run not landed, a landing added, another base commit, a patch digest removed.
  `VerificationAbstracts` ties this to the verdict the other modules rest on.
- *Results are measurements* (`ResultsAreMeasurements`, `ReadsThisMeasurement`): what the runner produces is what `ControlLoop` assumes it
  may, a document that counts was written in this measurement and refused by no reader,
  and no gate that answers by reports passes without one.
- *The toolchain* (`MeasuredAsFrozen`, `OnlyChangesEndIt`): what is accepted is the
  candidate that was cloned, and it ran the tasks the commit declares on the tools it
  pins, unless a gate wrote provider files and they were put back before its phase
  ended, which no comparison shows; a run ends for a changed environment only where the
  candidate changed.
- *Acceptance is measured* (`AcceptedWasMeasured`, `LandsWhatWasMeasured`,
  `AcceptedKeepsTheRatchets`): the last iteration passed every gate of every phase, the
  snapshots around the phases show the tree the actuator left, the patch is that tree,
  no ratchet moved.
- *An altered sensor ends the run* (`NothingRestsOnAlteredSensors`): once a phase was
  concluded while a sensor was altered there is no other attempt, no acceptance and no
  escalation. This is all that recomputing digests at the end of a phase
  (`controller/freeze.py:72-90`) can give: a sensor altered and restored within a phase,
  or altered after the last one, is not seen.
- *Who settles what* (`TheReviewIsSettledByAPerson`): a run ends on a person
  exactly when the review alone stood in its way, the two directions of "the review
  is not the final authority".
- *The acceptance rules agree* (`FaultsAreNamed`, `SilentExactlyWhenSatisfied`,
  `ObjectionsAreFedBack`): silence and satisfaction are the same thing, every fault
  has its reason and every objection its feedback.
- *Iterations* (`FeedbackChain`, `NoRetryOnABrokenControl`): feedback and tree go
  from one to the next, and only a trusted measurement earns another attempt.
- *Record and journal tell one run* (`JournalTellsTheRecord`), including when an
  exception cut a phase in the middle.
- *Processes keep to their profiles* (`KeepsToItsProfile`, `RecordedIsApplied`,
  `NoVerdictUnlessRan`): under both mechanisms, wherever the run keeps its trees and
  whatever comes to exist meanwhile, no session sees the records or the source's
  history, no process writes what it is measured by, the record states the profile
  that was applied, and no exit code or answer is of a command that did not run.
- *What others wrote is read whole* (`AcceptedLeavesNoControlMute`,
  `AcceptedReportsAreReadWhole`, `CountsEachThingOnce`, `SessionIsToldAsReported`):
  no declaration that is accepted leaves a control mute; no report is accepted in part,
  where a tracefile that stops between two records is whole as far as anyone can tell;
  nothing of a file, as its records spell it, is counted twice, and no two findings
  share a name; and a session is told by what it said of itself, a cost by all of it.
- *It ends* (`Terminates`, `ReachesADecision`).

`LandsWhatWasMeasured` is checked where no process lingers. `close()` takes the patch
again from the workspace (`controller/record.py:136`) and nothing compares it with
the last snapshot, so a process that outlived a gate can put in the patch what
nothing measured. What is said to be landed is the measured patch as long as no two
invocations were under way at once (`LandedAloneAsMeasured`), where even a patch that git
would take twice is landed once: the check of HEAD refuses the second landing.
`LandingVerifies` and `RegisteredOnce` hold of invocations that overlap as long as no two
are of one run. `landing_race` and `landing_twice` are what happens beyond.

**Why these bounds are enough.** The loop's state between iterations is the tree
and the last outcome, so two iterations show every way one leads to another, and
every way the budget ends after feedback. Two quick gates are needed for one to
undo the other; one full gate that the baseline measures too exercises the
criteria a gate settles. Three trees are the base, a good candidate and one that
is out of scope or touches provider files. Two metric values are enough for a
ratchet to move. Four reviewer items over four identifiers hold a duplicate,
an omission and an invention at once. In `RunRecord`, a fourth transition is one
more than the opening's three, and three iterations let one be kept, one be in
progress and one follow. In `Landing` two accepted runs compete for one commit,
and the third invocation can land one of them a second time. In `hostile` a sensor
altered in the first iteration may be restored before the second. In `GateRunner` the
gate measured first is measured again last, over the reports of the first
measurement, with two other gates in between. In `RunDirectory` two edits are one
to change something and one to cover it. In `ExecutionEnvironment` two versions
let any two of commit, tree and tools disagree. In `Declarations` two gates may share
a name, two criteria may share an identifier, and every way one gate is refused is
among the tables. In `Confinement` the layouts are an ordinary checkout and a linked
worktree, each with no provider, one in the tree and one aside; what may be absent is
the environment, the sensors and the state's history. In `Reports` six entries hold
two whole records of a file, under one name or two, or one inside another; four hold two findings of one
name and one that spells the second's number. In `Sessions` three lines are two
turns and one that names a model, and a second session follows one that named it.
`MCBoundary` stops where what it reads is as long as it may
be, so its deadlock check is off; all other runs check deadlock, with an explicit
final stutter where a run or invocation is over.

**Fairness.** `ControlLoop` assumes weak fairness of the controller's own next
step: gates, agents and the reviewer run under `run_command`'s timeout, so every
wait comes back. Nothing is assumed of exceptions, of the operator, or of
processes left behind. `Terminates` holds with exceptions; `ReachesADecision` is
checked where the configuration has neither exceptions nor operator, since
either may legitimately end the run undecided. The other
modules check safety and assume no fairness; that an invocation of `land` comes back
is not claimed, since `git` runs without a timeout (`workspace/git.py:12-14`).

**Mutants.** Each property has, in `PROJECT.json`, a form of a definition changed
the way a slip in that code would change it, under which the run finds the
property violated. These forms are in the section "Mutated forms" of each module
and are used for nothing else.

## 4. What disagrees with the documentation

Three runs end in a violation on purpose; for each, `PROJECT.json` quotes the lines of
the repository that the code does not satisfy.

1. `mechanisms`. The profile of a baseline gate names the provider directory of the
   source read-only (`controller/isolation.py:43-46`). Where nothing is installed
   there, `bubblewrap` refuses to start any gate of the baseline
   (`runtime/bubblewrap.py:79-80`), shell commands included, and the run is aborted;
   `sandbox-exec` runs them. `src/docs/ARCHITECTURE.md:152` and
   `controller/phases/environment.py:83-86` ask for the environment of a *task* gate
   only.
2. `landing_race`. Two invocations both pass the checks of `land`, and `git commit`
   takes the index of both, where `src/docs/ARCHITECTURE.md:291-292` says that landing
   "refuses everything that would make the commit a change nothing measured".
3. `landing_twice`. Two invocations of one run both pass the check of a run already
   landed. What stops the second is then `git apply`, which takes a patch again, at an
   offset, where the lines it expects stand a second time; the run is committed and
   recorded as landed twice. `src/docs/ARCHITECTURE.md:291-293` lists "a run already
   landed" among what landing refuses.

## 5. Proofs

**`RunRecordProofs`** (about 1070 obligations) proves, for every set of decisions
and accidents and every bound, all the invariants of the run `record`, its two action
properties and the refinement of `RunLifecycle`. The only assumption used is
`DecisionsAssumption`: a decision has one of the three statuses.

The properties are not inductive: `RecordFollowsJournal` says nothing of where
the controller is, so a step from `"writing"` could state anything. `Inv` adds
what each location knows:

- `Control`: the document holds no decision before the close, and the decision
  in flight after it;
- `TailHolds`: outside of a failing run the tail in memory is the file's;
- `FinalIsLast`: no closing event before the close, and nothing after one;
- `DecisionRecorded`: at `"finishing"` and `"writing"`, the last lines are those
  of the decision in the document;
- `ChainFollowsTail`, `HalfAppend`: a chain breaks only by an append over a tail
  left behind, and such an append is `run.aborted`;
- `RecordFollowsMemory`: the record counts no more than the tail, and no
  iteration that is not in memory;
- `Returned`, `StatedAtTheEnd`: a record states a decision only at the end.

`Inductive` has one step per action, and the lemmas on appends (`Appending`,
`Chaining`, `Counting`, `Appended`) carry the reasoning about sequences. The
refinement (`RefinesLifecycle`) maps every step before the close to a stutter,
`FinishJournal` to `Decide` (or, interrupted, to the `Stop` that closes),
`WriteRecord` to `State`, and every other end to `Stop`; `Moves` computes the
mapping of each kind of step, from `Inv`.

**`RunDirectoryProofs`** proves the three invariants of the run `verify`, for every
set of decisions, any number of edits and parts of any content, from
`DecisionsAssumption`. `Left` is what an edited directory still is: a part that nobody
edited is what the controller left, for one of the stages it may stop at, and the
journal is a list of events, however it was cut, reordered or rewritten.
`OnePartNeverLies` follows part by part: the journal is held by the chain (`Linked`) and
by the count of the record, which is held by the decision, which the journal states.
Digests are the values they are of, so a digest decides its content (`DigestOfOne`).
`OnlyTheseEditsGoUnseen` goes edit by edit over a decided run, and finds for each the
check it fails or where the property names it. Most of what the record says may be
removed unseen, which is why the property says so and not that an edit is seen. `VerificationIsAbstract` is the step from the checks of `verify_run`, in their order, to
the verdict `Verification` computes, which `RunRecord` and `Landing` rest on.

**`BoundaryProofs`** proves what holds of everything that crosses the boundary of a run:

- `Declarations`: `AcceptedLeavesNoControlMute` (`NoControlIsMute`) for any list of tables
  and of lines. What the readers accept is what `Constitutions` assumes, from
  `DeclarationsAssumption`, which only types what is written.
- `Confinement`: its three properties, for every set of places and every layout of
  them, from `PlacesAssumption` (a place is under itself, and what it is under is closed)
  and type correctness alone. `RecordedProfileApplies` is about two sets of paths that
  differ: what the record leaves out lies in a worktree both name. `ProfilesHold` needs
  that what a process touched was reached under the profile of the call that is still
  the current one (`ReachIsHeld`), and that neither mechanism loses a denial that was
  there at the start; `VerdictsAreOfWhatRan` that the mark a mechanism leaves of a
  command that ran is left by nothing else.
- `Reports`: `AcceptedReportsAreReadWhole` (`NoReportIsAcceptedInPart`) for reports of
  any length and any entries. It does not say that a tool finished: a tracefile has no end of
  its own. The reader of a tracefile is a fold; `ReadUpto` states what
  it knows after each line (which records were ended, whether one is open and since
  which line), and an induction over the lines carries it to the last.
  `CountsEachThingOnce` (`EachThingIsCountedOnce`) takes the same road for every other
  fold a reader makes: what was read of a tracefile says of each file and thing what its
  lines said (`ReadSays`), a file's table holds what one of its records counts
  (`SummedHolds`), what is kept of a kind and of another adds up (`NumbersAdd`,
  `NumbersByClass`), and of the numbered variants of a name there is always one more than
  the names already given (`IdentifierIsNew`). What a family found, a sum over files, is
  then the number of distinct pairs its tool spoke of (`PairsCount`). Of `Entries` they
  use types alone: a count is an integer, and a finding is named by a sequence.
- `Sessions`: `SessionIsToldAsReported` for any models, prices and lines, from
  `PricesAssumption` and `EventsAssumption`, which give types. The controller prices the
  totals of a session once; that this is the sum of what each turn costs is the
  linearity of `Rate` where nothing is clipped (`RateIsLinear`), over sums that are
  folds of finite sets (`SumByOne`, `SumAdds`, `SumScales` in `CommonLemmas`).
- `Answers`: its three properties, for any criteria, severities and answers of
  any length. Their crux, in `CommonLemmas` because `ControlLoopProofs` uses it too:
  where the faults are empty no identifier is repeated, so `LastReport`, a `CHOOSE` of
  the last item of an identifier, is determined, and reasons, escalations and feedback
  speak of the same item.

**`LandingProofs`** proves the three invariants of the run `landing` for any number of
runs, of invocations and of changes of the operator's, from `LandingAssumption`: a
decided run has one of the three statuses. Nothing in the code keeps two invocations of
one run apart, so the theorems say what they need of it:

- `LandingVerifies` and `RegisteredOnce` are proved wherever `Separate` holds: no two
  invocations of one run were under way at once (`Parted`), or git refuses a patch whose
  change is already made. `Inv` carries both arguments. In the first case the journal of a
  run is as the decision closed it until the invocation under way appends (`Apart`). In
  the second, what an invocation applied is in the repository while it acts (`Holds`), so
  no other can apply it. Either way one invocation of a run at most is past its patch
  (`OneActs`), and finds the journal as the decision closed it (`Told`). A journal is
  `Closed` or `Landed`, and `Verifies` computes the verdict on either. Without
  `Separate` a run is landed twice, as `landing_twice` shows, and neither holds.
- `LandedAloneAsMeasured` is proved without a condition, from `Inv` and, as long as no two
  invocations were under way at once, `Solo`: the history is empty from the check of HEAD
  to the commit, the index holds what the invocation applied, once, and nothing else, and
  the first commit stays the first.

**`ExecutionEnvironmentProofs`** proves both invariants of its run for every set of
versions and every budget. `MeasuredAsFrozen` holds whatever the operator writes in the source and agents
in the candidate; of a run whose gates wrote provider files in the candidate it says
only that they were put back, since what ran in between left no trace. It speaks of
the end of a run only; `Inv` adds what a phase knows: what was cloned is what the
candidate is compared with (`Pinned`), and over a candidate that is still what was
cloned, undisturbed, the gates ran what the commit pins (`MeasuredRight`). A phase over
anything else ends the run.

**`GateRunnerProofs`** proves `ResultsAreMeasurements` and `ReadsThisMeasurement` for
every constitution and schedule, whatever outlives a command. The argument is about
stamps (`Accounted`): from the first listing on, a matching report that is not of this
measurement is in that listing with the stamp it still carries, so what the second
listing finds new or rewritten was written in between. It does not say that a report
rewritten with its stamp unchanged is seen: that is the hazard at
`sensors/reports.py:59`, and it errs towards reading nothing.

**`ControlLoopProofs`** proves ten invariants of whole runs and their refinement of
`RunLifecycle`, for every constitution, any trees, answers, budget and provider:

- `TypeOK` under every hazard: `Surroundings` types what surrounds an attempt, `Held`
  what the attempt holds at each location.
- `JournalTellsTheRecord` under every hazard. `Telltale` relates the two between any two
  steps: the gate events of the journal are those of the baseline and of the iterations
  of the record, one after the other, followed by those of the attempt in flight as far as it went.
- `BaselineFirst`, `NothingRestsOnAlteredSensors` and `AcceptedWasMeasured` under every
  hazard of the model. None is inductive: they speak of the end, and the attempt is kept
  long after its controls passed. `Passing` says, location by location, which controls
  the attempt has passed; `Ending`, that an exception leaves for a location that promises
  nothing and that only `KeepIteration` ends a run as accepted. That a silent review is
  a satisfied one is `SilenceSatisfied`, from `CommonLemmas`.
- `FeedbackChain`, `LandsWhatWasMeasured` and `AcceptedKeepsTheRatchets` where
  `"linger"` is not a hazard. `Chain` relates the attempt to the iteration before it,
  `Still` what a control was told of a tree to the tree there is. With `"linger"` they
  do not hold: `close` takes the patch again from a workspace that a process left behind
  by an agent may still write in, and nothing compares it with what was measured.
- `NoRetryOnABrokenControl` and `TheReviewIsSettledByAPerson` under the same condition.
  `Blank` says what an attempt does not hold yet, so a run refused before the end of the
  full phase was not passed by every control; `Retrying`, that an iteration given another
  attempt, and a candidate in its full phase, rest on measurements that can be trusted;
  `Settled` follows, from the phase that objected to the end of the run, whether what
  stood in the way was a control (`Objected`) or the review alone (`ToAPerson`).
- `ImplementsLifecycle` under every hazard, from `Deciding`: the decision in flight is
  one, nothing closes the journal before `CloseJournal` (`Plain`), and the journal then
  closes on that decision, which the record does not state before `WriteRecord`. Every
  reason of a decision comes of a finite vocabulary, which the lemmas from `Reasoned` to
  `Stated` account for.

They rest on the assumptions of `GateResults` and `ControlLoop`, three of which only give
types: what was measured is never taken for `Unset`, the criteria of an answer are a
list, and an attempt is numbered.

The library's induction theorems take an operator as a parameter, which the provers
cannot instantiate. `CommonLemmas` states them of sets instead: `SetInduction` of a set
of numbers, `UptoInduction` of a recursion up to one of them, `SubsetInduction` of a
family of subsets. What a recursive function or a fold computes is then proved like any
other fact.

Only model-checked: liveness (`ReachesADecision`, `Terminates`), because
fairness is out of this prover's reach. Every other property of the passing runs is a
theorem.

## 6. What is simplified, and what is not modelled

- Digests are abstracted: of an event to its sequence, of a patch to the tree,
  of the events block to a count. `RunDirectory` keeps them, as the values they are
  of; schema versions, paths that leave the directory and the wording of the
  report are left out.
- An append is whole or absent; a line cut in the middle by the end of the
  machine is not modelled.
- In `ControlLoop` an error strikes at the boundary of an action, before its
  writes. Errors inside writes are `RunRecord`'s subject.
- Processes outlive gates and agents in the candidate only, and write only there;
  files that Git ignores are not part of a tree, as they are not part of a patch.
- In `ControlLoop` sensors are altered or restored by gates and by what a gate or an agent
  of an iteration left behind. What a gate of the baseline left behind does nothing.
- In `RunDirectory` an artefact is named beside the blocks. One that a gate's result
  names is also in what that result's digest is of, so removing it alone is seen.
- In `ExecutionEnvironment` the constitution has a task gate that the baseline
  measures too, the inventory and the description are one step, and a manifest or
  lockfile is one version. Agents and gates write provider files and not the
  directories of the tools, which confinement protects. Gates that write provider
  files and put them back before the phase ends leave no trace (`disturbed`).
- `GateRunner` takes a write for seen where its stamp changed; a rewrite with the
  same size and time is not, as `sensors/reports.py:8-13` says.
- `GateRunner` has one value for every report its reader takes. Where a tracefile may
  stop and be taken is in `Reports`, as is what is read of it.
- A gate has one ratchet at most, on one metric.
- The operator works in the source repository until the clone, which is the last
  time the run reads it, and does nothing while something is being landed.
- Reasons are pairs `<<kind, subject>>`, and a gate's feedback is its reasons:
  the wording, the order and the recapitulation in the prompt are left out.
- In `Confinement` the host enforces what a profile says, processes make places and
  do not remove them, and symbolic links are resolved. A gate may write in the source
  repository outside its metadata and its environment: no profile says otherwise. In
  `ControlLoop`, `"write"`, `"tamper"` and `"linger"` are what a gate may do where it
  is not confined.
- `Reports` merges the files of tracefiles by the name a record declares, as
  `sensors/lcov.py:249` does, and counts them so. A file one record names absolutely and
  another relatively is then two files, where the docstring (`sensors/lcov.py:240-244`)
  says "never two files": no property claims that they are one.
- In `Reports` a line or a result is whole or no line; paths, messages, durations and
  percentages are left out. In `Sessions` a count is a natural number and a price a
  small one: rounding, and the cost the backend states of itself, are left out.
- In `Declarations` the scope and review tables and the types of values are left out:
  a value of another type is refused before anything is read of it.
- A Codex reviewer whose answer is JSON and not an object is an answer to its adapter
  (`actuators/codex.py:422`), the Claude Code adapter refuses it: `Confinement` has
  both, and no document says which is meant.
- The command line, `doctor`, the catalogue's reader and the resources hold no state.

## 7. Plan

Done: every component of the inventory but the command line and the resources, and
the proofs of the safety of runs, their records, toolchains, gates, reviews, profiles
and landings. What would follow, in order of importance:

1. `GateRunner` over the reports of `Reports`, instead of reports that are readable or
   not.
2. The scope sensor's globs and counters, and the copy the freeze makes of sensors.

New modules share the existing runs' configurations where they answer the same
question, so that the number of runs stays the number of questions.
