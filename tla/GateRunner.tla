------------------------------ MODULE GateRunner ------------------------------
(***************************************************************************)
(* How one gate is measured (sensors/gates.py, observations.py, reports.py   *)
(* and the three projections), over and over in one tree.  A gate answers by *)
(* its exit code, by a document it writes where it was told to, or by the    *)
(* reports its tool leaves in the tree, where earlier measurements left       *)
(* theirs and a process that outlived one may still be writing.               *)
(*                                                                           *)
(* Measurements are numbered by their place in Schedule, the gates measured  *)
(* one after the other in this tree.  A file's stamp is its size and its      *)
(* write time, as the file system's clock tells it.  A report is readable when  *)
(* its reader takes what was written of it: to its end, or for a tracefile, up   *)
(* to the end of any of its records (Reports says which).                        *)
(***************************************************************************)
EXTENDS GateResults

CONSTANTS
  Schedule,   \* the gates measured in this tree, a sequence over Gates
  Reports,    \* the files the declared patterns may match
  Matched,    \* what the pattern of each gate matches, a subset of Reports
  Sizes,      \* the sizes a report may have
  MaxTime,    \* bound on the clock of the file system
  Outliving   \* whether a command may leave processes behind that write reports

ASSUME ScheduleAssumption ==
  /\ Schedule \in Seq(Gates)
  /\ Matched \in [Gates -> SUBSET Reports]
  /\ MaxTime \in Nat /\ Outliving \in BOOLEAN

VARIABLES
  pc,        \* where run_gates is in the measurement under way
  ending,    \* how the command ended
  results,   \* the measurements done, by their numbers
  tree,      \* the reports in the tree: a partial function from Reports
  clock,     \* what the file system stamps a write with
  located,   \* the measurements whose observation location exists
  document,  \* what is in the location of this measurement
  before,    \* the listing taken before the command ran
  written,   \* the reports the second listing found new or rewritten
  left,      \* whether some process outlived its command
  read       \* history: what each result was read from; nothing reads it

files == <<tree, clock, document, left>>
vars == <<pc, ending, results, files, located, before, written, read>>

Number == Len(results) + 1
Current == Schedule[Number]
Format == Constitution[Current].format

Measuring == {"running", "exited", "listed"}

\* The measurement a write happens in; none between two of them.
during == IF pc \in Measuring THEN Number ELSE 0

Unwritten == [says |-> "nothing", during |-> 0]

Init ==
  /\ pc = "ready" /\ ending = "zero" /\ results = <<>> /\ read = <<>>
  /\ \E old \in SUBSET Reports, size \in Sizes :
       tree = [f \in old |-> [size |-> size, time |-> 0, during |-> 0, readable |-> TRUE]]
  /\ clock = 0 /\ left = FALSE
  /\ located = {} /\ document = Unwritten /\ before = <<>> /\ written = {}

-----------------------------------------------------------------------------
(* Mutated forms, used only to show that a property notices them.           *)

\* Whatever matches read as this measurement's.
WrittenOrNot(old, new) == DOMAIN new

\* A gate that wrote no report taken for one without a document, however it ended.
ProjectedNothing(reports) ==
  IF reports = {} THEN "absent"
  ELSE IF \E f \in reports : f \notin DOMAIN tree \/ ~tree[f].readable THEN "invalid" ELSE "valid"

-----------------------------------------------------------------------------

\* list_reports: what matches, with its stamp.
Listing == [f \in DOMAIN tree \cap Matched[Current] |-> <<tree[f].size, tree[f].time>>]

\* written_reports: what did not exist, or whose stamp moved.
Written(old, new) == {f \in DOMAIN new : f \notin DOMAIN old \/ old[f] # new[f]}

\* run_gates, up to the command: the location of a document, which may land
\* where it is refused and then be removed or not, or the reports already there.
Prepare ==
  /\ pc = "ready" /\ Number <= Len(Schedule)
  /\ UNCHANGED <<ending, results, tree, clock, left, written, read>>
  /\ \/ /\ Format # "codeservo-json"
        /\ before' = IF Format = "reports" THEN Listing ELSE <<>>
        /\ pc' = "running"
        /\ UNCHANGED <<located, document>>
     \/ /\ Format = "codeservo-json"
        /\ located' = located \cup {Number} /\ document' = Unwritten /\ before' = <<>>
        /\ pc' = "running"
     \/ /\ Format = "codeservo-json"
        /\ located' \in {located, located \cup {Number}}
        /\ pc' = "refused"
        /\ UNCHANGED <<document, before>>

\* A report written, by whoever does, with the stamp of the moment.
WriteReport ==
  \E f \in Reports, size \in Sizes, readable \in BOOLEAN :
    tree' = [g \in DOMAIN tree \cup {f} |->
               IF g = f
               THEN [size |-> size, time |-> clock, during |-> during, readable |-> readable]
               ELSE tree[g]]

RemoveReport == \E f \in DOMAIN tree : tree' = [g \in DOMAIN tree \ {f} |-> tree[g]]

\* The command under measurement writes or removes reports, or its document.
CommandWrites ==
  /\ pc = "running"
  /\ \/ (WriteReport \/ RemoveReport) /\ UNCHANGED document
     \/ /\ Number \in located
        /\ \E says \in {"passed", "failed", "malformed"} :
             document' = [says |-> says, during |-> Number]
        /\ UNCHANGED tree
  /\ UNCHANGED <<pc, ending, results, clock, left, located, before, written, read>>

\* run_command returns: the command ended, or its timeout did, and nothing stops
\* what it left behind.
Exit ==
  /\ pc = "running"
  /\ ending' \in Endings
  /\ left' \in {left, left \/ Outliving}
  /\ pc' = "exited"
  /\ UNCHANGED <<results, tree, clock, document, located, before, written, read>>

\* A result is recorded with what it was read from.
Measured(class, from) ==
  /\ \E metric \in IF class = "valid" THEN Metrics \cup {NoMetric} ELSE {NoMetric} :
       results' = Append(results, [gate |-> Current, ending |-> ending, document |-> class,
                                   metric |-> metric])
  /\ read' = Append(read, IF class = "valid" THEN from ELSE {})

MeasureExitCode ==
  /\ pc = "exited" /\ Format = "exit-code"
  /\ Measured("unset", {})
  /\ pc' = "ready"
  /\ UNCHANGED <<ending, files, located, before, written>>

\* observations.classify, against the exit code that is the verdict.
Classified ==
  CASE document.says = "nothing"   -> "absent"
    [] document.says = "malformed" -> "invalid"
    [] OTHER -> IF document.says = (IF ending = "zero" THEN "passed" ELSE "failed")
                THEN "valid" ELSE "contradicted"

Removed == located \ {Number}

\* _measured, for a document the gate wrote: kept, classified, and its location
\* removed.  One that cannot be removed ends the phase, the result with it.
MeasureDocument ==
  /\ pc = "exited" /\ Format = "codeservo-json"
  /\ \/ /\ Measured(Classified, {[during |-> document.during, readable |-> TRUE]})
        /\ located' = Removed
        /\ pc' = "ready"
     \/ /\ pc' = "refused"
        /\ UNCHANGED <<results, read, located>>
  /\ UNCHANGED <<ending, files, before, written>>

\* _projected, the second listing.
ListReports ==
  /\ pc = "exited" /\ Format = "reports"
  /\ written' = Written(before, Listing)
  /\ pc' = "listed"
  /\ UNCHANGED <<ending, results, files, located, before, read>>

\* A report that is gone, or that its reader refuses (not a report, cut where the
\* format shows it, of a tool that says it did not finish), is a fault of the
\* measurement.  What is projected carries the exit code: it contradicts nothing.
Projected(reports) ==
  IF reports = {} /\ ending = "zero" THEN "absent"
  ELSE IF \E f \in reports : f \notin DOMAIN tree \/ ~tree[f].readable THEN "invalid"
  ELSE "valid"

Project ==
  /\ pc = "listed"
  /\ Measured(Projected(written),
              {[during |-> tree[f].during, readable |-> tree[f].readable] :
                 f \in written \cap DOMAIN tree})
  /\ pc' = "ready"
  /\ UNCHANGED <<ending, files, located, before, written>>

\* A sandbox that could not start, or any failure of the file system: nothing
\* of run_gates removes a location then.
Raise ==
  /\ pc \in Measuring
  /\ pc' = "raised"
  /\ UNCHANGED <<ending, results, files, located, before, written, read>>

RunGates ==
  Prepare \/ Exit \/ MeasureExitCode \/ MeasureDocument \/ ListReports \/ Project

Over == pc \in {"refused", "raised"} \/ (pc = "ready" /\ Number > Len(Schedule))

\* What outlived its command goes on writing reports.
OutlivedWrites ==
  /\ left /\ ~Over
  /\ WriteReport \/ RemoveReport
  /\ UNCHANGED <<pc, ending, results, clock, document, left, located, before, written, read>>

Tick ==
  /\ clock < MaxTime /\ ~Over
  /\ clock' = clock + 1
  /\ UNCHANGED <<pc, ending, results, tree, document, left, located, before, written, read>>

Terminated == Over /\ UNCHANGED vars

Next == RunGates \/ CommandWrites \/ Raise \/ OutlivedWrites \/ Tick \/ Terminated

Spec == Init /\ [][Next]_vars

-----------------------------------------------------------------------------
(* What a reader of the results may rely on.                                 *)

\* Every measurement is one the controller expects of that gate and that ending:
\* the results the phases judge, and no others.
ResultsAreMeasurements ==
  \A k \in DOMAIN results : results[k] \in Measurements(Schedule[k])

\* A document is read from what was written while its gate was measured, never
\* from what an earlier measurement left in the tree; and no green measured
\* nothing: a gate that passed with a document in order has at least one source
\* for it, and its reader refused none of them.
ReadsThisMeasurement ==
  /\ \A k \in DOMAIN read : \A source \in read[k] : source.during = k
  /\ \A k \in DOMAIN results :
       results[k].document = "valid" /\ Passed(results[k]) =>
         read[k] # {} /\ \A source \in read[k] : source.readable
=============================================================================
