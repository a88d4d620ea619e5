------------------------------ MODULE Reports ------------------------------
(***************************************************************************)
(* How the reports a gate's tool wrote become the one document the controller *)
(* reads (sensors/lcov.py, sarif.py, junit.py, and unique in reports.py).  A   *)
(* tool writes its reports entry by entry and may stop anywhere; what it left  *)
(* is read once the command is over, whatever it is.                          *)
(*                                                                           *)
(* The entries of a tracefile begin and end a record and count a thing of it; *)
(* those of an analysis log begin a run and report a result; those of a test  *)
(* report are its cases.  The last two are enclosed, as "close" ends them: one *)
(* that stops before it is not JSON or not XML.  Nothing encloses a tracefile: *)
(* one that stops between two records reads as one that has no more.          *)
(***************************************************************************)
EXTENDS Integers, Sequences, SequencesExt, FiniteSetsExt

CONSTANTS
  Entries,     \* what a tool may write, by the format of its reports
  PathOf,      \* where in the tree a file is that a record names, or its name
  MaxEntries,  \* bound on the entries of all the reports of one measurement, by format
  MaxReports   \* bound on the reports of one measurement

Spelled(name) == Len(name) \in Nat /\ name = [i \in 1 .. Len(name) |-> name[i]]

\* What a tool may write of each format, "none" naming no file.  A finding's name is
\* spelled part by part.
ASSUME EntriesAssumption ==
  /\ DOMAIN Entries = {"lcov", "sarif", "junit-xml"}
  /\ \A entry \in Entries["lcov"] :
       /\ entry.is \in {"SF", "end of record", "count", "no count"}
       /\ entry.is = "SF" => entry.file # "none" /\ entry.file \in DOMAIN PathOf
       /\ entry.is = "count" => entry.count \in Int
  /\ \A entry \in Entries["sarif"] :
       /\ entry.is \in {"run", "result", "no result", "close"}
       /\ entry.is = "result" => Spelled(entry.name)
  /\ \A entry \in Entries["junit-xml"] :
       /\ entry.is \in {"case", "close"}
       /\ entry.is = "case" => Spelled(entry.name)

VARIABLES
  format,   \* the result format the gate declares
  reports   \* the reports its tool wrote, in the order they are read

reportVars == <<format, reports>>

NoRecord == [declared |-> "none", counts |-> <<>>]

-----------------------------------------------------------------------------
(* Mutated forms, used only to show that a property notices them.           *)

\* A tracefile accepted wherever it stops.
StopsAnywhere(read) == read.files = <<>>

\* The last record of a file taken for what is known of it.
LastRecord(files) ==
  [f \in {files[i].declared : i \in DOMAIN files} |->
     files[Max({i \in DOMAIN files : files[i].declared = f})].counts]

-----------------------------------------------------------------------------
(* Tracefiles.                                                               *)

\* Counts of things, summed thing by thing.
Sum2(counts, more) ==
  [t \in DOMAIN counts \cup DOMAIN more |->
     (IF t \in DOMAIN counts THEN counts[t] ELSE 0) + (IF t \in DOMAIN more THEN more[t] ELSE 0)]

\* _Record.read: what one line of a record counts.  FN declares at zero, a branch
\* never reached is written "-", and a count below zero is none.
Counted(record, entry) ==
  [record EXCEPT !.counts = Sum2(@, [t \in {entry.thing} |-> Max({entry.count, 0})])]

\* parse_report, line by line.  What is outside a record, and what has a prefix
\* this reader does not know, is passed over.
ReadLine(read, entry) ==
  LET fault == [read EXCEPT !.fault = TRUE]
      inside == read.current # NoRecord
  IN  IF read.fault THEN read
      ELSE CASE entry.is = "SF" ->
                  IF inside THEN fault
                  ELSE [read EXCEPT !.current = [declared |-> entry.file, counts |-> <<>>]]
             [] entry.is = "end of record" ->
                  IF ~inside THEN fault
                  ELSE [read EXCEPT !.files = Append(@, read.current), !.current = NoRecord]
             [] entry.is = "count" ->
                  IF inside THEN [read EXCEPT !.current = Counted(@, entry)] ELSE read
             [] entry.is = "no count" -> IF inside THEN fault ELSE read

Unread == [fault |-> FALSE, files |-> <<>>, current |-> NoRecord]

Lines(tracefile) == FoldLeft(ReadLine, Unread, tracefile)

\* It ends inside a record, or named no file.
Unfinished(read) == read.current # NoRecord \/ read.files = <<>>

Refused(tracefile) == LET read == Lines(tracefile) IN read.fault \/ Unfinished(read)

\* merged: every file once, as its records spell it, what they say summed.
Summed(files, f) ==
  FoldLeft(LAMBDA counts, file : IF file.declared = f THEN Sum2(counts, file.counts) ELSE counts,
           <<>>, files)

Merged(files) == [f \in {files[i].declared : i \in DOMAIN files} |-> Summed(files, f)]

\* _counted, for one family of things over all files.
Found(files, family) ==
  SumFunction([f \in DOMAIN files |-> Cardinality({t \in DOMAIN files[f] : t[1] = family})])

Covered(files, family) ==
  SumFunction([f \in DOMAIN files |->
                 Cardinality({t \in DOMAIN files[f] : t[1] = family /\ files[f][t] > 0})])

Families == {"line", "branch", "function"}

\* A file the tool instrumented and no test reached.
Uncovered(files) ==
  {f \in DOMAIN files : LET lines == {t \in DOMAIN files[f] : t[1] = "line"} IN
                          lines # {} /\ \A t \in lines : files[f][t] = 0}

-----------------------------------------------------------------------------
(* Analysis logs and test reports.                                           *)

\* unique: the name, or its first numbered variant nobody holds yet.  A name is the
\* sequence of what it is spelled with, so that "a#2" may also be one of the tool's.
Identifier(name, ids) ==
  LET taken == {ids[i] : i \in DOMAIN ids}
      free  == {n \in 2 .. Len(ids) + 2 : Append(name, n) \notin taken}
  IN  IF name \notin taken THEN name ELSE Append(name, Min(free))

Unique(names) == FoldLeft(LAMBDA ids, name : Append(ids, Identifier(name, ids)), <<>>, names)

\* sarif.parse_report: one that is no whole JSON log, a run its own tool says did
\* not complete, or a result that is none.
RefusedLog(log) ==
  \/ log = <<>> \/ Last(log).is # "close"
  \/ \E i \in DOMAIN log : \/ log[i].is = "no result"
                           \/ log[i].is = "run" /\ ~log[i].successful

Levels == {"error", "warning", "note", "none"}

\* _level: its own, its rule's, or the default.
Level(result) ==
  CASE result.level \in Levels -> result.level
    [] result.level \notin Levels /\ result.rule_level \in Levels -> result.rule_level
    [] OTHER -> "warning"

\* Those of the entries that are of a kind, in their order.
Kept(entries, kind) ==
  FoldLeft(LAMBDA kept, e : IF e \in kind THEN Append(kept, e) ELSE kept, <<>>, entries)

Number(entries, kind) == Len(Kept(entries, kind))

Firing == {e \in Entries["sarif"] : e.is = "result" /\ e.kind = "fail"}

\* _suppressed: by a suppression the tool did not reject.
Suppressed == {e \in Firing : "applied" \in e.suppressions}

\* The results of the logs in their order, as sarif.project walks them.
Results(logs) == Kept(FlattenSeq(logs), Firing \ Suppressed)

\* junit.parse_report: one that is no whole XML report.
RefusedTests(report) == report = <<>> \/ Last(report).is # "close"

\* _case: a failure before an error before a skip.
Outcome(case) ==
  CASE "failure" \in case.verdicts -> "failed"
    [] "failure" \notin case.verdicts /\ "error" \in case.verdicts -> "error"
    [] case.verdicts = {"skipped"} -> "skipped"
    [] OTHER -> "passed"

TestCases == {e \in Entries["junit-xml"] : e.is = "case"}

Cases(tests) == Kept(FlattenSeq(tests), TestCases)

CaseOutcomes == {"passed", "failed", "error", "skipped"}

-----------------------------------------------------------------------------
(* The document of a measurement, or no document when a report is refused.    *)

Unreadable(report) ==
  CASE format = "lcov"      -> Refused(report)
    [] format = "sarif"     -> RefusedLog(report)
    [] format = "junit-xml" -> RefusedTests(report)

Projected == \A i \in DOMAIN reports : ~Unreadable(reports[i])

Files == Merged(FlattenSeq([i \in DOMAIN reports |-> Lines(reports[i]).files]))

Metrics ==
  CASE format = "lcov" ->
         [found   |-> [family \in Families |-> Found(Files, family)],
          covered |-> [family \in Families |-> Covered(Files, family)]]
    [] format = "sarif" ->
         [results    |-> Len(Results(reports)),
          levels     |-> [l \in Levels |-> Number(Results(reports), {r \in Firing : Level(r) = l})],
          suppressed |-> Number(FlattenSeq(reports), Suppressed)]
    [] format = "junit-xml" ->
         [tests    |-> Len(Cases(reports)),
          outcomes |-> [o \in CaseOutcomes |->
                          Number(Cases(reports), {c \in TestCases : Outcome(c) = o})]]

\* The findings, by their identifiers.
Findings ==
  CASE format = "lcov"      ->
         LET files == SetToSeq(Uncovered(Files))
         IN  Unique([i \in DOMAIN files |-> <<PathOf[files[i]]>>])
    [] format = "sarif"     -> Unique([i \in DOMAIN Results(reports) |-> Results(reports)[i].name])
    [] format = "junit-xml" ->
         LET failed == Kept(Cases(reports), {c \in TestCases : Outcome(c) \in {"failed", "error"}})
         IN  Unique([i \in DOMAIN failed |-> failed[i].name])

-----------------------------------------------------------------------------

ReportsInit == format \in DOMAIN Entries /\ reports = <<>>

Written == SumFunction([i \in DOMAIN reports |-> Len(reports[i])])

\* The tool opens another report: it may have stopped in the one before.
Open ==
  /\ Len(reports) < MaxReports
  /\ reports' = Append(reports, <<>>)
  /\ UNCHANGED format

\* It writes on, up to the close of the report.
Write(entry) ==
  /\ reports # <<>> /\ Written < MaxEntries[format]
  /\ Last(reports) # <<>> => Last(Last(reports)).is # "close"
  /\ reports' = [reports EXCEPT ![Len(reports)] = Append(@, entry)]
  /\ UNCHANGED format

ReportsNext == Open \/ \E entry \in Entries[format] : Write(entry)

ReportsSpec == ReportsInit /\ [][ReportsNext]_reportVars

-----------------------------------------------------------------------------

\* Line i of a tracefile is in the record its line j began.
InRecord(tracefile, i, j) ==
  /\ j < i /\ tracefile[j].is = "SF"
  /\ \A k \in j + 1 .. i - 1 : tracefile[k].is # "end of record"

\* What the tool said of each thing of each file, in whichever record or report.
Said ==
  LET places == {x \in (DOMAIN reports) \X (1 .. Written) \X (1 .. Written) :
                   /\ x[2] \in DOMAIN reports[x[1]] /\ reports[x[1]][x[2]].is = "count"
                   /\ InRecord(reports[x[1]], x[2], x[3])}
  IN  {[file |-> reports[x[1]][x[3]].file, thing |-> reports[x[1]][x[2]].thing,
        count |-> reports[x[1]][x[2]].count] : x \in places}

Distinct(said, family) == Cardinality({<<s.file, s.thing>> : s \in {x \in said : x.thing[1] = family}})

\* However its tool spread it over records and reports, a thing of a file, as its
\* records spell the file, is counted once and reached if anything reached it;
\* every result and every case is counted under one heading; and no two findings
\* share an identifier, those of two spellings of one path included
\* (lcov.py:239-271, 285-314, sarif.py:368-426, junit.py:130-179, reports.py:98-111).
CountsEachThingOnce ==
  Projected => LET metrics == Metrics  findings == Findings IN
    /\ Cardinality({findings[i] : i \in DOMAIN findings}) = Len(findings)
    /\ format = "lcov" => LET said == Said IN
         \A family \in Families :
           /\ metrics.found[family] = Distinct(said, family)
           /\ metrics.covered[family] = Distinct({s \in said : s.count > 0}, family)
    /\ format = "sarif" =>
         /\ metrics.results = SumFunction(metrics.levels)
         /\ metrics.results + metrics.suppressed = Number(FlattenSeq(reports), Firing)
    /\ format = "junit-xml" =>
         /\ metrics.tests = SumFunction(metrics.outcomes)
         /\ Len(findings) = metrics.outcomes["failed"] + metrics.outcomes["error"]

\* No report is accepted in part.  An analysis log or a test report is accepted
\* with its end, every run of it completed and every result of it one.  A tracefile
\* is accepted when every record begun in it was ended before another and each of
\* its counts is one: its tool may have stopped between two records, and what it
\* wrote up to there is read whole (lcov.py:229-235, sarif.py:242-272, 328-337).
AcceptedReportsAreReadWhole ==
  Projected =>
    \A r \in DOMAIN reports : LET report == reports[r] IN
      IF format # "lcov"
      THEN /\ report # <<>> /\ Last(report).is = "close"
           /\ \A i \in DOMAIN report : report[i].is # "no result"
           /\ \A i \in DOMAIN report : report[i].is = "run" => report[i].successful
      ELSE /\ \E i \in DOMAIN report : report[i].is = "SF"
           /\ \A i \in DOMAIN report : report[i].is = "SF" =>
                \E k \in i + 1 .. Len(report) :
                  /\ report[k].is = "end of record" /\ InRecord(report, k, i)
                  /\ \A l \in i + 1 .. k : report[l].is \notin {"SF", "no count"}
=============================================================================
