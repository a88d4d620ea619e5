-------------------------- MODULE GateRunnerProofs --------------------------
(***************************************************************************)
(* What a reader of the results may rely on, for every constitution, any      *)
(* schedule of measurements in one tree, and whatever the commands and what    *)
(* outlived them write, whenever.                                             *)
(*                                                                           *)
(* The argument is about stamps.  From the first listing of a measurement on,  *)
(* a matching report that is not of this measurement is one the listing has,   *)
(* with the stamp it still carries: so what the second listing finds new or    *)
(* rewritten was written in between, and whatever replaces it later is too.    *)
(***************************************************************************)
EXTENDS GateRunner, SequenceTheorems, TLAPS

Locations == {"ready", "running", "exited", "listed", "refused", "raised"}

Source == [during : Nat, readable : BOOLEAN]

Types ==
  /\ pc \in Locations /\ ending \in Endings
  /\ results \in Seq(Result) /\ read \in Seq(SUBSET Source) /\ Len(read) = Len(results)
  /\ tree \in [DOMAIN tree -> [size : Sizes, time : Nat, during : Nat, readable : BOOLEAN]]
  /\ clock \in Nat
  /\ document \in [says : {"nothing", "passed", "failed", "malformed"}, during : Nat]

Stamp(f) == <<tree[f].size, tree[f].time>>

\* A report of this measurement, or one the first listing has as it is.
Accounted(f) == tree[f].during = Number \/ (f \in DOMAIN before /\ before[f] = Stamp(f))

\* What the measurement under way may read.
Fresh ==
  /\ pc \in Measuring => Number <= Len(Schedule)
  /\ pc \in {"running", "exited"} /\ Format = "reports" =>
       \A f \in DOMAIN tree \cap Matched[Current] : Accounted(f)
  /\ pc \in {"running", "exited"} /\ Format = "codeservo-json" =>
       document.says = "nothing" \/ document.during = Number
  /\ pc = "listed" =>
       Format = "reports" /\ \A f \in written \cap DOMAIN tree : tree[f].during = Number

Inv == Types /\ Fresh /\ ResultsAreMeasurements /\ ReadsThisMeasurement

-----------------------------------------------------------------------------
LEMMA Numbered ==
  ASSUME Types
  PROVE  Number \in Nat \ {0} /\ DOMAIN results = 1 .. Len(results) /\ DOMAIN read = 1 .. Len(results)
         /\ Len(results) \in Nat
  BY LenProperties DEF Types, Number

\* The gate under measurement is one of the constitution's.
LEMMA CurrentIsAGate ==
  ASSUME Types, Fresh, pc \in Measuring
  PROVE  Current \in Gates /\ Format \in Formats
<1>1. Current \in Gates
  <2>1. Number \in 1 .. Len(Schedule)
    BY Numbered, LenProperties, ScheduleAssumption DEF Fresh
  <2> QED
    BY <2>1, ElementOfSeq, ScheduleAssumption DEF Current
<1>2. Constitution \in Seq(DeclaredGate)
  BY ConstitutionAssumption DEF IsConstitution
<1>3. Constitution[Current] \in DeclaredGate
  BY <1>1, <1>2, ElementOfSeq, LenProperties DEF Gates
<1> QED
  BY <1>1, <1>3 DEF DeclaredGate, Format

LEMMA Begins == Init => Inv
<1> SUFFICES ASSUME Init PROVE Inv
  OBVIOUS
<1>1. tree \in [DOMAIN tree -> [size : Sizes, time : Nat, during : Nat, readable : BOOLEAN]]
  BY DEF Init
<1>2. results = <<>> /\ read = <<>> /\ results \in Seq(Result) /\ read \in Seq(SUBSET Source)
      /\ Len(read) = Len(results) /\ DOMAIN results = {} /\ DOMAIN read = {}
  BY DEF Init
<1>3. Types
  BY <1>1, <1>2 DEF Init, Types, Locations, Endings, Unwritten
<1> QED
  BY <1>2, <1>3 DEF Init, Inv, Fresh, Measuring, ResultsAreMeasurements, ReadsThisMeasurement

\* Steps that record no result.
LEMMA Unrecorded ==
  ASSUME Inv, UNCHANGED <<results, read>>
  PROVE  /\ ResultsAreMeasurements' /\ ReadsThisMeasurement'
         /\ Number' = Number /\ Current' = Current /\ Format' = Format
  BY DEF Inv, ResultsAreMeasurements, ReadsThisMeasurement, Number, Current, Format

\* A result recorded: it is one of its gate's, read from this measurement.
LEMMA Records ==
  ASSUME Inv, pc \in Measuring,
         NEW class \in DocumentsOf(Current, ending), NEW from \in SUBSET Source,
         Measured(class, from),
         class = "valid" => \A source \in from : source.during = Number,
         class = "valid" /\ ending = "zero" => from # {} /\ \A source \in from : source.readable
  PROVE  /\ results' \in Seq(Result) /\ read' \in Seq(SUBSET Source) /\ Len(read') = Len(results')
         /\ ResultsAreMeasurements' /\ ReadsThisMeasurement'
<1> DEFINE there == IF class = "valid" THEN from ELSE {}
<1>1. PICK metric \in (IF class = "valid" THEN Metrics \cup {NoMetric} ELSE {NoMetric}) :
        results' = Append(results, [gate |-> Current, ending |-> ending, document |-> class,
                                    metric |-> metric])
  BY DEF Measured
<1> DEFINE result == [gate |-> Current, ending |-> ending, document |-> class, metric |-> metric]
<1>2. Current \in Gates /\ ending \in Endings /\ results \in Seq(Result) /\ read \in Seq(SUBSET Source)
      /\ Len(read) = Len(results)
  BY CurrentIsAGate DEF Inv, Types
<1>3. class \in Classes
  BY <1>2, CurrentIsAGate DEF DocumentsOf, Classes, Formats, Inv, Format
<1>4. result \in Measurements(Current) /\ result \in Result
  BY <1>2, <1>3 DEF Measurements, Result
<1>5. there \in SUBSET Source /\ read' = Append(read, there)
  BY DEF Measured
<1>6. result.document = class /\ Passed(result) = (ending = "zero")
  BY DEF Passed
<1>7. results' = Append(results, result)
  BY <1>1
<1> HIDE DEF result, there
<1>8. /\ results' \in Seq(Result) /\ DOMAIN results' = 1 .. (Len(results) + 1)
      /\ Len(results') = Len(results) + 1
      /\ \A k \in 1 .. Len(results) : results'[k] = results[k]
      /\ results'[Len(results) + 1] = result
  BY <1>2, <1>4, <1>7, AppendProperties, LenProperties
<1>9. /\ read' \in Seq(SUBSET Source) /\ DOMAIN read' = 1 .. (Len(results) + 1)
      /\ Len(read') = Len(results) + 1
      /\ \A k \in 1 .. Len(results) : read'[k] = read[k]
      /\ read'[Len(results) + 1] = there
  BY <1>2, <1>5, AppendProperties, LenProperties
<1>10. Len(results) \in Nat /\ DOMAIN results = 1 .. Len(results) /\ DOMAIN read = 1 .. Len(results)
  BY Numbered DEF Inv
<1>11. ResultsAreMeasurements'
  BY <1>4, <1>8, <1>10 DEF Inv, ResultsAreMeasurements, Current, Number
<1>12. ReadsThisMeasurement'
  <2>1. \A source \in there : source.during = Len(results) + 1
    BY DEF there, Number
  <2>2. result.document = "valid" /\ Passed(result) => there # {} /\ \A source \in there : source.readable
    BY <1>6 DEF there
  <2>3. \A k \in DOMAIN read' : \A source \in read'[k] : source.during = k
    BY <1>9, <1>10, <2>1 DEF Inv, ReadsThisMeasurement
  <2>4. ASSUME NEW k \in DOMAIN results', results'[k].document = "valid", Passed(results'[k])
        PROVE  read'[k] # {} /\ \A source \in read'[k] : source.readable
    <3>1. CASE k = Len(results) + 1
      BY <1>8, <1>9, <2>2, <2>4, <3>1
    <3>2. CASE k \in DOMAIN results
      BY <1>8, <1>9, <1>10, <2>4, <3>2 DEF Inv, ReadsThisMeasurement
    <3> QED
      BY <1>8, <1>10, <3>1, <3>2
  <2> QED
    BY <2>3, <2>4 DEF ReadsThisMeasurement
<1> QED
  BY <1>8, <1>9, <1>11, <1>12

\* A report written or removed by anyone: while a gate is measured, it is of that
\* measurement.
LEMMA Writes ==
  ASSUME Inv, WriteReport \/ RemoveReport,
         UNCHANGED <<pc, ending, results, clock, located, before, written, read>>,
         document' \in [says : {"nothing", "passed", "failed", "malformed"}, during : Nat],
         document' = document \/ document'.during = Number
  PROVE  Inv'
<1>1. /\ Number' = Number /\ Current' = Current /\ Format' = Format
      /\ ResultsAreMeasurements' /\ ReadsThisMeasurement'
  BY Unrecorded
<1>2. during \in Nat /\ (pc \in Measuring => during = Number)
  BY Numbered DEF Inv, during
<1>3. /\ tree' \in [DOMAIN tree' -> [size : Sizes, time : Nat, during : Nat, readable : BOOLEAN]]
      /\ \A f \in DOMAIN tree' : (f \in DOMAIN tree /\ tree'[f] = tree[f]) \/ tree'[f].during = during
  <2>1. CASE WriteReport
    <3>1. PICK f \in Reports, size \in Sizes, readable \in BOOLEAN :
            tree' = [g \in DOMAIN tree \cup {f} |->
                       IF g = f
                       THEN [size |-> size, time |-> clock, during |-> during, readable |-> readable]
                       ELSE tree[g]]
      BY <2>1 DEF WriteReport
    <3> DEFINE new == [size |-> size, time |-> clock, during |-> during, readable |-> readable]
    <3>2. new \in [size : Sizes, time : Nat, during : Nat, readable : BOOLEAN] /\ new.during = during
      BY <1>2 DEF Inv, Types
    <3>3. tree' = [g \in DOMAIN tree \cup {f} |-> IF g = f THEN new ELSE tree[g]]
      BY <3>1
    <3> HIDE DEF new
    <3> QED
      BY <3>2, <3>3 DEF Inv, Types
  <2>2. CASE RemoveReport
    BY <2>2 DEF RemoveReport, Inv, Types
  <2> QED
    BY <2>1, <2>2
<1>4. Types'
  BY <1>3 DEF Inv, Types
<1>5. pc \in {"running", "exited"} /\ Format = "reports" =>
        \A f \in DOMAIN tree' \cap Matched[Current] : Accounted(f)'
  BY <1>1, <1>2, <1>3 DEF Inv, Fresh, Accounted, Stamp, Measuring
<1>6. pc = "listed" => Format = "reports" /\ \A f \in written \cap DOMAIN tree' : tree'[f].during = Number
  BY <1>2, <1>3 DEF Inv, Fresh, Measuring
<1>7. pc \in {"running", "exited"} /\ Format = "codeservo-json" =>
        document'.says = "nothing" \/ document'.during = Number
  BY DEF Inv, Fresh
<1>8. Fresh'
  BY <1>1, <1>5, <1>6, <1>7 DEF Inv, Fresh
<1> QED
  BY <1>1, <1>4, <1>8 DEF Inv

LEMMA CommandWritesOf == ASSUME Inv, CommandWrites PROVE Inv'
<1>1. CASE (WriteReport \/ RemoveReport) /\ UNCHANGED document
  BY <1>1, Writes DEF CommandWrites, Inv, Types
<1>2. CASE UNCHANGED tree
  <2>1. PICK says \in {"passed", "failed", "malformed"} :
          document' = [says |-> says, during |-> Number] \/ document' = document
    BY <1>2 DEF CommandWrites
  <2>2. /\ UNCHANGED <<pc, ending, results, clock, left, located, before, written, read, tree>>
        /\ document' \in [says : {"nothing", "passed", "failed", "malformed"}, during : Nat]
        /\ document' = document \/ document'.during = Number
    BY <1>2, <2>1, Numbered DEF CommandWrites, Inv, Types
  <2>3. /\ Number' = Number /\ Current' = Current /\ Format' = Format
        /\ ResultsAreMeasurements' /\ ReadsThisMeasurement'
    BY <2>2, Unrecorded
  <2>4. Types'
    BY <2>2 DEF Inv, Types
  <2>5. Fresh'
    BY <2>2, <2>3 DEF Inv, Fresh, Accounted, Stamp
  <2> QED
    BY <2>3, <2>4, <2>5 DEF Inv
<1> QED
  BY <1>1, <1>2 DEF CommandWrites

LEMMA OutlivedWritesOf == ASSUME Inv, OutlivedWrites PROVE Inv'
  BY Writes DEF OutlivedWrites, Inv, Types

LEMMA Prepares == ASSUME Inv, Prepare PROVE Inv'
<1>1. /\ Number' = Number /\ Current' = Current /\ Format' = Format
      /\ ResultsAreMeasurements' /\ ReadsThisMeasurement'
  BY Unrecorded DEF Prepare
<1>2. /\ UNCHANGED <<ending, results, tree, clock, left, written, read>>
      /\ pc' \in {"running", "refused"} /\ Number <= Len(Schedule)
      /\ document' \in {document, Unwritten}
      /\ pc' = "running" /\ Format = "codeservo-json" => document' = Unwritten
      /\ pc' = "running" /\ Format = "reports" => before' = Listing
  BY DEF Prepare
<1>3. Types'
  BY <1>2 DEF Inv, Types, Locations, Unwritten
<1>4. ASSUME Format = "reports", pc' = "running", NEW f \in DOMAIN tree \cap Matched[Current]
      PROVE  f \in DOMAIN before' /\ before'[f] = Stamp(f)
  BY <1>2, <1>4 DEF Listing, Stamp
<1>5. Fresh'
  BY <1>1, <1>2, <1>4 DEF Fresh, Accounted, Stamp, Measuring, Unwritten
<1> QED
  BY <1>1, <1>3, <1>5 DEF Inv

\* What the second listing finds new or rewritten was written in between.
LEMMA Lists == ASSUME Inv, ListReports PROVE Inv'
<1>1. /\ Number' = Number /\ Current' = Current /\ Format' = Format
      /\ ResultsAreMeasurements' /\ ReadsThisMeasurement'
  BY Unrecorded DEF ListReports
<1>2. /\ pc = "exited" /\ Format = "reports" /\ pc' = "listed" /\ written' = Written(before, Listing)
      /\ UNCHANGED <<ending, results, tree, clock, document, left, located, before, read>>
  BY DEF ListReports, files
<1>3. Types'
  BY <1>2 DEF Inv, Types, Locations
<1>4. \A f \in written' : f \in DOMAIN tree \cap Matched[Current] /\ ~(f \in DOMAIN before /\ before[f] = Stamp(f))
  BY <1>2 DEF Written, Listing, Stamp
<1>5. \A f \in written' : tree[f].during = Number
  BY <1>2, <1>4 DEF Inv, Fresh, Accounted
<1>6. Fresh'
  BY <1>1, <1>2, <1>5 DEF Inv, Fresh, Measuring
<1> QED
  BY <1>1, <1>3, <1>6 DEF Inv

\* Steps that only move the controller on, or end it.
LEMMA Moves ==
  ASSUME Inv, UNCHANGED <<results, tree, document, before, written, read>>,
         \/ pc' = pc
         \/ pc' \in {"refused", "raised"}
         \/ pc = "running" /\ pc' = "exited",
         ending' \in Endings, clock' \in Nat
  PROVE  Inv'
<1>1. /\ Number' = Number /\ Current' = Current /\ Format' = Format
      /\ ResultsAreMeasurements' /\ ReadsThisMeasurement'
  BY Unrecorded
<1>2. Types'
  BY DEF Inv, Types, Locations
<1>3. Fresh'
  BY <1>1 DEF Inv, Fresh, Accounted, Stamp, Measuring
<1> QED
  BY <1>1, <1>2, <1>3 DEF Inv

\* What a result recorded leaves of the measurement: nothing is under way.
LEMMA Recorded ==
  ASSUME Inv, results' \in Seq(Result), read' \in Seq(SUBSET Source), Len(read') = Len(results'),
         ResultsAreMeasurements', ReadsThisMeasurement',
         pc' = "ready", UNCHANGED <<ending, tree, clock, document>>
  PROVE  Inv'
<1>1. Types' /\ Fresh'
  BY DEF Inv, Types, Fresh, Locations, Measuring
<1> QED
  BY <1>1 DEF Inv

LEMMA ExitCodes == ASSUME Inv, MeasureExitCode PROVE Inv'
<1>1. /\ pc = "exited" /\ Format = "exit-code" /\ Measured("unset", {}) /\ pc' = "ready"
      /\ UNCHANGED <<ending, tree, clock, document>>
  BY DEF MeasureExitCode, files
<1>2. "unset" \in DocumentsOf(Current, ending) /\ {} \in SUBSET Source
  BY <1>1 DEF DocumentsOf, Format
<1>3. /\ results' \in Seq(Result) /\ read' \in Seq(SUBSET Source) /\ Len(read') = Len(results')
      /\ ResultsAreMeasurements' /\ ReadsThisMeasurement'
  BY <1>1, <1>2, Records DEF Measuring
<1> QED
  BY <1>1, <1>3, Recorded

LEMMA Documents == ASSUME Inv, MeasureDocument PROVE Inv'
<1>1. CASE pc' = "refused"
  BY <1>1, Moves DEF MeasureDocument, files, Inv, Types
<1>2. CASE pc' # "refused"
  <2> DEFINE from == {[during |-> document.during, readable |-> TRUE]}
  <2>1. /\ pc = "exited" /\ Format = "codeservo-json" /\ Measured(Classified, from) /\ pc' = "ready"
        /\ UNCHANGED <<ending, tree, clock, document>>
    BY <1>2 DEF MeasureDocument, files
  <2>2. Classified \in {"absent", "invalid", "valid", "contradicted"}
        /\ (Classified = "valid" => document.says # "nothing")
    BY DEF Classified, Inv, Types
  <2>3. Classified \in DocumentsOf(Current, ending)
    BY <2>1, <2>2 DEF DocumentsOf, Format, Classes
  <2>4. from \in SUBSET Source /\ from # {} /\ \A source \in from : source.readable
    BY DEF Source, Inv, Types
  <2>5. Classified = "valid" => \A source \in from : source.during = Number
    BY <2>1, <2>2 DEF Inv, Fresh
  <2> HIDE DEF from
  <2>6. /\ results' \in Seq(Result) /\ read' \in Seq(SUBSET Source) /\ Len(read') = Len(results')
        /\ ResultsAreMeasurements' /\ ReadsThisMeasurement'
    BY <2>1, <2>3, <2>4, <2>5, Records DEF Measuring
  <2> QED
    BY <2>1, <2>6, Recorded
<1> QED
  BY <1>1, <1>2

LEMMA Projects == ASSUME Inv, Project PROVE Inv'
<1> DEFINE from == {[during |-> tree[f].during, readable |-> tree[f].readable] :
                      f \in written \cap DOMAIN tree}
           class == Projected(written)
<1>1. /\ pc = "listed" /\ Measured(class, from) /\ pc' = "ready"
      /\ UNCHANGED <<ending, tree, clock, document>>
  BY DEF Project, files
<1>2. class \in {"valid", "invalid"} \cup (IF ending = "zero" THEN {"absent"} ELSE {})
  BY DEF Projected
<1>3. class \in DocumentsOf(Current, ending)
  BY <1>1, <1>2 DEF Inv, Fresh, DocumentsOf, Format
<1>4. from \in SUBSET Source
  BY DEF Source, Inv, Types
<1>5. \A source \in from : source.during = Number
  BY <1>1 DEF Inv, Fresh
<1>6. ASSUME class = "valid", ending = "zero" PROVE from # {} /\ \A source \in from : source.readable
  <2>1. written # {} /\ \A f \in written : f \in DOMAIN tree /\ tree[f].readable
    BY <1>6 DEF Projected
  <2>2. from # {}
    BY <2>1
  <2>3. ASSUME NEW source \in from PROVE source.readable
    <3>1. PICK f \in written \cap DOMAIN tree :
            source = [during |-> tree[f].during, readable |-> tree[f].readable]
      OBVIOUS
    <3>2. source.readable = tree[f].readable
      BY <3>1
    <3> QED
      BY <2>1, <3>2
  <2> QED
    BY <2>2, <2>3
<1> HIDE DEF from, class
<1>7. /\ results' \in Seq(Result) /\ read' \in Seq(SUBSET Source) /\ Len(read') = Len(results')
      /\ ResultsAreMeasurements' /\ ReadsThisMeasurement'
  BY <1>1, <1>3, <1>4, <1>5, <1>6, Records DEF Measuring
<1> QED
  BY <1>1, <1>7, Recorded

LEMMA Continues == Inv /\ [Next]_vars => Inv'
<1> SUFFICES ASSUME Inv, [Next]_vars PROVE Inv'
  OBVIOUS
<1>1. CASE Exit
  BY <1>1, Moves DEF Exit, Inv, Types
<1>2. CASE Raise
  BY <1>2, Moves DEF Raise, files, Inv, Types
<1>3. CASE Tick
  BY <1>3, Moves DEF Tick, Inv, Types
<1>4. CASE UNCHANGED vars
  BY <1>4, Moves DEF vars, files, Inv, Types
<1> QED
  BY <1>1, <1>2, <1>3, <1>4, Prepares, ExitCodes, Documents, Lists, Projects, CommandWritesOf,
     OutlivedWritesOf DEF Next, RunGates, Terminated

LEMMA Kept == Spec => []Inv
  BY Begins, Continues, PTL DEF Spec

-----------------------------------------------------------------------------
\* What run_gates returns of a gate is what the phases expect of it, for every
\* constitution and every schedule.
THEOREM MeasurementsAreExpected == Spec => []ResultsAreMeasurements
<1>1. Inv => ResultsAreMeasurements
  BY DEF Inv
<1> QED
  BY <1>1, Kept, PTL

\* A document is read from what was written while its gate was measured, and a
\* green one from sources none of which its reader refuses, whatever outlives the
\* commands and whenever it writes.
THEOREM DocumentsAreOfThisMeasurement == Spec => []ReadsThisMeasurement
<1>1. Inv => ReadsThisMeasurement
  BY DEF Inv
<1> QED
  BY <1>1, Kept, PTL
=============================================================================
