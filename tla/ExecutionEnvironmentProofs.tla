--------------------- MODULE ExecutionEnvironmentProofs ---------------------
(***************************************************************************)
(* What an accepted run says of the toolchain it measured through, for every  *)
(* set of versions, every budget and every way the operator, the agents and   *)
(* the gates write provider files.                                            *)
(*                                                                           *)
(* The argument is about a phase.  Its candidate holds what was cloned where   *)
(* it is judged unchanged, and it held that all along where no gate wrote: so  *)
(* the gates that passed ran what the base commit pins, since nothing else was *)
(* installed for the candidate.  A phase over anything else ends the run.      *)
(***************************************************************************)
EXTENDS ExecutionEnvironment, TLAPS

Locations == {"clean", "frozen", "compared", "installing", "baseline", "measured", "cloned",
              "acting", "quick", "full", "ended"}

Endings == {"none", "unresolved", "raised", "not installed", "baseline failed", "changed",
            "rejected", "accepted"}

Declaration == [manifest : Contents, lock : Contents]

Types ==
  /\ provider \in {"pixi", "mise"} /\ commit \in Declaration
  /\ pc \in Locations /\ ending \in Endings
  /\ source \in Files /\ candidate \in Files \cup {Unset}
  /\ tools \in [source : SUBSET Versions, candidate : SUBSET Versions, shared : SUBSET Versions]
  /\ record \in [frozen : Declaration \cup {Unset}, inventory : Contents \cup {Unset},
                 digests : Files \cup {Unset}, unchanged : BOOLEAN \cup {Unset}]
  /\ passed \in BOOLEAN \cup {Unset} /\ disturbed \in BOOLEAN

Iterating == {"acting", "quick", "full"}

\* The candidate is what was cloned whenever nobody acts in it.
AsCloned == pc \in {"cloned", "acting"} => candidate = Checkout

\* What the candidate is compared with, and what was installed for it.
Pinned ==
  /\ pc \in Iterating => record.digests = Checkout
  /\ tools.candidate \subseteq {commit.lock}

\* Nothing is measured in a candidate before there is one; a phase that passed
\* measured something.
MeasuredInPhases ==
  /\ pc \notin Iterating \cup {"ended"} => measured = {}
  /\ pc \notin {"quick", "full", "ended"} => passed = Unset
  /\ passed = TRUE => measured # {}

Right == [manifest |-> commit.manifest, version |-> commit.lock, overridden |-> FALSE]

\* Over the candidate that was cloned, gates measured with what the commit pins.
MeasuredRight == pc \in Iterating /\ ~disturbed /\ candidate = Checkout => measured \subseteq {Right}

\* How runs end.
EndsAsMeasured ==
  /\ ending # "none" => pc = "ended"
  /\ record.unchanged = FALSE => pc = "ended"
  /\ MeasuredAsFrozen /\ OnlyChangesEndIt

Inv == Types /\ AsCloned /\ Pinned /\ MeasuredInPhases /\ MeasuredRight /\ EndsAsMeasured

-----------------------------------------------------------------------------
\* What a gate that passes over the candidate that was cloned runs.
LEMMA RunsWhatIsPinned ==
  ASSUME Types, Pinned, candidate = Checkout, NEW version \in Runs(candidate, "candidate")
  PROVE  /\ version = commit.lock /\ candidate.manifest = commit.manifest
         /\ Overridden(candidate) = FALSE
<1>1. CASE Shared
  BY <1>1 DEF Runs, MiseRuns, Checkout, Overridden
<1>2. CASE ~Shared
  BY <1>2 DEF Runs, PixiRuns, Pinned, Checkout, Overridden
<1> QED
  BY <1>1, <1>2

LEMMA CheckoutTyped == ASSUME Types PROVE Checkout \in Files
  BY DEF Types, Checkout, Files, Declaration

LEMMA Begins == Init => Inv
<1> SUFFICES ASSUME Init PROVE Inv
  OBVIOUS
<1>1. Types
  <2>1. provider \in {"pixi", "mise"} /\ commit \in Declaration
    BY ProvidersAssumption DEF Init, Declaration
  <2>2. pc \in Locations /\ ending \in Endings
    BY DEF Init, Locations, Endings
  <2>3. source \in Files /\ candidate \in Files \cup {Unset}
    BY <2>1 DEF Init, Files, Declaration
  <2>4. tools \in [source : SUBSET Versions, candidate : SUBSET Versions, shared : SUBSET Versions]
    BY DEF Init
  <2>5. record \in [frozen : Declaration \cup {Unset}, inventory : Contents \cup {Unset},
                    digests : Files \cup {Unset}, unchanged : BOOLEAN \cup {Unset}]
    BY DEF Init, Unread
  <2> QED
    BY <2>1, <2>2, <2>3, <2>4, <2>5 DEF Init, Types
<1>2. AsCloned /\ Pinned /\ MeasuredInPhases /\ MeasuredRight
  BY ProvidersAssumption DEF Init, AsCloned, Pinned, MeasuredInPhases, MeasuredRight, Iterating
<1>3. EndsAsMeasured
  BY ProvidersAssumption DEF Init, EndsAsMeasured, MeasuredAsFrozen, OnlyChangesEndIt, Unread
<1> QED
  BY <1>1, <1>2, <1>3 DEF Inv

\* A step towards a candidate, or to an end that accepts nothing.
LEMMA Quiet ==
  ASSUME Inv, Types', pc # "ended", pc' \notin Iterating \cup {"cloned"},
         pc \in Iterating => pc' = "ended",
         ending' # "none" => pc' = "ended", ending' # "accepted",
         commit' = commit, tools'.candidate \subseteq {commit.lock},
         record'.unchanged = record.unchanged, UNCHANGED measures
  PROVE  Inv'
<1>1. UNCHANGED <<passed, iterations, measured, disturbed>>
  BY DEF measures
<1>2. record.unchanged # FALSE
  BY DEF Inv, EndsAsMeasured
<1>3. AsCloned' /\ Pinned' /\ MeasuredRight'
  BY DEF AsCloned, Pinned, MeasuredRight, Iterating
<1>4. MeasuredInPhases'
  BY <1>1 DEF Inv, MeasuredInPhases, Iterating
<1>5. EndsAsMeasured'
  BY <1>2 DEF EndsAsMeasured, MeasuredAsFrozen, OnlyChangesEndIt
<1> QED
  BY <1>3, <1>4, <1>5 DEF Inv

LEMMA Freezes == ASSUME Inv, FreezeDeclaration PROVE Inv'
<1>1. commit \in Declaration
  BY DEF Inv, Types
<1>2. /\ pc = "clean" /\ ending = "none" /\ tools' = tools /\ commit' = commit
      /\ pc' \in {"frozen", "ended"} /\ ending' \in {"none", "unresolved"}
      /\ ending' # "none" => pc' = "ended"
  BY DEF FreezeDeclaration, Go, End, files, Inv, EndsAsMeasured
<1>3. record'.unchanged = record.unchanged /\ Types'
  BY <1>1, <1>2 DEF FreezeDeclaration, Inv, Types, files, measures, Locations, Endings
<1> QED
  BY <1>2, <1>3, Quiet DEF FreezeDeclaration, Inv, Pinned, Iterating

LEMMA Compares == ASSUME Inv, CompareLock PROVE Inv'
<1>1. /\ pc = "frozen" /\ ending = "none" /\ tools' = tools /\ commit' = commit
      /\ record' = record
      /\ pc' \in {"compared", "ended"} /\ ending' \in {"none", "unresolved", "raised"}
      /\ ending' # "none" => pc' = "ended"
  BY DEF CompareLock, Go, End, files, Inv, EndsAsMeasured
<1>2. Types'
  BY <1>1 DEF CompareLock, Inv, Types, files, measures, Locations, Endings
<1> QED
  BY <1>1, <1>2, Quiet DEF CompareLock, Inv, Pinned, Iterating

LEMMA Reads ==
  ASSUME Inv, PixiFreeze \/ MiseFreeze
  PROVE  Inv'
<1>1. /\ pc \in {"frozen", "compared"} /\ ending = "none" /\ tools' = tools /\ commit' = commit
      /\ pc' \in {"baseline", "installing", "ended"}
      /\ ending' \in {"none", "unresolved", "not installed"}
      /\ ending' # "none" => pc' = "ended"
      /\ record' = record \/ record' = [record EXCEPT !.inventory = source.lock]
      /\ UNCHANGED <<provider, commit, source, candidate, tools>> /\ UNCHANGED measures
  BY DEF PixiFreeze, MiseFreeze, Unresolved, Resolved, Go, End, files, Inv, EndsAsMeasured
<1>2. source.lock \in Contents
  BY DEF Inv, Types, Files
<1>3. record'.unchanged = record.unchanged /\ Types'
  BY <1>1, <1>2 DEF Inv, Types, measures, Locations, Endings
<1> QED
  BY <1>1, <1>3, Quiet DEF Inv, Pinned, Iterating

LEMMA BaselineMeasures == ASSUME Inv, MeasureBaseline PROVE Inv'
<1>1. /\ pc = "baseline" /\ ending = "none" /\ tools' = tools /\ commit' = commit
      /\ record' = record
      /\ pc' \in {"measured", "ended"} /\ ending' \in {"none", "baseline failed"}
      /\ ending' # "none" => pc' = "ended"
  BY DEF MeasureBaseline, Go, End, files, Inv, EndsAsMeasured
<1>2. Types'
  BY <1>1 DEF MeasureBaseline, Inv, Types, files, measures, Locations, Endings
<1> QED
  BY <1>1, <1>2, Quiet DEF MeasureBaseline, Inv, Pinned, Iterating

LEMMA Uncompared == ASSUME Inv, EndUncompared PROVE Inv'
<1>1. /\ pc \in {"quick", "full"} /\ tools' = tools /\ commit' = commit
      /\ record' = record /\ pc' = "ended" /\ ending' = "rejected"
  BY DEF EndUncompared, End, files
<1>2. Types'
  BY <1>1 DEF EndUncompared, Inv, Types, files, measures, Locations, Endings
<1> QED
  BY <1>1, <1>2, Quiet DEF EndUncompared, Inv, Pinned, Iterating

\* What an installation may leave, over a tree and in a directory of tools.
LEMMA Installs ==
  ASSUME Inv, NEW tree \in Files, NEW where \in {"shared", "candidate"}, NEW next \in {"baseline", "acting"},
         Install(tree, where, next), pc \notin Iterating \cup {"ended"}
  PROVE  /\ Types' /\ UNCHANGED <<provider, commit, source, candidate>> /\ UNCHANGED measures
         /\ record'.unchanged = record.unchanged
         /\ \/ pc' = next /\ ending' = "none" /\ record'.digests = tree
            \/ pc' = "ended" /\ ending' = "not installed"
         /\ where = "shared" => tools'.candidate = tools.candidate
         /\ where = "candidate" => tools'.candidate \subseteq tools.candidate \cup {tree.lock}
<1>1. /\ UNCHANGED <<provider, commit, source, candidate>> /\ UNCHANGED measures
      /\ ending = "none"
  BY DEF Install, Inv, EndsAsMeasured
<1>2. \/ pc' = next /\ ending' = "none" /\ record' = [record EXCEPT !.digests = tree]
      \/ pc' = "ended" /\ ending' = "not installed"
         /\ (record' = record \/ record' = [record EXCEPT !.digests = tree])
  BY <1>1 DEF Install, End, Go, Digests
<1>3. /\ tools' \in [source : SUBSET Versions, candidate : SUBSET Versions, shared : SUBSET Versions]
      /\ where = "shared" => tools'.candidate = tools.candidate
      /\ where = "candidate" => tools'.candidate \subseteq tools.candidate \cup {tree.lock}
  <2>1. CASE UNCHANGED tools
    BY <2>1 DEF Inv, Types
  <2>2. CASE ~UNCHANGED tools
    <3>1. tools' = [tools EXCEPT ![where] = @ \cup {tree.lock}] /\ tree.lock \in Versions
      BY <2>2 DEF Install, Agrees, Files, Contents
    <3>2. CASE where = "shared"
      <4>1. tools' = [tools EXCEPT !.shared = @ \cup {tree.lock}]
        BY <3>1, <3>2
      <4> QED
        BY <4>1, <3>1, <3>2 DEF Inv, Types
    <3>3. CASE where = "candidate"
      <4>1. tools' = [tools EXCEPT !.candidate = @ \cup {tree.lock}]
        BY <3>1, <3>3
      <4> QED
        BY <4>1, <3>1, <3>3 DEF Inv, Types
    <3> QED
      BY <3>2, <3>3
  <2> QED
    BY <2>1, <2>2
<1>4. record' \in [frozen : Declaration \cup {Unset}, inventory : Contents \cup {Unset},
                  digests : Files \cup {Unset}, unchanged : BOOLEAN \cup {Unset}]
      /\ record'.unchanged = record.unchanged
  BY <1>2 DEF Inv, Types
<1>5. Types'
  BY <1>1, <1>2, <1>3, <1>4 DEF Inv, Types, measures, Locations, Endings
<1>6. \/ pc' = next /\ ending' = "none" /\ record'.digests = tree
      \/ pc' = "ended" /\ ending' = "not installed"
  BY <1>2 DEF Inv, Types
<1> QED
  BY <1>1, <1>3, <1>4, <1>5, <1>6

LEMMA MiseInstalls == ASSUME Inv, MiseInstall PROVE Inv'
<1>1. source \in Files /\ pc = "installing" /\ Install(source, "shared", "baseline")
  BY DEF MiseInstall, Inv, Types
<1>2. /\ Types' /\ UNCHANGED <<provider, commit, source, candidate>> /\ UNCHANGED measures
      /\ record'.unchanged = record.unchanged
      /\ pc' \in {"baseline", "ended"} /\ ending' \in {"none", "not installed"}
      /\ ending' # "none" => pc' = "ended"
      /\ tools'.candidate = tools.candidate
  BY <1>1, Installs DEF Iterating
<1> QED
  BY <1>1, <1>2, Quiet DEF Inv, Pinned, Iterating

\* The environment of the candidate is established over what was cloned.
LEMMA Established ==
  ASSUME Inv, pc = "cloned", pc' = "acting", ending' = "none", record'.digests = Checkout,
         record'.unchanged = record.unchanged,
         Types', UNCHANGED <<commit, candidate>>, UNCHANGED measures,
         tools'.candidate \subseteq {commit.lock}
  PROVE  Inv'
<1>1. UNCHANGED <<passed, iterations, measured, disturbed>> /\ Checkout' = Checkout
  BY DEF measures, Checkout
<1>2. candidate = Checkout /\ measured = {} /\ passed = Unset
  BY DEF Inv, AsCloned, MeasuredInPhases, Iterating
<1>3. AsCloned' /\ Pinned' /\ MeasuredRight'
  BY <1>1, <1>2 DEF AsCloned, Pinned, MeasuredRight, Iterating
<1>4. MeasuredInPhases'
  BY <1>1, <1>2 DEF Inv, MeasuredInPhases, Iterating
<1>5. EndsAsMeasured'
  BY DEF Inv, EndsAsMeasured, MeasuredAsFrozen, OnlyChangesEndIt
<1> QED
  BY <1>3, <1>4, <1>5 DEF Inv

LEMMA PixiInstalls == ASSUME Inv, PixiInstall PROVE Inv'
<1>1. /\ candidate \in Files /\ pc = "cloned" /\ Install(candidate, "candidate", "acting")
      /\ candidate = Checkout
  BY CheckoutTyped DEF PixiInstall, Inv, AsCloned
<1>2. /\ Types' /\ UNCHANGED <<provider, commit, source, candidate>> /\ UNCHANGED measures
      /\ record'.unchanged = record.unchanged
      /\ \/ pc' = "acting" /\ ending' = "none" /\ record'.digests = Checkout
         \/ pc' = "ended" /\ ending' = "not installed"
      /\ tools'.candidate \subseteq tools.candidate \cup {candidate.lock}
  BY <1>1, Installs DEF Iterating
<1>3. tools'.candidate \subseteq {commit.lock}
  BY <1>1, <1>2 DEF Inv, Pinned, Checkout
<1>4. CASE pc' = "ended"
  BY <1>1, <1>2, <1>3, <1>4, Quiet DEF Iterating
<1>5. CASE pc' # "ended"
  BY <1>1, <1>2, <1>3, <1>5, Established
<1> QED
  BY <1>4, <1>5

LEMMA Prepares == ASSUME Inv, PrepareShared PROVE Inv'
<1>1. /\ pc = "cloned" /\ pc' = "acting" /\ ending = "none" /\ ending' = "none" /\ candidate = Checkout
      /\ record' = [record EXCEPT !.digests = candidate]
      /\ UNCHANGED <<provider, commit, source, candidate, tools>> /\ UNCHANGED measures
  BY DEF PrepareShared, Go, Digests, files, Inv, AsCloned, EndsAsMeasured
<1>2. candidate \in Files
  BY <1>1, CheckoutTyped DEF Inv
<1>3. record'.unchanged = record.unchanged /\ record'.digests = Checkout /\ Types'
  BY <1>1, <1>2 DEF Inv, Types, measures, Locations
<1> QED
  BY <1>1, <1>3, Established DEF Inv, Pinned

LEMMA Clones == ASSUME Inv, Clone PROVE Inv'
<1>1. /\ pc = "measured" /\ ending = "none"
      /\ UNCHANGED <<provider, commit, source, tools, record>> /\ UNCHANGED measures
      /\ \/ pc' = "cloned" /\ ending' = "none" /\ candidate' = Checkout
         \/ pc' = "ended" /\ ending' = "baseline failed" /\ candidate' = candidate
  BY DEF Clone, Go, End, Inv, EndsAsMeasured
<1>2. Types'
  BY <1>1, CheckoutTyped DEF Inv, Types, measures, Locations, Endings
<1>3. CASE pc' = "ended"
  BY <1>1, <1>2, <1>3, Quiet DEF Inv, Pinned, Iterating
<1>4. CASE pc' = "cloned"
  <2>1. UNCHANGED <<passed, iterations, measured, disturbed>> /\ Checkout' = Checkout
    BY <1>1 DEF measures, Checkout
  <2>2. AsCloned' /\ Pinned' /\ MeasuredRight'
    BY <1>1, <1>4, <2>1 DEF Inv, AsCloned, Pinned, MeasuredRight, Iterating
  <2>3. MeasuredInPhases'
    BY <1>1, <1>4, <2>1 DEF Inv, MeasuredInPhases, Iterating
  <2>4. EndsAsMeasured'
    BY <1>1, <1>4 DEF Inv, EndsAsMeasured, MeasuredAsFrozen, OnlyChangesEndIt
  <2> QED
    BY <1>2, <2>2, <2>3, <2>4 DEF Inv
<1> QED
  BY <1>1, <1>3, <1>4

\* What an agent leaves is judged by the phases it begins.
LEMMA Acts == ASSUME Inv, Act PROVE Inv'
<1>1. /\ pc = "acting" /\ ending = "none" /\ candidate = Checkout
      /\ UNCHANGED <<provider, commit, source, tools, record, passed, measured, disturbed>>
      /\ \/ pc' = "quick" /\ ending' = "none" /\ candidate' \in Writes("agent")
         \/ /\ pc' = "ended" /\ ending' = "rejected" /\ UNCHANGED <<candidate, iterations>>
  BY DEF Act, Go, End, Inv, AsCloned, EndsAsMeasured
<1>2. candidate' \in Files
  BY <1>1, CheckoutTyped DEF Inv, Writes
<1>3. Types'
  BY <1>1, <1>2 DEF Inv, Types, Locations, Endings
<1>4. CASE pc' = "ended"
  BY <1>1, <1>3, <1>4, Quiet DEF Inv, Pinned, Iterating, measures
<1>5. CASE pc' = "quick"
  <2>1. Checkout' = Checkout
    BY <1>1 DEF Checkout
  <2>2. AsCloned' /\ Pinned'
    BY <1>1, <1>5, <2>1 DEF Inv, AsCloned, Pinned, Iterating
  <2>3. MeasuredRight'
    <3>1. ~disturbed => measured \subseteq {Right}
      BY <1>1 DEF Inv, MeasuredRight, Iterating
    <3> QED
      BY <1>1, <3>1 DEF MeasuredRight, Right
  <2>4. MeasuredInPhases'
    BY <1>1, <1>5 DEF Inv, MeasuredInPhases, Iterating
  <2>5. EndsAsMeasured'
    BY <1>1, <1>5 DEF Inv, EndsAsMeasured, MeasuredAsFrozen, OnlyChangesEndIt
  <2> QED
    BY <1>3, <2>2, <2>3, <2>4, <2>5 DEF Inv
<1> QED
  BY <1>1, <1>4, <1>5

\* A gate that ran over what was cloned ran what the commit pins; one that wrote
\* provider files is remembered for it.
LEMMA Gates == ASSUME Inv, RunGate PROVE Inv'
<1>1. /\ pc \in {"quick", "full"} /\ candidate' \in Files \cup {candidate}
      /\ UNCHANGED <<provider, commit, pc, ending, source, tools, record, iterations>>
      /\ disturbed' = (disturbed \/ candidate' # candidate)
      /\ ending = "none"
  BY DEF RunGate, Writes, Inv, EndsAsMeasured
<1>2. \/ \E version \in Runs(candidate, "candidate") :
           /\ measured' = measured \cup {[manifest |-> candidate.manifest, version |-> version,
                                          overridden |-> Overridden(candidate)]}
           /\ passed' \in BOOLEAN
      \/ passed' = FALSE /\ measured' = measured
  BY DEF RunGate
<1>3. passed' \in BOOLEAN /\ (passed' = TRUE => measured' # {})
  BY <1>2
<1>4. Types'
  BY <1>1, <1>3 DEF Inv, Types
<1>5. Checkout' = Checkout /\ Right' = Right
  BY <1>1 DEF Checkout, Right
<1>6. AsCloned' /\ Pinned'
  BY <1>1, <1>5 DEF Inv, AsCloned, Pinned, Iterating
<1>7. MeasuredInPhases'
  BY <1>1, <1>3 DEF Inv, MeasuredInPhases, Iterating
<1>8. MeasuredRight'
  <2> SUFFICES ASSUME ~disturbed', candidate' = Checkout PROVE measured' \subseteq {Right}
    BY <1>5 DEF MeasuredRight
  <2>1. ~disturbed /\ candidate = Checkout
    BY <1>1
  <2>2. measured \subseteq {Right}
    BY <1>1, <2>1 DEF Inv, MeasuredRight, Iterating
  <2>3. \A version \in Runs(candidate, "candidate") :
          [manifest |-> candidate.manifest, version |-> version,
           overridden |-> Overridden(candidate)] = Right
    BY <2>1, RunsWhatIsPinned DEF Inv, Right
  <2> QED
    BY <1>2, <2>2, <2>3
<1>9. EndsAsMeasured'
  BY <1>1 DEF Inv, EndsAsMeasured, MeasuredAsFrozen, OnlyChangesEndIt
<1> QED
  BY <1>4, <1>6, <1>7, <1>8, <1>9 DEF Inv

\* A phase is judged over what was cloned, or ends the run.
LEMMA Judges == ASSUME Inv, JudgePhase PROVE Inv'
<1> DEFINE unchanged == candidate = record.digests
<1>1. /\ pc \in {"quick", "full"} /\ passed # Unset /\ ending = "none" /\ passed' = Unset
      /\ record.digests = Checkout
      /\ UNCHANGED <<provider, commit, source, candidate, tools, iterations, measured, disturbed>>
  BY DEF JudgePhase, files, Inv, EndsAsMeasured, Pinned, Iterating
<1>2. record' = [record EXCEPT !.unchanged = unchanged]
  BY DEF JudgePhase, Digests
<1>3. record'.digests = Checkout /\ record'.unchanged = unchanged
  BY <1>1, <1>2 DEF Inv, Types
<1>4. \/ candidate # Checkout /\ pc' = "ended" /\ ending' = "changed"
      \/ candidate = Checkout /\ passed = TRUE /\ pc' = "ended" /\ ending' = "accepted"
      \/ candidate = Checkout /\ pc' \in {"full", "acting"} /\ ending' = "none"
  <2>1. passed \in BOOLEAN
    BY <1>1 DEF Inv, Types
  <2> QED
    BY <1>1, <2>1 DEF JudgePhase, Digests, End, Go
<1>5. unchanged \in BOOLEAN /\ (unchanged <=> candidate = Checkout)
  BY <1>1
<1> HIDE DEF unchanged
<1>6. Types'
  BY <1>1, <1>2, <1>4, <1>5 DEF Inv, Types, Locations, Endings
<1>7. Checkout' = Checkout /\ Right' = Right
  BY <1>1 DEF Checkout, Right
<1>8. AsCloned' /\ Pinned'
  BY <1>1, <1>3, <1>4, <1>7 DEF Inv, AsCloned, Pinned, Iterating
<1>9. MeasuredInPhases'
  BY <1>1, <1>4, ProvidersAssumption DEF Inv, MeasuredInPhases, Iterating
<1>10. MeasuredRight'
  BY <1>1, <1>4, <1>7 DEF Inv, MeasuredRight, Iterating
<1>11. MeasuredAsFrozen'
  <2> SUFFICES ASSUME ending' = "accepted" PROVE MeasuredAsFrozen'
    BY DEF MeasuredAsFrozen
  <2>1. candidate = Checkout /\ passed = TRUE
    BY <1>4
  <2>2. measured # {} /\ (~disturbed => measured \subseteq {Right})
    BY <1>1, <2>1 DEF Inv, MeasuredInPhases, MeasuredRight, Iterating
  <2>3. record'.unchanged = TRUE
    BY <1>3, <1>5, <2>1
  <2> QED
    BY <1>1, <1>7, <2>1, <2>2, <2>3 DEF MeasuredAsFrozen, Right
<1>12. OnlyChangesEndIt'
  BY <1>1, <1>3, <1>4, <1>5, <1>7 DEF OnlyChangesEndIt
<1>13. EndsAsMeasured'
  BY <1>3, <1>4, <1>5, <1>11, <1>12 DEF EndsAsMeasured
<1> QED
  BY <1>6, <1>8, <1>9, <1>10, <1>13 DEF Inv

LEMMA Operates == ASSUME Inv, OperatorActs PROVE Inv'
<1>1. /\ UNCHANGED <<provider, commit, pc, ending, candidate, record>> /\ UNCHANGED measures
      /\ pc # "ended"
      /\ \/ source' \in Files /\ tools' = tools
         \/ source' = source /\ \E v \in SUBSET Versions : tools' = [tools EXCEPT !.source = v]
  BY DEF OperatorActs
<1>2. /\ tools' \in [source : SUBSET Versions, candidate : SUBSET Versions, shared : SUBSET Versions]
      /\ tools'.candidate = tools.candidate
  BY <1>1 DEF Inv, Types
<1>3. UNCHANGED <<passed, iterations, measured, disturbed>> /\ Checkout' = Checkout
  BY <1>1 DEF measures, Checkout
<1>4. Types'
  BY <1>1, <1>2, <1>3 DEF Inv, Types
<1>5. AsCloned' /\ Pinned' /\ MeasuredInPhases'
  BY <1>1, <1>2, <1>3 DEF Inv, AsCloned, Pinned, MeasuredInPhases
<1>6. MeasuredRight'
  BY <1>1, <1>3 DEF Inv, MeasuredRight, Right
<1>7. EndsAsMeasured'
  BY <1>1, <1>3 DEF Inv, EndsAsMeasured, MeasuredAsFrozen, OnlyChangesEndIt
<1> QED
  BY <1>4, <1>5, <1>6, <1>7 DEF Inv

LEMMA Continues == Inv /\ [Next]_vars => Inv'
<1> SUFFICES ASSUME Inv, [Next]_vars PROVE Inv'
  OBVIOUS
<1>1. CASE UNCHANGED vars
  <2>1. /\ UNCHANGED <<provider, commit, pc, ending, source, candidate, tools, record>>
        /\ UNCHANGED <<passed, iterations, measured, disturbed>>
    BY <1>1 DEF vars, files, measures
  <2>2. Types' /\ AsCloned' /\ Pinned' /\ MeasuredInPhases'
    BY <2>1 DEF Inv, Types, AsCloned, Pinned, MeasuredInPhases, Checkout
  <2>3. MeasuredRight' /\ EndsAsMeasured'
    BY <2>1 DEF Inv, MeasuredRight, Right, Checkout, EndsAsMeasured, MeasuredAsFrozen, OnlyChangesEndIt
  <2> QED
    BY <2>2, <2>3 DEF Inv
<1> QED
  BY <1>1, Freezes, Compares, Reads, MiseInstalls, BaselineMeasures, Clones, PixiInstalls, Prepares,
     Acts, Gates, Judges, Uncompared, Operates DEF Next, Ended

LEMMA Kept == Spec => []Inv
  BY Begins, Continues, PTL DEF Spec

-----------------------------------------------------------------------------
\* Type correctness of a run's toolchain: the provider files, the tools
\* installed and the environment block.
THEOREM EnvironmentTypes == Spec => []Types
<1>1. Inv => Types
  BY DEF Inv
<1> QED
  BY <1>1, Kept, PTL

\* An accepted run is of the candidate that was cloned.  It measured with the tools
\* the base commit pins, running the tasks it declares, whatever the operator wrote
\* in the source and agents in the candidate, unless a gate wrote provider files in
\* the candidate: put back before the phase ends, nothing shows what ran meanwhile.
THEOREM AcceptedMeasuredAsFrozen == Spec => []MeasuredAsFrozen
<1>1. Inv => MeasuredAsFrozen
  BY DEF Inv, EndsAsMeasured
<1> QED
  BY <1>1, Kept, PTL

\* A run said to have changed its environment ended for it, over a candidate that
\* is not what was cloned.
THEOREM EndedForAChange == Spec => []OnlyChangesEndIt
<1>1. Inv => OnlyChangesEndIt
  BY DEF Inv, EndsAsMeasured
<1> QED
  BY <1>1, Kept, PTL
=============================================================================
