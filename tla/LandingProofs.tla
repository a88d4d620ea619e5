---------------------------- MODULE LandingProofs ----------------------------
(***************************************************************************)
(* What `codeservo land` keeps wherever its invocations are killed: every run  *)
(* directory verifies and the findings of a run are registered once.  As long  *)
(* as no two were under way at once, what a journal says is landed is the      *)
(* measured patch on the measured commit.                                     *)
(*                                                                           *)
(* The argument is about one run, of which one invocation at most acts: past    *)
(* the point where it applies the patch, and with the journal still as the     *)
(* decision closed it.  Nothing in the code makes it so.  It is so where no two *)
(* invocations of one run overlap, or where git refuses a patch whose change is *)
(* already made; the theorems say so of one or the other (Separate), and the    *)
(* run landing_twice shows what happens without.                              *)
(***************************************************************************)
EXTENDS Landing, SequenceTheorems, TLAPS

Changes == Runs \cup {Foreign}

Locations == {"idle", "verified", "head checked", "clean", "applied", "committed", "named",
              "resumed", "recorded"} \cup Ended

\* An invocation that changed something, and has more to do.
Committing == {"committed", "named", "resumed", "recorded"}
Acting == {"applied"} \cup Committing

Held(commits) == UNION {Range(commits[i]) : i \in DOMAIN commits}
Committed == Held(history)

LandedAs(c) == [sequence |-> 3, type |-> "run.landed", decision |-> Running, commit |-> c]

Closed(r) == journal[r] = Closing(Decision[r])
Landed(r) ==
  Len(journal[r]) = 3 /\ journal[r] = Append(Closing(Decision[r]), LandedAs(journal[r][3].commit))

Types ==
  /\ pc \in [Landers -> Locations]
  /\ target \in [Landers -> Runs]
  /\ held \in [Landers -> [commit : Nat, tail : Nat]]
  /\ history \in Seq(Seq(Changes)) /\ index \in Seq(Changes)
  /\ DOMAIN journal = Runs
  /\ \A r \in Runs : Closed(r) \/ Landed(r)
  /\ register \in Seq(Runs)

\* What is being landed was accepted, and the repository holds it.
Accepted == \A l \in Landers :
  /\ pc[l] \notin {"idle"} \cup Ended => Decision[target[l]].status = "ACCEPTED"
  /\ pc[l] \in {"clean"} \cup Acting => target[l] \notin Empty

Holds ==
  /\ \A l \in Landers : pc[l] = "applied" => target[l] \in Range(index) \cup Committed
  /\ \A l \in Landers : pc[l] \in Committing => target[l] \in Committed
  /\ \A r \in Runs : Landed(r) => r \in Committed

\* No two invocations of one run were under way at once.
Parted == ~Twins \/ ~crowded

\* What keeps two invocations of one run from acting both: that they did not
\* overlap, or that git refuses the second patch.
Separate == Parted \/ ~Reapplies

\* Where no two invocations of one run overlap, the journal of a run is as the
\* decision closed it until the invocation under way appends to it.
Apart == Parted =>
  /\ \A l, m \in Active : target[l] = target[m] => l = m
  /\ \A l \in Active : pc[l] # "recorded" => Closed(target[l])

\* No two invocations act for one run.
OneActs == \A l, m \in Landers :
  pc[l] \in Acting /\ pc[m] \in Acting /\ target[l] = target[m] => l = m

\* Where the journal of the run is.
Told ==
  /\ \A l \in Landers : pc[l] \in Acting \ {"recorded"} => Closed(target[l])
  /\ \A l \in Landers : pc[l] = "resumed" => held[l].tail = 2
  /\ \A l \in Landers : pc[l] = "recorded" => Landed(target[l])
  /\ \A r \in Runs : Landed(r) => Decision[r].status = "ACCEPTED" /\ r \notin Empty

\* Where the register is.
Registered ==
  /\ \A i \in DOMAIN register : Landed(register[i])
  /\ \A i, j \in DOMAIN register : register[i] = register[j] => i = j
  /\ \A l \in Landers : pc[l] = "recorded" => \A i \in DOMAIN register : register[i] # target[l]

Inv == Types /\ Accepted /\ Holds /\ Apart /\ OneActs /\ Told /\ Registered

-----------------------------------------------------------------------------
(* Journals and their verdicts.                                              *)

LEMMA ClosingIs ==
  ASSUME NEW d
  PROVE  /\ Len(Closing(d)) = 2
         /\ Closing(d)[1] = [sequence |-> 1, type |-> "decision.recorded", decision |-> d, commit |-> 0]
         /\ Closing(d)[2] = [sequence |-> 2, type |-> "run.finished", decision |-> d, commit |-> 0]
  BY DEF Closing

\* What appending one event to a journal does.
LEMMA OneMore ==
  ASSUME NEW S, NEW c \in Seq(S), NEW e \in S
  PROVE  LET j == Append(c, e) IN
         /\ Len(j) = Len(c) + 1 /\ DOMAIN j = 1 .. (Len(c) + 1)
         /\ \A i \in 1 .. Len(c) : j[i] = c[i]
         /\ j[Len(c) + 1] = e
  OBVIOUS

LEMMA LandedIs ==
  ASSUME NEW d, NEW e
  PROVE  LET j == Append(Closing(d), e) IN
         /\ Len(j) = 3 /\ DOMAIN j = 1 .. 3
         /\ j[1] = Closing(d)[1] /\ j[2] = Closing(d)[2] /\ j[3] = e
<1> DEFINE c == Closing(d)  S == {c[1], c[2], e}
<1>1. c \in Seq(S) /\ Len(c) = 2
  BY DEF Closing
<1> HIDE DEF c
<1>2. e \in S
  OBVIOUS
<1> HIDE DEF S
<1>3. LET j == Append(c, e) IN
      /\ Len(j) = Len(c) + 1 /\ DOMAIN j = 1 .. (Len(c) + 1)
      /\ \A i \in 1 .. Len(c) : j[i] = c[i]
      /\ j[Len(c) + 1] = e
  BY <1>1, <1>2, OneMore
<1>4. Len(Append(c, e)) = 3 /\ DOMAIN Append(c, e) = 1 .. 3
  BY <1>1, <1>3
<1>5. Append(c, e)[1] = c[1] /\ Append(c, e)[2] = c[2] /\ Append(c, e)[3] = e
  BY <1>1, <1>3
<1> QED
  BY <1>4, <1>5 DEF c

\* A directory whose run closed verifies, and still does once it landed.
LEMMA Verifies ==
  ASSUME NEW r \in Runs, Closed(r) \/ (Landed(r) /\ Decision[r].status = "ACCEPTED")
  PROVE  Verdict(Evidence(r), journal[r]) = "VALID"
<1> DEFINE j == journal[r]  d == Decision[r]
<1>1. /\ Len(j) \in {2, 3} /\ DOMAIN j = 1 .. Len(j)
      /\ j[1] = [sequence |-> 1, type |-> "decision.recorded", decision |-> d, commit |-> 0]
      /\ j[2] = [sequence |-> 2, type |-> "run.finished", decision |-> d, commit |-> 0]
      /\ Len(j) = 3 => /\ j[3].sequence = 3 /\ j[3].type = "run.landed"
                       /\ d.status = "ACCEPTED"
  <2>1. CASE Closed(r)
    <3>1. j = Closing(d) /\ DOMAIN Closing(d) = 1 .. 2
      BY <2>1 DEF Closing, Closed
    <3> HIDE DEF j, d
    <3>2. /\ Len(j) = 2 /\ DOMAIN j = 1 .. 2
          /\ j[1] = [sequence |-> 1, type |-> "decision.recorded", decision |-> d, commit |-> 0]
          /\ j[2] = [sequence |-> 2, type |-> "run.finished", decision |-> d, commit |-> 0]
      BY <3>1, ClosingIs
    <3> QED
      BY <3>2
  <2>2. CASE Landed(r) /\ Decision[r].status = "ACCEPTED"
    <3>1. j = Append(Closing(d), LandedAs(j[3].commit))
      BY <2>2 DEF Landed
    <3> HIDE DEF j, d
    <3>2. LET k == Append(Closing(d), LandedAs(j[3].commit)) IN
          /\ Len(k) = 3 /\ DOMAIN k = 1 .. 3
          /\ k[1] = Closing(d)[1] /\ k[2] = Closing(d)[2] /\ k[3] = LandedAs(j[3].commit)
      BY LandedIs
    <3>3. d.status = "ACCEPTED"
      BY <2>2 DEF d
    <3> QED
      BY <3>1, <3>2, <3>3, ClosingIs DEF LandedAs
  <2> QED
    BY <2>1, <2>2
<1>2. Evidence(r).readable /\ Evidence(r).decision = d /\ Evidence(r).count = 2
  BY DEF Evidence, Written
<1>3. d.status # "RUNNING"
  BY LandingAssumption
<1> HIDE DEF j, d
<1>4. ChainHolds(j)
  BY <1>1 DEF ChainHolds
<1>5. ClosedCount(j) = 2
  <2>1. Closings(j) = {2}
    BY <1>1 DEF Closings
  <2> QED
    BY <2>1 DEF ClosedCount
<1>6. DecisionAgrees(Evidence(r), j)
  BY <1>1, <1>2, <1>5 DEF DecisionAgrees
<1>7. LandingAgrees(Evidence(r), j)
  BY <1>1, <1>2, <1>5 DEF LandingAgrees
<1> QED
  BY <1>2, <1>3, <1>4, <1>5, <1>6, <1>7 DEF Verdict, j

LEMMA NotBoth ==
  ASSUME NEW r \in Runs, Closed(r)
  PROVE  ~Landed(r) /\ Len(journal[r]) = 2
<1>1. Len(journal[r]) = 2
  <2>1. Len(Closing(Decision[r])) = 2
    BY ClosingIs
  <2> QED
    BY <2>1 DEF Closed
<1> QED
  BY <1>1 DEF Landed

\* What a sequence of changes holds once another is made.
LEMMA ChangesAdd ==
  ASSUME NEW changes \in Seq(Changes), NEW change \in Changes
  PROVE  /\ Append(changes, change) \in Seq(Changes)
         /\ Range(Append(changes, change)) = Range(changes) \cup {change}
<1> DEFINE c == Append(changes, change)
<1>1. /\ c \in Seq(Changes) /\ DOMAIN c = 1 .. (Len(changes) + 1)
      /\ c[Len(changes) + 1] = change
      /\ DOMAIN changes = 1 .. Len(changes) /\ Len(changes) \in Nat
      /\ \A i \in 1 .. Len(changes) : c[i] = changes[i]
  OBVIOUS
<1> HIDE DEF c
<1>2. Range(c) = Range(changes) \cup {change}
  BY <1>1 DEF Range
<1> QED
  BY <1>1, <1>2 DEF c

\* What the history holds once another commit is made.
LEMMA CommitsAdd ==
  ASSUME NEW commits \in Seq(Seq(Changes)), NEW more \in Seq(Changes)
  PROVE  /\ Append(commits, more) \in Seq(Seq(Changes))
         /\ Held(Append(commits, more)) = Held(commits) \cup Range(more)
<1> DEFINE h == Append(commits, more)
<1>1. /\ h \in Seq(Seq(Changes)) /\ Len(h) = Len(commits) + 1 /\ h[Len(h)] = more
      /\ \A i \in 1 .. Len(commits) : h[i] = commits[i]
  BY AppendProperties
<1>2. DOMAIN h = DOMAIN commits \cup {Len(h)} /\ DOMAIN commits = 1 .. Len(commits)
  BY <1>1
<1>3. \A i \in DOMAIN commits : h[i] = commits[i]
  BY <1>1, <1>2
<1> HIDE DEF h
<1>4. {Range(h[i]) : i \in DOMAIN h} = {Range(commits[i]) : i \in DOMAIN commits} \cup {Range(more)}
  BY <1>1, <1>2, <1>3
<1> QED
  BY <1>1, <1>4 DEF h, Held

-----------------------------------------------------------------------------
(* The invariant.                                                            *)

LEMMA Begins == Init => Inv
<1> SUFFICES ASSUME Init PROVE Inv
  OBVIOUS
<1>1. Types
  BY EmptySeq DEF Init, Types, Locations, NothingHeld, Closed
<1>2. \A r \in Runs : ~Landed(r)
  BY NotBoth DEF Init, Closed
<1>3. Accepted /\ Holds /\ Apart /\ OneActs /\ Told /\ Registered
  BY <1>2 DEF Init, Accepted, Holds, Apart, Active, OneActs, Told, Registered, Acting, Committing
<1> QED
  BY <1>1, <1>3 DEF Inv

LEMMA RegisterTyped ==
  ASSUME Types
  PROVE  \A i \in DOMAIN register : register[i] \in Runs
<1>1. register \in Seq(Runs)
  BY DEF Types
<1> QED
  BY <1>1, ElementOfSeq, LenProperties

\* A step of one invocation that leaves the journals alone: one that is under way,
\* or that begins where none of the same run is.
LEMMA ApartKept ==
  ASSUME Inv, Parted' => Parted, NEW l \in Landers, NEW x, pc' = [pc EXCEPT ![l] = x], UNCHANGED <<target, journal>>,
         pc[l] = "recorded" => x \in Ended,
         \/ l \in Active \/ x \in Ended
         \/ /\ Closed(target[l])
            /\ Parted' => \A m \in Active : target[m] # target[l]
  PROVE  Apart'
<1>1. pc'[l] = x /\ \A m \in Landers : m # l => pc'[m] = pc[m]
  BY DEF Inv, Types
<1>2. \A m \in Active' : m # l => m \in Active
  BY <1>1 DEF Active
<1>3. \A r : Closed(r)' <=> Closed(r)
  BY DEF Closed
<1>4. SUFFICES ASSUME Parted'
               PROVE  /\ \A k, m \in Active' : target[k] = target[m] => k = m
                      /\ \A m \in Active' : pc'[m] # "recorded" => Closed(target[m])
  BY <1>3 DEF Apart
<1>5. /\ \A k, m \in Active : target[k] = target[m] => k = m
      /\ \A m \in Active : pc[m] # "recorded" => Closed(target[m])
  BY <1>4 DEF Inv, Apart
<1>6. l \in Active' => x \notin Ended
  BY <1>1 DEF Active
<1>7. l \in Active' => \A m \in Active : m # l => target[m] # target[l]
  BY <1>4, <1>5, <1>6
<1>8. l \in Active' => Closed(target[l])
  BY <1>5, <1>6
<1> QED
  BY <1>1, <1>2, <1>5, <1>7, <1>8

\* A step that moves one invocation to where it has changed nothing, or to its end.
LEMMA Quiet ==
  ASSUME Inv, Parted' => Parted, NEW l \in Landers, NEW x \in {"verified", "head checked", "clean"} \cup Ended,
         pc' = [pc EXCEPT ![l] = x],
         UNCHANGED <<target, held, history, index, journal, register>>,
         x \notin Ended => Decision[target[l]].status = "ACCEPTED" /\ pc[l] # "recorded",
         x = "clean" => target[l] \notin Empty,
         \/ l \in Active \/ x \in Ended
         \/ /\ Closed(target[l])
            /\ Parted' => \A m \in Active : target[m] # target[l]
  PROVE  Inv'
<1>1. x \in Locations /\ x \notin Acting /\ pc \in [Landers -> Locations]
  BY DEF Inv, Types, Locations, Ended, Acting, Committing
<1>2. pc'[l] = x /\ \A m \in Landers : m # l => pc'[m] = pc[m]
  BY <1>1
<1>3. \A r \in Runs : (Closed(r)' <=> Closed(r)) /\ (Landed(r)' <=> Landed(r))
  BY DEF Closed, Landed
<1>4. Committed' = Committed
  BY DEF Committed, Held
<1>5. Types'
  BY <1>1, <1>3 DEF Inv, Types
<1>6. Accepted'
  BY <1>1, <1>2 DEF Inv, Accepted
<1>7. Holds'
  BY <1>1, <1>2, <1>3, <1>4 DEF Inv, Holds, Acting, Committing
<1>8. OneActs'
  BY <1>1, <1>2 DEF Inv, OneActs
<1>9. Told'
  <2>1. \A m \in Landers : pc'[m] \in Acting => pc[m] = pc'[m] /\ target[m] \in Runs
    BY <1>1, <1>2 DEF Inv, Types
  <2> QED
    BY <1>3, <2>1 DEF Inv, Told, Acting, Committing
<1>10. Registered'
  BY <1>1, <1>2, <1>3, RegisterTyped DEF Inv, Registered, Acting, Committing
<1>11. Apart'
  BY ApartKept
<1> QED
  BY <1>5, <1>6, <1>7, <1>8, <1>9, <1>10, <1>11 DEF Inv

\* git apply put the patch in the working tree: the one invocation of its run, or
\* over a repository that held it nowhere.
LEMMA Applies ==
  ASSUME Separate, Inv, Parted' => Parted, NEW l \in Landers, pc[l] = "clean",
         target[l] \in Range(index) \cup Committed => Reapplies,
         index' = Append(index, target[l]),
         pc' = [pc EXCEPT ![l] = "applied"],
         UNCHANGED <<target, held, history, journal, register>>
  PROVE  Inv'
<1>1. /\ pc'[l] = "applied" /\ \A m \in Landers : m # l => pc'[m] = pc[m]
      /\ \A m \in Landers : target[m] \in Runs
  BY DEF Inv, Types
<1>2. \A r \in Runs : (Closed(r)' <=> Closed(r)) /\ (Landed(r)' <=> Landed(r))
  BY DEF Closed, Landed
<1>3. Committed' = Committed
  BY DEF Committed, Held
<1>0. index' \in Seq(Changes) /\ Range(index') = Range(index) \cup {target[l]}
  BY <1>1, ChangesAdd DEF Inv, Types, Changes
<1>4. Types'
  BY <1>0, <1>1, <1>2 DEF Inv, Types, Locations
<1>5. Accepted'
  BY <1>1 DEF Inv, Accepted, Ended, Acting
<1>6. Holds'
  BY <1>0, <1>1, <1>2, <1>3 DEF Inv, Holds, Committing
\* Another invocation acting for the same run would overlap with this one, and
\* would have its patch in the repository.
<1>10. l \in Active /\ \A m \in Landers : pc[m] \in Acting => m \in Active /\ m # l
  BY DEF Active, Acting, Committing, Ended
<1>7. OneActs'
  <2>1. \A m \in Landers : pc[m] \in Acting => target[m] # target[l]
    <3>1. CASE Parted
      BY <1>10, <3>1 DEF Inv, Apart
    <3>2. CASE ~Reapplies
      BY <3>2 DEF Inv, Holds, Acting
    <3> QED
      BY <3>1, <3>2 DEF Separate
  <2> QED
    BY <1>1, <2>1 DEF Inv, OneActs
<1>8. Told'
  <2>1. Closed(target[l])
    <3>1. CASE Parted
      BY <1>10, <3>1 DEF Inv, Apart
    <3>2. CASE ~Reapplies
      BY <1>1, <3>2 DEF Inv, Types, Holds
    <3> QED
      BY <3>1, <3>2 DEF Separate
  <2> QED
    BY <1>1, <1>2, <2>1 DEF Inv, Told, Acting, Committing
<1>9. Registered'
  BY <1>1, <1>2, RegisterTyped DEF Inv, Registered
<1>11. Apart'
  BY <1>10, ApartKept
<1> QED
  BY <1>4, <1>5, <1>6, <1>7, <1>8, <1>9, <1>11 DEF Inv

\* git commit: what the index held is in the history from then on.
LEMMA Commits ==
  ASSUME Inv, Parted' => Parted, NEW l \in Landers, pc[l] = "applied",
         history' = Append(history, index), index' = <<>>,
         pc' = [pc EXCEPT ![l] = "committed"],
         UNCHANGED <<target, held, journal, register>>
  PROVE  Inv'
<1>1. /\ pc'[l] = "committed" /\ \A m \in Landers : m # l => pc'[m] = pc[m]
      /\ \A m \in Landers : target[m] \in Runs
  BY DEF Inv, Types
<1>2. \A r \in Runs : (Closed(r)' <=> Closed(r)) /\ (Landed(r)' <=> Landed(r))
  BY DEF Closed, Landed
<1>3. history' \in Seq(Seq(Changes)) /\ Committed' = Committed \cup Range(index)
  BY CommitsAdd DEF Inv, Types, Committed
<1>4. Types'
  BY <1>1, <1>2, <1>3, EmptySeq DEF Inv, Types, Locations
<1>5. Accepted'
  BY <1>1 DEF Inv, Accepted, Ended, Acting
<1>6. Holds'
  BY <1>1, <1>2, <1>3 DEF Inv, Holds, Committing
<1>7. OneActs'
  <2>1. \A m \in Landers : pc'[m] \in Acting <=> pc[m] \in Acting
    BY <1>1 DEF Acting, Committing
  <2> QED
    BY <2>1 DEF Inv, OneActs
<1>8. Told'
  BY <1>1, <1>2 DEF Inv, Told, Acting, Committing
<1>9. Registered'
  BY <1>1, <1>2, RegisterTyped DEF Inv, Registered
<1>10. Apart'
  BY ApartKept DEF Active, Ended
<1> QED
  BY <1>4, <1>5, <1>6, <1>7, <1>8, <1>9, <1>10 DEF Inv

\* What the operator does in between: a change made, discarded or committed.
LEMMA Operates ==
  ASSUME Inv, Parted' => Parted, OperatorActs
  PROVE  Inv'
<1>1. /\ \A m \in Landers : pc[m] \in Ended \cup {"idle"}
      /\ \A m \in Landers : pc[m] \notin Acting
  BY DEF OperatorActs, Active, Acting, Committing, Ended
<1>2. \A r \in Runs : (Closed(r)' <=> Closed(r)) /\ (Landed(r)' <=> Landed(r))
  BY DEF Closed, Landed, OperatorActs
<1>3. history' \in Seq(Seq(Changes)) /\ Committed \subseteq Committed'
  <2>1. CASE history' = Append(history, index)
    BY <2>1, CommitsAdd DEF Inv, Types, Committed
  <2>2. CASE UNCHANGED history
    BY <2>2 DEF Inv, Types, Committed, Held
  <2> QED
    BY <2>1, <2>2 DEF OperatorActs
<1>4. Types'
  <2>1. index' \in Seq(Changes)
    <3>1. index \in Seq(Changes) /\ Foreign \in Changes
      BY DEF Inv, Types, Changes
    <3>2. Append(index, Foreign) \in Seq(Changes)
      BY <3>1, ChangesAdd
    <3>3. \/ index' = Append(index, Foreign)
          \/ index' = <<>>
      BY DEF OperatorActs
    <3> QED
      BY <3>2, <3>3, EmptySeq
  <2> QED
    BY <1>2, <1>3, <2>1 DEF Inv, Types, OperatorActs
<1>5. Accepted'
  BY DEF Inv, Accepted, OperatorActs
<1>6. Holds'
  BY <1>1, <1>2, <1>3 DEF Inv, Holds, OperatorActs, Acting
<1>7. OneActs'
  BY DEF Inv, OneActs, OperatorActs
<1>8. Told'
  <2>1. \A m \in Landers : target[m] \in Runs
    BY DEF Inv, Types
  <2> QED
    BY <1>2, <2>1 DEF Inv, Told, OperatorActs
<1>9. Registered'
  BY <1>2, RegisterTyped DEF Inv, Registered, OperatorActs
<1>10. Apart'
  BY DEF OperatorActs, Active, Apart
<1> QED
  BY <1>4, <1>5, <1>6, <1>7, <1>8, <1>9, <1>10 DEF Inv

\* git rev-parse: the commit the journal will name.
LEMMA Names ==
  ASSUME Inv, Parted' => Parted, NEW l \in Landers, NameCommit(l)
  PROVE  Inv'
<1>1. /\ pc[l] = "committed" /\ pc'[l] = "named"
      /\ \A m \in Landers : m # l => pc'[m] = pc[m]
      /\ \A m \in Landers : m # l => held'[m] = held[m]
      /\ \A m \in Landers : target[m] \in Runs
      /\ UNCHANGED <<target, history, index, journal, register>>
  BY DEF Inv, Types, NameCommit, repo
<1>2. \A r \in Runs : (Closed(r)' <=> Closed(r)) /\ (Landed(r)' <=> Landed(r))
  BY <1>1 DEF Closed, Landed
<1>3. Committed' = Committed
  BY <1>1 DEF Committed, Held
<1>4. Types'
  <2>1. Len(history) \in Nat
    BY LenProperties DEF Inv, Types
  <2> QED
    BY <1>1, <1>2, <2>1 DEF Inv, Types, Locations, NameCommit
<1>5. Accepted'
  BY <1>1 DEF Inv, Accepted, Ended, Acting, Committing
<1>6. Holds'
  BY <1>1, <1>2, <1>3 DEF Inv, Holds, Committing
<1>7. OneActs'
  <2>1. \A m \in Landers : pc'[m] \in Acting <=> pc[m] \in Acting
    BY <1>1 DEF Acting, Committing
  <2> QED
    BY <1>1, <2>1 DEF Inv, OneActs
<1>8. Told'
  BY <1>1, <1>2 DEF Inv, Told, Acting, Committing
<1>9. Registered'
  BY <1>1, <1>2, RegisterTyped DEF Inv, Registered
<1>10. Apart'
  BY <1>1, ApartKept DEF NameCommit, Active, Ended
<1> QED
  BY <1>4, <1>5, <1>6, <1>7, <1>8, <1>9, <1>10 DEF Inv

\* Journal.resume: its tail is that of the journal the decision closed.
LEMMA Resumes ==
  ASSUME Inv, Parted' => Parted, NEW l \in Landers, pc[l] = "named",
         held' = [held EXCEPT ![l].tail = Len(journal[target[l]])],
         pc' = [pc EXCEPT ![l] = "resumed"],
         UNCHANGED <<target, history, index, journal, register>>
  PROVE  Inv'
<1>1. /\ pc'[l] = "resumed" /\ \A m \in Landers : m # l => pc'[m] = pc[m]
      /\ \A m \in Landers : m # l => held'[m] = held[m]
      /\ \A m \in Landers : target[m] \in Runs
      /\ held'[l].tail = Len(journal[target[l]])
  BY DEF Inv, Types
<1>2. \A r \in Runs : (Closed(r)' <=> Closed(r)) /\ (Landed(r)' <=> Landed(r))
  BY DEF Closed, Landed
<1>3. Committed' = Committed
  BY DEF Committed, Held
<1>4. Len(journal[target[l]]) = 2
  BY <1>1, NotBoth DEF Inv, Told, Acting, Committing
<1>5. Types'
  <2>1. \A n \in Nat : [held EXCEPT ![l].tail = n] \in [Landers -> [commit : Nat, tail : Nat]]
    BY DEF Inv, Types
  <2>2. held' \in [Landers -> [commit : Nat, tail : Nat]]
    BY <1>4, <2>1
  <2>3. pc' \in [Landers -> Locations]
    BY DEF Inv, Types, Locations
  <2> QED
    BY <1>2, <2>2, <2>3 DEF Inv, Types
<1>6. Accepted'
  BY <1>1 DEF Inv, Accepted, Ended, Acting, Committing
<1>7. Holds'
  BY <1>1, <1>2, <1>3 DEF Inv, Holds, Committing
<1>8. OneActs'
  <2>1. \A m \in Landers : pc'[m] \in Acting <=> pc[m] \in Acting
    BY <1>1 DEF Acting, Committing
  <2> QED
    BY <2>1 DEF Inv, OneActs
<1>9. Told'
  BY <1>1, <1>2, <1>4 DEF Inv, Told, Acting, Committing
<1>10. Registered'
  BY <1>1, <1>2, RegisterTyped DEF Inv, Registered
<1>11. Apart'
  BY ApartKept DEF Active, Ended
<1> QED
  BY <1>5, <1>6, <1>7, <1>8, <1>9, <1>10, <1>11 DEF Inv

\* Journal.append: the event after the tail resumed, in this run's journal only.
LEMMA Records ==
  ASSUME Inv, Parted' => Parted, NEW l \in Landers, RecordLanding(l)
  PROVE  Inv'
<1>0. PICK run \in Runs : run = target[l]
  BY DEF Inv, Types
<1>1. /\ pc[l] = "resumed" /\ pc'[l] = "recorded"
      /\ \A m \in Landers : m # l => pc'[m] = pc[m]
      /\ \A m \in Landers : target[m] \in Runs
      /\ UNCHANGED <<target, held, history, index, register>>
  BY DEF Inv, Types, RecordLanding, repo
<1>2. Closed(run) /\ held[l].tail = 2
  BY <1>0, <1>1 DEF Inv, Told, Acting, Committing
<1>3. journal' = [journal EXCEPT ![run] = Append(@, LandedAs(held[l].commit))]
  BY <1>0, <1>2 DEF RecordLanding, NextSequence, LandedAs
<1>4. /\ DOMAIN journal' = Runs /\ journal'[run] = Append(Closing(Decision[run]), LandedAs(held[l].commit))
      /\ \A r \in Runs : r # run => journal'[r] = journal[r]
  BY <1>1, <1>2, <1>3 DEF Inv, Types, Closed
<1>5. Landed(run)' /\ ~Closed(run)'
  <2> DEFINE d == Decision[run]  e == LandedAs(held[l].commit)
  <2> HIDE DEF d, e
  <2>0. Len(Append(Closing(d), e)) = 3 /\ Append(Closing(d), e)[3] = e
    BY LandedIs
  <2>1. /\ Len(journal'[run]) = 3 /\ journal'[run][3] = LandedAs(held[l].commit)
    BY <1>4, <2>0 DEF d, e
  <2>2. journal'[run][3].commit = held[l].commit
    BY <2>1 DEF LandedAs
  <2>3. Len(Closing(Decision[run])) = 2
    BY ClosingIs
  <2> QED
    BY <1>1, <1>4, <2>1, <2>2, <2>3 DEF Landed, Closed
<1>6. \A r \in Runs : r # run => (Closed(r)' <=> Closed(r)) /\ (Landed(r)' <=> Landed(r))
  BY <1>4 DEF Closed, Landed
<1>7. /\ run \in Committed /\ Decision[run].status = "ACCEPTED" /\ run \notin Empty
      /\ Committed' = Committed
  BY <1>0, <1>1 DEF Inv, Holds, Accepted, Acting, Committing, Ended, Committed, Held
<1>8. \A m \in Landers : m # l /\ pc[m] \in Acting => target[m] # run
  BY <1>0, <1>1 DEF Inv, OneActs, Acting, Committing
<1>9. Types'
  <2>1. pc' \in [Landers -> Locations]
    BY DEF Inv, Types, Locations, RecordLanding
  <2>2. \A r \in Runs : Closed(r)' \/ Landed(r)'
    BY <1>5, <1>6 DEF Inv, Types
  <2> QED
    BY <1>1, <1>4, <2>1, <2>2 DEF Inv, Types
<1>10. Accepted'
  BY <1>1 DEF Inv, Accepted, Ended, Acting, Committing
<1>11. Holds'
  BY <1>0, <1>1, <1>6, <1>7 DEF Inv, Holds, Committing
<1>12. OneActs'
  <2>1. \A m \in Landers : pc'[m] \in Acting <=> pc[m] \in Acting
    BY <1>1 DEF Acting, Committing
  <2> QED
    BY <1>1, <2>1 DEF Inv, OneActs
<1>13. Told'
  <2>1. \A m \in Landers : m # l => pc'[m] = pc[m] /\ target[m] \in Runs
    BY <1>1
  <2>3. \A m \in Landers : pc'[m] \in Acting \ {"recorded"} => Closed(target[m])'
    BY <1>1, <1>6, <1>8, <2>1 DEF Inv, Told, Acting, Committing
  <2>4. \A m \in Landers : pc'[m] = "resumed" => held[m].tail = 2
    BY <1>1 DEF Inv, Told
  <2>5. \A m \in Landers : pc'[m] = "recorded" => Landed(target[m])'
    BY <1>1, <1>5, <1>6, <2>1, <1>0 DEF Inv, Told
  <2>6. \A r \in Runs : Landed(r)' => Decision[r].status = "ACCEPTED" /\ r \notin Empty
    BY <1>6, <1>7 DEF Inv, Told
  <2> QED
    BY <1>1, <2>3, <2>4, <2>5, <2>6 DEF Told
<1>14. Registered'
  <2>1. \A i \in DOMAIN register : register[i] # run
    BY <1>0, <1>2, NotBoth, RegisterTyped DEF Inv, Registered
  <2> QED
    BY <1>0, <1>1, <1>6, <2>1, RegisterTyped DEF Inv, Registered
\* Another invocation under way is of another run, whose journal is as it was.
<1>15. Apart'
  <2>1. l \in Active /\ Active' = Active
    BY <1>1 DEF Active, Ended
  <2>2. \A m \in Landers : m # l => pc'[m] = pc[m] /\ target[m] \in Runs
    BY <1>1
  <2>3. Active \subseteq Landers
    BY DEF Active
  <2> QED
    BY <1>0, <1>1, <1>6, <2>1, <2>2, <2>3 DEF Inv, Apart
<1> QED
  BY <1>9, <1>10, <1>11, <1>12, <1>13, <1>14, <1>15 DEF Inv

\* The register gains a line for a run it did not name.
LEMMA Registers ==
  ASSUME Inv, Parted' => Parted, NEW l \in Landers, Register(l)
  PROVE  Inv'
<1> DEFINE run == target[l]
<1>1. /\ pc[l] = "recorded" /\ pc'[l] = "landed"
      /\ \A m \in Landers : m # l => pc'[m] = pc[m]
      /\ \A m \in Landers : target[m] \in Runs
      /\ UNCHANGED <<target, held, history, index, journal>>
      /\ register' = Append(register, run)
  BY DEF Inv, Types, Register, repo
<1>2. \A r \in Runs : (Closed(r)' <=> Closed(r)) /\ (Landed(r)' <=> Landed(r))
  BY <1>1 DEF Closed, Landed
<1>3. Committed' = Committed
  BY <1>1 DEF Committed, Held
<1>4. Landed(run) /\ \A i \in DOMAIN register : register[i] # run
  BY <1>1 DEF Inv, Told, Registered
<1>5. /\ register' \in Seq(Runs)
      /\ DOMAIN register' = DOMAIN register \cup {Len(register) + 1}
      /\ register'[Len(register) + 1] = run
      /\ \A i \in DOMAIN register : register'[i] = register[i]
  <2>1. register \in Seq(Runs) /\ run \in Runs
    BY <1>1 DEF Inv, Types
  <2> QED
    BY <1>1, <2>1, AppendProperties, LenProperties
<1>6. \A m \in Landers : pc'[m] \in Acting => pc[m] = pc'[m] /\ m # l
  BY <1>1 DEF Acting, Committing
<1>7. \A m \in Landers : pc'[m] \in Acting => target[m] # run
  BY <1>1, <1>6 DEF Inv, OneActs, Acting, Committing
<1> HIDE DEF run
<1>8. Types'
  BY <1>1, <1>2, <1>5 DEF Inv, Types, Locations, Ended, Register
<1>9. Accepted'
  BY <1>1, <1>6 DEF Inv, Accepted, Ended
<1>10. Holds'
  BY <1>1, <1>2, <1>3 DEF Inv, Holds, Committing
<1>11. OneActs'
  BY <1>1, <1>6 DEF Inv, OneActs
<1>12. Told'
  BY <1>1, <1>2 DEF Inv, Told, Acting, Committing
<1>13. Registered'
  <2>1. \A i \in DOMAIN register' : register'[i] \in Runs /\ Landed(register'[i])
    BY <1>1, <1>4, <1>5, RegisterTyped DEF Inv, Registered, run
  <2>2. \A i, j \in DOMAIN register' : register'[i] = register'[j] => i = j
    BY <1>4, <1>5 DEF Inv, Registered
  <2>3. \A m \in Landers : pc'[m] = "recorded" =>
          \A i \in DOMAIN register' : register'[i] # target[m]
    BY <1>1, <1>5, <1>6, <1>7 DEF Inv, Registered, Acting, Committing
  <2> QED
    BY <1>1, <1>2, <2>1, <2>2, <2>3 DEF Registered
<1>14. Apart'
  BY <1>1, ApartKept DEF Register, Ended
<1> QED
  BY <1>8, <1>9, <1>10, <1>11, <1>12, <1>13, <1>14 DEF Inv

LEMMA PartedBefore ==
  ASSUME [Next]_vars
  PROVE  /\ ~crowded' => ~crowded
         /\ Parted' => Parted
         /\ Separate' => Separate
<1>1. ~crowded' => ~crowded
  BY DEF Next, vars
<1> QED
  BY <1>1 DEF Parted, Separate

\* An invocation that is not refused at once, where no two were under way at once.
LEMMA BeginsAlone ==
  ASSUME Inv, NEW l \in Landers, pc[l] = "idle", pc' = [pc EXCEPT ![l] = "verified"],
         \A k, m \in Active' : k = m
  PROVE  Active = {}
<1>1. pc'[l] = "verified" /\ \A m \in Landers : m # l => pc'[m] = pc[m]
  BY DEF Inv, Types
<1> QED
  BY <1>1 DEF Active, Ended

LEMMA Continues ==
  ASSUME Separate, Inv, [Next]_vars
  PROVE  Inv'
<1>0. Parted' => Parted
  BY PartedBefore
<1> USE <1>0
<1>1. CASE OperatorActs
  BY <1>1, Operates
\* One that begins finds its run closed, and no other of the same run under way.
<1>2. ASSUME NEW l \in Landers, Verify(l) PROVE Inv'
  <2>1. pc' = [pc EXCEPT ![l] = "verified"] /\ Parted' =>
          \A m \in Active : target[m] # target[l]
    <3>1. CASE ~Twins
      BY <1>2, <3>1 DEF Verify, MayStart
    <3>2. CASE ~crowded' /\ pc' = [pc EXCEPT ![l] = "verified"]
      <4>1. CASE UNCHANGED vars
        BY <1>2, <3>2, <4>1 DEF Verify, Inv, Types, vars
      <4>2. CASE Next
        <5>1. \A k, m \in Active' : k = m
          BY <3>2, <4>2 DEF Next
        <5> QED
          BY <1>2, <3>2, <5>1, BeginsAlone DEF Verify
      <4> QED
        BY <4>1, <4>2
    <3> QED
      BY <3>1, <3>2 DEF Parted
  <2>2. Landable(target[l]) => Closed(target[l]) /\ Decision[target[l]].status = "ACCEPTED"
    <3>1. Closed(target[l]) \/ Landed(target[l])
      BY DEF Inv, Types
    <3>2. Landed(target[l]) => Len(journal[target[l]]) = 3
      BY DEF Landed
    <3> QED
      BY <3>1, <3>2 DEF Landable
  <2> QED
    BY <1>2, <2>1, <2>2, Quiet DEF Verify, Refuse, repo, Ended
<1>3. ASSUME NEW l \in Landers, CheckHead(l) \/ CheckClean(l) \/ Kill(l) PROVE Inv'
  <2>1. l \in Active
    BY <1>3 DEF CheckHead, CheckClean, Kill, Active, Ended
  <2>2. CASE CheckHead(l)
    BY <2>1, <2>2, Quiet DEF CheckHead, Refuse, repo, Ended, Inv, Accepted
  <2>3. CASE CheckClean(l)
    BY <2>1, <2>3, Quiet DEF CheckClean, Refuse, repo, Ended, Inv, Accepted
  <2>4. CASE Kill(l)
    BY <2>1, <2>4, Quiet DEF Kill, repo, Ended
  <2> QED
    BY <1>3, <2>2, <2>3, <2>4
<1>4. ASSUME NEW l \in Landers, Apply(l) PROVE Inv'
  <2>1. CASE Refuse(l) /\ UNCHANGED <<history, index>>
    BY <2>1, Quiet DEF Refuse, Ended
  <2>2. CASE ~(Refuse(l) /\ UNCHANGED <<history, index>>)
    <3>1. Present(target[l]) <=> target[l] \in Range(index) \cup Committed
      BY DEF Present, Committed, Held
    <3> QED
      BY <1>4, <2>2, <3>1, Applies DEF Apply
  <2> QED
    BY <2>1, <2>2
<1>5. ASSUME NEW l \in Landers, Commit(l) PROVE Inv'
  BY <1>5, Quiet, Commits DEF Commit, Refuse, repo, Ended
<1>6. ASSUME NEW l \in Landers, NameCommit(l) PROVE Inv'
  BY <1>6, Names
<1>7. ASSUME NEW l \in Landers, Resume(l) PROVE Inv'
  <2>1. CASE Refuse(l)
    BY <1>7, <2>1, Quiet DEF Resume, Refuse, repo, Ended
  <2>2. CASE ~Refuse(l)
    BY <1>7, <2>2, Resumes DEF Resume, repo
  <2> QED
    BY <2>1, <2>2
<1>8. ASSUME NEW l \in Landers, RecordLanding(l) PROVE Inv'
  BY <1>8, Records
<1>9. ASSUME NEW l \in Landers, Register(l) PROVE Inv'
  BY <1>9, Registers
<1>10. CASE UNCHANGED vars
  <2>1. UNCHANGED <<pc, target, held, history, index, journal, register>>
    BY <1>10 DEF vars
  <2>2. \A r \in Runs : (Closed(r)' <=> Closed(r)) /\ (Landed(r)' <=> Landed(r))
    BY <2>1 DEF Closed, Landed
  <2>3. Types' /\ Accepted' /\ OneActs'
    BY <2>1, <2>2 DEF Inv, Types, Accepted, OneActs
  <2>4. Holds'
    BY <2>1, <2>2 DEF Inv, Holds, Committed, Held
  <2>5. Told' /\ Registered'
    BY <2>1, <2>2, RegisterTyped DEF Inv, Types, Told, Registered
  <2>6. Apart'
    BY <2>1 DEF Inv, Apart, Active, Closed
  <2> QED
    BY <2>3, <2>4, <2>5, <2>6 DEF Inv
<1> QED
  BY <1>1, <1>2, <1>3, <1>4, <1>5, <1>6, <1>7, <1>8, <1>9, <1>10 DEF Next, Land

LEMMA Kept == Spec => [](Separate => Inv)
<1>1. Init => (Separate => Inv)
  BY Begins
<1>2. (Separate => Inv) /\ [Next]_vars => (Separate => Inv)'
  BY Continues, PartedBefore
<1> QED
  BY <1>1, <1>2, PTL DEF Spec

-----------------------------------------------------------------------------
\* Wherever invocations of `codeservo land` are killed, and however those of
\* different runs overlap, every decided run directory verifies.  Two of one run
\* may overlap only where git refuses a patch whose change is already made.
THEOREM NoLandingSpoilsARun == Spec => [](Separate => LandingVerifies)
<1>1. Inv => LandingVerifies
  BY Verifies DEF Inv, Types, Told, LandingVerifies
<1> QED
  BY <1>1, Kept, PTL

\* Under the same condition, the findings of a run are registered once at most,
\* and only once its journal says it landed.
THEOREM FindingsRegisteredOnce == Spec => [](Separate => RegisteredOnce)
<1>1. ASSUME NEW r \in Runs, Landed(r) PROVE Landings(r) # {}
  <2> DEFINE d == Decision[r]  e == LandedAs(journal[r][3].commit)  k == Append(Closing(d), e)
  <2>1. journal[r] = k
    BY <1>1 DEF Landed
  <2>2. e.type = "run.landed"
    BY DEF LandedAs
  <2>3. DOMAIN k = 1 .. 3 /\ k[3] = e
    <3> HIDE DEF d, e
    <3> QED
      BY LandedIs
  <2> HIDE DEF e, k
  <2>4. 3 \in DOMAIN journal[r] /\ journal[r][3].type = "run.landed"
    BY <2>1, <2>2, <2>3
  <2> QED
    BY <2>4 DEF Landings
<1>2. Inv => RegisteredOnce
  BY <1>1, RegisterTyped DEF Inv, Registered, RegisteredOnce
<1> QED
  BY <1>2, Kept, PTL

-----------------------------------------------------------------------------
(* One invocation at a time.                                                 *)

Only(r) == Len(history) = 1 /\ history[1] = <<r>>

\* Where the repository is while one invocation acts, and where it was left.
Solo ==
  /\ \A l, m \in Active : l = m
  /\ \A l \in Landers : pc[l] \in {"head checked", "clean", "applied"} => Len(history) = 0
  /\ \A l \in Landers : pc[l] = "clean" => index = <<>>
  /\ \A l \in Landers : pc[l] = "applied" => index = <<target[l]>>
  /\ \A l \in Landers : pc[l] \in Committing => Only(target[l])
  /\ \A l \in Landers : pc[l] \in {"named", "resumed"} => held[l].commit = 1
  /\ \A r \in Runs : Landed(r) => /\ journal[r][3].commit = 1
                                 /\ Len(history) > 0 /\ history[1] = <<r>>

LEMMA SoloBegins == Init => Solo
<1> SUFFICES ASSUME Init PROVE Solo
  OBVIOUS
<1>1. \A r \in Runs : ~Landed(r)
  BY NotBoth DEF Init, Closed
<1> QED
  BY <1>1 DEF Init, Solo, Active, Committing

\* The step of one invocation, the others having ended or not begun: what it
\* is to show of itself, and of the journals.
LEMMA SoloStep ==
  ASSUME Inv, Solo, NEW l \in Landers,
         pc[l] = "idle" => Active = {},
         pc[l] \notin Ended,
         \A m \in Landers : m # l => pc'[m] = pc[m],
         target' = target,
         pc'[l] \in {"head checked", "clean", "applied"} => Len(history') = 0,
         pc'[l] = "clean" => index' = <<>>,
         pc'[l] = "applied" => index' = <<target[l]>>,
         pc'[l] \in Committing => Only(target[l])',
         pc'[l] \in {"named", "resumed"} => held'[l].commit = 1,
         \A r \in Runs : Landed(r)' => /\ journal'[r][3].commit = 1
                                       /\ Len(history') > 0 /\ history'[1] = <<r>>
  PROVE  Solo'
<1>1. \A m \in Landers : m # l => pc[m] \in Ended \cup {"idle"}
  BY DEF Solo, Active
<1>2. \A m \in Landers : m # l => pc'[m] \in Ended \cup {"idle"}
  BY <1>1
<1>3. \A m, n \in Active' : m = n
  BY <1>2 DEF Active, Ended
<1> QED
  BY <1>2, <1>3 DEF Solo, Committing, Ended, Only

\* A step that touches neither the history nor a journal.
LEMMA SoloKept ==
  ASSUME Inv, Solo, NEW l \in Landers,
         pc[l] = "idle" => Active = {},
         pc[l] \notin Ended,
         NEW x, pc' = [pc EXCEPT ![l] = x],
         UNCHANGED <<target, history, journal>>,
         x \in {"head checked", "clean", "applied"} => Len(history) = 0,
         x = "clean" => index' = <<>>,
         x = "applied" => index' = <<target[l]>>,
         x \in Committing => Only(target[l]),
         x \in {"named", "resumed"} => held'[l].commit = 1
  PROVE  Solo'
<1>1. pc'[l] = x /\ \A m \in Landers : m # l => pc'[m] = pc[m]
  BY DEF Inv, Types
<1>2. \A r \in Runs : Landed(r)' => /\ journal'[r][3].commit = 1
                                     /\ Len(history') > 0 /\ history'[1] = <<r>>
  BY DEF Solo, Landed
<1>3. x \in Committing => Only(target[l])'
  BY DEF Only
<1> QED
  BY <1>1, <1>2, <1>3, SoloStep

\* What is in the history stays there.
LEMMA FirstStays ==
  ASSUME NEW commits \in Seq(Seq(Changes)), NEW more \in Seq(Changes)
  PROVE  /\ Len(Append(commits, more)) = Len(commits) + 1
         /\ Len(commits) > 0 => Append(commits, more)[1] = commits[1]
         /\ Len(commits) = 0 => Append(commits, more)[1] = more
<1>1. Len(commits) \in Nat
  BY LenProperties
<1> QED
  BY <1>1, AppendProperties

LEMMA SoloContinues ==
  ASSUME Inv, Solo, [Next]_vars, \A k, m \in Active' : k = m
  PROVE  Solo'
<1>0. history \in Seq(Seq(Changes)) /\ index \in Seq(Changes) /\ Len(history) \in Nat
  BY LenProperties DEF Inv, Types
<1>1. CASE OperatorActs
  <2>1. \A m \in Landers : pc[m] \in Ended \cup {"idle"}
    BY <1>1 DEF OperatorActs, Active
  <2>2. /\ UNCHANGED <<pc, target, held, journal>>
        /\ Len(history) > 0 => Len(history') > 0 /\ history'[1] = history[1]
    <3>1. /\ Len(Append(history, index)) = Len(history) + 1
          /\ Len(history) > 0 => Append(history, index)[1] = history[1]
      BY <1>0, FirstStays
    <3>2. history' = Append(history, index) \/ history' = history
      BY <1>1 DEF OperatorActs
    <3>3. Len(history) > 0 => Len(history') > 0 /\ history'[1] = history[1]
      <4>1. CASE history' = Append(history, index)
        <5>1. Len(history') = Len(history) + 1
          BY <3>1, <4>1
        <5>2. Len(history) > 0 => history'[1] = history[1]
          BY <3>1, <4>1
        <5> QED
          BY <1>0, <5>1, <5>2
      <4> QED
        BY <3>2, <4>1
    <3> QED
      BY <1>1, <3>3 DEF OperatorActs
  <2>3. Active' = {}
    BY <2>1, <2>2 DEF Active
  <2>4. \A r \in Runs : Landed(r)' => /\ journal'[r][3].commit = 1
                                       /\ Len(history') > 0 /\ history'[1] = <<r>>
    BY <2>2 DEF Solo, Landed
  <2> QED
    BY <2>1, <2>2, <2>3, <2>4 DEF Solo, Committing, Ended
\* One that is refused at once may have been started beside another.
<1>2. ASSUME NEW l \in Landers, Verify(l) PROVE Solo'
  <2>1. /\ pc[l] = "idle" /\ UNCHANGED <<target, held, history, index, journal>>
        /\ pc \in [Landers -> Locations]
    BY <1>2 DEF Verify, Refuse, repo, Inv, Types
  <2>2. CASE pc' = [pc EXCEPT ![l] = "refused"]
    <3>1. pc'[l] = "refused" /\ \A m \in Landers : m # l => pc'[m] = pc[m]
      BY <2>1, <2>2
    <3> QED
      BY <2>1, <3>1 DEF Solo, Active, Committing, Ended, Only, Landed
  <2>3. CASE pc' = [pc EXCEPT ![l] = "verified"]
    <3>1. Active = {}
      BY <2>1, <2>3, BeginsAlone
    <3> QED
      BY <2>1, <2>3, <3>1, SoloKept DEF Committing, Ended
  <2> QED
    BY <1>2, <2>2, <2>3 DEF Verify, Refuse
<1>3. ASSUME NEW l \in Landers, CheckHead(l) PROVE Solo'
  BY <1>3, SoloKept DEF CheckHead, Refuse, repo, Committing, Ended
<1>4. ASSUME NEW l \in Landers, CheckClean(l) PROVE Solo'
  <2>1. Len(history) = 0
    BY <1>4 DEF CheckClean, Solo
  <2> QED
    BY <1>4, <2>1, SoloKept DEF CheckClean, Refuse, repo, Committing, Ended
<1>5. ASSUME NEW l \in Landers, Apply(l) PROVE Solo'
  <2>1. Len(history) = 0 /\ index = <<>> /\ pc[l] = "clean" /\ UNCHANGED <<target, history, journal>>
    BY <1>5 DEF Apply, Solo, Refuse
  <2>2. CASE pc' = [pc EXCEPT ![l] = "refused"]
    BY <2>1, <2>2, SoloKept DEF Committing, Ended
  <2>3. CASE index' = Append(index, target[l]) /\ pc' = [pc EXCEPT ![l] = "applied"]
    <3>1. index' = <<target[l]>>
      BY <2>1, <2>3
    <3> QED
      BY <2>1, <2>3, <3>1, SoloKept DEF Committing, Ended
  <2> QED
    BY <1>5, <2>2, <2>3 DEF Apply, Refuse
\* The index holds the patch and nothing else, over no other commit.
<1>6. ASSUME NEW l \in Landers, Commit(l) PROVE Solo'
  <2>1. Len(history) = 0 /\ index = <<target[l]>> /\ pc[l] = "applied"
    BY <1>6 DEF Commit, Solo
  <2>2. CASE Refuse(l) /\ UNCHANGED repo
    BY <2>1, <2>2, SoloKept DEF Refuse, repo, Committing, Ended
  <2>3. CASE ~(Refuse(l) /\ UNCHANGED repo)
    <3>1. /\ history' = Append(history, index) /\ pc' = [pc EXCEPT ![l] = "committed"]
          /\ UNCHANGED <<target, held, journal>>
      BY <1>6, <2>3 DEF Commit
    <3>2. Len(history') = 1 /\ history'[1] = <<target[l]>>
      BY <1>0, <2>1, <3>1, FirstStays
    <3>3. Only(target[l])'
      BY <3>1, <3>2 DEF Only
    <3>4. \A r \in Runs : ~Landed(r)'
      BY <2>1, <3>1 DEF Solo, Landed
    <3>5. pc'[l] = "committed" /\ \A m \in Landers : m # l => pc'[m] = pc[m]
      BY <3>1 DEF Inv, Types
    <3> QED
      BY <2>1, <3>1, <3>3, <3>4, <3>5, SoloStep DEF Committing, Ended
  <2> QED
    BY <2>2, <2>3
<1>7. ASSUME NEW l \in Landers, NameCommit(l) PROVE Solo'
  <2>1. Only(target[l]) /\ pc[l] = "committed"
    BY <1>7 DEF NameCommit, Solo, Committing
  <2>2. held'[l].commit = 1
    BY <1>7, <2>1 DEF NameCommit, Only, Inv, Types
  <2> QED
    BY <1>7, <2>1, <2>2, SoloKept DEF NameCommit, repo, Committing, Ended
<1>8. ASSUME NEW l \in Landers, Resume(l) PROVE Solo'
  <2>1. Only(target[l]) /\ pc[l] = "named" /\ held[l].commit = 1
    BY <1>8 DEF Resume, Solo, Committing
  <2>2. CASE Refuse(l)
    BY <1>8, <2>1, <2>2, SoloKept DEF Resume, Refuse, repo, Committing, Ended
  <2>3. CASE ~Refuse(l)
    <3>1. held' = [held EXCEPT ![l].tail = Len(journal[target[l]])]
      BY <1>8, <2>3 DEF Resume
    <3>2. held'[l].commit = 1
      BY <2>1, <3>1 DEF Inv, Types
    <3> QED
      BY <1>8, <2>1, <2>3, <3>2, SoloKept DEF Resume, repo, Committing, Ended
  <2> QED
    BY <2>2, <2>3
<1>9. ASSUME NEW l \in Landers, RecordLanding(l) PROVE Solo'
  <2>0. PICK run \in Runs : run = target[l]
    BY <1>9 DEF Inv, Types
  <2>1. /\ pc[l] = "resumed" /\ held[l].commit = 1 /\ Only(run)
        /\ UNCHANGED <<target, history>>
    BY <1>9, <2>0 DEF RecordLanding, Solo, Committing, repo
  <2>2. Closed(run) /\ held[l].tail = 2
    BY <2>0, <2>1 DEF Inv, Told, Acting, Committing
  <2>3. /\ journal'[run] = Append(Closing(Decision[run]), LandedAs(1))
        /\ \A r \in Runs : r # run => journal'[r] = journal[r]
    BY <1>9, <2>0, <2>1, <2>2 DEF RecordLanding, NextSequence, LandedAs, Inv, Types, Closed
  <2>4. journal'[run][3].commit = 1
    <3> DEFINE d == Decision[run]  e == LandedAs(1)
    <3>1. e.commit = 1
      BY DEF LandedAs
    <3> HIDE DEF d, e
    <3>2. Append(Closing(d), e)[3] = e
      BY LandedIs
    <3> QED
      BY <2>3, <3>1, <3>2 DEF d, e
  <2>5. \A r \in Runs : Landed(r)' => /\ journal'[r][3].commit = 1
                                       /\ Len(history') > 0 /\ history'[1] = <<r>>
    <3>1. ASSUME NEW r \in Runs, r # run, Landed(r)' PROVE Landed(r) /\ journal'[r] = journal[r]
      BY <2>3, <3>1 DEF Landed
    <3>2. /\ \A r \in Runs : Landed(r) =>
               journal[r][3].commit = 1 /\ Len(history) > 0 /\ history[1] = <<r>>
          /\ Len(history) = 1 /\ history[1] = <<run>> /\ history' = history
      BY <2>1 DEF Solo, Only
    <3>3. ASSUME NEW r \in Runs, Landed(r)'
          PROVE  journal'[r][3].commit = 1 /\ Len(history') > 0 /\ history'[1] = <<r>>
      <4>1. CASE r = run
        <5>1. Len(history') = 1 /\ history'[1] = <<run>>
          BY <3>2
        <5>2. journal'[r][3].commit = 1
          BY <2>4, <4>1
        <5>3. Len(history') > 0
          BY <5>1
        <5>4. history'[1] = <<r>>
          BY <5>1, <4>1
        <5> QED
          BY <5>2, <5>3, <5>4
      <4>2. CASE r # run
        BY <3>1, <3>2, <3>3, <4>2
      <4> QED
        BY <4>1, <4>2
    <3> QED
      BY <3>3
  <2>6. pc'[l] = "recorded" /\ \A m \in Landers : m # l => pc'[m] = pc[m]
    BY <1>9 DEF RecordLanding, Inv, Types
  <2>7. Only(target[l])'
    BY <2>0, <2>1 DEF Only
  <2> QED
    BY <2>1, <2>5, <2>6, <2>7, SoloStep DEF Ended
<1>10. ASSUME NEW l \in Landers, Register(l) PROVE Solo'
  BY <1>10, SoloKept DEF Register, repo, Committing, Ended
<1>11. ASSUME NEW l \in Landers, Kill(l) PROVE Solo'
  BY <1>11, SoloKept DEF Kill, Active, repo, Committing, Ended
<1>12. CASE UNCHANGED vars
  BY <1>12 DEF vars, Solo, Active, Only, Landed
<1> QED
  BY <1>1, <1>2, <1>3, <1>4, <1>5, <1>6, <1>7, <1>8, <1>9, <1>10, <1>11, <1>12 DEF Next, Land

\* While no two invocations were ever under way at once.
SoFar == ~crowded => Solo

\* As long as no two invocations were under way at once, the commit a run is said
\* to have landed as is the first after the one it measured, holds its patch once
\* and nothing else, and the run was accepted, wherever an invocation is killed.
THEOREM LandsTheMeasuredPatch == Spec => []LandedAloneAsMeasured
<1>1. ASSUME Inv, Solo PROVE LandedAsMeasured
  <2> SUFFICES ASSUME NEW r \in Runs, NEW i \in Landings(r)
               PROVE  /\ journal[r][i].commit = 1 /\ history # <<>> /\ history[1] = <<r>>
                      /\ Decision[r].status = "ACCEPTED" /\ r \notin Empty
    BY DEF LandedAsMeasured
  <2>1. i \in DOMAIN journal[r] /\ journal[r][i].type = "run.landed"
    BY DEF Landings
  <2>2. Landed(r)
    <3>1. CASE Closed(r)
      BY <2>1, <3>1 DEF Closed, Closing
    <3> QED
      BY <3>1, <1>1 DEF Inv, Types
  <2>3. i = 3
    <3> DEFINE d == Decision[r]  e == LandedAs(journal[r][3].commit)  k == Append(Closing(d), e)
    <3>1. journal[r] = k
      BY <2>2 DEF Landed
    <3> HIDE DEF d, e
    <3>2. DOMAIN k = 1 .. 3 /\ k[1] = Closing(d)[1] /\ k[2] = Closing(d)[2]
      BY LandedIs
    <3>3. Closing(d)[1].type # "run.landed" /\ Closing(d)[2].type # "run.landed"
      BY DEF Closing
    <3>4. k[1].type # "run.landed" /\ k[2].type # "run.landed"
      BY <3>2, <3>3
    <3> HIDE DEF k
    <3> QED
      BY <2>1, <3>1, <3>2, <3>4
  <2>4. journal[r][3].commit = 1 /\ Len(history) > 0 /\ history[1] = <<r>>
    BY <1>1, <2>2 DEF Solo
  <2>5. Decision[r].status = "ACCEPTED" /\ r \notin Empty
    BY <1>1, <2>2 DEF Inv, Told
  <2>6. history # <<>>
    BY <2>4
  <2> QED
    BY <2>3, <2>4, <2>5, <2>6
<1>2. ASSUME Separate => Inv, SoFar, [Next]_vars PROVE SoFar'
  <2>1. SUFFICES ASSUME ~crowded' PROVE Solo'
    BY DEF SoFar
  <2>2. ~crowded
    BY <1>2, <2>1, PartedBefore
  <2>3. Inv /\ Solo
    BY <1>2, <2>2 DEF SoFar, Separate, Parted
  <2>4. \A k, m \in Active' : k = m
    <3>1. CASE Next
      BY <2>1, <3>1 DEF Next
    <3>2. CASE UNCHANGED vars
      <4>1. Active' = Active
        BY <3>2 DEF vars, Active
      <4> QED
        BY <2>3, <4>1 DEF Solo
    <3> QED
      BY <1>2, <3>1, <3>2
  <2> QED
    BY <1>2, <2>3, <2>4, SoloContinues
<1>3. Init => SoFar
  BY SoloBegins DEF SoFar
<1>4. (Separate => Inv) /\ SoFar => LandedAloneAsMeasured
  BY <1>1 DEF SoFar, Separate, Parted, LandedAloneAsMeasured
<1> QED
  BY <1>2, <1>3, <1>4, Kept, PTL DEF Spec
=============================================================================
