------------------------------ MODULE MCBoundary ------------------------------
(***************************************************************************)
(* The five machines at the boundary of a run, on small instances: what it is *)
(* given (Declarations), what its processes may reach (Confinement), what its  *)
(* sensors' tools write (Reports), what its agents report (Sessions) and what  *)
(* its reviewer answers (Answers).  They share no state, so a behaviour of the *)
(* sum is one of a single machine, the subject, the others resting in an       *)
(* initial state.                                                            *)
(***************************************************************************)
EXTENDS Declarations, Confinement, Reports, Sessions, Answers

VARIABLE subject

boundaryVars == <<subject, declarationVars, confinementVars, reportVars, sessionVars, review>>

-----------------------------------------------------------------------------
(* Declarations: two gates of two names and two criteria.                    *)

MCGateItems ==
  {g \in [name : {"unit", "lint"}, says : {{"command"}, {"task"}, {"command", "task"}},
          phase : Phases, baseline : BOOLEAN, sensor : {"none", "named"}, format : Formats,
          reports : {"none", "inside", "outside"}, ratchet : {"none", "no metric", "at_most"}] :
     /\ g.says # {"command"} => g.format = "exit-code" /\ g.ratchet = "none"
     /\ g.reports = "outside" => g.format = "reports" /\ g.ratchet = "none"
     /\ g.ratchet = "no metric" => g.format = "codeservo-json" /\ g.baseline
     /\ g.name = "lint" => g.sensor = "none" /\ g.reports # "outside"}

MCCriterionLines ==
  {l \in [id : {"AC1", "AC2"}, ends : Verifications, gate : {"unit", "e2e"}, states : BOOLEAN,
          before : {"none", "gate", "its own braces"}] :
     /\ l.gate = "e2e" => l.ends = "gate" /\ l.before = "none"
     /\ ~l.states => l.ends = "gate" /\ l.before = "none"
     /\ l.before # "none" => l.ends = "review"}

-----------------------------------------------------------------------------
(* Confinement: an application checked out by itself or as a worktree of another, *)
(* with no provider, one that installs in the tree, or one that installs aside.  *)

MCPlaces ==
  {"app", "app/.git", "app/.pixi", "app/src", "main/.git", "runs", "runs/now", "sensors",
   "state/.git", "providers", "worktree", "worktree/.git", "worktree/.pixi", "worktree/src"}

Holds == [app      |-> {"app/.git", "app/.pixi", "app/src"},
          runs     |-> {"runs/now"},
          worktree |-> {"worktree/.git", "worktree/.pixi", "worktree/src"}]

MCWithin == [p \in MCPlaces |-> {p} \cup {q \in DOMAIN Holds : p \in Holds[q]}]

MCLayouts ==
  {[repo |-> "app", git_dir |-> git, runs |-> "runs", run_dir |-> "runs/now",
    sensors |-> "sensors", state_git |-> "state/.git", worktree |-> "worktree",
    worktree_git |-> "worktree/.git", source_provider |-> provider[1],
    candidate_provider |-> provider[2], shared |-> provider[3]] :
     git \in {"app/.git", "main/.git"},
     provider \in {<<NoPlace, NoPlace, FALSE>>, <<"app/.pixi", "worktree/.pixi", FALSE>>,
                   <<"providers", "providers", TRUE>>}}

MCOptional == {"app/.pixi", "sensors", "state/.git"}

-----------------------------------------------------------------------------
(* Reports: a file by two spellings, two findings one of which is spelled like  *)
(* the other's second.                                                       *)

MCPathOf == [f \in {"a", "/tree/a"} |-> "a"]

Count(family, n) == [is |-> "count", thing |-> <<family, 1>>, count |-> n]

Case(verdicts, name) == [is |-> "case", verdicts |-> verdicts, name |-> name]

Finding(kind, suppressions, level, rule_level, name) ==
  [is |-> "result", kind |-> kind, suppressions |-> suppressions, level |-> level,
   rule_level |-> rule_level, name |-> name]

MCEntries ==
  [f \in {"lcov", "sarif", "junit-xml"} |->
     CASE f = "lcov" ->
            {[is |-> "SF", file |-> name] : name \in DOMAIN MCPathOf}
              \cup {[is |-> "end of record"], [is |-> "no count"], Count("line", 1), Count("line", -1)}
       [] f = "sarif" ->
            {[is |-> "run", successful |-> s] : s \in BOOLEAN}
              \cup {[is |-> "no result"], [is |-> "close"],
                    Finding("fail", {}, "error", "unstated", <<"a">>),
                    Finding("fail", {"rejected"}, "unstated", "note", <<"a">>),
                    Finding("fail", {"rejected", "applied"}, "unstated", "unstated", <<"a">>),
                    Finding("pass", {}, "error", "error", <<"a">>),
                    Finding("fail", {}, "unstated", "unstated", <<"a", 2>>)}
       [] f = "junit-xml" ->
            {[is |-> "close"], Case({}, <<"a">>), Case({"failure", "error"}, <<"a">>),
             Case({"error", "skipped"}, <<"a", 2>>), Case({"skipped"}, <<"a">>)}]

MCMaxEntries == [f \in {"lcov", "sarif", "junit-xml"} |-> IF f = "lcov" THEN 6 ELSE 4]

-----------------------------------------------------------------------------
(* Sessions: a backend that names models and bills two of them, one unpriced,  *)
(* and one that names none.                                                  *)

MCModels == {"opus", "haiku", "gpt"}

MCRequested == [claude |-> "opus", codex |-> "gpt"]

Price(input, output, write, duration) ==
  [input |-> input, cached_input |-> 1, output |-> output,
   cache_write |-> [d \in {duration} |-> write]]

MCPrices == [claude |-> [opus |-> Price(5, 25, 6, "5m")], codex |-> [gpt |-> Price(2, 3, 4, "default")]]

Spent(input, cached, write, output) ==
  [input |-> input, cached_input |-> cached, cache_write |-> write, output |-> output]

Block(model, table, tokens) == [model |-> model, table |-> table, tokens |-> tokens]

Billed(blocks, wrote) == [is |-> "result", billed |-> blocks, wrote |-> wrote]

Turn(model, table, tokens) ==
  [is |-> "turn", model |-> model, table |-> table, tokens |-> tokens]

Opus == Block("opus", TRUE, Spent(1, 1, 2, 1))

MCEvents ==
  [claude |->
     {[is |-> "init", model |-> "opus"], Billed(<<>>, {}),
      Billed(<<Opus>>, {"5m"}), Billed(<<Opus>>, {"5m", "1h"}),
      Billed(<<Block("haiku", TRUE, Spent(1, 0, 0, 1))>>, {}),
      Billed(<<Opus, Block("haiku", FALSE, Spent(0, 0, 0, 0))>>, {"5m"}),
      Billed(<<Block("opus", TRUE, Spent(1, 0, 0, None))>>, {})},
   codex |->
     {Turn(None, TRUE, Spent(5, 2, 1, 1)), Turn(None, TRUE, Spent(3, 0, 0, 2)),
      Turn(None, TRUE, Spent(None, 0, 0, 1)), Turn("gpt", TRUE, Spent(1, 1, 1, 1)),
      Turn("haiku", FALSE, Spent(1, 1, 1, 1))}]

-----------------------------------------------------------------------------
(* The sum.                                                                  *)

RestingDeclarations == execution = "none" /\ gates = <<>> /\ criteria = <<>>

RestingConfinement ==
  /\ host = CHOOSE h \in [mechanism : Mechanisms, layout : Layouts] : TRUE
  /\ present = {} /\ call = NoCall /\ touched = Untouched /\ outcome = "none"

RestingReports == format = "lcov" /\ reports = <<>>

RestingSessions == driver = "codex" /\ stream = <<>> /\ sessions = 1 /\ told = Untold

BoundaryInit ==
  \/ /\ subject = "declarations" /\ DeclarationsInit
     /\ RestingConfinement /\ RestingReports /\ RestingSessions /\ AnswersInit
  \/ /\ subject = "confinement" /\ ConfinementInit
     /\ RestingDeclarations /\ RestingReports /\ RestingSessions /\ AnswersInit
  \/ /\ subject = "reports" /\ ReportsInit
     /\ RestingDeclarations /\ RestingConfinement /\ RestingSessions /\ AnswersInit
  \/ /\ subject = "sessions" /\ SessionsInit
     /\ RestingDeclarations /\ RestingConfinement /\ RestingReports /\ AnswersInit
  \/ /\ subject = "answers" /\ AnswersInit
     /\ RestingDeclarations /\ RestingConfinement /\ RestingReports /\ RestingSessions

BoundaryNext ==
  /\ UNCHANGED subject
  /\ \/ /\ subject = "declarations" /\ DeclarationsNext
        /\ UNCHANGED <<confinementVars, reportVars, sessionVars, review>>
     \/ /\ subject = "confinement" /\ ConfinementNext
        /\ UNCHANGED <<declarationVars, reportVars, sessionVars, review>>
     \/ /\ subject = "reports" /\ ReportsNext
        /\ UNCHANGED <<declarationVars, confinementVars, sessionVars, review>>
     \/ /\ subject = "sessions" /\ SessionsNext
        /\ UNCHANGED <<declarationVars, confinementVars, reportVars, review>>
     \/ /\ subject = "answers" /\ AnswersNext
        /\ UNCHANGED <<declarationVars, confinementVars, reportVars, sessionVars>>

BoundarySpec == BoundaryInit /\ [][BoundaryNext]_boundaryVars
=============================================================================
