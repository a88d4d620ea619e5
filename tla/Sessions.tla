------------------------------ MODULE Sessions ------------------------------
(***************************************************************************)
(* What a session of a backend says of itself and what the record keeps of it *)
(* (actuators/claude_code.py, codex.py, catalogue.py, controller/pricing.py,  *)
(* inference.py).  An agent writes its stream event by event and may stop     *)
(* anywhere; what it wrote is read once it ended.  Claude Code opens with the *)
(* model it runs on and closes with one result, billing every model under the *)
(* session; Codex reports each turn, naming no model.  A role's profile is    *)
(* rewritten by every session that returns.                                   *)
(***************************************************************************)
EXTENDS Integers, Sequences, SequencesExt

CONSTANTS
  Models,       \* the models a stream may name
  Requested,    \* by backend: the model the run asked for
  Prices,       \* by backend: the models the catalogue prices, each with its prices
  Events,       \* by backend: what an agent may write, one line at a time
  MaxEvents,    \* bound on the lines of a session
  MaxSessions,  \* bound on the sessions of the role
  None          \* a field nothing was reported for

Inputs == {"input", "cached_input", "cache_write"}

Categories == Inputs \cup {"output"}

Tokens == [Categories -> Nat \cup {None}]

Durations == {"5m", "1h"}

Drivers == {"claude", "codex"}

ASSUME SessionsAssumption ==
  /\ \A d \in Drivers : Requested[d] \in Models /\ DOMAIN Prices[d] \subseteq Models
  /\ None \notin Models \cup Nat
  /\ MaxEvents \in Nat /\ MaxSessions \in Nat

\* A price is one of each category, that of a cache write by the durations that have one.
ASSUME PricesAssumption ==
  \A d \in Drivers : \A m \in DOMAIN Prices[d] : LET price == Prices[d][m] IN
    /\ price.input \in Nat /\ price.cached_input \in Nat /\ price.output \in Nat
    /\ \A duration \in DOMAIN price.cache_write : price.cache_write[duration] \in Nat

\* A line opens a session, ends a turn of it or closes it with what it is billed.
ASSUME EventsAssumption ==
  \A d \in Drivers : \A e \in Events[d] :
    /\ e.is \in {"init", "turn", "result"}
    /\ e.is = "turn" => e.tokens \in Tokens
    /\ e.is = "result" => e.billed \in Seq([model : Models, table : BOOLEAN, tokens : Tokens])

VARIABLES
  driver,   \* the backend of the role
  stream,   \* what the session under way wrote
  sessions, \* how many began
  told      \* what the record says of the last session that returned

sessionVars == <<driver, stream, sessions, told>>

Untold == [model |-> None, cost |-> None, stream |-> <<>>]

-----------------------------------------------------------------------------
(* Mutated forms, used only to show that a property notices them.           *)

\* A count nobody reported taken for none spent.
Known(counts) == SumFunction([i \in DOMAIN counts |-> IF counts[i] = None THEN 0 ELSE counts[i]])

-----------------------------------------------------------------------------
(* The two adapters.                                                         *)

\* None absorbs: a sum one part of which is unknown is unknown.
Total(counts) == IF \E i \in DOMAIN counts : counts[i] = None THEN None ELSE SumFunction(counts)

\* _result_event: the last one of the stream.
LastResult(events) ==
  LET last == SelectLastInSeq(events, LAMBDA e : e.is = "result")
  IN  IF last = 0 THEN [billed |-> <<>>, wrote |-> {}] ELSE events[last]

\* _cache_write_duration: the one the session wrote its cache with.
Duration(result) ==
  IF result.wrote = {} THEN "default"
  ELSE IF result.wrote \in {{d} : d \in Durations} THEN CHOOSE d \in Durations : result.wrote = {d}
  ELSE "mixed"

\* claude_code._usage: block by block, a block that is no table being passed over.
ClaudeUsage(events) ==
  LET result == LastResult(events)
      tables == {i \in DOMAIN result.billed : result.billed[i].table}
  IN  [billed |-> [i \in tables |-> result.billed[i]], duration |-> Duration(result)]

\* The lines that are a turn's counts.
Turns(events) == {i \in DOMAIN events : events[i].is = "turn" /\ events[i].table}

\* codex._usage: the turns summed category by category, the cached and the written
\* parts then taken out of the input they are in.
CodexUsage(events) ==
  LET total == [c \in Categories |-> Total([i \in Turns(events) |-> events[i].tokens[c]])]
      known == \A c \in Inputs : total[c] # None
      rest  == total["input"] - total["cached_input"] - total["cache_write"]
      input == IF ~known THEN None ELSE IF rest > 0 THEN rest ELSE 0
  IN  [billed   |-> IF Turns(events) = {} THEN <<>>
                    ELSE <<[model |-> None, table |-> TRUE, tokens |-> [total EXCEPT !["input"] = input]]>>,
       duration |-> "default"]

Usage(events) == IF driver = "claude" THEN ClaudeUsage(events) ELSE CodexUsage(events)

\* _reported_model: the one Claude Code opens with, or the only one it billed;
\* codex._observed: the last one a line of the stream names.
ReportedModel(events) ==
  LET opened == SelectInSeq(events, LAMBDA e : e.is = "init")
      billed == ClaudeUsage(events).billed
      named  == SelectLastInSeq(events, LAMBDA e : e.is = "turn" /\ e.model # None)
  IN  IF driver = "codex" THEN IF named = 0 THEN None ELSE events[named].model
      ELSE IF opened # 0 /\ events[opened].model # None THEN events[opened].model
      ELSE IF Cardinality(DOMAIN billed) = 1 THEN billed[CHOOSE i \in DOMAIN billed : TRUE].model
      ELSE None

-----------------------------------------------------------------------------
(* The price of it.                                                          *)

\* rate: every category priced, or the whole is not.
Rate(price, tokens, duration) ==
  IF \/ \E c \in Categories : tokens[c] = None
     \/ tokens["cache_write"] > 0 /\ duration \notin DOMAIN price.cache_write
  THEN None
  ELSE tokens["input"] * price.input + tokens["cached_input"] * price.cached_input
         + tokens["output"] * price.output
         + (IF tokens["cache_write"] > 0 THEN tokens["cache_write"] * price.cache_write[duration] ELSE 0)

\* consumption: each block at its model, or at the one asked for where it names
\* none; the sum when every block is rated.
Cost(usage) ==
  LET rated(b) == LET model == IF b.model = None THEN Requested[driver] ELSE b.model
                  IN  IF model \in DOMAIN Prices[driver]
                      THEN Rate(Prices[driver][model], b.tokens, usage.duration) ELSE None
  IN  IF DOMAIN usage.billed = {} THEN None
      ELSE Total([i \in DOMAIN usage.billed |-> rated(usage.billed[i])])

-----------------------------------------------------------------------------

SessionsInit == driver \in Drivers /\ stream = <<>> /\ sessions = 1 /\ told = Untold

Emit(event) ==
  /\ Len(stream) < MaxEvents
  /\ stream' = Append(stream, event)
  /\ UNCHANGED <<driver, sessions, told>>

\* The session returns: record_actuation and consumption over what it wrote, and
\* the next one begins with a stream of its own.
Finish ==
  /\ sessions < MaxSessions
  /\ told' = [model |-> ReportedModel(stream), cost |-> Cost(Usage(stream)), stream |-> stream]
  /\ stream' = <<>> /\ sessions' = sessions + 1
  /\ UNCHANGED driver

SessionsNext == (\E event \in Events[driver] : Emit(event)) \/ Finish

SessionsSpec == SessionsInit /\ [][SessionsNext]_sessionVars

-----------------------------------------------------------------------------

\* A model told is one the stream of that session names (inference.py:45-67).
ToldIsNamed ==
  told.model # None =>
    \E i \in DOMAIN told.stream : LET e == told.stream[i] IN
      IF e.is = "result" THEN \E k \in DOMAIN e.billed : e.billed[k].model = told.model
      ELSE e.model = told.model

\* What a turn costs by itself, where it reports everything.
TurnCost(turn) ==
  Rate(Prices[driver][Requested[driver]],
       [turn.tokens EXCEPT !["input"] = @ - turn.tokens["cached_input"] - turn.tokens["cache_write"]],
       "default")

Whole(tokens) == \A c \in Categories : tokens[c] # None

\* A cost told is of the whole session: each of its turns reported every count and
\* the sum of the totals is the sum of what the turns cost; each model it billed is
\* priced.  Blocks and turns without a table of counts are the exception: the
\* adapters pass over them (pricing.py:20-25, catalogue.py:209-216).
CostIsOfTheWhole ==
  told.cost # None =>
    IF driver = "codex"
    THEN LET turns == Turns(told.stream) IN
         /\ \A i \in turns : Whole(told.stream[i].tokens)
         /\ (\A i \in turns : LET tokens == told.stream[i].tokens IN
               tokens["input"] >= tokens["cached_input"] + tokens["cache_write"])
              => told.cost = SumFunction([i \in turns |-> TurnCost(told.stream[i])])
    ELSE LET result == LastResult(told.stream) IN
         \A i \in DOMAIN result.billed : LET b == result.billed[i] IN b.table =>
           /\ Whole(b.tokens) /\ b.model \in DOMAIN Prices[driver]
           /\ b.tokens["cache_write"] > 0 => Duration(result) \in DOMAIN Prices[driver][b.model].cache_write

\* What the record says of a role's sessions is what the last one that returned said
\* of itself, and nothing asked for or left by an earlier one stands in for what it
\* did not say.
SessionIsToldAsReported == ToldIsNamed /\ CostIsOfTheWhole
=============================================================================
