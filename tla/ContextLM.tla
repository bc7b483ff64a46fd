----------------------------- MODULE ContextLM -----------------------------
(***************************************************************************)
(* The risk supervisor of the futures sleeves (hq/context_lm.py) over the  *)
(* runner's status (hq/strategy_runner.py): it fuses what the engine's     *)
(* files, the sentiment gates and the daily sync say into one verdict per  *)
(* sleeve, writes a brief (its own or a language model's, cut down), and   *)
(* applies its verdicts sleeve by sleeve while engines, gates and          *)
(* operators move on.                                                      *)
(***************************************************************************)
EXTENDS Integers, Sequences, SequencesExt, FiniteSets, FiniteSetsExt

CONSTANTS
  SleeveCodes,      \* sequence: the order of STRATEGY_SPECS
  BigSleeve, MicroSleeve, \* the Nasdaq sleeves a defensive posture moves between
  DefaultContracts, \* code -> validated contracts
  MostTrades,       \* a day, code -> trades
  Worlds,           \* what a sleeve's files and sync row may say (see the fields read below)
  GateSets,         \* what the sentiment gates may say: code -> [verdict, mult], mult in hundredths
  Sizes,            \* contracts an operator may bind
  Replies,          \* briefs a language model may answer with: [posture, items]
  MaxMoves          \* bound: what happens around the supervisor

\* A strategy is bound to 1 .. 10 contracts, and the validated sizes are among them.
ASSUME DefaultContractsAssumption ==
  /\ DefaultContracts \in [Range(SleeveCodes) -> 1 .. 10]
  /\ \A c \in Range(SleeveCodes) : MostTrades[c] \in Int

\* What files, sync rows, gates and bindings may hold; an event is named where it is a warning.
WorldRecords ==
  [db : {"ok", "unreadable"}, loss : Int, closed : Int, open : {"none", "confirmed", "unconfirmed"},
   side : {"LONG", "SHORT"}, events : SUBSET {"halt", "stop_filled", "ib_disconnect", "exit"}, flagged : BOOLEAN,
   state : {"ok", "torn"}, position : {"none", "LONG", "SHORT"}, blocked : BOOLEAN]
GateRecords == [Range(SleeveCodes) -> [verdict : {"TRADE", "REDUCE", "STAND_DOWN"}, mult : Nat]]
ASSUME ReadingsAssumption ==
  /\ SleeveCodes \in Seq(Range(SleeveCodes)) /\ Sizes \subseteq 1 .. 10
  /\ \A reply \in Replies : \A item \in reply.items : item.contracts \in Int
  /\ \A w \in Worlds : w \in WorldRecords
  /\ \A say \in GateSets : say \in GateRecords

VARIABLES
  world,     \* code -> what the sleeve's files and its sync row say
  gatesSay,  \* the latest recommendations
  bound,     \* code -> contracts of its account binding
  killSwitches, \* code -> its KILL_SWITCH file exists
  call,      \* the brief or application under way
  brief,     \* the last brief, until the next call
  settled,   \* codes the last call, an application, has been applied to, without those whose own
             \* files, gates, switch or binding moved since it began or whose gates it did not hear
  moves      \* bound

contextVars == <<world, gatesSay, bound, killSwitches, call, brief, settled, moves>>

AllSleeves == Range(SleeveCodes)
Quiet == [verdict |-> "TRADE", mult |-> 100]
NoCall == [purpose |-> "none"]

-----------------------------------------------------------------------------
(***************************************************************************)
(* What a reading finds.                                                   *)
(***************************************************************************)
\* The trades of the day; an unreadable database looks like a quiet day.
DbSummary(w) ==
  IF w.db = "ok" THEN [loss |-> w.loss, closed |-> w.closed, open |-> w.open]
  ELSE [loss |-> 0, closed |-> 0, open |-> "none"]

\* The engine's snapshot, if one of its state files parses.
Snapshot(w) == IF w.state = "ok" THEN [position |-> w.position, blocked |-> w.blocked]
               ELSE [position |-> "none", blocked |-> FALSE]

\* The last lines of the newest event file, those that parse.
Events(w) == w.events

\* analyze_position_risk: the side it reports, and whether its stop is confirmed.
PositionXray(w) ==
  LET db == DbSummary(w)
      side == IF Snapshot(w).position # "none" THEN Snapshot(w).position
              ELSE IF db.open = "none" THEN "none" ELSE w.side
  IN IF side = "none" THEN [inPosition |-> FALSE, side |-> "none", confirmed |-> TRUE]
     ELSE [inPosition |-> TRUE, side |-> side, confirmed |-> db.open # "unconfirmed"]

\* diagnose_execution_drift.
Severity(c, w) ==
  LET db == DbSummary(w)
  IN IF db.loss >= 100 \/ db.closed >= MostTrades[c] \/ db.open = "unconfirmed" THEN "HALT"
     ELSE IF db.loss >= 70 \/ Events(w) # {} \/ w.flagged THEN "CAUTION" ELSE "OK"

\* round(): halves go to the even neighbour.
Nearest(a, b) ==
  LET q == a \div b
      r == a % b
  IN IF 2 * r > b \/ (2 * r = b /\ q % 2 = 1) THEN q + 1 ELSE q

Halved(c) == IF DefaultContracts[c] \div 2 > 1 THEN DefaultContracts[c] \div 2 ELSE 1
Scaled(c, mult) == Max({1, Nearest(DefaultContracts[c] * mult, 100)})

\* Mutant: the sentiment gate's size replaces the one after a caution.
VerdictReplaced(c, stopped, w, say) ==
  LET caution == Severity(c, w) = "CAUTION"
      small == say.verdict = "REDUCE" \/ say.mult < 100
  IN IF stopped \/ Severity(c, w) = "HALT" \/ Snapshot(w).blocked \/ say.verdict = "STAND_DOWN"
     THEN [verdict |-> "STAND_DOWN", contracts |-> 0]
     ELSE IF small THEN [verdict |-> "REDUCE", contracts |-> Scaled(c, say.mult)]
     ELSE IF caution THEN [verdict |-> "REDUCE", contracts |-> Halved(c)]
     ELSE [verdict |-> "TRADE", contracts |-> DefaultContracts[c]]

\* _compute_sleeve_verdict.
Verdict(c, stopped, w, say) ==
  LET caution == IF Severity(c, w) = "CAUTION" THEN {Halved(c)} ELSE {}
      small == IF say.verdict = "REDUCE" \/ say.mult < 100 THEN {Scaled(c, say.mult)} ELSE {}
  IN IF stopped \/ Severity(c, w) = "HALT" \/ Snapshot(w).blocked \/ say.verdict = "STAND_DOWN"
     THEN [verdict |-> "STAND_DOWN", contracts |-> 0]
     ELSE IF caution \cup small = {} THEN [verdict |-> "TRADE", contracts |-> DefaultContracts[c]]
     ELSE [verdict |-> "REDUCE", contracts |-> Min(caution \cup small \cup {DefaultContracts[c]})]

-----------------------------------------------------------------------------
(***************************************************************************)
(* The brief.                                                              *)
(***************************************************************************)
Posture(said) ==
  LET of(c) == IF c \in DOMAIN said THEN said[c].verdict ELSE "none"
  IN IF \A c \in DOMAIN said : of(c) = "STAND_DOWN" THEN "STAND_DOWN"
     ELSE IF of(BigSleeve) \in {"STAND_DOWN", "REDUCE"} /\ of(MicroSleeve) = "TRADE"
          THEN "DEFENSIVE_MICRO"
     ELSE IF \E c \in DOMAIN said : of(c) # "TRADE" THEN "SELECTIVE" ELSE "RISK_ON"

\* What the operator is told to do about one sleeve, from a reading of it.
Proposal(r) ==
  CASE r.said.verdict = "STAND_DOWN" /\ ~r.stopped -> "halt"
    [] r.said.verdict = "REDUCE" /\ r.bound > r.said.contracts -> "reduce"
    [] r.said.verdict = "TRADE" /\ r.stopped -> "clear"
    [] OTHER -> "nothing"

\* The readings by code: what they say.
Said(read) == [c \in {read[i].code : i \in DOMAIN read} |->
                 (CHOOSE r \in Range(read) : r.code = c).said]

DeterministicBrief(read) ==
  [source |-> "rules", posture |-> Posture(Said(read)), said |-> Said(read),
   todo |-> {<<r.code, Proposal(r)>> : r \in Range(read)}]

\* A model's verdicts, cut to the validated contracts; the posture is the model's own, and so
\* are the sleeves it leaves out.  No known sleeve in them, and the rules' verdicts stand.
Sanitised(reply, rules) ==
  LET known == {item \in reply.items : item.code \in AllSleeves}
      cut(item) == IF item.verdict = "STAND_DOWN" THEN 0
                   ELSE Max({0, Min({item.contracts, DefaultContracts[item.code]})})
  IN [rules EXCEPT !.source = "model", !.posture = reply.posture,
        !.said = IF known = {} THEN @
                 ELSE [c \in {item.code : item \in known} |->
                         LET item == CHOOSE x \in known : x.code = c
                         IN [verdict |-> item.verdict, contracts |-> cut(item)]]]

-----------------------------------------------------------------------------
(***************************************************************************)
(* assemble_context, and what is done with it.                             *)
(***************************************************************************)
\* All sleeves or one.  A reader that fails leaves the gates unheard.
StartCall(purpose, codes) ==
  /\ call = NoCall
  /\ \E heard \in {gatesSay, [c \in AllSleeves |-> Quiet]} :
       call' = [purpose |-> purpose, todo |-> codes, heard |-> heard, read |-> <<>>, done |-> {},
                calm |-> {c \in AllSleeves : heard[c] = gatesSay[c]}]
  /\ settled' = {} /\ brief' = DeterministicBrief(<<>>)
  /\ UNCHANGED <<world, gatesSay, bound, killSwitches, moves>>

ReadSleeve ==
  /\ call # NoCall /\ call.todo # <<>>
  /\ LET c == Head(call.todo)
         r == [code |-> c, stopped |-> killSwitches[c], bound |-> bound[c], xray |-> PositionXray(world[c]),
               said |-> Verdict(c, killSwitches[c], world[c], call.heard[c])]
     IN call' = [call EXCEPT !.todo = Tail(@), !.read = Append(@, r)]
  /\ UNCHANGED <<world, gatesSay, bound, killSwitches, brief, settled, moves>>

\* With a model, its answer; an error, a time-out or an answer that is not one: the rules' brief.
GenerateBrief ==
  /\ call.purpose = "brief" /\ call.todo = <<>>
  /\ \/ brief' = DeterministicBrief(call.read)
     \/ \E reply \in Replies : brief' = Sanitised(reply, DeterministicBrief(call.read))
  /\ call' = NoCall
  /\ UNCHANGED <<world, gatesSay, bound, killSwitches, settled, moves>>

\* Mutant: a reduction halves what is bound.
ReducedTo(r) == Max({1, r.bound \div 2})

\* configure_account is asked for the verdict's contracts, whatever is bound.
Reduced(r) == Max({1, Min({r.said.contracts, DefaultContracts[r.code]})})

\* One sleeve of an application; the files and bindings are those of now, the verdict that of
\* the reading.
ApplyOne ==
  /\ call.purpose = "apply" /\ call.todo = <<>> /\ call.read # <<>>
  /\ LET r == Head(call.read)
     IN /\ killSwitches' = [killSwitches EXCEPT ![r.code] = @ \/ r.said.verdict = "STAND_DOWN"]
        /\ bound' = [bound EXCEPT ![r.code] = IF r.said.verdict = "REDUCE" THEN Reduced(r) ELSE @]
        /\ call' = [call EXCEPT !.read = Tail(@), !.done = @ \cup {r.code}]
  /\ UNCHANGED <<world, gatesSay, brief, settled, moves>>

FinishApply ==
  /\ call.purpose = "apply" /\ call.todo = <<>> /\ call.read = <<>>
  /\ settled' = call.done \cap call.calm
  /\ call' = NoCall
  /\ UNCHANGED <<world, gatesSay, bound, killSwitches, brief, moves>>

\* A file that cannot be read or written ends the call where it is: what was applied stays.
CallFails ==
  /\ call # NoCall /\ moves > 0
  /\ call' = NoCall /\ moves' = moves - 1 /\ settled' = call.done \cap call.calm
  /\ UNCHANGED <<world, gatesSay, bound, killSwitches, brief>>

-----------------------------------------------------------------------------
(***************************************************************************)
(* What goes on around it.                                                 *)
(***************************************************************************)
Moved(codes) ==
  /\ moves > 0 /\ moves' = moves - 1
  /\ settled' = settled \ codes
  /\ call' = IF call = NoCall THEN call ELSE [call EXCEPT !.calm = @ \ codes]
  /\ UNCHANGED brief

EngineMoves(c, w) ==
  /\ Moved({c}) /\ world' = [world EXCEPT ![c] = w] /\ UNCHANGED <<gatesSay, bound, killSwitches>>

GatesMove(say) ==
  /\ Moved({c \in AllSleeves : say[c] # gatesSay[c]}) /\ gatesSay' = say
  /\ UNCHANGED <<world, bound, killSwitches>>

\* halt_strategy, start_strategy and configure_account by others.
OperatorMoves(c) ==
  /\ Moved({c})
  /\ \/ \E stopped \in BOOLEAN : killSwitches' = [killSwitches EXCEPT ![c] = stopped] /\ UNCHANGED bound
     \/ \E n \in Sizes : bound' = [bound EXCEPT ![c] = n] /\ UNCHANGED killSwitches
  /\ UNCHANGED <<world, gatesSay>>

ContextInit ==
  /\ world \in [AllSleeves -> Worlds] /\ gatesSay \in GateSets
  /\ bound \in [AllSleeves -> Sizes] /\ killSwitches = [c \in AllSleeves |-> FALSE]
  /\ call = NoCall /\ settled = {} /\ moves = MaxMoves
  /\ brief = DeterministicBrief(<<>>)

ContextNext ==
  \/ \E purpose \in {"brief", "apply"} :
       \/ StartCall(purpose, SleeveCodes)
       \/ \E c \in AllSleeves : StartCall(purpose, <<c>>)
  \/ ReadSleeve \/ GenerateBrief \/ ApplyOne \/ FinishApply \/ CallFails
  \/ \E c \in AllSleeves : OperatorMoves(c) \/ \E w \in Worlds : EngineMoves(c, w)
  \/ \E say \in GateSets : GatesMove(say)

-----------------------------------------------------------------------------
(***************************************************************************)
(* Properties.                                                             *)
(***************************************************************************)
ContextTypeOK ==
  /\ world \in [AllSleeves -> Worlds] /\ gatesSay \in GateSets
  /\ bound \in [AllSleeves -> 1 .. 10] /\ killSwitches \in [AllSleeves -> BOOLEAN]
  /\ call.purpose \in {"none", "brief", "apply"} /\ settled \subseteq AllSleeves
  /\ \A c \in DOMAIN brief.said : brief.said[c].contracts \in 0 .. DefaultContracts[c]

\* An application leaves nothing of its kind to do for a sleeve it came to, also where it
\* failed at a later one or other sleeves moved while it read and applied: a brief of now tells
\* the operator neither to halt that sleeve nor to reduce it (apply_recommendation against
\* _deterministic_brief).  Not promised of a sleeve whose own files, gates, switch or binding
\* moved after the call began, or whose gates the call could not read: such a verdict is stale.
AppliedSettles ==
  \A c \in settled :
    Proposal([code |-> c, stopped |-> killSwitches[c], bound |-> bound[c],
              said |-> Verdict(c, killSwitches[c], world[c], gatesSay[c])]) \notin {"halt", "reduce"}

\* One more warning, whatever else is known of a sleeve, never enlarges it, and no verdict is
\* for more than the validated contracts (_compute_sleeve_verdict: "downward-only").
Worse(w) ==
  {[w EXCEPT !.blocked = TRUE], [w EXCEPT !.flagged = TRUE], [w EXCEPT !.loss = IF @ < 70 THEN 70 ELSE 100],
   [w EXCEPT !.events = {"halt"}], [w EXCEPT !.open = IF @ = "confirmed" THEN "unconfirmed" ELSE @]}
Careful(say) ==
  {[say EXCEPT !.verdict = IF @ = "TRADE" THEN "REDUCE" ELSE "STAND_DOWN"], [say EXCEPT !.mult = @ \div 2]}
DangerNeverEnlarges ==
  \A c \in AllSleeves :
    LET n == Verdict(c, killSwitches[c], world[c], gatesSay[c]).contracts
    IN /\ n <= DefaultContracts[c]
       /\ Verdict(c, TRUE, world[c], gatesSay[c]).contracts = 0
       /\ \A w \in Worse(world[c]) : Verdict(c, killSwitches[c], w, gatesSay[c]).contracts <= n
       /\ \A say \in Careful(gatesSay[c]) : Verdict(c, killSwitches[c], world[c], say).contracts <= n

SupervisorRestrains == AppliedSettles /\ DangerNeverEnlarges
=============================================================================
