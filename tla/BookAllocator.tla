--------------------------- MODULE BookAllocator ---------------------------
(***************************************************************************)
(* The evening allocator of the offline book                               *)
(* (waystone_backtests/ml/allocator.py, ml/book_io.py): one run after each *)
(* session reads the state file, sizes every sleeve behind its gates and   *)
(* brakes, and writes the instruction and then the state; an operator sets *)
(* the kill switch or resets a brake by rewriting the same state file; a   *)
(* bot reads the instruction.  Equities are percent of the net asset       *)
(* value, multipliers tenths; risk parity and Kelly weights (floating      *)
(* point iterations) enter as Raw.                                         *)
(***************************************************************************)
EXTENDS Integers, Sequences, SequencesExt, Functions, FiniteSetsExt

CONSTANTS
  Sleeves,      \* of book.yaml
  Config,       \* sleeve -> [yaml, contracts, size, step, off, half, blackout, ddHalf, ddOff, recover]
  BookConfig,   \* [ddHalf, ddOff, recover, monthlyOff] of book_brake
  Hysteresis,   \* percent
  Market,       \* session -> [month, state, age, event, facts: sleeve -> facts, raw: sleeve -> tenths]
  Moves,        \* a session's profit or loss of each sleeve
  DrawdownDays, \* the look-back of a drawdown
  NoEquity,     \* no number yet (None)
  MaxCommands   \* bound: commands and deaths

ASSUME DrawdownDaysAssumption == DrawdownDays \in Nat \ {0}
ASSUME NoEquityAssumption == NoEquity \notin Int
\* Sleeves are sized in steps, from whole percents and tenths.
ASSUME ConfigAssumption ==
  /\ Sleeves # {}
  /\ \A s \in Sleeves : Config[s].size \in Int /\ Config[s].step \in Nat \ {0} /\ Config[s].recover \in Nat \ {0}
  /\ Len(Market) \in Nat \ {0} /\ \A n \in 1 .. Len(Market) : Market[n].raw \in [Sleeves -> Int]
  /\ Moves \subseteq [Sleeves -> Int]

VARIABLES
  curves,   \* sleeve -> equity after each completed session (results/*/equity.csv)
  book,     \* book_state.json
  order,    \* book_instruction.json
  run,      \* the allocator run under way
  command,  \* the operator's command under way
  left,     \* commands and deaths to come (bound)
  \* history
  clean,    \* no save of the state file has overwritten a newer one
  killed,   \* a kill was saved and no unkill since
  seen      \* sleeve -> equities the saved runs found, without repeats

allocatorVars == <<curves, book, order, run, command, left, clean, killed, seen>>

Torn == [file |-> "torn"]
Missing == [file |-> "missing"]

Completed == Len(CHOOSE c \in {curves[s] : s \in Sleeves} : TRUE)
Last252(curve) == SubSeq(curve, IF Len(curve) > DrawdownDays THEN Len(curve) - DrawdownDays + 1 ELSE 1,
                         Len(curve))
Peak(curve) == CHOOSE x \in Range(curve) : \A y \in Range(curve) : y <= x

\* Drawdown from the peak of the look-back, in the curve's unit.
Drawdown(curve) == IF curve = <<>> THEN 0 ELSE Peak(Last252(curve)) - Last(curve)

\* A quotient rounded to the nearest integer, halves to the even one.
Round(a, b) ==
  LET q == a \div b
      r == a % b
  IN IF 2 * r > b \/ (2 * r = b /\ q % 2 = 1) THEN q + 1 ELSE q

-----------------------------------------------------------------------------
(***************************************************************************)
(* The brake of a sleeve or of the book.                                   *)
(***************************************************************************)
Fresh == [brake |-> "normal", count |-> 0, high |-> NoEquity, last |-> NoEquity]

\* Mutant: an equal equity counts as a new high.
RecoverOnEqual(b, equity) ==
  IF b.last # NoEquity /\ equity < b.last
  THEN [b EXCEPT !.count = 0, !.high = IF b.high = NoEquity \/ equity < b.high THEN equity ELSE b.high]
  ELSE [b EXCEPT !.count = @ + 1, !.high = equity]

Recover(b, equity) ==
  IF b.last # NoEquity /\ equity < b.last
  THEN [b EXCEPT !.count = 0, !.high = IF b.high = NoEquity \/ equity < b.high THEN equity ELSE b.high]
  ELSE IF b.high = NoEquity \/ equity > b.high
       THEN [b EXCEPT !.count = @ + 1, !.high = equity]
       ELSE b

StepBrake(b, dd, equity, ddHalf, ddOff, recover) ==
  LET halved == IF b.brake = "normal" /\ dd >= ddHalf THEN "half" ELSE b.brake
      braked == IF halved = "half" /\ dd >= ddOff THEN "brake" ELSE halved
      entered == IF halved = "half" /\ braked = "brake" THEN [b EXCEPT !.count = 0, !.high = equity] ELSE b
      calmed == IF braked = "half" /\ 2 * dd < ddHalf THEN "normal" ELSE braked
      counted == IF calmed = "brake" THEN Recover(entered, equity) ELSE entered
      released1 == calmed = "brake" /\ counted.count >= recover
  IN [counted EXCEPT !.brake = IF released1 THEN "half" ELSE calmed,
                     !.count = IF released1 THEN 0 ELSE @, !.last = equity]

\* A gate in halves: 0, 1 or 2.
Gate(brake) == CASE brake = "normal" -> 2 [] brake = "half" -> 1 [] brake = "brake" -> 0

-----------------------------------------------------------------------------
(***************************************************************************)
(* One allocation: the instruction and the state that follow from a state  *)
(* and from the files of the coming session.                               *)
(***************************************************************************)
BlankSleeve == [brake |-> Fresh, raw |-> NoEquity, gates |-> <<2, 1, 2>>, units |-> 0]
DefaultBook == [kill |-> FALSE, brake |-> Fresh, monthlyOff |-> FALSE, month |-> 0,
                sleeves |-> [s \in Sleeves |-> BlankSleeve]]

Status(s, f) ==
  LET yaml == Config[s].yaml
      traded == yaml \in {"live", "paper"}
  IN CASE yaml = "off" \/ ~f.results -> "off"
       [] yaml = "live" /\ f.kpi /\ f.unlocked /\ f.incubated /\ f.long -> IF f.moves THEN "live" ELSE "shadow"
       [] OTHER -> IF traded /\ (f.long => f.moves) THEN "paper" ELSE "shadow"

Eligible(facts) == {s \in Sleeves : Status(s, facts[s]) \in {"live", "paper"} /\ facts[s].long}

\* More than three sessions without a new regime count as regime 1.
Regime(m) == IF m.age > 3 THEN 1 ELSE m.state
RegimeGate(s, m) ==
  IF Regime(m) \in Config[s].off THEN 0 ELSE IF Regime(m) \in Config[s].half THEN 1 ELSE 2
EventGate(s, m) == IF m.event /\ Config[s].blackout THEN 0 ELSE 1

\* The weight moves at a month's start, when a gate moved, or by more than the band.
ApplyHysteresis(raw, prev, firstOfMonth, gateChanged) ==
  IF prev = NoEquity \/ firstOfMonth \/ gateChanged \/ prev = 0 THEN raw
  ELSE IF (raw - prev) * 100 > Hysteresis * prev \/ (prev - raw) * 100 > Hysteresis * prev THEN raw
       ELSE prev

Sized(s, m4, gBook) ==
  Round(m4 * gBook * Config[s].size, 80 * Config[s].step) * Config[s].step

Product(gates) == gates[1] * gates[2] * gates[3]

\* A sleeve that is off, or has no results, counts as one without equity.
SleeveCurve(s) == IF Status(s, Market[Completed + 1].facts[s]) = "off" THEN <<>> ELSE curves[s]
LastEquity(curve) == IF curve = <<>> THEN 0 ELSE Last(curve)

SleeveBrake(s, st) ==
  StepBrake(st.sleeves[s].brake, Drawdown(SleeveCurve(s)), LastEquity(SleeveCurve(s)),
            Config[s].ddHalf, Config[s].ddOff, Config[s].recover)

\* The files of the coming session.
Coming == Market[Completed + 1]
FirstOfMonth == Completed = 0 \/ Market[Completed].month # Coming.month
Chosen == Eligible(Coming.facts)
Standing(s) ==
  IF Chosen = {} /\ Status(s, Coming.facts[s]) # "off" THEN "shadow" ELSE Status(s, Coming.facts[s])

GatesOf(s, st) == <<RegimeGate(s, Coming), EventGate(s, Coming), Gate(SleeveBrake(s, st).brake)>>
RawOf(s, st) ==
  ApplyHysteresis(IF s \in Chosen THEN Coming.raw[s] ELSE 0, st.sleeves[s].raw, FirstOfMonth,
                  GatesOf(s, st) # st.sleeves[s].gates)
Multiplier(s, st) == RawOf(s, st) * Product(GatesOf(s, st))

\* The book's past at today's sizes, in fortieths of a percent.
Resized(pasts, m4, traded, n) ==
  [t \in 1 .. n |-> MapThenSumSet(LAMBDA s : m4[s] * (pasts[s][t] - 100), traded)]
BookPath(st) ==
  LET traded == {s \in Sleeves : Standing(s) \in {"live", "paper"} /\ SleeveCurve(s) # <<>>}
  IN IF traded = {} THEN <<>>
     ELSE Resized(curves, [s \in Sleeves |-> Multiplier(s, st)], traded, Completed)

BookBrake(st) ==
  LET path == BookPath(st)
  IN StepBrake(st.brake, Drawdown(path), LastEquity(path),
               40 * BookConfig.ddHalf, 40 * BookConfig.ddOff, BookConfig.recover)

MonthlyOff(st) ==
  LET path == BookPath(st)
      earlier == {t \in DOMAIN path : Market[t].month # Coming.month}
      monthPnl == IF path = <<>> THEN 0
                  ELSE Last(path) - (IF earlier = {} THEN 0 ELSE path[CHOOSE t \in earlier : t + 1 \notin earlier])
  IN (st.monthlyOff /\ st.month \in {0, Coming.month}) \/ monthPnl <= -40 * BookConfig.monthlyOff

BookGate(st) == IF st.kill \/ MonthlyOff(st) THEN 0 ELSE Gate(BookBrake(st).brake)
Units(s, st, gate) == IF Chosen = {} THEN 0 ELSE Sized(s, Multiplier(s, st), gate)

OrderOf(s, st, gate) ==
  LET braked == SleeveBrake(s, st).brake = "brake"
      units == Units(s, st, gate)
  IN [status |-> IF Standing(s) # "off" /\ (Chosen # {} \/ st.kill) /\ braked THEN "brake" ELSE Standing(s),
      units |-> units,
      shadow |-> Standing(s) \in {"off", "shadow"} \/ units = 0 \/ braked]

Allocate(st) ==
  LET gate == BookGate(st)
  IN [order |-> [session |-> Completed + 1, kill |-> st.kill,
                 sleeves |-> [s \in Sleeves |-> OrderOf(s, st, gate)]],
      state |-> [kill |-> st.kill, brake |-> BookBrake(st), monthlyOff |-> MonthlyOff(st),
                 month |-> Coming.month,
                 sleeves |-> [s \in Sleeves |->
                   [brake |-> SleeveBrake(s, st), raw |-> RawOf(s, st), gates |-> GatesOf(s, st),
                    units |-> Units(s, st, gate)]]]]

-----------------------------------------------------------------------------
(***************************************************************************)
(* A bot's reading of the instruction during the session to come.          *)
(***************************************************************************)
\* Mutant: the least of a sleeve of contracts is every sleeve's.
FallbackAtLeastOne(s, last) ==
  LET half == Round(IF last = NoEquity THEN 0 ELSE last, 2)
  IN [units |-> IF half > 1 THEN half ELSE 1, shadow |-> FALSE]

\* Past its session or missing: half of the last known units, one contract at least.
Fallback(s, last) ==
  IF Config[s].contracts
  THEN LET half == Round(IF last = NoEquity THEN 0 ELSE last, 2)
       IN [units |-> IF half > 1 THEN half ELSE 1, shadow |-> FALSE]
  ELSE IF last \in {NoEquity, 0} THEN [units |-> 0, shadow |-> TRUE]
       ELSE [units |-> last \div 2, shadow |-> FALSE]

LastUnits(s) ==
  IF order # Missing THEN order.sleeves[s].units
  ELSE IF book # Missing THEN book.sleeves[s].units ELSE NoEquity

\* A torn file raises in the bot.
Readable == order # Torn /\ (order = Missing \/ order.session <= Completed => book # Torn)

ReadInstruction(s) ==
  IF order # Missing /\ order.session > Completed
  THEN [units |-> order.sleeves[s].units, shadow |-> order.sleeves[s].shadow]
  ELSE Fallback(s, LastUnits(s))

-----------------------------------------------------------------------------
NoRun == [phase |-> "idle"]
NoCommand == [what |-> "none"]

AllocatorInit ==
  /\ curves = [s \in Sleeves |-> <<>>]
  /\ book = Missing /\ order = Missing
  /\ run = NoRun /\ command = NoCommand /\ left = MaxCommands
  /\ clean = TRUE /\ killed = FALSE
  /\ seen = [s \in Sleeves |-> <<>>]

\* A session closes; its profits and losses are in the equity files.  Runs and commands
\* take seconds and do not span it.
CloseSession ==
  /\ run = NoRun /\ command = NoCommand
  /\ Completed + 1 < Len(Market)
  /\ \E move \in Moves :
       curves' = [s \in Sleeves |->
                    Append(curves[s], (IF curves[s] = <<>> THEN 100 ELSE Last(curves[s])) + move[s])]
  /\ UNCHANGED <<book, order, run, command, left, clean, killed, seen>>

\* Mutant: the switch is not read back.
LoadStateSwitchless == [(IF book = Missing THEN DefaultBook ELSE book) EXCEPT !.kill = FALSE]

\* load_state of what is on disk; a torn file raises.
LoadState == IF book = Missing THEN DefaultBook ELSE book

StartRun ==
  /\ run = NoRun /\ book # Torn
  /\ run' = [phase |-> "instruction", loaded |-> book, out |-> Allocate(LoadState),
             found |-> [s \in Sleeves |-> LastEquity(SleeveCurve(s))]]
  /\ UNCHANGED <<curves, book, order, command, left, clean, killed, seen>>

SaveInstruction ==
  /\ run.phase = "instruction"
  /\ order' = run.out.order
  /\ run' = [run EXCEPT !.phase = "state"]
  /\ UNCHANGED <<curves, book, command, left, clean, killed, seen>>

Noticed(equities, x) ==
  IF equities # <<>> /\ Last(equities) = x THEN equities ELSE Append(equities, x)

SaveState ==
  /\ run.phase = "state"
  /\ book' = run.out.state
  /\ run' = NoRun
  /\ clean' = (clean /\ run.loaded = book)
  /\ seen' = [s \in Sleeves |-> Noticed(seen[s], run.found[s])]
  /\ UNCHANGED <<curves, order, command, left, killed>>

\* A run that dies leaves the file it was writing as it was, or cut off.
RunDies ==
  /\ run.phase \in {"instruction", "state"} /\ left > 0
  /\ run' = NoRun /\ left' = left - 1
  /\ \/ UNCHANGED <<order, book>>
     \/ run.phase = "instruction" /\ order' = Torn /\ UNCHANGED book
     \/ run.phase = "state" /\ book' = Torn /\ UNCHANGED order
  /\ UNCHANGED <<curves, command, clean, killed, seen>>

StartCommand ==
  /\ command = NoCommand /\ book # Torn /\ left > 0
  /\ left' = left - 1
  /\ \E what \in {"kill", "unkill"} \cup Sleeves : command' = [what |-> what, loaded |-> book]
  /\ UNCHANGED <<curves, book, order, run, clean, killed, seen>>

\* A sleeve's name is a reset of its brake.
Commanded(what, st) ==
  CASE what = "kill" -> [st EXCEPT !.kill = TRUE]
    [] what = "unkill" -> [st EXCEPT !.kill = FALSE]
    [] OTHER -> IF st.sleeves[what].brake.brake = "brake"
                THEN [st EXCEPT !.sleeves[what].brake = [@ EXCEPT !.brake = "half", !.count = 0]]
                ELSE st

SaveCommand ==
  /\ command # NoCommand
  /\ book' = Commanded(command.what, IF command.loaded = Missing THEN DefaultBook ELSE command.loaded)
  /\ clean' = (clean /\ command.loaded = book)
  /\ killed' = (IF command.what = "kill" THEN TRUE ELSE IF command.what = "unkill" THEN FALSE ELSE killed)
  /\ command' = NoCommand
  /\ UNCHANGED <<curves, order, run, left, seen>>

AllocatorNext ==
  \/ CloseSession \/ StartRun \/ SaveInstruction \/ SaveState \/ RunDies
  \/ StartCommand \/ SaveCommand

AllocatorSpec == AllocatorInit /\ [][AllocatorNext]_allocatorVars

-----------------------------------------------------------------------------
(***************************************************************************)
(* Properties.                                                             *)
(***************************************************************************)
Rank(status) == CASE status = "live" -> 2 [] status = "paper" -> 1 [] OTHER -> 0

\* The files and the run hold what the code writes.
AllocatorTypeOK ==
  /\ \A s \in Sleeves : Len(curves[s]) = Completed
  /\ book \in {Torn, Missing} \/ \A s \in Sleeves :
       /\ book.sleeves[s].brake.brake \in {"normal", "half", "brake"}
       /\ book.sleeves[s].brake.count \in 0 .. Config[s].recover - 1
       /\ book.sleeves[s].units % Config[s].step = 0
  /\ order \in {Torn, Missing} \/ order.session \in 1 .. Completed + 1
  /\ run.phase \in {"idle", "instruction", "state"}
  /\ command.what \in {"none", "kill", "unkill"} \cup Sleeves

\* Unless a run or a command saved over a newer state file, a kill stands until it is taken
\* back, and an instruction written under it trades nothing (main, allocate).
KillStands ==
  /\ clean /\ killed => book = Torn \/ (book # Missing /\ book.kill)
  /\ order \notin {Torn, Missing} /\ order.kill =>
       \A s \in Sleeves : order.sleeves[s].units = 0 /\ order.sleeves[s].shadow

\* What a sleeve of contracts trades at least on an instruction that has run out, whatever
\* it says: one contract, also when it says 0 under a kill, a brake or a closed gate.
Least(s) == IF order.session > Completed \/ ~Config[s].contracts THEN 0 ELSE 1

\* The allocator never raises a sleeve above its status in book.yaml; a bot trades no more
\* than the last instruction says, but for the least; and where it says 0 units, a bot that
\* has no least trades nothing and is in shadow (allocate, read_instruction).
OrdersModest ==
  /\ order \notin {Torn, Missing} =>
       \A s \in Sleeves : Rank(order.sleeves[s].status) <= Rank(Config[s].yaml)
  /\ Readable /\ order # Missing => \A s \in Sleeves :
       LET said == order.sleeves[s].units
           traded == ReadInstruction(s)
       IN /\ traded.units <= said \/ traded.units <= Least(s)
          /\ said = 0 /\ Least(s) = 0 => traded.units = 0 /\ traded.shadow

AllocatorObeys == KillStands /\ OrdersModest

\* The last k steps of a sequence rise.
Rises(equities, k) ==
  Len(equities) > k /\ \A i \in Len(equities) - k .. Len(equities) - 1 : equities[i] < equities[i + 1]

\* Unless a state file was lost, a run releases a braked sleeve only after it has seen as many
\* new highs in a row as the book asks for, however often a session is run (step_brake).
Braked(b, s) == b \notin {Torn, Missing} /\ b.sleeves[s].brake.brake = "brake"
ReleaseIsEarned ==
  [][\A s \in Sleeves :
       clean' /\ run' = NoRun /\ command' = command /\ Braked(book, s) /\ book' # Torn /\ ~Braked(book', s)
         => Rises(seen'[s], Config[s].recover)]_allocatorVars
=============================================================================
