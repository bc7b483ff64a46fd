------------------------------ MODULE V221Replay -----------------------------
(***************************************************************************)
(* The sandbox's two replays of one series of bars on the V221 engine      *)
(* (hq/backtest_sandbox.py, diagnose_replay_discrepancy): the reference    *)
(* backtest, where the engine fills itself, and the live-parity replay,    *)
(* which puts the live rules around it: the day's loss and trade caps, the *)
(* entry cutoff, the broker's stop and the flatten before the close.       *)
(*                                                                         *)
(* A price counts eighths of a point, so the slip is 1.  The indicators    *)
(* (Renko boxes, averages, volume and regime windows) are abstracted to    *)
(* what they come to at a bar, a reading; bars before the engine is warm,  *)
(* at which nothing can happen, are left out.  A replay with a saved state *)
(* goes on with all that was saved, its trades included; the engine keeps  *)
(* its last 5000 trades, and histories as long as that are left out.       *)
(***************************************************************************)
EXTENDS Integers, Sequences, FiniteSets, SequencesExt, FiniteSetsExt

CONSTANTS
  ReplayDays,     \* bound: days replayed
  Clocks,         \* times of day a bar can have, in minutes
  Tape,           \* price bars: [open, high, low, close]
  Readings,       \* what the indicators can come to: [mco, spike, regime, choppy, fearful]
  SavedStates,    \* engines that a saved state file may hold
  HoldOvernight,  \* the binding's flag
  LossLimit, MaxDayTrades, StopPct, Lots, Commission

Regimes == {"takeOff", "landing", "nowhere", "mixed"}
ReplayDates == [day : 0 .. ReplayDays, clock : Nat]
Directions == {"LONG", "SHORT"}
Reasons ==
  {"4_percent", "3_percent", "2_percent", "takeOff", "landing", "yeah_its_failing",
   "afterHours_profitable", "afterHours_failing", "fts", "STOP_FILLED_BROKER", "SESSION_FLATTEN"}
TradeRecords ==
  [direction : Directions, pts : Int, entered : ReplayDates, exited : ReplayDates, reason : Reasons]

Engines ==
  [position : {"NONE"} \cup Directions, pending : {"NONE", "BUY", "SELL"}, entry : Nat, fill : Nat,
   entered : ReplayDates, gains : Seq(Int), day : 0 .. ReplayDays,
   choppy : BOOLEAN, regime : Regimes, trades : Seq(TradeRecords)]

ASSUME ReplayAssumption ==
  /\ ReplayDays \in Nat \ {0} /\ Clocks \subseteq 0 .. 1439
  /\ Tape # {} /\ Tape \subseteq [open : Nat \ {0}, high : Nat, low : Nat, close : Nat]
  /\ \A b \in Tape : b.low <= b.open /\ b.low <= b.close /\ b.open <= b.high /\ b.close <= b.high
  /\ Readings \subseteq [mco : {"above", "below", "between"}, spike : BOOLEAN,
                         regime : Regimes, choppy : BOOLEAN, fearful : BOOLEAN]
  /\ LossLimit \in Nat \ {0} /\ MaxDayTrades \in Nat /\ StopPct \in 1 .. 99
  /\ Lots \in Nat \ {0} /\ Commission \in Nat

\* What was entered before the replay has day 0 as the day of its entry; it may have
\* ended on any day, also on one that is replayed.
ASSUME SavedAssumption ==
  \A e \in SavedStates :
    /\ e \in Engines /\ e.entered.day = 0
    /\ \A i \in DOMAIN e.trades : e.trades[i].entered.day = 0

VARIABLES
  at,      \* [day, clock] of the last bar
  ref,     \* the reference replay's engine
  live,    \* the live-parity replay: its engine, and stop, realised, entered, refused
  brought  \* history: the trades that the engines were loaded with

replayVars == <<at, ref, live, brought>>

Slip == 1
NoStop == -1
Cutoff == 955    \* 15:55, no entry at or after it and flat from it on
OfficeHours(clock) == 570 <= clock /\ clock <= 960
ExitHours(clock) == clock < 960 \/ clock >= 1020

-----------------------------------------------------------------------------
(***************************************************************************)
(* The engine.                                                             *)
(***************************************************************************)
\* Without a saved state; with one, the engine has every attribute that was saved.
FreshEngine ==
  [position |-> "NONE", pending |-> "NONE", entry |-> 0, fill |-> 0,
   entered |-> [day |-> 0, clock |-> 0], gains |-> <<>>, day |-> 0, choppy |-> FALSE,
   regime |-> "nowhere", trades |-> <<>>]

Enter(e, direction, fill, entry, when) ==
  [e EXCEPT !.position = IF direction = "BUY" THEN "LONG" ELSE "SHORT", !.entry = entry,
            !.fill = fill, !.entered = when, !.gains = <<>>, !.pending = "NONE"]

CancelPending(e) == [e EXCEPT !.pending = "NONE"]

ExitFilled(e, price, when, reason) ==
  LET pts == IF e.position = "LONG" THEN price - e.fill ELSE e.fill - price
      trade == [direction |-> e.position, pts |-> pts, entered |-> e.entered, exited |-> when,
                reason |-> reason]
  IN [e EXCEPT !.trades = Append(@, trade), !.position = "NONE", !.gains = <<>>]

\* A market order's price: the worse side of the quoted one.
Bought(price) == price + Slip
Sold(price) == price - Slip
EntryFill(e, bar) == IF e.pending = "BUY" THEN Bought(bar.open) ELSE Sold(bar.open)
ExitFill(e, bar) == IF e.position = "LONG" THEN Sold(bar.close) ELSE Bought(bar.close)

\* The gain of a move on the entry price, against a threshold in tenths of a percent.
Percent(move) == move * 1000
Tenths(n, e) == n * e.entry
MaxGain(e) == Max(Range(e.gains))
MinGain(e) == Min(Range(e.gains))
LastGain(e) == e.gains[Len(e.gains)]
ReversedFrom(e, k) == Len(e.gains) > k /\ e.gains[Len(e.gains) - k + 1] > LastGain(e)

\* Rows [when, reason], the first that applies decides.
FirstReason(rows) ==
  LET applying == {i \in DOMAIN rows : rows[i].when}
  IN IF applying = {} THEN "KEEP" ELSE rows[Min(applying)].reason
Rule(when, reason) == [when |-> when, reason |-> reason]

ProfitTake(e, tenths, reason) ==
  Rule(Percent(MaxGain(e)) > Tenths(tenths, e) /\ Len(e.gains) > 3,
       IF ReversedFrom(e, 3) THEN reason ELSE "profitable")

ExitVxnAware(e, clock) ==
  IF ~ExitHours(clock) THEN "KEEP"
  ELSE FirstReason(<<
         ProfitTake(e, 40, "4_percent"), ProfitTake(e, 30, "3_percent"),
         ProfitTake(e, 20, "2_percent"),
         Rule(e.position = "SHORT" /\ e.regime = "takeOff", "takeOff"),
         Rule(e.position = "LONG" /\ e.regime = "landing", "landing"),
         Rule(Percent(LastGain(e)) <= Tenths(-5, e) /\ e.regime = "nowhere", "yeah_its_failing"),
         Rule(~OfficeHours(clock) /\ Percent(MaxGain(e)) >= Tenths(5, e) /\ Len(e.gains) >= 5,
              IF ReversedFrom(e, 5) THEN "afterHours_profitable" ELSE "profitable"),
         Rule(~OfficeHours(clock) /\ Percent(MinGain(e)) <= Tenths(-4, e), "afterHours_failing"),
         Rule(Percent(LastGain(e)) <= Tenths(-8, e), "fts")>>)

\* A flat engine asks for an entry: the oscillator's side, a volume spike, the gate.
Trigger(clock, reading) ==
  IF ~OfficeHours(clock) THEN "NONE"
  ELSE CASE reading.mco = "above" -> "BUY" [] reading.mco = "below" -> "SELL" [] OTHER -> "NONE"
GateBlocks(e, reading) == reading.fearful /\ e.choppy
Signalled(e, clock, reading) ==
  IF Trigger(clock, reading) # "NONE" /\ reading.spike /\ ~GateBlocks(e, reading)
  THEN [e EXCEPT !.pending = Trigger(clock, reading)] ELSE e

NewDay(e, when, reading) ==
  IF e.day = when.day THEN e
  ELSE [e EXCEPT !.day = when.day, !.choppy = reading.choppy]

FillPending(e, bar, when) ==
  IF e.pending # "NONE" /\ e.position = "NONE"
  THEN Enter(e, e.pending, EntryFill(e, bar), bar.open, when) ELSE e

Regime(e, clock, reading) ==
  IF OfficeHours(clock) THEN [e EXCEPT !.regime = reading.regime] ELSE e

Marked(e, bar) ==
  LET move == IF e.position = "LONG" THEN bar.close - e.entry ELSE e.entry - bar.close
  IN [e EXCEPT !.gains = Append(@, move)]

\* One closed bar: the engine after it and the exit it asks for.
OnBar(e, when, bar, reading, fills) ==
  LET dated == NewDay(e, when, reading)
      filled == IF fills THEN FillPending(dated, bar, when) ELSE dated
      read == Regime(filled, when.clock, reading)
      marked == Marked(read, bar)
  IN IF read.position = "NONE"
     THEN [engine |-> Signalled(read, when.clock, reading), exit |-> "KEEP"]
     ELSE [engine |-> marked, exit |-> ExitVxnAware(marked, when.clock)]
Exits(reason) == reason \notin {"KEEP", "profitable"}

-----------------------------------------------------------------------------
(***************************************************************************)
(* The replays.                                                            *)
(***************************************************************************)
Net(trade) == (trade.pts - Commission) * Lots
LastTrade(e) == e.trades[Len(e.trades)]
StopAt(direction, fill) ==
  (fill * (IF direction = "BUY" THEN 100 - StopPct ELSE 100 + StopPct)) \div 100

ReferenceBar(e, when, bar, reading) ==
  LET out == OnBar(e, when, bar, reading, TRUE)
  IN IF Exits(out.exit)
     THEN ExitFilled(out.engine, ExitFill(out.engine, bar), when, out.exit) ELSE out.engine

\* Mutant: the caps are not looked at.
MayEnterUncapped(r, when) == when.clock < Cutoff

\* 1. The pending signal is filled at the open, or dropped.
MayEnter(r, when) ==
  /\ when.clock < Cutoff
  /\ r.realised[when.day] > -LossLimit
  /\ r.entered[when.day] < MaxDayTrades

\* Mutant: the live replay pays no slip on its entries.
ParityFillAtOpen(r, bar, when) ==
  IF r.engine.pending = "NONE" \/ r.engine.position # "NONE" THEN r
  ELSE IF MayEnter(r, when)
  THEN [r EXCEPT !.engine = Enter(@, r.engine.pending, bar.open, bar.open, when),
                 !.stop = StopAt(r.engine.pending, bar.open), !.entered[when.day] = @ + 1]
  ELSE [r EXCEPT !.engine = CancelPending(@), !.refused = TRUE]

ParityFill(r, bar, when) ==
  IF r.engine.pending = "NONE" \/ r.engine.position # "NONE" THEN r
  ELSE IF MayEnter(r, when)
  THEN LET fill == EntryFill(r.engine, bar)
       IN [r EXCEPT !.engine = Enter(@, r.engine.pending, fill, fill, when),
                    !.stop = StopAt(r.engine.pending, fill), !.entered[when.day] = @ + 1]
  ELSE [r EXCEPT !.engine = CancelPending(@), !.refused = TRUE]

\* A position closed by the replay: the trade is booked on the day it ends.
\* Mutant: the trade is booked on the day the position was opened.
ParityExitOnEntryDay(r, price, when, reason) ==
  LET closed == ExitFilled(r.engine, price, when, reason)
      day == Max({1, r.engine.entered.day})
  IN [r EXCEPT !.engine = closed, !.stop = NoStop, !.realised[day] = @ + Net(LastTrade(closed))]

ParityExit(r, price, when, reason) ==
  LET closed == ExitFilled(r.engine, price, when, reason)
  IN [r EXCEPT !.engine = closed, !.stop = NoStop,
               !.realised[when.day] = @ + Net(LastTrade(closed))]

\* 2. The broker's stop, 3. the flatten: the engine is not shown their bar.
StopHit(r, bar) ==
  /\ r.stop # NoStop
  /\ \/ r.engine.position = "LONG" /\ bar.low <= r.stop
     \/ r.engine.position = "SHORT" /\ bar.high >= r.stop

Flattens(r, when) == ~HoldOvernight /\ r.engine.position # "NONE" /\ when.clock >= Cutoff

ParityFlatten(r, bar, when) ==
  LET closed == ParityExit(r, ExitFill(r.engine, bar), when, "SESSION_FLATTEN")
  IN [closed EXCEPT !.engine = CancelPending(@)]

\* 4. The engine sees the bar, its exit is filled at the close.
ParityEngine(r, bar, when, reading) ==
  LET out == OnBar(r.engine, when, bar, reading, FALSE)
      seen == [r EXCEPT !.engine = out.engine]
  IN IF Exits(out.exit) /\ out.engine.position # "NONE"
     THEN ParityExit(seen, ExitFill(out.engine, bar), when, out.exit) ELSE seen

ParityBar(r, when, bar, reading) ==
  LET filled == ParityFill(r, bar, when)
  IN IF StopHit(filled, bar) THEN ParityExit(filled, filled.stop, when, "STOP_FILLED_BROKER")
     ELSE IF Flattens(filled, when) THEN ParityFlatten(filled, bar, when)
     ELSE ParityEngine(filled, bar, when, reading)

\* The trades of a replay itself, among those of its engine.
OwnTrades(trades) == DOMAIN trades \ DOMAIN brought

\* Bars the engine of the live-parity replay was not shown.
Skipped(r) == {i \in OwnTrades(r.engine.trades) :
                 r.engine.trades[i].reason \in {"STOP_FILLED_BROKER", "SESSION_FLATTEN"}}

\* The caps start from nothing, whatever trades the engine holds.
NewParity(engine) ==
  [engine |-> engine, stop |-> NoStop, realised |-> [d \in 1 .. ReplayDays |-> 0],
   entered |-> [d \in 1 .. ReplayDays |-> 0], refused |-> FALSE]

ReplayInit ==
  /\ at = [day |-> 1, clock |-> -1]
  /\ ref \in {FreshEngine} \cup SavedStates
  /\ live = NewParity(ref)
  /\ brought = ref.trades

\* The next bar, of the same day or the next; a day may end early.  Once the
\* engines were shown different bars their indicators may differ.
ReplayBar(when, bar, reading, readingLive) ==
  /\ (when.day = at.day /\ when.clock > at.clock) \/ when.day = at.day + 1
  /\ Skipped(live) = {} => readingLive = reading
  /\ at' = when
  /\ ref' = ReferenceBar(ref, when, bar, reading)
  /\ live' = ParityBar(live, when, bar, readingLive)
  /\ UNCHANGED brought

ReplayNext ==
  \E when \in [day : 1 .. ReplayDays, clock : Clocks], bar \in Tape,
     reading \in Readings, readingLive \in Readings : ReplayBar(when, bar, reading, readingLive)

ReplaySpec == ReplayInit /\ [][ReplayNext]_replayVars

-----------------------------------------------------------------------------
(***************************************************************************)
(* The report, compute_sandbox_metrics.                                    *)
(***************************************************************************)
Capital == 100000
\* A fall from a peak, in basis points of it.
Fall(peak, equity) == ((peak - equity) * 10000) \div peak
Reported(m, trade) ==
  LET equity == m.equity + Net(trade)
      peak == Max({m.peak, equity})
  IN [equity |-> equity, peak |-> peak, wins |-> m.wins + (IF Net(trade) > 0 THEN 1 ELSE 0),
      drawdown |-> Max({m.drawdown, Fall(peak, equity)}),
      daily |-> [m.daily EXCEPT ![trade.exited.day] = @ + Net(trade)]]

NoTrades ==
  [equity |-> Capital, peak |-> Capital, wins |-> 0, drawdown |-> 0,
   daily |-> [d \in 0 .. ReplayDays |-> 0]]

Metrics(trades) ==
  LET report[k \in 0 .. Len(trades)] == IF k = 0 THEN NoTrades ELSE Reported(report[k - 1], trades[k])
  IN report[Len(trades)]

-----------------------------------------------------------------------------
ReplayTypeOK ==
  /\ at \in [day : 1 .. ReplayDays, clock : Clocks \cup {-1}]
  /\ ref \in Engines
  /\ live \in [engine : Engines, stop : Nat \cup {NoStop}, realised : [1 .. ReplayDays -> Int],
               entered : [1 .. ReplayDays -> Nat], refused : BOOLEAN]
  /\ brought \in Seq(TradeRecords)

Inherited(trade) == trade.entered.day = 0
Entered(day) == {i \in DOMAIN live.engine.trades : live.engine.trades[i].entered.day = day}
EndedOn(day) == {i \in OwnTrades(live.engine.trades) : live.engine.trades[i].exited.day = day}

\* The most a trade entered at such a price can lose: to its stop, and the slip.
WorstTrade(price) == ((price * StopPct) \div 100 + 1 + Slip + Commission) * Lots

\* A day's loss that the replay realised passes the limit by less than one trade, though the
\* limit is only looked at before an entry; a position entered by the replay has
\* its broker stop until it is closed, and no other stop stands; from 15:55 on
\* nothing is held that the binding does not hold overnight.  A position from the
\* saved state has no stop, so days on which one ends are left out.
LossesStayCapped ==
  /\ \A day \in 1 .. ReplayDays :
       \/ \E i \in EndedOn(day) : Inherited(live.engine.trades[i])
       \/ \E b \in Tape : live.realised[day] > -LossLimit - WorstTrade(b.open + Slip)
  /\ (live.stop # NoStop) =
       (live.engine.position # "NONE" /\ live.engine.entered.day # 0)
  /\ ~HoldOvernight /\ at.clock >= Cutoff => live.engine.position = "NONE"

\* Two points of an equity curve between which it fell.  Below zero a fall is
\* from the highest point so far: as a share of a smaller one it would be larger.
Falls(equity) ==
  {p \in (DOMAIN equity) \X (DOMAIN equity) :
     /\ p[1] <= p[2] /\ equity[p[1]] > 0
     /\ equity[p[2]] < 0 => \A k \in 0 .. p[2] : equity[k] <= equity[p[1]]}

\* The report computed from the trades afterwards shows, day by day, the P&L of the
\* trades the saved state brought along and, beside it, the P&L the replay gated its
\* entries with, and the entries it counted; and its drawdown is the largest fall
\* between two points of the equity curve.
ReportMatchesReplay ==
  LET trades == live.engine.trades
      equity == [i \in 0 .. Len(trades) |-> Metrics(SubSeq(trades, 1, i)).equity]
      opened(day) == IF live.engine.position # "NONE" /\ live.engine.entered.day = day THEN 1 ELSE 0
  IN /\ \A day \in 1 .. ReplayDays :
          /\ Metrics(trades).daily[day] = Metrics(brought).daily[day] + live.realised[day]
          /\ live.entered[day] = Cardinality(Entered(day)) + opened(day)
     /\ Metrics(trades).drawdown = Max({Fall(equity[p[1]], equity[p[2]]) : p \in Falls(equity)})

\* What explains a difference: while the live rules refused no entry, stopped and
\* flattened nothing, and the trades so far ended on the same bars, both replays
\* made the same trades at the same prices and hold and wait for the same.  The
\* reasons of their exits may differ: a gain is measured from the price at which
\* the live rules entered, but from the open that the reference entered at.
Outcome(trade) == <<trade.direction, trade.pts, trade.entered, trade.exited>>
SameBars(mine, others) ==
  /\ Len(mine) = Len(others)
  /\ \A i \in 1 .. Len(mine) : /\ mine[i].entered = others[i].entered
                               /\ mine[i].exited = others[i].exited
SameOutcomes(mine, others) ==
  Len(mine) = Len(others) /\ \A i \in 1 .. Len(mine) : Outcome(mine[i]) = Outcome(others[i])

DifferencesExplained ==
  ~live.refused /\ Skipped(live) = {} /\ SameBars(ref.trades, live.engine.trades)
    => /\ SameOutcomes(ref.trades, live.engine.trades)
       /\ <<ref.position, ref.pending, ref.fill>> =
            <<live.engine.position, live.engine.pending, live.engine.fill>>
=============================================================================
