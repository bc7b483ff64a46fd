------------------------------ MODULE PaperLog -----------------------------
(***************************************************************************)
(* The daily paper log of a futures engine and its parser                  *)
(* (hq/v221_log.py), fed line by line as the log grows.  The engine is not *)
(* in the repository: its lines are those of the fixtures, it holds one    *)
(* position at a time, may carry one in from the day before, and may die   *)
(* and restart at any line.  A price is what tells two fills apart; P&L is *)
(* points; bars and fills carry no clock but the stamps of a quiet log,    *)
(* which are checked by themselves.                                        *)
(***************************************************************************)
EXTENDS Integers, Sequences, FiniteSets, FiniteSetsExt, Functions

None == 0

CONSTANTS
  Prices,      \* a fill's price, positive
  SignalBars,  \* bars a trigger may name
  MaxPaperTrades, MaxTriggers, MaxDeaths, \* bounds
  Gaps,        \* hours between two lines of a quiet log
  LastHour     \* bound: hours after the file date's midnight

\* A bare time tells midnight by a fall of twelve hours or more, so a quiet log must not pause longer.
ASSUME PaperAssumption ==
  /\ Prices \subseteq Nat \ {None} /\ Prices # {}
  /\ MaxPaperTrades \in Nat \ {0} /\ Gaps \subseteq 0 .. 12

VARIABLES
  engine,  \* what the engine does: [phase, no, side, entry, exit]
  closedTrades, \* trades it has written a CLOSED line of: [no, side, entry, exit, totals]
  wrote,   \* counts of trades, triggers, deaths (bounds)
  hour,    \* of the last line
  parsed   \* the parser after the lines so far

paperVars == <<engine, closedTrades, wrote, hour, parsed>>

Sides == {"LONG", "SHORT"}
Points(t) == IF t.side = "LONG" THEN t.exit - t.entry ELSE t.entry - t.exit

-----------------------------------------------------------------------------
(***************************************************************************)
(* The parser: its rows, and the trades it is in the middle of, as indices *)
(* into its trades.                                                        *)
(***************************************************************************)
NewParser ==
  [signals |-> <<>>, trades |-> <<>>, fills |-> <<>>, unparsed |-> 0, gateBlocks |-> 0, capBlocks |-> 0,
   pending |-> None, exiting |-> None, lastClosed |-> None, lastSignal |-> None,
   inSummary |-> FALSE, summary |-> [closed |-> -1, net |-> 0],
   day |-> 0, clock |-> -1, stamp |-> -1]

\* _split_lines: a stamp with a date, a bare time, or none.
Stamped(p, kind, at) ==
  LET clock == at % 24
      day == CASE kind = "full" -> at \div 24
               [] kind = "time" /\ p.clock >= 0 /\ clock < p.clock /\ p.clock - clock >= 12 -> p.day + 1
               [] OTHER -> p.day
  IN IF kind = "none" THEN [p EXCEPT !.stamp = -1]
     ELSE [p EXCEPT !.day = day, !.clock = clock, !.stamp = 24 * day + clock]

\* The first trade of a number.
TradeOf(p, no) ==
  LET found == {i \in DOMAIN p.trades : p.trades[i].no = no}
  IN IF found = {} THEN None ELSE Min(found)

Unparsed(p) == [p EXCEPT !.unparsed = @ + 1]
NewTrade(side, no) ==
  [side |-> side, no |-> no, entry |-> None, exit |-> None, bar |-> None, reason |-> "none", net |-> <<>>,
   closed |-> FALSE]
OrElse(value, other) == IF value # None THEN value ELSE other

\* A trigger repeated for a bar and side is the signal it repeats.
Trigger(p, line) ==
  LET same == {i \in DOMAIN p.signals : p.signals[i].bar = line.bar /\ p.signals[i].side = line.side}
      blocks == p.gateBlocks + (IF line.pass THEN 0 ELSE 1)
      signal == [bar |-> line.bar, side |-> line.side, outcome |-> IF line.pass THEN "SKIPPED" ELSE "BLOCKED"]
  IN IF same # {} THEN [p EXCEPT !.lastSignal = Min(same), !.gateBlocks = blocks]
     ELSE [p EXCEPT !.signals = Append(@, signal), !.lastSignal = Len(p.signals) + 1, !.gateBlocks = blocks]

NoEntries(p, line) ==
  LET counted == [p EXCEPT !.capBlocks = IF line.why = "loss cap" THEN @ + 1 ELSE @]
  IN IF p.lastSignal # None /\ p.signals[p.lastSignal].outcome = "SKIPPED"
     THEN [counted EXCEPT !.signals[p.lastSignal].outcome = "BLOCKED"] ELSE counted

Entry(p, line) ==
  LET mine == p.lastSignal # None /\ p.signals[p.lastSignal].side = line.side
      bar == IF mine THEN p.signals[p.lastSignal].bar ELSE None
      opened == [p EXCEPT !.trades = Append(@, [NewTrade(line.side, None) EXCEPT !.bar = bar]),
                          !.pending = Len(p.trades) + 1]
  IN IF mine THEN [opened EXCEPT !.signals[p.lastSignal].outcome = "ENTERED"] ELSE opened

\* A filled order is the pending entry's first, else the exit's first, else an adjustment.
Order(p, line) ==
  LET role == IF p.pending # None /\ p.trades[p.pending].entry = None THEN "ENTRY"
              ELSE IF p.exiting # None /\ p.trades[p.exiting].exit = None
                   THEN IF p.trades[p.exiting].reason = "stop" THEN "STOP" ELSE "EXIT"
              ELSE "ADJUST"
      filled == [p EXCEPT !.fills = Append(@, role)]
  IN CASE role = "ENTRY" -> [filled EXCEPT !.trades[p.pending].entry = line.px]
       [] role \in {"STOP", "EXIT"} -> [filled EXCEPT !.trades[p.exiting].exit = line.px]
       [] OTHER -> filled

Filled(p, line) ==
  LET known == TradeOf(p, line.no)
      i == IF known = None /\ p.pending # None /\ p.trades[p.pending].no = None THEN p.pending ELSE known
      r == p.trades[i]
  IN IF i = None THEN Unparsed(p)
     ELSE IF i = p.exiting
     THEN [p EXCEPT !.trades[i] = [r EXCEPT !.exit = OrElse(r.exit, line.px), !.no = line.no]]
     ELSE [p EXCEPT !.trades[i] = [r EXCEPT !.entry = OrElse(r.entry, line.px), !.no = line.no], !.pending = None]

\* Mutant: an exit is not taken for the pending entry's.
ExitUnmatched(p, line) ==
  LET i == TradeOf(p, line.no)
  IN IF i = None THEN Unparsed(p)
     ELSE [p EXCEPT !.trades[i].reason = line.reason, !.exiting = i, !.pending = None]

\* An exit of an unknown number is the pending entry's.
Exit(p, line) ==
  LET i == OrElse(TradeOf(p, line.no), p.pending)
      r == p.trades[i]
  IN IF i = None THEN Unparsed(p)
     ELSE [p EXCEPT !.trades[i] = [r EXCEPT !.no = OrElse(r.no, line.no), !.reason = line.reason],
                    !.exiting = i, !.pending = None]

ApplyTotals(p, i, net) == [p EXCEPT !.trades[i].net = <<net>>]

\* A trade closed that was never opened here is made from the line.
Closes(p, line) ==
  LET known == TradeOf(p, line.no)
      i == IF known = None THEN Len(p.trades) + 1 ELSE known
      with == IF known = None THEN [p EXCEPT !.trades = Append(@, NewTrade(line.side, line.no))] ELSE p
      r == with.trades[i]
  IN [with EXCEPT !.trades[i] = [r EXCEPT !.entry = OrElse(r.entry, line.entry), !.exit = OrElse(r.exit, line.exit),
                                          !.closed = TRUE],
                  !.lastClosed = i, !.exiting = IF @ = i THEN None ELSE @]

Totals(p, line) == IF p.lastClosed = None THEN Unparsed(p) ELSE ApplyTotals(p, p.lastClosed, line.net)

SummaryLine(p, line) ==
  IF line.tag = "figures" /\ p.summary.closed = -1
  THEN [p EXCEPT !.summary = [closed |-> line.closed, net |-> line.net]] ELSE p

\* Headers and operations lines first, then the summary takes everything, then the handlers.
Feed(p, line) ==
  CASE line.tag = "other" -> p
    [] line.tag # "other" /\ p.inSummary -> SummaryLine(p, line)
    [] OTHER ->
        CASE line.tag = "trigger" -> Trigger(p, line)
          [] line.tag = "no entries" -> NoEntries(p, line)
          [] line.tag = "entry" -> Entry(p, line)
          [] line.tag = "order" -> Order(p, line)
          [] line.tag = "filled" -> Filled(p, line)
          [] line.tag = "exit" -> Exit(p, line)
          [] line.tag = "closed" -> Closes(p, line)
          [] line.tag = "totals" -> Totals(p, line)
          [] line.tag = "summary" -> [p EXCEPT !.inSummary = TRUE]
          [] line.tag = "hold" -> p
          [] OTHER -> Unparsed(p)

\* checks: the day's closed trades and what they made, against the summary; a trade without
\* totals counts as nothing, and one point is forgiven.
ClosedParsed == {i \in DOMAIN parsed.trades : parsed.trades[i].closed}
NetParsed ==
  SumFunction([i \in ClosedParsed |-> IF parsed.trades[i].net = <<>> THEN 0 ELSE parsed.trades[i].net[1]])
Consistent ==
  parsed.summary.closed = -1
  \/ /\ parsed.summary.closed = Cardinality(ClosedParsed)
     /\ parsed.summary.net - NetParsed \in {-1, 0, 1}

-----------------------------------------------------------------------------
(***************************************************************************)
(* The engine's lines.                                                     *)
(***************************************************************************)
Read(p, line) == Feed(Stamped(p, "full", hour), line)
Write(line) == parsed' = Read(parsed, line)
Line(tag) == [tag |-> tag]
Flat == [phase |-> "flat", no |-> None, side |-> "LONG", entry |-> None, exit |-> None]

PaperInit ==
  /\ engine \in {Flat} \cup {[Flat EXCEPT !.phase = "held", !.no = 1, !.side = s, !.entry = Min(Prices)] :
                               s \in Sides}
  /\ closedTrades = <<>> /\ hour = 9
  /\ wrote = [trades |-> 1, triggers |-> 0, deaths |-> 0]
  /\ parsed = NewParser

WriteTrigger(bar, side, pass) ==
  /\ engine.phase = "flat" /\ wrote.triggers < MaxTriggers
  /\ Write([tag |-> "trigger", bar |-> bar, side |-> side, pass |-> pass])
  /\ engine' = IF pass THEN [Flat EXCEPT !.phase = "signalled", !.side = side] ELSE engine
  /\ wrote' = [wrote EXCEPT !.triggers = @ + 1]
  /\ UNCHANGED <<closedTrades, hour>>

WriteNoEntries ==
  /\ engine.phase = "signalled"
  /\ \E why \in {"loss cap", "cutoff"} : Write([tag |-> "no entries", why |-> why])
  /\ engine' = Flat
  /\ UNCHANGED <<closedTrades, wrote, hour>>

\* The entry is announced, then filled, then booked under its number.
WriteEntry ==
  /\ engine.phase = "signalled" /\ wrote.trades < MaxPaperTrades
  /\ Write([tag |-> "entry", side |-> engine.side])
  /\ engine' = [engine EXCEPT !.phase = "entering", !.no = wrote.trades + 1]
  /\ wrote' = [wrote EXCEPT !.trades = @ + 1]
  /\ UNCHANGED <<closedTrades, hour>>

WriteFill(px) ==
  /\ \/ engine.phase = "entering" /\ engine' = [engine EXCEPT !.phase = "entered", !.entry = px]
     \/ engine.phase = "exiting" /\ engine' = [engine EXCEPT !.phase = "left", !.exit = px]
  /\ Write([tag |-> "order", px |-> px])
  /\ UNCHANGED <<closedTrades, wrote, hour>>

WriteBooked ==
  /\ engine.phase \in {"entered", "left"}
  /\ Write([tag |-> "filled", no |-> engine.no, px |-> IF engine.phase = "left" THEN engine.exit ELSE engine.entry])
  /\ engine' = [engine EXCEPT !.phase = IF @ = "entered" THEN "held" ELSE "booked"]
  /\ UNCHANGED <<closedTrades, wrote, hour>>

WriteExit ==
  /\ engine.phase = "held"
  /\ \E reason \in {"stop", "signal"} :
       parsed' = Read(Read(parsed, Line("hold")), [tag |-> "exit", no |-> engine.no, reason |-> reason])
  /\ engine' = [engine EXCEPT !.phase = "exiting"]
  /\ UNCHANGED <<closedTrades, wrote, hour>>

\* Some engines do not book the exit's fill; the totals are a line of their own.
WriteClosed(totals) ==
  /\ engine.phase \in {"left", "booked"}
  /\ LET t == [no |-> engine.no, side |-> engine.side, entry |-> engine.entry, exit |-> engine.exit,
               totals |-> totals]
         closed == Read(parsed, [tag |-> "closed", no |-> t.no, side |-> t.side, entry |-> t.entry, exit |-> t.exit])
     IN /\ parsed' = IF totals THEN Read(closed, [tag |-> "totals", net |-> Points(t)]) ELSE closed
        /\ closedTrades' = Append(closedTrades, t)
  \* without its totals the engine died between the two lines
  /\ ~totals => wrote.deaths < MaxDeaths
  /\ wrote' = [wrote EXCEPT !.deaths = IF totals THEN @ ELSE @ + 1]
  /\ engine' = Flat
  /\ UNCHANGED hour

\* Death and restart: an entry in flight was filled or was not, and the position is kept in the
\* engine's own database.
Dies(px) ==
  /\ wrote.deaths < MaxDeaths
  /\ wrote' = [wrote EXCEPT !.deaths = @ + 1]
  /\ \/ engine.phase \in {"flat", "signalled", "entering"} /\ engine' = Flat
     \/ engine.phase = "entering" /\ engine' = [engine EXCEPT !.phase = "held", !.entry = px]
     \/ engine.phase = "entered" /\ engine' = [engine EXCEPT !.phase = "held"]
     \/ engine.phase \in {"held", "exiting", "left", "booked"} /\ UNCHANGED engine
  /\ Write(Line("other"))
  /\ UNCHANGED <<closedTrades, hour>>

PointsMade == SumFunction([k \in DOMAIN closedTrades |-> Points(closedTrades[k])])

\* The summary counts the day's trades from the database.
WriteSummary ==
  /\ engine.phase = "flat" /\ ~parsed.inSummary
  /\ LET begun == Read(parsed, Line("summary"))
         told == Read(begun, [tag |-> "figures", closed |-> Len(closedTrades), net |-> PointsMade])
     IN parsed' = Read(told, Line("other"))
  /\ engine' = [engine EXCEPT !.phase = "closing"]
  /\ UNCHANGED <<closedTrades, wrote, hour>>

\* A quiet engine's line, some hours later; a line without a stamp comes at once.
WriteLater(gap, stamp) ==
  /\ engine = Flat /\ wrote.triggers = 0 /\ closedTrades = <<>> /\ hour + gap <= LastHour
  /\ stamp = "none" => gap = 0
  /\ hour' = hour + gap
  /\ parsed' = Feed(Stamped(IF parsed.clock = -1 THEN Stamped(parsed, "full", hour) ELSE parsed,
                            stamp, hour'), Line("other"))
  /\ UNCHANGED <<engine, closedTrades, wrote>>

PaperNext ==
  \/ \E bar \in SignalBars, side \in Sides, pass \in BOOLEAN : WriteTrigger(bar, side, pass)
  \/ WriteNoEntries \/ WriteEntry \/ WriteBooked \/ WriteExit \/ WriteSummary
  \/ \E px \in Prices : WriteFill(px) \/ Dies(px)
  \/ \E totals \in BOOLEAN : WriteClosed(totals)
  \/ \E gap \in Gaps \cup {0}, stamp \in {"full", "time", "none"} : WriteLater(gap, stamp)

-----------------------------------------------------------------------------
(***************************************************************************)
(* Properties.                                                             *)
(***************************************************************************)
PaperTypeOK ==
  /\ engine.phase \in {"flat", "signalled", "entering", "entered", "held", "exiting", "left", "booked", "closing"}
  /\ \A i \in DOMAIN parsed.trades : parsed.trades[i].side \in Sides /\ parsed.trades[i].no \in 0 .. MaxPaperTrades
  /\ {parsed.pending, parsed.exiting, parsed.lastClosed} \subseteq {None} \cup DOMAIN parsed.trades
  /\ parsed.lastSignal \in {None} \cup DOMAIN parsed.signals

\* Wherever the engine dies, and whether it carried the position in, every trade it closed is
\* read once, with its side, prices and points.
TradesRead ==
  \A k \in DOMAIN closedTrades :
    LET t == closedTrades[k]
        found == {i \in DOMAIN parsed.trades : parsed.trades[i].no = t.no}
    IN /\ Cardinality(found) = 1
       /\ \A i \in found : LET r == parsed.trades[i] IN
            /\ r.closed /\ r.side = t.side /\ r.entry = t.entry /\ r.exit = t.exit
            /\ t.totals => r.net = <<Points(t)>>

\* A trade read as open, with an entry price, is the engine's position.
OpenTradesReal ==
  \A i \in DOMAIN parsed.trades :
    LET r == parsed.trades[i]
    IN ~r.closed /\ r.entry # None
         => engine.phase \in {"entered", "held", "exiting", "left", "booked"}
            /\ r.side = engine.side /\ r.entry = engine.entry /\ r.no \in {None, engine.no}

\* A day that reconciles with its summary has every closed trade and their points, to one;
\* and a day whose lines all came through reconciles.
ReconciledHonest ==
  parsed.inSummary =>
    /\ Consistent => Cardinality(ClosedParsed) = Len(closedTrades) /\ NetParsed - PointsMade \in {-1, 0, 1}
    /\ (\A k \in DOMAIN closedTrades : closedTrades[k].totals) => Consistent

\* Across midnight a bare time gets the right day, if no two lines are more than twelve hours
\* apart.
StampsTell == parsed.stamp \in {-1, hour}

PaperLogReads == TradesRead /\ OpenTradesReal /\ ReconciledHonest /\ StampsTell
=============================================================================
