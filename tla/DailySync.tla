------------------------------ MODULE DailySync -----------------------------
(***************************************************************************)
(* What the warehouse derives for one strategy from its paper logs and the *)
(* replays of the same sessions: the rows a log and a replay leave         *)
(* (hq/loader.py), the pairing of live and replayed trades and the daily   *)
(* sync row (hq/compare.py), and the recomputation that writes them with   *)
(* the daily P&L and its windows (hq/recompute.py, hq/kpis.py).  Time is   *)
(* minutes from the first day's midnight, money a number, one contract of  *)
(* point value 1.  Which files come, fail or go stale is Loader's matter:  *)
(* here each session has one log and one replay, with their versions.      *)
(***************************************************************************)
EXTENDS Integers, Sequences, SequencesExt, FiniteSets, FiniteSetsExt, Functions

CONSTANTS
  DayMinutes,  \* minutes of a day
  RollMinute,  \* session_roll_hour: exits from here on are the next session's
  DueMinute,   \* BACKTEST_DUE
  MatchWindow, \* MATCH_WINDOW
  OffDays,     \* days that are no trading days
  PaperStart,  \* paper_start_date
  LogsOf,      \* day -> versions of its log: sequence of [trades, capAt, summary]
  ReplaysOf,   \* day -> its replay as it is replaced: sequence of [trades, whole, reported, net, unparsed]
  Moments,     \* times at which something may happen, ascending
  CapLimit,    \* daily_loss_cap, positive
  PctFlag,     \* sync_pct_threshold, in percent
  FloorFlag,   \* sync_usd_floor
  RoundTrip,   \* commission of a round trip
  StartCapital

\* A trade of a log or a replay: without an exit (0) it is still open, without a net (<<>>)
\* its file did not say what it made.
SyncTraded(t) ==
  /\ t.side \in {"LONG", "SHORT"} /\ t.entry \in Nat /\ t.exit \in Nat
  /\ t.entryPx \in Int /\ t.exitPx \in Int /\ (t.net # <<>> => t.net[1] \in Int)

\* No two trades of a log enter in one minute on one side, no five days in a row are off.
ASSUME SyncAssumption ==
  /\ DayMinutes \in Nat \ {0} /\ RollMinute \in 0 .. DayMinutes - 1 /\ MatchWindow \in Nat
  /\ PaperStart \in Nat /\ RoundTrip \in Int /\ StartCapital \in Int
  /\ Moments \in Seq(Nat) /\ Moments # <<>>
  /\ \A off \in OffDays : \E next \in off + 1 .. off + 4 : next \notin OffDays
  /\ IsFiniteSet(DOMAIN LogsOf) /\ DOMAIN LogsOf \subseteq Nat
  /\ DOMAIN LogsOf = DOMAIN ReplaysOf /\ DOMAIN LogsOf \cap OffDays = {}
  /\ \A d \in DOMAIN LogsOf : /\ Len(LogsOf[d]) \in Nat /\ DOMAIN LogsOf[d] = 1 .. Len(LogsOf[d])
                            /\ Len(ReplaysOf[d]) \in Nat /\ DOMAIN ReplaysOf[d] = 1 .. Len(ReplaysOf[d])
  /\ \A d \in DOMAIN LogsOf : \A i \in DOMAIN LogsOf[d] :
       LET trades == LogsOf[d][i].trades
       IN /\ IsFiniteSet(trades) /\ \A t \in trades : SyncTraded(t)
          /\ \A t, u \in trades : t.entry = u.entry /\ t.side = u.side => t = u
  /\ \A d \in DOMAIN ReplaysOf : \A i \in DOMAIN ReplaysOf[d] :
       LET trades == ReplaysOf[d][i].trades
       IN IsFiniteSet(trades) /\ \A t \in trades : SyncTraded(t) /\ t.entry # 0

VARIABLES
  moment,      \* index of the present
  logNo,       \* day -> version of its log loaded, 0 for none
  replayNo,    \* day -> version of its replay loaded
  paperRows,   \* core.paper_trade
  paperStatus, \* ops.day_status.paper_status
  touched,     \* rows changed since the last recomputation
  derived,     \* what it wrote, by day: pairs, sync row, P&L, week and month so far
  finalAt      \* ops.day_status.finalized_at, 0 for null

syncVars == <<moment, logNo, replayNo, paperRows, paperStatus, touched, derived, finalAt>>

SessionDays == DOMAIN LogsOf
Now == Moments[moment]
CalendarToday == Now \div DayMinutes
Gap(a, b) == IF a < b THEN b - a ELSE a - b
WeekOf(day) == day \div 7
NetOf(rows) == SumFunction([r \in rows |-> r.net])

-----------------------------------------------------------------------------
(***************************************************************************)
(* Rows of a log and of a replay.                                          *)
(***************************************************************************)
\* Mutant: an exit after the roll is the next day's, trading day or not.
SessionUnskipped(at) == IF at % DayMinutes >= RollMinute THEN at \div DayMinutes + 1 ELSE at \div DayMinutes

\* An exit at or after the roll, or on no trading day, is the next trading day's.
SessionFor(at) ==
  LET day == at \div DayMinutes
  IN IF at % DayMinutes < RollMinute /\ day \notin OffDays THEN day
     ELSE CHOOSE next \in day + 1 .. day + 5 :
            next \notin OffDays /\ \A between \in day + 1 .. next - 1 : between \in OffDays

PointsMoved(t) == IF t.side = "LONG" THEN t.exitPx - t.entryPx ELSE t.entryPx - t.exitPx

\* What the log says a trade made, or else its points less the commission.
NetOfTrade(t) == IF t.net # <<>> THEN t.net[1] ELSE PointsMoved(t) - RoundTrip

\* A trade without an entry leaves no row; one that is open stays on its log's day.
PaperRow(day, t) ==
  LET closed == t.exit # 0
  IN [file |-> day, day |-> IF closed THEN SessionFor(t.exit) ELSE day, side |-> t.side,
      entry |-> t.entry, exit |-> t.exit, reason |-> t.reason,
      gross |-> IF closed THEN PointsMoved(t) ELSE 0, net |-> IF closed THEN NetOfTrade(t) ELSE 0]
RowsOfLog(day, log) == {PaperRow(day, t) : t \in {u \in log.trades : u.entry # 0}}

ReplayRow(t) ==
  [side |-> t.side, entry |-> t.entry, exit |-> t.exit, reason |-> t.reason, net |-> NetOfTrade(t)]
Replay(day) == ReplaysOf[day][replayNo[day]]
ReplayRows(day) == IF replayNo[day] = 0 THEN {} ELSE {ReplayRow(t) : t \in Replay(day).trades}

\* core.backtest_run.status.
RunStatus(replay) ==
  LET n == Cardinality(replay.trades)
      net == SumFunction([t \in replay.trades |-> NetOfTrade(t)])
  IN IF ~replay.whole THEN "DATA_INCOMPLETE"
     ELSE IF \/ replay.reported # <<>> /\ replay.reported[1] # n
             \/ n = 0 /\ (replay.unparsed > 0 \/ replay.reported = <<>>)
             \/ n > 0 /\ replay.net # <<>> /\ Gap(replay.net[1], net) > 1
          THEN "INCOMPLETE"
     ELSE "COMPLETE"

\* reconcile_summary: the count, and the net or the gross to one.
Reconciles(summary, n, net, gross) ==
  summary # <<>> =>
    /\ summary[1].closed = n
    /\ Gap(summary[1].net, net) <= 1 \/ (gross # <<>> /\ Gap(summary[1].net, gross[1]) <= 1)

\* PaperDay.consistent: by the log's own figures, where a trade without totals made nothing.
LogConsistent(log) ==
  LET closed == {t \in log.trades : t.exit # 0}
      told == {t \in closed : t.net # <<>>}
  IN Reconciles(log.summary, Cardinality(closed), SumFunction([t \in told |-> t.net[1]]),
                IF told = closed THEN <<SumFunction([t \in closed |-> PointsMoved(t)])>> ELSE <<>>)

-----------------------------------------------------------------------------
(***************************************************************************)
(* Pairs of live and replayed trades.                                      *)
(***************************************************************************)
Absent == [entry |-> 0, net |-> 0, exit |-> 0, reason |-> "", side |-> ""]
TradeRef(r) == [entry |-> r.entry, net |-> r.net, exit |-> r.exit, reason |-> r.reason, side |-> r.side]
Refs(rows) == {TradeRef(r) : r \in rows}
LatestOf(refs) == CHOOSE last \in refs : \A b \in refs : b.entry <= last.entry
Pair(paper, replay, why) == [paper |-> paper, replay |-> replay, why |-> why]
Near(p, b) == p.side = b.side /\ Gap(p.entry, b.entry) <= MatchWindow

\* Mutant: a live trade taken by one replayed trade may be taken by the next.
KeepFree(free, best) == free

TakeFree(free, best) == free \ {best}

\* The free live trade of the same side that entered nearest, the earlier of two.
NearestTo(b, free) ==
  CHOOSE p \in free : \A q \in free :
    \/ Gap(p.entry, b.entry) < Gap(q.entry, b.entry)
    \/ Gap(p.entry, b.entry) = Gap(q.entry, b.entry) /\ p.entry <= q.entry

\* A replayed trade takes the nearest live one, or is told why none is near.
TakeNearest(taken, b, capAt) ==
  LET near == {p \in taken.free : Near(p, b)}
      best == NearestTo(b, near)
      why == IF capAt # 0 /\ b.entry >= capAt - MatchWindow THEN "LOSS_CAP_BLOCKED" ELSE "NOT_TAKEN_LIVE"
  IN IF near # {} THEN [free |-> TakeFree(taken.free, best), pairs |-> taken.pairs \cup {Pair(best, b, "")}]
     ELSE [free |-> taken.free, pairs |-> taken.pairs \cup {Pair(Absent, b, why)}]

\* match_trades: each replayed trade in turn, the latest last; the live ones left are alone.
MatchTrades(live, replayed, capAt) ==
  LET taken[S \in SUBSET replayed] ==
        IF S = {} THEN [free |-> live, pairs |-> {}]
        ELSE TakeNearest(taken[S \ {LatestOf(S)}], LatestOf(S), capAt)
  IN taken[replayed].pairs \cup {Pair(p, Absent, "NOT_IN_BACKTEST") : p \in taken[replayed].free}

\* When the day's cap fired: the exit that took the running net to it, or the log's event.
TradeCapAt(paper) ==
  LET byExit == SetToSortSeq(paper, LAMBDA a, b : a.exit < b.exit)
      Net(k) == NetOf({byExit[i] : i \in 1 .. k})
      breached == {k \in DOMAIN byExit : Net(k) <= -CapLimit}
  IN IF breached = {} THEN 0 ELSE byExit[Min(breached)].exit
CapFired(trade, event) ==
  IF trade # 0 /\ event # 0 THEN Min({trade, event}) ELSE IF trade # 0 THEN trade ELSE event

IsMatch(m) == m.paper # Absent /\ m.replay # Absent

\* Mutant: the excluded trades are compared all the same.
ComparedAlways(m) == m.replay # Absent

Compared(m) == m.replay # Absent /\ m.why # "LOSS_CAP_BLOCKED"

LastReason(refs) == IF refs = {} THEN "" ELSE LatestOf(refs).reason
OverPercent(delta, of) == of # 0 /\ 100 * Gap(delta, 0) > PctFlag * Gap(of, 0)

\* daily_sync; a threshold of a whole percent stands for the code's four digits.
SyncRow(paper, replayed, pairs, capHit) ==
  LET compared == {m.replay : m \in {q \in pairs : Compared(q)}}
      live == NetOf(paper)
      replay == NetOf(compared)
      told == {m \in pairs : IsMatch(m) /\ m.paper.reason # "" /\ m.replay.reason # ""}
      lastLive == LastReason(paper)
      lastReplay == LastReason(compared)
      reasonsDiffer == IF told # {} THEN \E m \in told : m.paper.reason # m.replay.reason
                       ELSE lastLive # "" /\ lastReplay # "" /\ lastLive # lastReplay
      flagged == \/ reasonsDiffer
                 \/ Cardinality(paper) # Cardinality(compared)
                 \/ OverPercent(live - replay, replay) /\ Gap(live, replay) > FloorFlag
  IN [trades |-> Cardinality(paper), net |-> live, capHit |-> capHit,
      replayed |-> IF replayed THEN Cardinality(compared) ELSE 0,
      delta |-> IF replayed THEN live - replay ELSE 0,
      status |-> IF ~replayed THEN "N/A"
                 ELSE IF flagged /\ (paper # {} \/ compared # {}) THEN "FLAG" ELSE "OK"]

-----------------------------------------------------------------------------
(***************************************************************************)
(* The recomputation.                                                      *)
(***************************************************************************)
NoneDerived == [pairs |-> <<>>, sync |-> <<>>, rolling |-> <<>>, daily |-> <<>>, windows |-> <<>>, weeks |-> <<>>]

ClosedRows == {r \in paperRows : r.exit # 0}
RowsOfDay(d) == {r \in ClosedRows : r.day = d}
LoadedLog(d) == LogsOf[d][logNo[d]]
HasLog(d) == d \in SessionDays /\ logNo[d] > 0
HasReplay(d) == d \in SessionDays /\ replayNo[d] > 0
LoggedDays ==
  {d \in SessionDays : HasLog(d) \/ HasReplay(d)} \cup {r.day : r \in ClosedRows}

\* The days' P&L from the start of the paper trading to the last day there is, none ahead of now.
PnlDays ==
  LET start == IF PaperStart # 0 THEN PaperStart ELSE Min(LoggedDays)
      end == Min({Max(LoggedDays), CalendarToday})
  IN IF LoggedDays = {} THEN {} ELSE (start .. end) \ OffDays
Windowed(days) == {r \in ClosedRows : days # {} /\ r.day \in Min(days) .. Max(days)}
DailyPnl(days) ==
  [d \in days |->
     LET upto == {e \in days : e <= d}
         Equity(e) == StartCapital + NetOf({r \in Windowed(days) : r.day \in {x \in days : x <= e}})
     IN [net |-> NetOf(RowsOfDay(d)), trades |-> Cardinality(RowsOfDay(d)), equity |-> Equity(d),
         peak |-> Max({StartCapital} \cup {Equity(e) : e \in upto})]]

\* window_bounds and window_kpis: the header figures, net of days and count of trades; the
\* months go as the weeks do.
Bounds(window, d, start) ==
  LET low == IF window = "WEEK" THEN 7 * WeekOf(d) ELSE start
  IN Max({low, start}) .. d
WindowSheet(days, d) ==
  [w \in {"WEEK", "ITD"} |->
     LET bounds == Bounds(w, d, Min(days))
         inside == {r \in Windowed(days) : r.day \in bounds}
     IN [days |-> Cardinality(days \cap bounds), trades |-> Cardinality(inside),
         net |-> SumFunction([e \in days \cap bounds |-> NetOf(RowsOfDay(e))]), told |-> NetOf(inside)]]

\* period_returns by week: each starts where the one before it ended.
WeekRows(days) ==
  [w \in {WeekOf(d) : d \in days} |->
     LET mine == {d \in days : WeekOf(d) = w}
         upto == {d \in days : WeekOf(d) <= w}
     IN [trades |-> Cardinality({r \in ClosedRows : r.day \in Min(mine) .. Max(mine)}),
         net |-> SumFunction([d \in mine |-> NetOf(RowsOfDay(d))]),
         account |-> StartCapital + SumFunction([d \in upto |-> NetOf(RowsOfDay(d))])]]

\* sync_rolling as of a logged day.
Rolling(sync, d) ==
  LET upto == {e \in DOMAIN sync : e <= d}
  IN [logged |-> Cardinality(upto), live |-> SumFunction([e \in upto |-> sync[e].net]),
      trades |-> SumFunction([e \in upto |-> sync[e].trades]),
      flags |-> Cardinality({e \in upto : sync[e].status = "FLAG"}),
      rated |-> Cardinality({e \in upto : sync[e].status # "N/A"}),
      last7 |-> Cardinality({e \in upto : e >= d - 7 /\ sync[e].status = "FLAG"})]

BacktestStatus(d) ==
  IF HasReplay(d) THEN IF RunStatus(Replay(d)) = "COMPLETE" THEN "LOADED" ELSE "DATA_INCOMPLETE"
  ELSE IF Now >= d * DayMinutes + DueMinute THEN "MISSING" ELSE "PENDING"

SumsMatch(d) ==
  LET rows == RowsOfDay(d)
  IN Reconciles(LoadedLog(d).summary, Cardinality(rows), NetOf(rows), <<SumFunction([r \in rows |-> r.gross])>>)

\* _recheck_paper_days: the summary against the rows now stored.
Rechecked(d) ==
  LET old == paperStatus[d]
  IN IF ~HasLog(d) THEN old
     ELSE IF old = "PARTIAL" /\ SumsMatch(d)
          THEN IF LoadedLog(d).summary # <<>> THEN "FINAL" ELSE "PRELIMINARY"
     ELSE IF old \in {"FINAL", "PRELIMINARY", "INTRADAY"} /\ ~SumsMatch(d) THEN "PARTIAL"
     ELSE old

PairsOfDay(d) ==
  LET event == IF HasLog(d) THEN LoadedLog(d).capAt ELSE 0
  IN IF HasReplay(d) THEN MatchTrades(Refs(RowsOfDay(d)), Refs(ReplayRows(d)), CapFired(TradeCapAt(RowsOfDay(d)), event))
     ELSE {}
SyncOfDay(d) ==
  SyncRow(Refs(RowsOfDay(d)), HasReplay(d), PairsOfDay(d),
          (HasLog(d) /\ LoadedLog(d).capAt # 0) \/ TradeCapAt(RowsOfDay(d)) # 0)

Derive ==
  LET days == PnlDays
      sync == [d \in LoggedDays |-> SyncOfDay(d)]
  IN [pairs |-> [d \in LoggedDays |-> PairsOfDay(d)],
      \* a row of core.daily_sync is never deleted
      sync |-> [d \in LoggedDays \cup DOMAIN derived.sync |-> IF d \in LoggedDays THEN sync[d] ELSE derived.sync[d]],
      rolling |-> [d \in LoggedDays |-> Rolling(sync, d)],
      daily |-> DailyPnl(days), windows |-> [d \in days |-> WindowSheet(days, d)], weeks |-> WeekRows(days)]

\* One transaction: the statuses, and every derived table anew.
RecomputeDays ==
  /\ derived' = Derive
  /\ paperStatus' = [d \in SessionDays |-> Rechecked(d)]
  /\ finalAt' = [d \in SessionDays |->
       IF HasLog(d) /\ LoadedLog(d).summary # <<>> /\ BacktestStatus(d) = "LOADED"
       THEN IF finalAt[d] # 0 THEN finalAt[d] ELSE Now ELSE 0]
  /\ touched' = FALSE
  /\ UNCHANGED <<moment, logNo, replayNo, paperRows>>

-----------------------------------------------------------------------------
SyncInit ==
  /\ moment = 1 /\ paperRows = {} /\ touched = FALSE /\ derived = NoneDerived
  /\ logNo = [d \in SessionDays |-> 0] /\ replayNo = [d \in SessionDays |-> 0]
  /\ paperStatus = [d \in SessionDays |-> "NONE"] /\ finalAt = [d \in SessionDays |-> 0]

\* A log loads: the rows of its earlier version go, and a row of the same entry and side is replaced.
LoadLog(d) ==
  /\ d <= CalendarToday /\ logNo[d] < Len(LogsOf[d])
  /\ LET log == LogsOf[d][logNo[d] + 1]
         new == RowsOfLog(d, log)
     IN /\ paperRows' = {r \in paperRows : r.file # d /\ \A n \in new : <<n.entry, n.side>> # <<r.entry, r.side>>} \cup new
        /\ paperStatus' = [paperStatus EXCEPT ![d] =
             IF ~LogConsistent(log) THEN "PARTIAL" ELSE IF log.summary # <<>> THEN "FINAL"
             ELSE IF d < CalendarToday THEN "PRELIMINARY" ELSE "INTRADAY"]
  /\ logNo' = [logNo EXCEPT ![d] = @ + 1]
  /\ touched' = TRUE
  /\ UNCHANGED <<moment, replayNo, derived, finalAt>>

LoadReplay(d) ==
  /\ d <= CalendarToday /\ replayNo[d] < Len(ReplaysOf[d])
  /\ replayNo' = [replayNo EXCEPT ![d] = @ + 1]
  /\ touched' = TRUE
  /\ UNCHANGED <<moment, logNo, paperRows, paperStatus, derived, finalAt>>

MomentPasses ==
  /\ moment < Len(Moments) /\ moment' = moment + 1
  /\ UNCHANGED <<logNo, replayNo, paperRows, paperStatus, touched, derived, finalAt>>

SyncNext == RecomputeDays \/ MomentPasses \/ \E d \in SessionDays : LoadLog(d) \/ LoadReplay(d)

-----------------------------------------------------------------------------
(***************************************************************************)
(* Properties.                                                             *)
(***************************************************************************)
SyncTypeOK ==
  /\ moment \in DOMAIN Moments
  /\ \A d \in SessionDays :
       /\ logNo[d] \in 0 .. Len(LogsOf[d]) /\ replayNo[d] \in 0 .. Len(ReplaysOf[d])
       /\ paperStatus[d] \in {"NONE", "PARTIAL", "FINAL", "PRELIMINARY", "INTRADAY"}
  /\ \A r \in paperRows : r.entry # 0 /\ r.day \notin OffDays

\* Each live and each replayed trade is in one pair, a pair is of one side and within the
\* window, and no two trades that could have been a pair are both left alone.
PairsRight ==
  \A d \in DOMAIN derived.pairs :
    LET pairs == derived.pairs[d]
    IN /\ \A m, n \in pairs : m # n =>
            /\ m.paper # Absent => m.paper # n.paper
            /\ m.replay # Absent => m.replay # n.replay
       /\ \A m \in pairs : IsMatch(m) => Near(m.paper, m.replay)
       /\ ~\E m, n \in pairs : m.replay = Absent /\ n.paper = Absent /\ Near(m.paper, n.replay)

\* The day's row, as long as the day has any, is what its pairs add up to: the gap is that of the matched trades, plus the
\* live ones alone, less the replayed ones alone that no loss cap explains; and a day that
\* is OK counts as many trades on both sides.
RowFollowsPairs ==
  \A d \in DOMAIN derived.pairs :
    LET row == derived.sync[d]
        counted == {m \in derived.pairs[d] : m.why # "LOSS_CAP_BLOCKED"}
    IN row.status # "N/A" =>
         /\ row.delta = SumFunction([m \in counted |-> m.paper.net - m.replay.net])
         /\ row.trades - row.replayed = Cardinality({m \in counted : m.replay = Absent})
                                        - Cardinality({m \in counted : m.paper = Absent})
         /\ row.status = "OK" => row.trades = row.replayed

\* A replayed trade is excused only on a day the row says the cap was hit, and never one a
\* live trade of its side was taken beside.
ExcusedOnCapDays ==
  \A d \in DOMAIN derived.pairs : \A m \in derived.pairs[d] :
    m.why = "LOSS_CAP_BLOCKED" =>
      /\ derived.sync[d].capHit
      /\ ~\E n \in derived.pairs[d] : n.replay = Absent /\ Near(n.paper, m.replay)

\* The tables agree on the money: a window's trades make what its days made, the weeks end
\* where the days end, and, once no trade is dated ahead, the sync rows add up to the account.
SheetsAddUp ==
  /\ \A d \in DOMAIN derived.windows : \A w \in DOMAIN derived.windows[d] :
       derived.windows[d][w].net = derived.windows[d][w].told
  /\ \A w \in DOMAIN derived.weeks :
       derived.weeks[w].account = derived.daily[Max({d \in DOMAIN derived.daily : WeekOf(d) = w})].equity
  /\ LET days == DOMAIN derived.daily
     IN days # {} /\ DOMAIN derived.rolling \subseteq Min(days) .. Max(days)
          => derived.rolling[Max(DOMAIN derived.rolling)].live + StartCapital = derived.daily[Max(days)].equity

\* Once recomputed, a day is FINAL only if its stored trades make what its summary says, and
\* PARTIAL only if they do not; and a day with its time of finalisation has a sync row that
\* was rated against a replay.
FinalReconciles ==
  ~touched => \A d \in SessionDays :
    /\ paperStatus[d] = "FINAL" => LoadedLog(d).summary # <<>> /\ SumsMatch(d)
    /\ paperStatus[d] = "PARTIAL" => ~SumsMatch(d)
    /\ finalAt[d] # 0 => derived.sync[d].status # "N/A"

\* The derived tables of a strategy are right, and agree.
DaySyncTells == PairsRight /\ RowFollowsPairs /\ ExcusedOnCapDays /\ SheetsAddUp /\ FinalReconciles
=============================================================================
