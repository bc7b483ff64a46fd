------------------------------- MODULE MCLab -------------------------------
(***************************************************************************)
(* The offline book and its data, and the parts of the headquarters that   *)
(* read what the engines write, checked side by side: they share no        *)
(* variable, so each behaviour runs one of them, whichever is chosen at    *)
(* the start, and the others stay where they begin.                        *)
(***************************************************************************)
EXTENDS BookAllocator, MarketHistory, NewsFiles, TradeSimulator, ContextLM, PaperLog,
        DailySync, BacktestRunner

VARIABLE part  \* the component that runs

Parts == {"allocator", "history", "news", "simulator", "context", "paper log", "sync", "backtest"}

-----------------------------------------------------------------------------
\* Allocator: a futures sleeve on paper and a stock sleeve that is live; five sessions, of
\* which the last begins a month, with a lost profit record, a locked holdout, an event and
\* a stale regime.
SleeveOf(yaml, contracts, size, step, recover) ==
  [yaml |-> yaml, contracts |-> contracts, size |-> size, step |-> step, off |-> {3}, half |-> {2},
   blackout |-> contracts, ddHalf |-> 6, ddOff |-> 10, recover |-> recover]
MCConfig == [s \in Sleeves |-> IF s = "nq" THEN SleeveOf("paper", TRUE, 2, 1, 2)
                               ELSE SleeveOf("live", FALSE, 25, 5, 2)]
MCBookConfig == [ddHalf |-> 2, ddOff |-> 3, recover |-> 2, monthlyOff |-> 5]
Good == [results |-> TRUE, kpi |-> TRUE, unlocked |-> TRUE, incubated |-> TRUE, long |-> TRUE, moves |-> TRUE]
SessionOf(month, state, age, event, stocks, nqRaw, stocksRaw) ==
  [month |-> month, state |-> state, age |-> age, event |-> event,
   facts |-> [s \in Sleeves |-> IF s = "nq" THEN Good ELSE stocks],
   raw |-> [s \in Sleeves |-> IF s = "nq" THEN nqRaw ELSE stocksRaw]]
MCMarket ==
  <<SessionOf(1, 1, 0, FALSE, [Good EXCEPT !.long = FALSE], 10, 10), SessionOf(1, 1, 0, FALSE, Good, 11, 5),
    SessionOf(1, 2, 0, TRUE, [Good EXCEPT !.unlocked = FALSE], 15, 10),
    SessionOf(1, 2, 4, FALSE, Good, 12, 10), SessionOf(2, 3, 0, FALSE, Good, 10, 10)>>
MCMoves == {[s \in Sleeves |-> IF s = "nq" THEN -11 ELSE 3], [s \in Sleeves |-> IF s = "nq" THEN 3 ELSE -7]}

\* History: the first symbol has two dumps of one length, the second none and a later listing.
MCTickers == <<"a", "b">>
MCDumps == [s \in {"a", "b"} |-> IF s = "a" THEN {<<2, 3>>, <<1, 2>>} ELSE {}]
MCListed == [s \in {"a", "b"} |-> IF s = "a" THEN 1 ELSE 2]

\* News: an article, one of a later day, and a filing after the cut-off.
Article(url, day, late, filing) == [url |-> url, day |-> day, late |-> late, filing |-> filing]
MCArticles == {Article(1, 1, FALSE, FALSE), Article(2, 2, TRUE, FALSE), Article(3, 1, TRUE, TRUE)}

\* Simulator: a fall and a gap up; each way to enter and to leave.
BarOf(open, high, low, close) == [open |-> open, high |-> high, low |-> low, close |-> close]
MCBars == {BarOf(10, 11, 8, 9), BarOf(14, 15, 13, 14)}
SpecOf(stock, day, side, entry, level, stop, target, hold, trail, rule, rank) ==
  [stock |-> stock, day |-> day, side |-> side, entry |-> entry, level |-> level, stop |-> stop,
   target |-> target, hold |-> hold, trail |-> trail, rule |-> rule, rank |-> rank]
MCSpecs ==
  <<SpecOf("a", 2, 1, "open", 0, 7, 15, 3, 0, {}, 2), SpecOf("b", 2, -1, "stop", 9, 12, 0, 5, 0, {4}, 1),
    SpecOf("a", 3, 1, "limit", 9, 0, 0, 2, 2, {}, 1), SpecOf("b", 3, -1, "close", 0, 12, 8, 3, 0, {}, 1),
    SpecOf("b", 4, 1, "limit", 10, 9, 0, 1, 0, {}, 3)>>
WeightsOf(a, b) == [s \in Stocks |-> IF s = "a" THEN a ELSE b]
MCTargets == {-1, 0, 2}
MCWeightSets == {WeightsOf(0, 0), WeightsOf(1, 1), WeightsOf(2, 0)}

\* Context: a quiet sleeve; one three quarters into its loss limit whose gate state is torn;
\* one with a naked position.
MCSleeveCodes == <<"nq", "r2">>
MCDefaultContracts == [c \in {"nq", "r2"} |-> IF c = "nq" THEN 2 ELSE 1]
MCMostTrades == [c \in {"nq", "r2"} |-> 12]
WorldOf(loss, open, state, position, blocked) ==
  [db |-> "ok", loss |-> loss, closed |-> 1, open |-> open, side |-> "LONG", events |-> {},
   flagged |-> FALSE, state |-> state, position |-> position, blocked |-> blocked]
MCWorlds == {WorldOf(0, "none", "ok", "none", FALSE), WorldOf(75, "confirmed", "torn", "none", TRUE),
             WorldOf(0, "unconfirmed", "ok", "LONG", FALSE)}
SayOf(verdict, mult) == [verdict |-> verdict, mult |-> mult]
MCGateSets == {[c \in {"nq", "r2"} |-> SayOf("TRADE", 100)], [c \in {"nq", "r2"} |-> SayOf("REDUCE", 75)],
               [c \in {"nq", "r2"} |-> IF c = "nq" THEN SayOf("STAND_DOWN", 0) ELSE SayOf("TRADE", 100)]}
ItemOf(code, verdict, n) == [code |-> code, verdict |-> verdict, contracts |-> n]
MCReplies == {[posture |-> "RISK_ON", items |-> {ItemOf("nq", "TRADE", 9), ItemOf("zz", "TRADE", 1)}],
              [posture |-> "SELECTIVE", items |-> {ItemOf("zz", "TRADE", 1)}]}

\* Sync: two sessions around a holiday.  The first's loss reaches the cap, and its second
\* trade leaves after the roll; the second's two trades are each near both replayed ones.
At(day, minute) == 1000 * day + minute
SyncTrade(side, entry, exit, entryPx, exitPx, net, reason) ==
  [side |-> side, entry |-> entry, exit |-> exit, entryPx |-> entryPx, exitPx |-> exitPx, net |-> net,
   reason |-> reason]
LogWith(trades, capAt, summary) == [trades |-> trades, capAt |-> capAt, summary |-> summary]
ReplayWith(trades, whole, reported, net, unparsed) ==
  [trades |-> trades, whole |-> whole, reported |-> reported, net |-> net, unparsed |-> unparsed]
Stopped == SyncTrade("LONG", At(4, 100), At(4, 200), 50, 30, <<-21>>, "stop")
Late == SyncTrade("SHORT", At(4, 300), At(4, 950), 60, 50, <<>>, "signal")
Early == SyncTrade("LONG", At(6, 105), At(6, 200), 50, 55, <<4>>, "stop")
Second == SyncTrade("LONG", At(6, 112), At(6, 300), 40, 40, <<>>, "")
MCLogsOf == [d \in {4, 6} |->
  IF d = 4
  THEN <<LogWith({SyncTrade("LONG", At(4, 100), 0, 50, 0, <<>>, "")}, 0, <<>>), LogWith({Stopped}, At(4, 250), <<>>),
         LogWith({Stopped, Late}, At(4, 250), <<[closed |-> 2, net |-> -10]>>), LogWith({Stopped}, 0, <<>>)>>
  ELSE <<LogWith({Early, SyncTrade("LONG", 0, At(6, 50), 0, 9, <<>>, "")}, 0, <<>>),
         LogWith({Early, Second}, 0, <<[closed |-> 2, net |-> 4]>>)>>]
MCReplaysOf == [d \in {4, 6} |->
  IF d = 4
  THEN LET stopped == SyncTrade("LONG", At(4, 104), At(4, 200), 50, 31, <<>>, "stop")
           missed == SyncTrade("LONG", At(4, 195), At(4, 300), 50, 60, <<>>, "signal")
       IN <<ReplayWith({stopped}, FALSE, <<>>, <<>>, 0), ReplayWith({stopped, missed}, TRUE, <<2>>, <<-11>>, 0)>>
  ELSE <<ReplayWith({}, TRUE, <<>>, <<>>, 1),
         ReplayWith({SyncTrade("LONG", At(6, 108), At(6, 300), 40, 40, <<>>, ""),
                     SyncTrade("LONG", At(6, 110), At(6, 300), 40, 45, <<>>, "stop")}, TRUE, <<2>>, <<3>>, 0)>>]
MCMoments == <<At(4, 500), At(4, 990), At(5, 10), At(6, 500), At(7, 10)>>

\* Backtest: histories of two lengths, and one symbol without any.
HistoryOf(a, b) == [s \in Tradables |-> IF s = "a" THEN a ELSE b]
MCHistorySets == {HistoryOf(<<10, 14, 9, 12>>, <<3, 20, 15, 11, 10>>), HistoryOf(<<10, 7, 13>>, <<>>)}

-----------------------------------------------------------------------------
\* What a component may begin with is chosen only where it runs.
LabInit ==
  /\ part \in Parts
  /\ AllocatorInit /\ HistoryInit /\ NewsInit
  /\ IF part = "simulator" THEN SimulatorInit
     ELSE /\ simMode = "single" /\ tape = <<>> /\ openTrades = {} /\ tradeRows = {} /\ dailyPnl = 0
          /\ decided = [s \in {} |-> 0]
  /\ IF part = "context" THEN ContextInit
     ELSE /\ world = [c \in AllSleeves |-> WorldOf(0, "none", "ok", "none", FALSE)]
          /\ gatesSay = [c \in AllSleeves |-> Quiet] /\ bound = DefaultContracts
          /\ killSwitches = [c \in AllSleeves |-> FALSE] /\ call = NoCall
          /\ brief = DeterministicBrief(<<>>) /\ settled = {} /\ moves = 0
  /\ SyncInit
  /\ IF part = "backtest" THEN BacktestInit
     ELSE /\ aligned = [s \in {"a"} |-> <<1>>] /\ barIndex = 0 /\ desk = NewDesk(InitialCash)
          /\ curve = <<>> /\ result = <<>>
  /\ IF part = "paper log" THEN PaperInit
     ELSE /\ engine = Flat /\ closedTrades = <<>> /\ hour = 9 /\ parsed = NewParser
          /\ wrote = [trades |-> 1, triggers |-> 0, deaths |-> 0]

\* The components but one stay where they are.
Others(p) ==
  /\ part = p /\ UNCHANGED part
  /\ p # "allocator" => UNCHANGED allocatorVars
  /\ p # "history" => UNCHANGED historyVars
  /\ p # "news" => UNCHANGED newsVars
  /\ p # "simulator" => UNCHANGED simulatorVars
  /\ p # "context" => UNCHANGED contextVars
  /\ p # "paper log" => UNCHANGED paperVars
  /\ p # "sync" => UNCHANGED syncVars
  /\ p # "backtest" => UNCHANGED backtestVars

LabNext ==
  \/ Others("allocator") /\ AllocatorNext
  \/ Others("history") /\ HistoryNext
  \/ Others("news") /\ NewsNext
  \/ Others("simulator") /\ SimulatorNext
  \/ Others("context") /\ ContextNext
  \/ Others("paper log") /\ PaperNext
  \/ Others("sync") /\ SyncNext
  \/ Others("backtest") /\ BacktestNext

LabVars == <<part, allocatorVars, historyVars, newsVars, simulatorVars, contextVars, paperVars, syncVars,
             backtestVars>>

LabSpec == LabInit /\ [][LabNext]_LabVars

\* The types of the component that runs.
LabTypeOK ==
  /\ part \in Parts
  /\ part = "allocator" => AllocatorTypeOK
  /\ part = "history" => HistoryTypeOK
  /\ part = "news" => NewsTypeOK
  /\ part = "simulator" => SimulatorTypeOK
  /\ part = "context" => ContextTypeOK
  /\ part = "paper log" => PaperTypeOK
  /\ part = "sync" => SyncTypeOK
  /\ part = "backtest" => BacktestTypeOK

\* The files of bars, articles, series and chains lose nothing to a later fetch, no file of bars
\* mixes rows from before and after a split, and the hole at a join is one session at most.
FilesKept == HistoryKept /\ NewsKept /\ []HistorySound

\* Every simulator's rows add up to its daily P&L, each fill is at a price its day traded at, slippage
\* and gaps aside, and no more trades are open than allowed.
SimulatorHonest == BooksBalance /\ FillsHonest
=============================================================================
