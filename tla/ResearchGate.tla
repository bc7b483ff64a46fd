----------------------------- MODULE ResearchGate ----------------------------
(***************************************************************************)
(* The research gate of one sleeve: backtests leave their files in a       *)
(* results folder, research-tune searches the catalog's grid and leaves    *)
(* tuning.json and trials.csv, ml/kpi_export leaves kpi.json, and          *)
(* research-publish builds one scorecard per folder from whatever is there *)
(* (research/tune.py, scorecard.py, publish.py, run.py).                   *)
(*                                                                         *)
(* Figures are in hundredths; a figure that may be missing is a sequence   *)
(* of at most one.                                                         *)
(***************************************************************************)
EXTENDS Integers, Sequences, FiniteSets, SequencesExt, FiniteSetsExt, Functions

CONSTANTS
  Kinds,      \* of "sleeve", "regime_filter" (its gate_profile) and "overlay"
  DataSets,   \* states the downloaded history can be in
  Grids,      \* grids the catalog can hold: one sequence of values per flag
  Backtests,  \* DataSets -> points of the grids -> what the backtest writes
  DsrStep,    \* what a further configuration tried takes off the deflated Sharpe
  MaxTunes    \* bound: tunings

VARIABLES
  kind,       \* of the sleeve
  data,       \* the downloaded history
  catalog,    \* [args, grid] of the sleeve's script
  folders,    \* per results folder: [metrics, trades, tuning, log, kpi], what was found there
  searched,   \* per folder: configurations whose tuning chose it (history)
  cards,      \* scorecards published, per folder
  tunes

gateVars == <<kind, data, catalog, folders, searched, cards, tunes>>

NA == <<>>
Is(figure, test(_)) == figure # NA /\ test(figure[1])

-----------------------------------------------------------------------------
(***************************************************************************)
(* The scorecard.                                                          *)
(***************************************************************************)
Kpi(id, type, pass, warn, critical) ==
  [id |-> id, type |-> type, pass |-> pass, warn |-> warn, critical |-> critical]

PerformanceStage == <<
  Kpi("sharpe", "gte", 150, 100, TRUE), Kpi("sortino", "gte", 200, 150, FALSE),
  Kpi("maxdd", "lte", 1500, 2500, TRUE), Kpi("calmar", "gte", 100, 50, FALSE),
  Kpi("pf", "gte", 150, 125, FALSE), Kpi("ntrades", "gte", 200, 100, TRUE),
  Kpi("worstmo", "lte", 800, 1200, FALSE), Kpi("avgmonth", "gte", 833, 0, FALSE),
  Kpi("cvar", "lte", 200, 300, FALSE), Kpi("skew", "gte", -100, -200, FALSE),
  Kpi("coststress", "gte", 100, 70, TRUE)>>

RobustnessStage == <<
  Kpi("oosis", "gte", 60, 40, TRUE), Kpi("wfe", "gte", 60, 40, FALSE),
  Kpi("dsr", "gte", 95, 90, TRUE), Kpi("pbo", "lte", 2500, 4000, FALSE),
  Kpi("paramsens", "lte", 3000, 5000, TRUE), Kpi("boot", "gte", 50, 0, FALSE),
  Kpi("regimes", "gte", 3, 2, FALSE), Kpi("triallog", "bool", 0, 0, TRUE)>>

LaterStages == <<
  Kpi("payoff", "gte", 180, 130, FALSE), Kpi("expect", "gte", 2500, 1000, FALSE),
  Kpi("margin", "lte", 5000, 6500, TRUE), Kpi("killswitch", "bool", 0, 0, TRUE)>>

\* The figures a backtest writes itself, or that its files are enough for.
OwnFigures == {"sharpe", "sortino", "maxdd", "calmar", "pf", "worstmo", "avgmonth", "cvar", "skew",
               "oosis", "dsr", "boot", "regimes"}

EvalKpi(kpi, raw) ==
  CASE raw = NA -> "na"
    [] kpi.type = "bool" /\ raw # NA -> IF raw[1] THEN "pass" ELSE "fail"
    [] kpi.type = "gte" /\ raw # NA ->
         IF raw[1] >= kpi.pass THEN "pass" ELSE IF raw[1] >= kpi.warn THEN "warn" ELSE "fail"
    [] OTHER -> IF raw[1] <= kpi.pass THEN "pass" ELSE IF raw[1] <= kpi.warn THEN "warn" ELSE "fail"

Statuses(stage, values) == [i \in DOMAIN stage |-> EvalKpi(stage[i], values[stage[i].id])]

CardVerdict(stage, values) ==
  LET status == Statuses(stage, values)
  IN CASE Range(status) = {"na"} -> "N/A"
       [] \E i \in DOMAIN stage : status[i] = "fail" /\ stage[i].critical -> "FAIL"
       [] OTHER -> IF Range(status) = {"pass"} THEN "PASS" ELSE "WARN"

Severity == [v \in {"N/A", "PASS", "WARN", "FAIL"} |->
               CASE v = "N/A" -> 0 [] v = "PASS" -> 1 [] v = "WARN" -> 2 [] OTHER -> 3]
Worst(verdicts) == CHOOSE v \in verdicts : \A w \in verdicts : Severity[w] <= Severity[v]

\* Trades the log holds: when the run counts none, those of the trades.csv left there.
TradeCount(folder) ==
  IF folder.metrics.trades > 0 THEN folder.metrics.trades
  ELSE IF folder.trades = NA THEN 0 ELSE folder.trades[1]

\* A tuning's figures: its deflated Sharpe takes the place of the run's own.
Tuned(values, tuning) ==
  IF tuning = NA THEN values
  ELSE [values EXCEPT !.coststress = tuning[1].coststress, !.paramsens = tuning[1].paramsens,
          !.pbo = tuning[1].pbo, !.wfe = IF tuning[1].wfe = NA THEN @ ELSE tuning[1].wfe,
          !.dsr = <<tuning[1].dsr>>]

RegimeFilter(values) ==
  IF kind = "regime_filter"
  THEN [values EXCEPT !.ntrades = NA, !.pf = NA, !.payoff = NA, !.expect = NA] ELSE values

\* The exported figures of an overlay take precedence over all others.
Exported(values, kpi) ==
  IF kpi = NA THEN values
  ELSE [id \in DOMAIN values |->
          IF id \in DOMAIN kpi[1] /\ kpi[1][id] # NA THEN kpi[1][id] ELSE values[id]]

KpiIds == {k.id : k \in Range(PerformanceStage) \cup Range(RobustnessStage) \cup Range(LaterStages)}

\* What the run's own files say, and the log kept of every trial.
Own(folder) ==
  [id \in KpiIds |->
     CASE id \in OwnFigures -> folder.metrics.figures[id]
       [] id = "wfe" -> folder.metrics.figures["oosis"]
       [] id \in {"triallog", "killswitch"} -> <<TRUE>>
       [] id = "ntrades" -> IF TradeCount(folder) = 0 THEN NA ELSE <<TradeCount(folder)>>
       [] id \in {"payoff", "expect"} -> IF folder.trades = NA THEN NA ELSE folder.metrics.figures["pf"]
       [] OTHER -> NA]

Values(folder) == Exported(RegimeFilter(Tuned(Own(folder), folder.tuning)), folder.kpi)

\* An overlay is judged by its Sharpe over the trades it did not filter.
EarnsKeep(overlay) ==
  /\ overlay.meta > 0
  /\ Is(overlay.auc, LAMBDA auc : auc >= 52) \/ overlay.auc = NA
  /\ overlay.meta - overlay.base >= 10

\* Mutant: the overlay's uplift is noted but does not fail the card.
OverallIgnoresUplift(folder, values) ==
  Worst({CardVerdict(PerformanceStage, values), CardVerdict(RobustnessStage, values)})

Overall(folder, values) ==
  IF folder.kpi # NA /\ Is(folder.metrics.overlay, LAMBDA overlay : ~EarnsKeep(overlay)) THEN "FAIL"
  ELSE Worst({CardVerdict(PerformanceStage, values), CardVerdict(RobustnessStage, values)})

Scorecard(folder) ==
  LET values == Values(folder)
  IN [overall |-> Overall(folder, values), metrics |-> folder.metrics, tuning |-> folder.tuning,
      performance |-> Statuses(PerformanceStage, values),
      robustness |-> Statuses(RobustnessStage, values),
      all |-> Worst({Overall(folder, values), CardVerdict(LaterStages, values)})]

-----------------------------------------------------------------------------
(***************************************************************************)
(* Tuning.                                                                 *)
(***************************************************************************)
GridPoints(grid) == {p \in [DOMAIN grid -> UNION {Range(grid[i]) : i \in DOMAIN grid}] :
                       \A i \in DOMAIN grid : p[i] \in Range(grid[i])}

\* What any backtest that ran leaves: the out-of-sample ratio and the worst month are of
\* the same daily returns, and an overlay's export always has a Sharpe.
ASSUME GateAssumption ==
  /\ MaxTunes \in Nat
  /\ \A d \in DataSets, p \in UNION {GridPoints(g) : g \in Grids} :
       Backtests[d][p].ok =>
         /\ Backtests[d][p].figures["oosis"] # NA => Backtests[d][p].figures["worstmo"] # NA
         /\ "sharpe" \in DOMAIN Backtests[d][p].exported /\ Backtests[d][p].exported["sharpe"] # NA
         /\ Backtests[d][p].overlay # NA =>
              Backtests[d][p].overlay[1].base \in Int /\ Backtests[d][p].overlay[1].meta \in Int

Neighbours(point, grid) ==
  {q \in GridPoints(grid) :
     \E i \in DOMAIN grid :
       /\ \A j \in DOMAIN grid \ {i} : q[j] = point[j]
       /\ \E a, b \in DOMAIN grid[i] : grid[i][a] = point[i] /\ grid[i][b] = q[i] /\ b \in {a - 1, a + 1}}

Succeeded(d, grid) == {p \in GridPoints(grid) : Backtests[d][p].ok}
Feasible(trial) == trial.trades >= 200 /\ Is(trial.figures["maxdd"], LAMBDA dd : dd <= 1500)

\* The plateau score, half a point's own in-sample Sharpe and half the mean of its
\* neighbours', compared without dividing.
PlateauAbove(d, grid, p, q) ==
  LET near(x) == Neighbours(x, grid) \cap Succeeded(d, grid)
      own(x) == Backtests[d][x].inSample
      n(x) == Max({1, Cardinality(near(x))})
      sum(x) == IF near(x) = {} THEN own(x) ELSE MapThenSumSet(LAMBDA y : Backtests[d][y].inSample, near(x))
  IN (n(p) * own(p) + sum(p)) * n(q) >= (n(q) * own(q) + sum(q)) * n(p)

\* Any of those with the best score.
Select(d, grid) ==
  LET feasible == {p \in Succeeded(d, grid) : Feasible(Backtests[d][p])}
      pool == IF feasible = {} THEN Succeeded(d, grid) ELSE feasible
  IN {p \in pool : \A q \in pool : PlateauAbove(d, grid, p, q)}

Searched == [d \in DataSets |-> [grid \in Grids |-> Succeeded(d, grid)]]
Winners == [d \in DataSets |-> [grid \in Grids |-> Select(d, grid)]]
Trial(point) == Backtests[data][point]

\* The log holds the grid's trials of every tuning whose winner wrote to the folder.
\* Mutant: the log is written anew.
AppendLogAnew(log, points) == points

AppendLog(log, points) == log \cup points

\* What the tuning of a grid with this winner says once so many are in the log; and,
\* for history, the configurations it and all earlier ones of the folder tried.
Tuning(trial, alone, logged, seen) ==
  [coststress |-> trial.stressed, paramsens |-> trial.shifted,
   wfe |-> IF alone THEN NA ELSE trial.forward, pbo |-> IF alone THEN NA ELSE trial.overfit,
   dsr |-> trial.figures["dsr"][1] - (logged - 1) * DsrStep, trials |-> logged,
   seen |-> seen]

NoFolder == [metrics |-> NA, trades |-> NA, tuning |-> NA, log |-> {}, kpi |-> NA]

\* A backtest's files; without trades it leaves an older trades.csv alone.
Ran(folder, run) ==
  [folder EXCEPT !.metrics = <<run>>, !.trades = IF run.trades > 0 THEN <<run.trades>> ELSE @]

GateInit ==
  /\ kind \in Kinds
  /\ data \in DataSets
  /\ catalog \in {[args |-> p, grid |-> g] : p \in UNION {GridPoints(g) : g \in Grids}, g \in Grids}
  /\ catalog.args \in GridPoints(catalog.grid)
  /\ folders = [f \in {Backtests[d][p].folder : d \in DataSets, p \in UNION {GridPoints(g) : g \in Grids}}
                  |-> NoFolder]
  /\ searched = [f \in DOMAIN folders |-> {}]
  /\ cards = [f \in DOMAIN folders |-> NA]
  /\ tunes = 0

RunStrategy ==
  /\ Trial(catalog.args).ok
  /\ folders' = [folders EXCEPT ![Trial(catalog.args).folder] = Ran(@, Trial(catalog.args))]
  /\ UNCHANGED <<kind, data, catalog, searched, cards, tunes>>

\* research-tune --apply: the search, the log, tuning.json, then the catalog and a
\* run of the sleeve; the process may end before tuning.json is written.
Tune(best, finishes, apply) ==
  LET found == Searched[data][catalog.grid]
      name == Trial(best).folder
      log == AppendLog(folders[name].log, found)
      tuning == Tuning(Trial(best), Cardinality(found) = 1, Cardinality(log), searched[name] \cup found)
      logged == [folders[name] EXCEPT !.log = log]
      tuned == [logged EXCEPT !.tuning = <<tuning>>]
  IN /\ kind # "overlay" /\ tunes < MaxTunes
     /\ best \in Winners[data][catalog.grid]
     /\ searched' = [searched EXCEPT ![name] = @ \cup found]
     /\ folders' = [folders EXCEPT ![name] =
                      IF ~finishes THEN logged ELSE IF apply THEN Ran(tuned, Trial(best)) ELSE tuned]
     /\ catalog' = IF finishes /\ apply THEN [catalog EXCEPT !.args = best] ELSE catalog
     /\ tunes' = tunes + 1
     /\ UNCHANGED <<kind, data, cards>>

\* kpi_export, on an overlay's folder: the figures of the run, in their own right.
ExportKpis(f) ==
  /\ kind = "overlay" /\ folders[f].metrics # NA
  /\ folders' = [folders EXCEPT ![f].kpi = <<folders[f].metrics[1].exported>>]
  /\ UNCHANGED <<kind, data, catalog, searched, cards, tunes>>

Publish ==
  /\ \E f \in DOMAIN folders : folders[f].metrics # NA
  /\ cards' = [f \in DOMAIN folders |->
                 IF folders[f].metrics = NA THEN cards[f]
                 ELSE <<Scorecard([folders[f] EXCEPT !.metrics = @[1]])>>]
  /\ UNCHANGED <<kind, data, catalog, folders, searched, tunes>>

FetchData == data' \in DataSets \ {data} /\ UNCHANGED <<kind, catalog, folders, searched, cards, tunes>>

EditGrid ==
  /\ \E grid \in Grids \ {catalog.grid} :
       catalog.args \in GridPoints(grid) /\ catalog' = [catalog EXCEPT !.grid = grid]
  /\ UNCHANGED <<kind, data, folders, searched, cards, tunes>>

GateNext ==
  \/ RunStrategy
  \/ \E best \in Searched[data][catalog.grid], finishes, apply \in BOOLEAN : Tune(best, finishes, apply)
  \/ \E f \in DOMAIN folders : ExportKpis(f)
  \/ Publish
  \/ FetchData
  \/ EditGrid

GateSpec == GateInit /\ [][GateNext]_gateVars

-----------------------------------------------------------------------------
GateTypeOK ==
  /\ kind \in Kinds
  /\ data \in DataSets
  /\ catalog.grid \in Grids /\ catalog.args \in GridPoints(catalog.grid)
  /\ tunes \in 0 .. MaxTunes
  /\ \A f \in DOMAIN folders : folders[f].log \subseteq searched[f]
  /\ \A f \in DOMAIN cards : Len(cards[f]) <= 1

\* A published PASS was earned: every indicator of the first two stages was
\* measured and passed; no regime filter passes, nor an overlay that does not
\* improve its primary; and the deflated Sharpe on the card was deflated by every
\* configuration tried, in this tuning and all earlier ones with this folder.
Earned(card) ==
  card.overall = "PASS" =>
    /\ Range(card.performance) \cup Range(card.robustness) = {"pass"}
    /\ kind # "regime_filter"
    /\ kind = "overlay" => ~Is(card.metrics.overlay, LAMBDA overlay : overlay.meta - overlay.base < 10)
    /\ kind = "sleeve" => Is(card.tuning, LAMBDA t : t.trials = Cardinality(t.seen))

PassIsEarned == \A f \in DOMAIN cards : cards[f] # NA => Earned(cards[f][1])
=============================================================================
