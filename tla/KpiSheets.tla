------------------------------ MODULE KpiSheets ------------------------------
(***************************************************************************)
(* The two KPI sheets drawn from the published IBKR days: the options      *)
(* paper dashboard (ibkr/kpis.py) and the futures dashboard                *)
(* (ibkr/futures_kpis.py).  Days are published, and published again, and   *)
(* a sheet is computed from all of them: day by day P&L, ISO weeks and     *)
(* months, drawdowns, one graded row per indicator, a verdict per stage    *)
(* and one overall.                                                        *)
(*                                                                         *)
(* Money is in units of which the assumed NAV has Nav.  A value is a       *)
(* rational n/d, or a signed square root of one (root = 2): ratios of a    *)
(* mean to a deviation are compared with their thresholds squared.         *)
(***************************************************************************)
EXTENDS Integers, Sequences, FiniteSets, SequencesExt, FiniteSetsExt

CONSTANTS
  Calendar,     \* days that may be published: [ord, year, month, isoYear, isoWeek]
  DayBooks,     \* what a day may hold: [opt, fut, premium, commission, margin, staged]
  Nav,          \* ibkr_kpi_nav
  EnoughTrades, \* trades for PASS and WARN: 200 and 100 in the code
  FewTrades,
  Trials,       \* ibkr_kpi_trials, 0 when unset
  BootstrapP5,  \* what resampling five days or more gives: a value
  MonthlySkew   \* the third moment of three months or more: a value

ASSUME SheetsAssumption ==
  /\ Nav \in Nat \ {0} /\ Trials \in Nat /\ FewTrades \in Nat /\ EnoughTrades \in Nat
  /\ Calendar \in Seq([ord : Nat, year : Nat, month : 1 .. 12, isoYear : Nat, isoWeek : 1 .. 53])
  /\ \A i, j \in DOMAIN Calendar : i < j => Calendar[i].ord < Calendar[j].ord

\* What a day's books hold is counted in whole units.
ASSUME BooksAssumption == \A book \in DayBooks : book.opt \in Seq(Int) /\ book.fut \in Seq(Int)

\* date.isocalendar(): a week is named by its year and number, and by no other.
ASSUME WeeksAssumption ==
  \A i, j \in DOMAIN Calendar :
    Calendar[i].ord \div 7 = Calendar[j].ord \div 7 <=>
      Calendar[i].isoYear = Calendar[j].isoYear /\ Calendar[i].isoWeek = Calendar[j].isoWeek

VARIABLE reports  \* days published, in order: [day, book]

-----------------------------------------------------------------------------
(***************************************************************************)
(* Statistics.                                                             *)
(***************************************************************************)
Unknown == [root |-> 0]
Ratio(n, d) == IF d < 0 THEN [root |-> 1, n |-> -n, d |-> -d] ELSE [root |-> 1, n |-> n, d |-> d]
Root(n, d) == [root |-> 2, n |-> n, d |-> d]
Magnitude(x) == IF x < 0 THEN -x ELSE x
Sq(x) == x * Magnitude(x)

Total(xs) ==
  LET sum[k \in 0 .. Len(xs)] == IF k = 0 THEN 0 ELSE sum[k - 1] + xs[k]
  IN sum[Len(xs)]
Squares(xs) == Total([i \in DOMAIN xs |-> xs[i] * xs[i]])
Spread(xs) == Len(xs) * Squares(xs) - Total(xs) * Total(xs)
Below(xs) == SelectSeq(xs, LAMBDA x : x < 0)
Above(xs) == SelectSeq(xs, LAMBDA x : x > 0)
Sorted(xs) == SortSeq(xs, LAMBDA a, b : a < b)

Std(xs, periods) ==
  IF Len(xs) < 2 THEN Unknown ELSE Root(Spread(xs) * periods, Len(xs) * (Len(xs) - 1) * Nav * Nav)

Sharpe(xs, periods) ==
  IF Len(xs) < 2 \/ Spread(xs) = 0 THEN Unknown
  ELSE Root(Sq(Total(xs)) * periods * (Len(xs) - 1), Len(xs) * Spread(xs))

Sortino(xs, periods) ==
  LET downs == Below(xs) m == Len(Below(xs))
  IN IF m < 2 \/ Spread(downs) = 0 THEN Unknown
     ELSE Root(Sq(Total(xs)) * periods * m * (m - 1), Len(xs) * Len(xs) * Spread(downs))

Skew(xs) == IF Len(xs) < 3 \/ Spread(xs) = 0 THEN Unknown ELSE MonthlySkew
Bootstrap(xs) == IF Len(xs) < 5 THEN Unknown ELSE BootstrapP5

\* Mutant: the peak starts at the first day's equity, not at the start.
WalkedFromFirst(acc, pnl) ==
  LET eq == acc.eq + pnl
      peak == IF acc.days = 0 THEN eq ELSE Max({acc.peak, eq})
      run == IF eq < peak THEN acc.run + 1 ELSE 0
  IN [eq |-> eq, peak |-> peak, days |-> acc.days + 1, worst |-> Max({acc.worst, peak - eq}),
      squares |-> acc.squares + (peak - eq) * (peak - eq), run |-> run, longest |-> Max({acc.longest, run})]

\* A day more: equity and its peak so far, the worst gap, the squares of the
\* gaps, days under water in a row and the longest such run.
Walked(acc, pnl) ==
  LET eq == acc.eq + pnl
      peak == Max({acc.peak, eq})
      run == IF eq < peak THEN acc.run + 1 ELSE 0
  IN [eq |-> eq, peak |-> peak, days |-> acc.days + 1, worst |-> Max({acc.worst, peak - eq}),
      squares |-> acc.squares + (peak - eq) * (peak - eq), run |-> run, longest |-> Max({acc.longest, run})]

NotWalked == [eq |-> 0, peak |-> 0, days |-> 0, worst |-> 0, squares |-> 0, run |-> 0, longest |-> 0]

Walk(pnls) ==
  LET walk[k \in 0 .. Len(pnls)] == IF k = 0 THEN NotWalked ELSE Walked(walk[k - 1], pnls[k])
  IN walk[Len(pnls)]

MaxDrawdown(pnls, unit) == IF pnls = <<>> THEN Unknown ELSE Ratio(Walk(pnls).worst * unit, Nav)
Ulcer(pnls) ==
  IF pnls = <<>> THEN Unknown ELSE Root(Walk(pnls).squares * 10000, Len(pnls) * Nav * Nav)
DrawdownMonths(pnls) == IF pnls = <<>> THEN Unknown ELSE Ratio(Walk(pnls).longest, 21)

\* The worst twentieth of the days, one at least.
CVaR95(pnls, unit) ==
  LET n == Max({1, Len(pnls) \div 20})
  IN IF Len(pnls) < 5 THEN Unknown
     ELSE Ratio(Magnitude(Total(SubSeq(Sorted(pnls), 1, n))) * unit, n * Nav)

\* Twenty times the percentile, between the two nearest days.
Percentile20(xs, twentieths) ==
  LET idx == twentieths * (Len(xs) - 1)
      lo == idx \div 20 + 1
  IN Sorted(xs)[lo] * (20 - (idx % 20)) + Sorted(xs)[Min({lo + 1, Len(xs)})] * (idx % 20)

TailRatio(xs) ==
  IF xs = <<>> \/ Percentile20(xs, 1) = 0 THEN Unknown
  ELSE Ratio(Percentile20(xs, 19), Magnitude(Percentile20(xs, 1)))

-----------------------------------------------------------------------------
(***************************************************************************)
(* Days, weeks, months.                                                    *)
(***************************************************************************)
\* Mutant: the calendar year beside the ISO week.
IsoWeekCalendarYear(day) == <<day.year, day.isoWeek>>

IsoWeek(day) == <<day.isoYear, day.isoWeek>>
Month(day) == <<day.year, day.month>>

DayOf(report) == Calendar[report.day]
Earlier(a, b) == a[1] < b[1] \/ (a[1] = b[1] /\ a[2] < b[2])

\* P&L summed per week or month, in order.
IsoWeeks(days) == [i \in DOMAIN days |-> IsoWeek(DayOf(days[i]))]
Months(days) == [i \in DOMAIN days |-> Month(DayOf(days[i]))]

Buckets(keys, pnls) ==
  LET sum(key) == MapThenSumSet(LAMBDA i : pnls[i], {i \in DOMAIN keys : keys[i] = key})
      order == SetToSortSeq(ToSet(keys), Earlier)
  IN [k \in DOMAIN order |-> sum(order[k])]

Span(days) ==
  IF days = <<>> THEN 0 ELSE Max({1, DayOf(Last(days)).ord - DayOf(Head(days)).ord})

ProfitFactor(trades) ==
  IF Above(trades) = <<>> \/ Below(trades) = <<>> THEN Unknown
  ELSE Ratio(Total(Above(trades)), -Total(Below(trades)))
Payoff(trades) ==
  IF Above(trades) = <<>> \/ Below(trades) = <<>> THEN Unknown
  ELSE Ratio(Total(Above(trades)) * Len(Below(trades)), -Total(Below(trades)) * Len(Above(trades)))

AnnualReturn(days, pnls, unit) ==
  IF days = <<>> THEN Unknown ELSE Ratio(Total(pnls) * 365 * unit, Nav * Span(days))
Calmar(days, pnls) ==
  IF days = <<>> \/ Walk(pnls).worst = 0 THEN Unknown
  ELSE Ratio(Total(pnls) * 365, Span(days) * Walk(pnls).worst)

\* The last weeks' Sharpe over that of the first seven tenths.
OosIs(weeks) ==
  LET split == Max({2, (Len(weeks) * 7) \div 10})
      is == Sharpe(SubSeq(weeks, 1, split), 1)
      oos == Sharpe(SubSeq(weeks, split + 1, Len(weeks)), 1)
  IN IF Len(weeks) < 4 \/ is = Unknown \/ oos = Unknown THEN Unknown
     ELSE IF is.n = 0 THEN Unknown
     ELSE Root(oos.n * is.d * (IF is.n < 0 THEN -1 ELSE 1), oos.d * Magnitude(is.n))

PeakMargin(days, unit) ==
  LET margins == {days[i].book.margin : i \in DOMAIN days} \ {-1}
  IN IF margins = {} THEN Unknown ELSE Ratio(Max(margins) * unit, 100)

Counted(xs) == IF xs = <<>> THEN Unknown ELSE Ratio(Len(xs), 1)

-----------------------------------------------------------------------------
(***************************************************************************)
(* The rows: key, stage, critical, direction, PASS at, WARN at.            *)
(***************************************************************************)
Row(key, stage, critical, direction, pass, warn) ==
  [key |-> key, stage |-> stage, critical |-> critical, direction |-> direction,
   pass |-> pass, warn |-> warn]
N(n) == Ratio(n, 1)
D(n) == Ratio(n, 10)
C(n) == Ratio(n, 100)

PerformanceRows ==
  {Row("weekly_sharpe", "s1", TRUE, "ge", D(15), N(1)), Row("sortino", "s1", FALSE, "ge", N(2), D(15)),
   Row("max_dd", "s1", TRUE, "le", N(15), N(25)), Row("calmar", "s1", FALSE, "ge", N(1), D(5)),
   Row("profit_factor", "s1", FALSE, "ge", D(15), C(125)),
   Row("trade_count", "s1", TRUE, "ge", N(EnoughTrades), N(FewTrades)),
   Row("worst_month", "s1", FALSE, "le", N(8), N(12)), Row("cvar95", "s1", FALSE, "le", N(2), N(3)),
   Row("monthly_skew", "s1", FALSE, "ge", N(-1), N(-2)),
   Row("sharpe_cost_stress", "s1", TRUE, "ge", N(1), D(7)),
   Row("ann_return", "s1", TRUE, "ge", N(120), N(100))}

RobustnessRows ==
  {Row("oos_is_sharpe", "s2", TRUE, "ge", D(6), D(4)), Row("wf_efficiency", "s2", FALSE, "ge", D(6), D(4)),
   Row("pbo", "s2", FALSE, "le", N(25), N(40)), Row("bootstrap_p5_sharpe", "s2", FALSE, "ge", D(5), N(0)),
   Row("years_covered", "s2", FALSE, "ge", N(3), N(2)), Row("trial_log", "s2", TRUE, "ge", N(1), N(1))}

AttributionRows ==
  {Row("net_vega", "s3", TRUE, "le", D(1), D(2)), Row("net_delta", "s3", FALSE, "le", N(10), N(20)),
   Row("payoff_ratio", "s3", FALSE, "ge", D(18), D(13)),
   Row("expectancy_bps", "s3", FALSE, "ge", N(20), N(10)),
   Row("peak_margin", "s3", TRUE, "le", N(50), N(65)), Row("capital_util", "s3", FALSE, "ge", N(50), N(40))}

LiveRows ==
  {Row("incubation_months", "s4", TRUE, "ge", N(3), N(2)),
   Row("incubation_trades", "s4", FALSE, "ge", N(50), N(30)),
   Row("slippage_ratio_inc", "s4", TRUE, "le", D(12), D(15)),
   Row("incubation_sharpe_ratio", "s4", TRUE, "ge", D(7), D(5)),
   Row("ops_errors", "s4", FALSE, "le", N(1), N(3)), Row("kill_switch", "s5", TRUE, "ge", N(1), N(1)),
   Row("dd_stop", "s5", TRUE, "ge", N(1), N(1)), Row("missed_fills", "exec", FALSE, "le", N(0), N(2)),
   Row("missed_fills_pct", "exec", FALSE, "le", N(5), N(10)),
   Row("avg_slippage_pct", "exec", FALSE, "le", N(2), N(4)),
   Row("slippage_ratio", "exec", FALSE, "le", D(12), D(15))}

OptionRows == PerformanceRows \cup RobustnessRows \cup AttributionRows \cup LiveRows

ValidityRows ==
  {Row("trade_count", "t0", TRUE, "ge", N(EnoughTrades), N(FewTrades)), Row("n_trials", "t0", TRUE, "le", N(20), N(100)),
   Row("oos_is_sharpe", "t0", TRUE, "ge", D(7), D(5)), Row("deflated_sharpe", "t0", TRUE, "ge", C(95), D(9)),
   Row("wf_efficiency", "t0", TRUE, "ge", D(6), D(5)), Row("param_robustness", "t0", TRUE, "ge", D(8), D(6)),
   Row("sharpe", "t1", TRUE, "ge", D(15), N(1)), Row("sortino", "t1", FALSE, "ge", N(2), D(13)),
   Row("calmar", "t1", FALSE, "ge", C(75), D(5)), Row("information_ratio", "t1", FALSE, "ge", C(75), D(5))}

DrawdownRows ==
  {Row("max_dd", "t2", TRUE, "le", C(15), C(25)), Row("max_dd_months", "t2", FALSE, "le", N(9), N(18)),
   Row("ann_vol", "t2", FALSE, "le", C(15), C(25)), Row("cvar95", "t2", FALSE, "le", C(2), Ratio(35, 1000)),
   Row("ulcer", "t2", FALSE, "le", N(5), N(10)), Row("tail_ratio", "t2", FALSE, "ge", D(12), N(1))}

QualityRows ==
  {Row("profit_factor", "t3", FALSE, "ge", D(15), D(12)), Row("win_rate", "t3", FALSE, "ge", D(5), D(4)),
   Row("payoff_ratio", "t3", FALSE, "ge", D(15), N(1)),
   Row("expectancy_r", "t3", FALSE, "ge", C(15), C(5)), Row("time_in_market", "t3", FALSE, "le", D(6), C(85)),
   Row("cost_drag", "t4", TRUE, "le", D(3), D(5)), Row("be_cost_multiple", "t4", FALSE, "ge", N(3), N(2)),
   Row("slippage_realism", "t4", FALSE, "ge", N(1), D(7)),
   Row("margin_to_equity", "t4", TRUE, "le", C(35), D(5)),
   Row("capacity", "t4", FALSE, "ge", N(25000000), N(5000000)),
   Row("roll_cost_drag", "t4", FALSE, "le", D(1), D(2))}

FutureRows == ValidityRows \cup DrawdownRows \cup QualityRows

-----------------------------------------------------------------------------
(***************************************************************************)
(* compute_options_kpis and compute_futures_kpis: the values.              *)
(***************************************************************************)
OptionPnls(days) == [i \in DOMAIN days |-> Total(days[i].book.opt)]
\* Less two percent of the premium traded, which comes in fifties.
OptionCosts(days) == [i \in DOMAIN days |-> Total(days[i].book.opt) - days[i].book.premium \div 50]
Premiums(days) == SelectSeq([i \in DOMAIN days |-> days[i].book.premium], LAMBDA p : p # 0)
FuturePnls(days) == [i \in DOMAIN days |-> Total(days[i].book.fut)]

OptionValues(days) ==
  LET pnls == OptionPnls(days)
      trades == FlattenSeq([i \in DOMAIN days |-> days[i].book.opt])
      weeks == Buckets(IsoWeeks(days), pnls)
      months == Buckets(Months(days), pnls)
      years == {DayOf(days[i]).year : i \in DOMAIN days}
      premiums == Premiums(days)
  IN [weekly_sharpe |-> Sharpe(weeks, 52), sortino |-> Sortino(pnls, 252),
      max_dd |-> MaxDrawdown(pnls, 100), calmar |-> Calmar(days, pnls),
      profit_factor |-> ProfitFactor(trades), trade_count |-> Counted(trades),
      worst_month |-> IF months = <<>> THEN Unknown ELSE Ratio(Magnitude(Head(Sorted(months))) * 100, Nav),
      cvar95 |-> CVaR95(pnls, 100), monthly_skew |-> Skew(months),
      sharpe_cost_stress |-> Sharpe(Buckets(IsoWeeks(days), OptionCosts(days)), 52),
      ann_return |-> AnnualReturn(days, pnls, 100), oos_is_sharpe |-> OosIs(weeks),
      wf_efficiency |-> OosIs(weeks),
      bootstrap_p5_sharpe |-> Bootstrap(pnls),
      years_covered |-> IF years = {} THEN Unknown ELSE N(Cardinality(years)),
      payoff_ratio |-> Payoff(trades),
      expectancy_bps |-> IF trades = <<>> THEN Unknown ELSE Ratio(Total(trades) * 10000, Len(trades) * Nav),
      peak_margin |-> PeakMargin(days, 100),
      capital_util |-> IF premiums = <<>> THEN Unknown
                       ELSE Ratio(Total(premiums) * 100, Len(premiums) * Nav)]

FutureValues(days) ==
  LET pnls == FuturePnls(days)
      trades == FlattenSeq([i \in DOMAIN days |-> days[i].book.fut])
      wins == Above(trades)
      weeks == Buckets(IsoWeeks(days), pnls)
      payoff == Payoff(trades)
      cost == Total([i \in DOMAIN days |-> days[i].book.commission])
  IN [trade_count |-> Counted(trades), n_trials |-> IF Trials = 0 THEN Unknown ELSE N(Trials),
      oos_is_sharpe |-> OosIs(weeks), wf_efficiency |-> OosIs(weeks), sharpe |-> Sharpe(weeks, 52),
      sortino |-> Sortino(pnls, 252), calmar |-> Calmar(days, pnls), max_dd |-> MaxDrawdown(pnls, 1),
      max_dd_months |-> DrawdownMonths(pnls), ann_vol |-> Std(pnls, 252), cvar95 |-> CVaR95(pnls, 1),
      ulcer |-> Ulcer(pnls), tail_ratio |-> TailRatio(pnls), profit_factor |-> ProfitFactor(trades),
      win_rate |-> IF trades = <<>> THEN Unknown ELSE Ratio(Len(wins), Len(trades)), payoff_ratio |-> payoff,
      expectancy_r |-> IF payoff = Unknown THEN Unknown
                       ELSE Ratio(Len(wins) * payoff.n - (Len(trades) - Len(wins)) * payoff.d,
                                  Len(trades) * payoff.d),
      cost_drag |-> IF wins = <<>> THEN Unknown ELSE Ratio(cost, Total(wins)),
      be_cost_multiple |-> IF wins = <<>> \/ cost <= 0 THEN Unknown ELSE Ratio(Total(wins), cost),
      margin_to_equity |-> PeakMargin(days, 1)]

-----------------------------------------------------------------------------
(***************************************************************************)
(* Grades and verdicts.                                                    *)
(***************************************************************************)
Reaches(v, t) == IF v.root = 1 THEN v.n * t.d >= t.n * v.d ELSE v.n * t.d * t.d >= Sq(t.n) * v.d
StaysUnder(v, t) == IF v.root = 1 THEN v.n * t.d <= t.n * v.d ELSE v.n * t.d * t.d <= Sq(t.n) * v.d

Evaluate(value, row) ==
  LET meets(t) == IF row.direction = "ge" THEN Reaches(value, t) ELSE StaysUnder(value, t)
  IN CASE value = Unknown -> "empty"
       [] value # Unknown /\ meets(row.pass) -> "PASS"
       [] value # Unknown /\ ~meets(row.pass) /\ meets(row.warn) -> "WARN"
       [] OTHER -> "FAIL"

\* Of a row the code computes nothing for, n_trials included, a staged day
\* fills in a placeholder on the passing side.
Shown(row, values, staged) ==
  LET value == IF row.key \in DOMAIN values THEN values[row.key] ELSE Unknown
  IN IF value = Unknown /\ staged /\ (row.key \notin DOMAIN values \/ row.key = "n_trials")
     THEN row.pass ELSE value

Grades(rows, values, days) ==
  LET staged == \E i \in DOMAIN days : days[i].book.staged
  IN [row \in rows |-> Evaluate(Shown(row, values, staged), row)]

Stage(grades, id) == {row \in DOMAIN grades : row.stage = id}

\* _stage_verdict: only a critical row fails a stage.
StageVerdict(grades, id) ==
  LET has(grade) == \E row \in Stage(grades, id) : grades[row] = grade
  IN CASE \A row \in Stage(grades, id) : grades[row] = "empty" -> "empty"
       [] \E row \in Stage(grades, id) : row.critical /\ grades[row] = "FAIL" -> "FAIL"
       [] ~(\E row \in Stage(grades, id) : row.critical /\ grades[row] = "FAIL")
            /\ (has("FAIL") \/ has("WARN")) -> "WARN"
       [] OTHER -> "PASS"

\* The weekly execution report is graded and not scored.
OptionsOverall(grades) ==
  LET verdicts == {StageVerdict(grades, id) : id \in {"s1", "s2", "s3", "s4", "s5"}}
  IN IF "FAIL" \in verdicts THEN "FAIL" ELSE IF "WARN" \in verdicts THEN "WARN"
     ELSE IF "PASS" \in verdicts THEN "PASS" ELSE "empty"

\* _tier_verdict: any failing row fails a tier.
TierVerdict(grades, id) ==
  LET found == {grades[row] : row \in Stage(grades, id)} \ {"empty"}
  IN IF found = {} THEN "empty" ELSE IF "FAIL" \in found THEN "FAIL"
     ELSE IF "WARN" \in found THEN "WARN" ELSE "PASS"

FuturesOverall(grades) ==
  LET found == {grades[row] : row \in DOMAIN grades} \ {"empty"}
  IN CASE found = {} -> "empty"
       [] found # {} /\ TierVerdict(grades, "t0") = "FAIL" -> "REJECTED"
       [] TierVerdict(grades, "t0") # "FAIL" /\ "FAIL" \in found -> "CONDITIONAL"
       [] "FAIL" \notin found /\ "WARN" \in found -> "MARGINAL"
       [] OTHER -> "PASS"

OptionGrades == Grades(OptionRows, OptionValues(reports), reports)
FutureGrades == Grades(FutureRows, FutureValues(reports), reports)

-----------------------------------------------------------------------------
\* The next day that is published; days between it and the last are not.
PublishDay ==
  \E i \in DOMAIN Calendar, book \in DayBooks :
    /\ reports # <<>> => i > Last(reports).day
    /\ reports' = Append(reports, [day |-> i, book |-> book])

\* export_day run again for a day published before.
PublishAgain ==
  \E k \in DOMAIN reports, book \in DayBooks :
    /\ book # reports[k].book
    /\ reports' = [reports EXCEPT ![k].book = book]

SheetsInit == reports = <<>>
SheetsNext == PublishDay \/ PublishAgain
SheetsSpec == SheetsInit /\ [][SheetsNext]_reports

-----------------------------------------------------------------------------
SheetsTypeOK ==
  /\ reports \in Seq([day : DOMAIN Calendar, book : DayBooks])
  /\ \A i, j \in DOMAIN reports : i < j => reports[i].day < reports[j].day

\* Days share a weekly return exactly when they are of one week, Monday to
\* Sunday, also across a new year.
WeeksAreWeeks ==
  \A i, j \in DOMAIN reports :
    LET a == DayOf(reports[i]) b == DayOf(reports[j])
    IN IsoWeek(a) = IsoWeek(b) <=> a.ord \div 7 = b.ord \div 7

Equity(pnls, i) == Total(SubSeq(pnls, 1, i))

\* The drawdown is the largest fall of equity from any earlier point, the
\* start included, to any later one; drawdown, its length in months and the
\* ulcer index, three separate passes over the days in the code, are above
\* zero together.
DrawdownAgrees(pnls) ==
  LET ordered == {p \in (0..Len(pnls)) \X (0..Len(pnls)) : p[1] <= p[2]}
  IN pnls # <<>> =>
       /\ MaxDrawdown(pnls, 1).n = Max({Equity(pnls, p[1]) - Equity(pnls, p[2]) : p \in ordered})
       /\ MaxDrawdown(pnls, 1).n > 0 <=> DrawdownMonths(pnls).n > 0
       /\ MaxDrawdown(pnls, 1).n > 0 <=> Ulcer(pnls).n > 0

\* A sheet that passes overall has measured something and has no scored row
\* that fails or warns; the options sheet fails exactly for a critical row;
\* a futures book is rejected exactly for a failed validity row.
VerdictsFollow ==
  LET scored(grades) == {grades[row] : row \in {r \in DOMAIN grades : r.stage # "exec"}} \ {"empty"}
      opt == OptionGrades fut == FutureGrades
  IN /\ OptionsOverall(opt) = "PASS" <=> scored(opt) = {"PASS"}
     /\ OptionsOverall(opt) = "FAIL" <=>
          \E row \in DOMAIN opt : row.stage # "exec" /\ row.critical /\ opt[row] = "FAIL"
     /\ FuturesOverall(fut) = "PASS" <=> scored(fut) = {"PASS"}
     /\ FuturesOverall(fut) = "REJECTED" <=>
          \E row \in DOMAIN fut : row.stage = "t0" /\ fut[row] = "FAIL"

\* What a sheet says of the published days is so: the parts above.
SheetsAgree ==
  reports # <<>> =>
    /\ WeeksAreWeeks
    /\ DrawdownAgrees(OptionPnls(reports)) /\ DrawdownAgrees(FuturePnls(reports))
    /\ VerdictsFollow
=============================================================================
