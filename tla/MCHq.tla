-------------------------------- MODULE MCHq --------------------------------
(***************************************************************************)
(* The components of the headquarters, checked side by side: they share no *)
(* variable, so each behaviour runs one of them, whichever is chosen at    *)
(* the start, and the others stay where they begin.                        *)
(***************************************************************************)
EXTENDS AccountBindings, StrategyDaemons, SignalExecution, InstructionInbox, SandboxRuns,
        DailyDumps, Competition, SentimentJob, MCGates, KpiSheets, MCReplay, ResearchGate

CONSTANTS w1, w2, p1, p2  \* threads or processes, and processes

VARIABLE part  \* the component that runs

Parts == {"bindings", "daemons", "execution", "inbox", "sandbox", "dumps", "competition",
          "sentiment", "gates", "sheets", "replay", "research"}

\* Neither the two threads nor the two processes are told apart anywhere.
Interchangeable == Permutations({w1, w2}) \cup Permutations({p1, p2})

-----------------------------------------------------------------------------
MCDefaultId == [c \in Codes |-> IF c = "nq" THEN 1 ELSE 2]

\* Two fills, on one day, and two of a published day's five objects.
MCObjects == <<"executions", "positions">>
MCFillDay == [f \in {"f1", "f2"} |-> 1]

\* KPI sheets: a Monday and a Wednesday of one ISO week across a new year, the next
\* two Mondays, and a day of the year after.
DayAt(ord, year, month, isoYear, isoWeek) ==
  [ord |-> ord, year |-> year, month |-> month, isoYear |-> isoYear, isoWeek |-> isoWeek]
MCCalendar == <<DayAt(364, 2024, 12, 2025, 1), DayAt(366, 2025, 1, 2025, 1),
                DayAt(373, 2025, 1, 2025, 2), DayAt(380, 2025, 1, 2025, 3),
                DayAt(732, 2026, 1, 2026, 1)>>
Book(opt, fut, premium, commission, margin, staged) ==
  [opt |-> opt, fut |-> fut, premium |-> premium, commission |-> commission, margin |-> margin,
   staged |-> staged]
MCDayBooks == {Book(<<>>, <<2, 1>>, 0, 0, -1, FALSE), Book(<<3, 1, 1>>, <<1, -2>>, 50, 1, 40, FALSE),
               Book(<<-2>>, <<>>, 50, 0, 60, TRUE)}
MCBootstrapP5 == Ratio(1, 2)
MCMonthlySkew == Ratio(0, 1)

\* Research: two flags, the second with one value or two.
MCGrids == {<<<<1, 2>>, <<5>>>>, <<<<1, 2>>, <<5, 6>>>>}
MCPoints == UNION {GridPoints(g) : g \in Grids}
Figures(sharpe, drawdown) ==
  [id \in OwnFigures |-> CASE id = "sharpe" -> <<sharpe>> [] id = "maxdd" -> <<drawdown>>
     [] id = "worstmo" -> <<500>> [] id = "cvar" -> <<100>> [] id = "dsr" -> <<99>>
     [] OTHER -> <<900>>]
RunOf(ok, folder, trades, inSample, sharpe, drawdown, base, meta) ==
  [ok |-> ok, folder |-> folder, trades |-> trades, inSample |-> inSample,
   figures |-> Figures(sharpe, drawdown), stressed |-> <<120>>, shifted |-> <<2000>>,
   forward |-> <<80>>, overfit |-> <<2000>>,
   overlay |-> <<[base |-> base, meta |-> meta, auc |-> <<55>>]>>,
   exported |-> [coststress |-> <<120>>, pbo |-> <<2000>>, paramsens |-> <<2000>>,
                 sharpe |-> <<sharpe>>]]
\* The first flag decides the folder; the second history has failing runs.
MCBacktests ==
  [d \in DataSets |-> [p \in MCPoints |->
     IF d = 1
     THEN (IF p[1] = 1 THEN RunOf(TRUE, "a", 250, 200, 180, 1000, 100, 150)
           ELSE RunOf(TRUE, "b", IF p[2] = 5 THEN 0 ELSE 220, 150, 160, 1000, 140, 145))
     ELSE (IF p[1] = 1 THEN RunOf(p[2] = 5, "a", 0, 0, 0, 0, 0, 0)
           ELSE RunOf(TRUE, "b", 220, 200, 170, 1600, 100, 105))]]

-----------------------------------------------------------------------------
\* What a component may begin with is chosen only where it runs.
HqInit ==
  /\ part \in Parts
  /\ owner \in [Starters -> Parents] /\ home = owner
  /\ part \notin {"bindings", "daemons"} => owner[w1] = owner[w2]
  /\ part # "competition" => hasBus = FALSE
  /\ BindingsInit /\ DaemonsInit /\ ExecutionInit /\ InboxInit /\ SandboxInit /\ DumpsInit
  /\ CompetitionInit /\ SentimentInit /\ GatesInit /\ SheetsInit
  /\ IF part = "replay" THEN ReplayInit
     ELSE /\ at = [day |-> 1, clock |-> -1] /\ ref = FreshEngine
          /\ live = NewParity(FreshEngine) /\ brought = <<>>
  /\ IF part = "research" THEN GateInit
     ELSE /\ kind = "sleeve" /\ data = 1 /\ catalog = [args |-> <<1, 5>>, grid |-> <<<<1, 2>>, <<5>>>>]
          /\ folders = [f \in {"a", "b"} |-> NoFolder] /\ searched = [f \in {"a", "b"} |-> {}]
          /\ cards = [f \in {"a", "b"} |-> NA] /\ tunes = 0

\* The components but one stay where they are.
Others(p) ==
  /\ part = p /\ UNCHANGED part
  /\ p # "bindings" => UNCHANGED bindingsVars
  /\ p # "daemons" => UNCHANGED daemonsVars
  /\ p # "execution" => UNCHANGED executionVars
  /\ p # "inbox" => UNCHANGED inboxVars
  /\ p # "sandbox" => UNCHANGED sandboxVars
  /\ p # "dumps" => UNCHANGED dumpsVars
  /\ p # "competition" => UNCHANGED competitionVars
  /\ p # "sentiment" => UNCHANGED sentimentVars
  /\ p # "gates" => UNCHANGED gatesVars
  /\ p # "sheets" => UNCHANGED reports
  /\ p # "replay" => UNCHANGED replayVars
  /\ p # "research" => UNCHANGED gateVars

HqNext ==
  \/ Others("bindings") /\ BindingsNext
  \/ Others("daemons") /\ DaemonsNext
  \/ Others("execution") /\ ExecutionNext
  \/ Others("inbox") /\ InboxNext
  \/ Others("sandbox") /\ SandboxNext
  \/ Others("dumps") /\ DumpsNext
  \/ Others("competition") /\ CompetitionNext
  \/ Others("sentiment") /\ SentimentNext
  \/ Others("gates") /\ GatesNext
  \/ Others("sheets") /\ SheetsNext
  \/ Others("replay") /\ ReplayNext
  \/ Others("research") /\ GateNext

HqVars ==
  <<part, bindingsVars, daemonsVars, executionVars, inboxVars, sandboxVars, dumpsVars,
    competitionVars, sentimentVars, gatesVars, reports, replayVars, gateVars>>

HqSpec == HqInit /\ [][HqNext]_HqVars

\* The types of the component that runs.
HqTypeOK ==
  /\ part \in Parts
  /\ part = "bindings" => BindingsTypeOK
  /\ part = "daemons" => DaemonsTypeOK
  /\ part = "execution" => ExecutionTypeOK
  /\ part = "inbox" => InboxTypeOK
  /\ part = "sandbox" => SandboxTypeOK
  /\ part = "dumps" => DumpsTypeOK
  /\ part = "competition" => CompetitionTypeOK
  /\ part = "sentiment" => SentimentTypeOK
  /\ part = "gates" => GatesTypeOK
  /\ part = "sheets" => SheetsTypeOK
  /\ part = "replay" => ReplayTypeOK
  /\ part = "research" => GateTypeOK

\* However workers overwrite each other's bindings and starters race over pid and kill-switch
\* files: client ids stay distinct, no strategy has two daemons, no halt is lifted unasked.
DaemonsSound == IdsDistinct /\ OneDaemon /\ HaltStands

\* No execution is lost by collectors that die or overlap, a marked day is whole and shows its
\* own positions, and what a sentiment slot shows is of one run.
StoresKeep == LedgerKeeps /\ PublishedDays /\ SlotWhole

\* Through overlapping cycles, failing saves and restarts, an entrant's account keeps the
\* caps, and what is saved is what it holds.
EntrantsSound == EntrantWithinCaps /\ SavedIsCurrent


\* Every sandbox run that is listed loads, its losses keep to the caps, and what the two replays
\* do differently is explained.
SandboxSound == ListedRunsLoad /\ LossesStayCapped /\ DifferencesExplained

\* What is computed from the same days twice agrees: the two KPI sheets with each other and with
\* their verdict, the report of a replay with what the replay did.
ReportsAgree == SheetsAgree /\ ReportMatchesReplay
=============================================================================
