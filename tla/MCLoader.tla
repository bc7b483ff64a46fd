------------------------------ MODULE MCLoader ------------------------------
(***************************************************************************)
(* Small instances of Loader: one session with two logs (the log of the    *)
(* day, which grows, and a copy of it under another name) and two replays  *)
(* (the whole one and an aborted one).                                     *)
(***************************************************************************)
EXTENDS Loader, TLC

CONSTANTS
  log, copy, replay, stub,  \* objects
  early, late, odd,         \* logs: one trade, both, and one that cannot be stored
  full, empty,              \* replays
  k1, k2,                   \* trades
  mnq                       \* a contract

CONSTANTS hourly, daily     \* runs

MCTexts == {early, late, odd, full, empty}
MCKindOf == [u \in Uris |-> IF u \in {log, copy} THEN "paper_log" ELSE "backtest_daily"]
MCDayOf == [u \in Uris |-> 1]

MCTextsOf == [u \in Uris |-> CASE u = log -> {early, late}
                               [] u = copy -> {early}
                               [] u = replay -> {full}
                               [] OTHER -> {empty}]

\* A log the database refuses, and another of the same contract.
MCOddFirst == [u \in Uris |-> CASE u = log -> {odd} [] u = copy -> {early}
                                [] OTHER -> {full}]

MCTrades == [t \in Texts |-> CASE t = early -> {k1} [] t \in {late, odd} -> {k1, k2}
                               [] OTHER -> {}]
MCSymbol == [t \in Texts |-> mnq]
MCQuality == [t \in Texts |-> IF t = full THEN 1 ELSE 0]
MCJobOf == [r \in Runs |-> IF r = hourly THEN "paper" ELSE "backtest"]
MCBackfill == [r \in Runs |-> "backfill"]
=============================================================================
