------------------------------- MODULE MCReplay ------------------------------
(***************************************************************************)
(* A small instance of the replays: two price bars, readings for a long    *)
(* and for a short, and two saved states: one with a position open, and    *)
(* one of the first day, that has lost the day's limit and waits to buy.   *)
(***************************************************************************)
EXTENDS V221Replay

\* A fall and a rise, each readable as a long or a short signal.
Bar(open, high, low, close) == [open |-> open, high |-> high, low |-> low, close |-> close]
MCTape == {Bar(1000, 1002, 985, 990), Bar(990, 1020, 990, 1015)}
Reading(mco, regime, fearful) ==
  [mco |-> mco, spike |-> TRUE, regime |-> regime, choppy |-> TRUE, fearful |-> fearful]
MCReadings == {Reading("above", "nowhere", FALSE), Reading("below", "landing", TRUE)}

Past(day, clock) == [day |-> day, clock |-> clock]
SavedTrade(direction, pts, exited, reason) ==
  [direction |-> direction, pts |-> pts, entered |-> Past(0, 0), exited |-> exited, reason |-> reason]
MCSavedStates ==
  {[FreshEngine EXCEPT !.position = "LONG", !.entry = 1000, !.fill = 1001, !.gains = <<4, -2>>,
                       !.trades = <<SavedTrade("SHORT", 5, Past(0, 900), "fts")>>],
   [FreshEngine EXCEPT !.pending = "BUY", !.day = 1, !.choppy = TRUE, !.regime = "landing",
                       !.trades = <<SavedTrade("LONG", -8, Past(1, 590), "STOP_FILLED_BROKER")>>]}
=============================================================================
