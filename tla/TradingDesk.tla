----------------------------- MODULE TradingDesk -----------------------------
(***************************************************************************)
(* What the shared workspace promises of a paper account, without locks,   *)
(* snapshots or queues: one trading pass at a time, each pass bound by the *)
(* switch as it stood when the pass began, and every trade of a pass       *)
(* leaving the account long only and within the caps of the risk guard.    *)
(***************************************************************************)
EXTENDS TradingRules

VARIABLES
  enabled,  \* the kill-switch
  pass,     \* "none", or the pass under way: "armed" or "disarmed"
  held      \* the account's positions

deskVars == <<enabled, pass, held>>

DeskInit == enabled = TRUE /\ pass = "none" /\ held = Flat

Switch == enabled' \in BOOLEAN /\ UNCHANGED <<pass, held>>

BeginPass ==
  /\ pass = "none"
  /\ pass' = IF enabled THEN "armed" ELSE "disarmed"
  /\ UNCHANGED <<enabled, held>>

Trade ==
  /\ pass = "armed"
  /\ \E s \in Symbols, q \in 0..MaxPositionQty : held' = [held EXCEPT ![s] = q]
  /\ WithinCaps(held')
  /\ UNCHANGED <<enabled, pass>>

EndPass == pass # "none" /\ pass' = "none" /\ UNCHANGED <<enabled, held>>

\* The simulated account lives in the process.
Crash == pass' = "none" /\ held' = Flat /\ enabled' \in BOOLEAN

DeskNext == Switch \/ BeginPass \/ Trade \/ EndPass \/ Crash

DeskSpec == DeskInit /\ [][DeskNext]_deskVars
=============================================================================
