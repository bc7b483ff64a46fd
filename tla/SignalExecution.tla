--------------------------- MODULE SignalExecution ---------------------------
(***************************************************************************)
(* ibkr_execute_signal (hq/strategy_runner.py) on the account of one       *)
(* strategy, called by several processes at once: a bracket entry, and the *)
(* flattening when its stop is not confirmed.  Neither the kill switch nor *)
(* the daemon is looked at.  The gateway belongs to another repository and *)
(* is modelled by what its answers are used for.                           *)
(***************************************************************************)
CONSTANT Callers

VARIABLES
  stage,     \* where each call is
  exposure,  \* the position: flat, covered by a stop, or naked
  blown      \* history: what left it naked raised, or its process died

executionVars == <<stage, exposure, blown>>

\* A dry run, and everything up to the quote: no order is placed yet.
Execute(c) ==
  /\ stage[c] = "idle"
  /\ stage' = [stage EXCEPT ![c] = "order"]
  /\ UNCHANGED <<exposure, blown>>

\* Connecting, verifying the account, quoting or flattening raises.
ExecuteRaises(c) ==
  /\ stage[c] = "order"
  /\ stage' = [stage EXCEPT ![c] = "idle"]
  /\ UNCHANGED <<exposure, blown>>

Flatten(c) ==
  /\ stage[c] = "order"
  /\ stage' = [stage EXCEPT ![c] = "idle"]
  /\ exposure' = "flat"
  /\ blown' = FALSE

\* place_bracket answers: nothing filled, filled and its stop confirmed, or
\* filled without.
PlaceBracket(c) ==
  /\ stage[c] = "order"
  /\ \/ stage' = [stage EXCEPT ![c] = "idle"] /\ UNCHANGED exposure
     \/ /\ stage' = [stage EXCEPT ![c] = "idle"]
        /\ exposure' = IF exposure = "naked" THEN "naked" ELSE "covered"
     \/ /\ stage' = [stage EXCEPT ![c] = "unconfirmed"]
        /\ exposure' = "naked"
  /\ UNCHANGED blown

\* place_bracket raises after the entry was filled: nothing flattens it.
BracketRaises(c) ==
  /\ stage[c] = "order"
  /\ stage' = [stage EXCEPT ![c] = "idle"]
  /\ exposure' = "naked"
  /\ blown' = TRUE

\* Mutant: an unconfirmed stop is reported and nothing else.
FlattenSkipped(c) ==
  /\ stage[c] = "unconfirmed"
  /\ stage' = [stage EXCEPT ![c] = "idle"]
  /\ UNCHANGED <<exposure, blown>>

FlattenUnconfirmed(c) ==
  /\ stage[c] = "unconfirmed"
  /\ stage' = [stage EXCEPT ![c] = "idle"]
  /\ \/ exposure' = "flat" /\ blown' = FALSE
     \/ UNCHANGED exposure /\ blown' = (blown \/ exposure = "naked")

\* The stop at the broker is filled.
StopFills ==
  /\ exposure = "covered"
  /\ exposure' = "flat"
  /\ UNCHANGED <<stage, blown>>

\* The process of a call dies.
CallerDies(c) ==
  /\ stage[c] # "idle"
  /\ stage' = [stage EXCEPT ![c] = "idle"]
  /\ blown' = (blown \/ stage[c] = "unconfirmed")
  /\ UNCHANGED exposure

ExecutionInit ==
  /\ stage = [c \in Callers |-> "idle"]
  /\ exposure = "flat"
  /\ blown = FALSE

ExecutionNext ==
  \/ \E c \in Callers :
       \/ Execute(c) \/ ExecuteRaises(c) \/ Flatten(c)
       \/ PlaceBracket(c) \/ BracketRaises(c) \/ FlattenUnconfirmed(c)
       \/ CallerDies(c)
  \/ StopFills

ExecutionSpec == ExecutionInit /\ [][ExecutionNext]_executionVars

-----------------------------------------------------------------------------
ExecutionTypeOK ==
  /\ stage \in [Callers -> {"idle", "order", "unconfirmed"}]
  /\ exposure \in {"flat", "covered", "naked"}
  /\ blown \in BOOLEAN

\* A position has its stop, or somebody is about to flatten it, whatever calls
\* overlap; it is left naked only by an order or a flattening that raised, or
\* by a process that died between the two.
NakedOnlyIfRaised ==
  exposure = "naked" => blown \/ \E c \in Callers : stage[c] = "unconfirmed"
=============================================================================
