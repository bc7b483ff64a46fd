---------------------------- MODULE MCWorkspace ----------------------------
(* Small instances of the shared workspace. *)
EXTENDS Workspace, TLC

CONSTANTS a, b, c1, c2

MCStrategies ==
  { [watchlist |-> {a, b}, notional |-> 2], [watchlist |-> {a}, notional |-> 3] }
OneStrategy == { [watchlist |-> {a, b}, notional |-> 2] }
MCPrices == {1, 2}
OnePrice == {2}
CallSymmetry == Permutations({c1, c2})
=============================================================================
