----------------------------- MODULE MCAgentOS -----------------------------
(* Small instances of the Agent OS and its alert router. *)
EXTENDS AgentOS

CONSTANTS a, b, trader, ops1, ops2, eng, mom

Team ==
  [r \in Recipients |->
     CASE r = eng -> [role |-> "engineer", min |-> "warn"]
       [] r = trader -> [role |-> "trader", min |-> "warn"]
       [] r = ops1 -> [role |-> "ops", min |-> "info"]
       [] OTHER -> [role |-> "ops", min |-> "warn"]]
=============================================================================
