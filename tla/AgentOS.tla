------------------------------- MODULE AgentOS -------------------------------
(***************************************************************************)
(* The Agent OS (agent_os.py): the serve loop runs trading cycles, every   *)
(* event of a cycle is published on the bus and awaited, and the agents    *)
(* that hear it run concurrently: the risk supervisor, the analyst, the    *)
(* tuner, and the notifier, whose work is the jobs of AlertRouter.  An     *)
(* operator may approve a pending action whenever the loop suspends.       *)
(*                                                                         *)
(* serve arms its RiskGuard first, which raises unless the broker is a     *)
(* paper one, so the runtime is always in paper mode here.  Which symbols  *)
(* the cycle wants to trade and which orders its guard refuses is left     *)
(* open; so is everything the Claude agents answer.  Agents only ever ask  *)
(* for AdjustWeights and GateTrading(False): ScaleExposure, TriggerRetune  *)
(* and GateTrading(True) have no caller.                                   *)
(***************************************************************************)
EXTENDS AlertRouter, Sequences

CONSTANTS
  Symbols,
  Presets,      \* the weight presets of the tuner
  Default,      \* default_weights()
  Policies,     \* approval policies serve may be started with
  Cycles,       \* the `cycles` argument of serve
  MaxBlocks     \* RiskSupervisorAgent.max_blocks

ASSUME PoliciesAssumption == Policies \subseteq {"auto", "manual", "deny"}
ASSUME BoundsAssumption == Cycles \in Nat \ {0} /\ MaxBlocks \in Nat \ {0}
ASSUME PresetsAssumption == "halt" \notin Presets \cup {Default}

VARIABLES
  policy,           \* ActionGateway.policy
  trading_enabled,  \* RuntimeState.trading_enabled
  weights,          \* RuntimeState.weights
  audit,            \* ActionGateway.audit: [action, status]; ids are positions
  pending,          \* ids in ActionGateway._pending
  effects,          \* history: how often each id was applied
  blocks,           \* RiskSupervisorAgent._blocks
  tripped,          \* RiskSupervisorAgent._tripped
  tasks,            \* agents at work on an event
  pc, cycle,        \* where serve is
  permit,           \* the trading_enabled argument of the cycle
  todo, symbol,     \* composites left, and the one being handled
  begun, fused,     \* history: the weights as the cycle began, and as it fused
  reported          \* history: OrderBlocked events published

runtime == <<trading_enabled, weights>>
gateway == <<policy, audit, pending, effects>>
supervisor == <<blocks, tripped>>
loop == <<pc, cycle, permit, todo, symbol, begun, fused, reported>>
vars == <<router, runtime, gateway, supervisor, tasks, loop>>

\* NotifierAgent._to_alert
StrongSignal(s) == Alert(<<"signal", s>>, "trader", "info")
OrderFilled(s) == Alert(<<"filled", s>>, "trader", "info")
OrderBlocked(s) == Alert(<<"blocked", s>>, "trader", "warn")
AgentAction(action) ==
  Alert(<<"action", IF action = "halt" THEN "gate_trading" ELSE "adjust_weights">>, "ops", "warn")
AgentError(agent) == Alert(<<"error", agent>>, "engineer", "critical")

IsError(alert) == alert.title[1] = "error"

Init ==
  /\ RouterInit
  /\ policy \in Policies
  /\ trading_enabled = TRUE
  /\ weights = Default
  /\ audit = <<>> /\ pending = {} /\ effects = <<>>
  /\ blocks = 0 /\ tripped = FALSE
  /\ tasks = {}
  /\ pc = "idle" /\ cycle = 0
  /\ permit = FALSE /\ todo = {} /\ symbol = NoRecipient
  /\ begun = Default /\ fused = Default
  /\ reported = 0

-----------------------------------------------------------------------------
(***************************************************************************)
(* The gateway.  An action is "halt" (GateTrading(False)) or a preset      *)
(* (AdjustWeights); no agent asks for anything else.                       *)
(***************************************************************************)
Apply(action) ==
  IF action = "halt" THEN trading_enabled' = FALSE /\ UNCHANGED weights
  ELSE weights' = action /\ UNCHANGED trading_enabled

StatusFor == CASE policy = "auto" -> "applied"
               [] policy = "manual" -> "pending"
               [] OTHER -> "denied"

\* Mutant: only what was decided at once is audited.
RequestUnaudited(action) ==
  /\ audit' = IF StatusFor = "pending" THEN audit
              ELSE Append(audit, [action |-> action, status |-> StatusFor])
  /\ effects' = Append(effects, IF StatusFor = "applied" THEN 1 ELSE 0)
  /\ pending' = IF StatusFor = "pending" THEN pending \cup {Len(audit) + 1} ELSE pending
  /\ IF StatusFor = "applied" THEN Apply(action) ELSE UNCHANGED runtime
  /\ jobs' = Opened(jobs, AgentAction(action))
  /\ UNCHANGED policy

\* ActionGateway.request up to the publication of its AgentAction event.
Request(action) ==
  /\ audit' = Append(audit, [action |-> action, status |-> StatusFor])
  /\ effects' = Append(effects, IF StatusFor = "applied" THEN 1 ELSE 0)
  /\ pending' = IF StatusFor = "pending" THEN pending \cup {Len(audit) + 1} ELSE pending
  /\ IF StatusFor = "applied" THEN Apply(action) ELSE UNCHANGED runtime
  /\ jobs' = Opened(jobs, AgentAction(action))
  /\ UNCHANGED policy

\* Mutant: looked up and not taken out.
ApproveKept(id) ==
  /\ id \in pending
  /\ Apply(audit[id].action)
  /\ audit' = [audit EXCEPT ![id].status = "applied"]
  /\ effects' = [effects EXCEPT ![id] = @ + 1]
  /\ UNCHANGED <<pending, policy, router, supervisor, tasks, loop>>

Approve(id) ==
  /\ id \in pending
  /\ pending' = pending \ {id}
  /\ Apply(audit[id].action)
  /\ audit' = [audit EXCEPT ![id].status = "applied"]
  /\ effects' = [effects EXCEPT ![id] = @ + 1]
  /\ UNCHANGED <<policy, router, supervisor, tasks, loop>>

-----------------------------------------------------------------------------
(***************************************************************************)
(* The agents.                                                             *)
(***************************************************************************)
\* Mutant: one block more than max_blocks.
MoreThanMax(n) == n > MaxBlocks

TooMany(n) == n >= MaxBlocks

\* RiskSupervisorAgent.handle: it latches before the gateway has answered.
Supervise ==
  /\ "risk_supervisor" \in tasks
  /\ tasks' = tasks \ {"risk_supervisor"}
  /\ blocks' = IF tripped THEN blocks ELSE blocks + 1
  /\ tripped' = (tripped \/ TooMany(blocks'))
  /\ IF ~tripped /\ tripped' THEN Request("halt") ELSE UNCHANGED <<runtime, gateway, jobs>>
  /\ UNCHANGED <<seen, dispatched, sends, loop>>

\* AnalystAgent.handle: the cycle is judged, and a bad judgement is news to
\* the tuner.
Judge ==
  /\ "analyst" \in tasks
  /\ \E concerning \in BOOLEAN :
       tasks' = (tasks \ {"analyst"}) \cup (IF concerning THEN {"tuner"} ELSE {})
  /\ UNCHANGED <<router, runtime, gateway, supervisor, loop>>

\* TuningAgent.handle: one preset, or none.
Tune ==
  /\ "tuner" \in tasks
  /\ tasks' = tasks \ {"tuner"}
  /\ \/ \E preset \in Presets : Request(preset)
     \/ UNCHANGED <<runtime, gateway, jobs>>
  /\ UNCHANGED <<seen, dispatched, sends, supervisor, loop>>

\* A Claude agent raises: EventBus._safe turns that into an AgentError event.
ClaudeRaises(agent) ==
  /\ agent \in tasks \cap {"analyst", "tuner"}
  /\ tasks' = tasks \ {agent}
  /\ jobs' = Opened(jobs, AgentError(agent))
  /\ UNCHANGED <<seen, dispatched, sends, runtime, gateway, supervisor, loop>>

Notify(j) ==
  /\ SkipRecipient(j) \/ Send(j) \/ Answered(j)
  /\ UNCHANGED <<runtime, gateway, supervisor, tasks, loop>>

\* Mutant: gather without _safe, and the exception reaches the loop.
NotifierRaisesUncaught(j) ==
  /\ SendRaised(j, {})
  /\ pc' = "uncaught"
  /\ UNCHANGED <<runtime, gateway, supervisor, tasks, cycle, permit, todo, symbol, begun, fused,
                 reported>>

\* The notifier raises; about an AgentError nothing more is published.
NotifierRaises(j) ==
  /\ SendRaised(j, IF IsError(j.alert) THEN {} ELSE {AgentError("notifier")})
  /\ UNCHANGED <<runtime, gateway, supervisor, tasks, loop>>

-----------------------------------------------------------------------------
(***************************************************************************)
(* The serve loop and run_cycle, which await every publication.            *)
(***************************************************************************)
\* Mutant: publications are not awaited.
NotAwaited == TRUE

Quiet == tasks = {} /\ jobs = {}

BeginCycle ==
  /\ pc = "idle" /\ Quiet /\ cycle < Cycles
  /\ pc' = "gather"
  /\ permit' = trading_enabled
  /\ begun' = weights
  /\ UNCHANGED <<router, runtime, gateway, supervisor, tasks, cycle, todo, symbol, fused, reported>>

\* The bars are in: the weights are read now, through the reference.
Fuse ==
  /\ pc = "gather"
  /\ fused' = weights
  /\ todo' \in SUBSET Symbols
  /\ pc' = "turn"
  /\ UNCHANGED <<router, runtime, gateway, supervisor, tasks, cycle, permit, symbol, begun, reported>>

\* One composite: its score is published, and once more if it is strong.
Turn(s) ==
  /\ pc = "turn" /\ Quiet /\ s \in todo
  /\ symbol' = s
  /\ todo' = todo \ {s}
  /\ pc' = "act"
  /\ \E strong \in BOOLEAN : jobs' = IF strong THEN Opened(jobs, StrongSignal(s)) ELSE jobs
  /\ UNCHANGED <<seen, dispatched, sends, runtime, gateway, supervisor, tasks, cycle, permit, begun,
                 fused, reported>>

Hold ==
  /\ pc = "act" /\ Quiet
  /\ pc' = "turn"
  /\ UNCHANGED <<router, runtime, gateway, supervisor, tasks, cycle, permit, todo, symbol, begun,
                 fused, reported>>

\* Trading is disabled, or the guard refuses.
Block ==
  /\ pc = "act" /\ Quiet
  /\ pc' = "turn"
  /\ tasks' = tasks \cup {"risk_supervisor"}
  /\ jobs' = Opened(jobs, OrderBlocked(symbol))
  /\ reported' = reported + 1
  /\ UNCHANGED <<seen, dispatched, sends, runtime, gateway, supervisor, cycle, permit, todo, symbol,
                 begun, fused>>

Trade ==
  /\ pc = "act" /\ Quiet /\ permit
  /\ pc' = "turn"
  /\ jobs' = Opened(jobs, OrderFilled(symbol))
  /\ UNCHANGED <<seen, dispatched, sends, runtime, gateway, supervisor, tasks, cycle, permit, todo,
                 symbol, begun, fused, reported>>

Complete ==
  /\ pc = "turn" /\ Quiet /\ todo = {}
  /\ pc' = "close"
  /\ tasks' = tasks \cup {"analyst"}
  /\ UNCHANGED <<router, runtime, gateway, supervisor, cycle, permit, todo, symbol, begun, fused,
                 reported>>

EndCycle ==
  /\ pc = "close" /\ Quiet
  /\ cycle' = cycle + 1
  /\ pc' = IF cycle' = Cycles THEN "ended" ELSE "idle"
  /\ UNCHANGED <<router, runtime, gateway, supervisor, tasks, permit, todo, symbol, begun, fused,
                 reported>>

\* The data source or the broker raises, and serve with them.
Fail ==
  /\ \/ pc = "gather"
     \/ pc = "act" /\ Quiet /\ permit
  /\ pc' = "failed"
  /\ UNCHANGED <<router, runtime, gateway, supervisor, tasks, cycle, permit, todo, symbol, begun,
                 fused, reported>>

-----------------------------------------------------------------------------
CycleStep ==
  \/ BeginCycle \/ Fuse \/ Hold \/ Block \/ Trade \/ Complete \/ EndCycle \/ Fail
  \/ \E s \in Symbols : Turn(s)

AgentStep ==
  \/ Supervise \/ Judge \/ Tune
  \/ \E agent \in {"analyst", "tuner"} : ClaudeRaises(agent)
  \/ \E j \in jobs : Notify(j) \/ NotifierRaises(j)

Next == CycleStep \/ AgentStep \/ \E id \in pending : Approve(id)

Spec == Init /\ [][Next]_vars

\* One event loop runs every ready task, and what they await returns or raises.
FairSpec == Spec /\ WF_vars(CycleStep) /\ WF_vars(AgentStep)

-----------------------------------------------------------------------------
Actions == Presets \cup {"halt"}
Entries == [action : Actions, status : {"applied", "pending", "denied"}]

TypeOK ==
  /\ policy \in Policies
  /\ trading_enabled \in BOOLEAN
  /\ weights \in Presets \cup {Default}
  /\ audit \in Seq(Entries)
  /\ effects \in Seq(Nat)
  /\ Len(effects) = Len(audit)
  /\ pending \subseteq DOMAIN audit
  /\ blocks \in Nat /\ tripped \in BOOLEAN
  /\ tasks \subseteq {"risk_supervisor", "analyst", "tuner"}
  /\ pc \in {"idle", "gather", "turn", "act", "close", "ended", "failed", "uncaught"}
  /\ cycle \in 0..Cycles
  /\ permit \in BOOLEAN
  /\ todo \subseteq Symbols
  /\ symbol \in Symbols \cup {NoRecipient}
  /\ {begun, fused} \subseteq Presets \cup {Default}
  /\ reported \in Nat

\* The audit tells the truth: an action took effect exactly once if its entry
\* says applied, and never otherwise; and the entries that say pending are
\* those an operator can still approve.
AuditTells ==
  \A id \in DOMAIN audit :
    /\ effects[id] = IF audit[id].status = "applied" THEN 1 ELSE 0
    /\ audit[id].status = "pending" <=> id \in pending

\* With automatic approval the supervisor has halted trading by the time the
\* loop goes on after the max_blocks-th block, and no later cycle may trade.
SupervisorHalts ==
  policy = "auto" /\ Quiet /\ reported >= MaxBlocks =>
    ~trading_enabled /\ (pc = "gather" => ~permit)

Cycling == pc \in {"turn", "act", "close"}

\* Without an operator, agents change the weights only between two passes.
AgentsActBetweenPasses == policy # "manual" /\ Cycling => fused = begun

\* However agents and channels fail, serve comes to its end: their exceptions
\* do not reach it, and errors about errors do not go round for ever.
ServeEnds == <>(pc \in {"ended", "failed"})
=============================================================================
