---------------------------- MODULE AgentOSProofs ----------------------------
(***************************************************************************)
(* Proofs about the Agent OS: for any symbols, presets, recipients and     *)
(* policies, any number of cycles and any limit of blocks.                 *)
(***************************************************************************)
EXTENDS AgentOS, TLAPS

\* What the loop knows of itself while a cycle runs.
LoopInv ==
  /\ pc \in {"gather", "turn", "act", "close"} => cycle < Cycles
  /\ pc = "gather" => tasks = {}

LEMMA StatusType == TypeOK => StatusFor \in {"applied", "pending", "denied"}
BY DEF StatusFor

\* The gateway's part of a request.
LEMMA RequestEffect ==
  ASSUME TypeOK, NEW action \in Actions, Request(action)
  PROVE  /\ audit' \in Seq(Entries) /\ effects' \in Seq(Nat) /\ Len(effects') = Len(audit')
         /\ Len(audit') = Len(audit) + 1
         /\ audit'[Len(audit) + 1].status = StatusFor
         /\ effects'[Len(audit) + 1] = IF StatusFor = "applied" THEN 1 ELSE 0
         /\ \A id \in DOMAIN audit : audit'[id] = audit[id] /\ effects'[id] = effects[id]
         /\ DOMAIN audit' = DOMAIN audit \cup {Len(audit) + 1}
         /\ pending' = IF StatusFor = "pending" THEN pending \cup {Len(audit) + 1} ELSE pending
         /\ trading_enabled' \in BOOLEAN /\ weights' \in Presets \cup {Default}
         /\ policy' = policy
         /\ StatusFor # "applied" => UNCHANGED runtime
         /\ StatusFor = "applied" /\ action = "halt" => trading_enabled' = FALSE
         /\ action # "halt" => trading_enabled' = trading_enabled
<1> DEFINE entry == [action |-> action, status |-> StatusFor]
           count == IF StatusFor = "applied" THEN 1 ELSE 0
<1>1. entry \in Entries /\ count \in Nat
  BY StatusType DEF Entries
<1>2. audit' = Append(audit, entry) /\ effects' = Append(effects, count) /\ policy' = policy
      /\ pending' = IF StatusFor = "pending" THEN pending \cup {Len(audit) + 1} ELSE pending
  BY DEF Request
<1>3. audit \in Seq(Entries) /\ effects \in Seq(Nat) /\ Len(effects) = Len(audit)
  BY DEF TypeOK
<1> HIDE DEF entry, count
<1>4. audit' \in Seq(Entries) /\ Len(audit') = Len(audit) + 1
      /\ audit'[Len(audit) + 1] = entry
      /\ \A id \in DOMAIN audit : audit'[id] = audit[id]
      /\ DOMAIN audit' = DOMAIN audit \cup {Len(audit) + 1}
  BY <1>1, <1>2, <1>3
<1>5. effects' \in Seq(Nat) /\ Len(effects') = Len(effects) + 1
      /\ effects'[Len(effects) + 1] = count
      /\ \A id \in DOMAIN effects : effects'[id] = effects[id]
  BY <1>1, <1>2, <1>3
<1>6. DOMAIN effects = DOMAIN audit
  BY <1>3
<1>7. CASE StatusFor = "applied"
  <2>1. Apply(action)
    BY <1>7 DEF Request
  <2>2. trading_enabled' \in BOOLEAN /\ weights' \in Presets \cup {Default}
        /\ (action = "halt" => trading_enabled' = FALSE)
        /\ (action # "halt" => trading_enabled' = trading_enabled)
    BY <2>1 DEF Apply, Actions, TypeOK
  <2> QED BY <1>2, <1>3, <1>4, <1>5, <1>6, <1>7, <2>2 DEF entry, count
<1>8. CASE StatusFor # "applied"
  <2>1. UNCHANGED runtime
    BY <1>8 DEF Request
  <2>2. trading_enabled' = trading_enabled /\ weights' = weights
        /\ trading_enabled \in BOOLEAN /\ weights \in Presets \cup {Default}
    BY <2>1 DEF runtime, TypeOK
  <2>3. trading_enabled' \in BOOLEAN /\ weights' \in Presets \cup {Default}
    BY <2>2
  <2> QED BY <1>2, <1>3, <1>4, <1>5, <1>6, <1>8, <2>1, <2>2, <2>3 DEF entry, count
<1> QED BY <1>7, <1>8

\* What a request keeps typed, and that the pending ids stay ids.
LEMMA RequestTyped ==
  ASSUME TypeOK, NEW action \in Actions, Request(action)
  PROVE  /\ audit' \in Seq(Entries) /\ effects' \in Seq(Nat) /\ Len(effects') = Len(audit')
         /\ pending' \subseteq DOMAIN audit'
         /\ trading_enabled' \in BOOLEAN /\ weights' \in Presets \cup {Default}
         /\ policy' \in Policies
<1>1. pending \subseteq DOMAIN audit /\ policy \in Policies
  BY DEF TypeOK
<1>2. /\ audit' \in Seq(Entries) /\ effects' \in Seq(Nat) /\ Len(effects') = Len(audit')
      /\ trading_enabled' \in BOOLEAN /\ weights' \in Presets \cup {Default}
      /\ policy' = policy
  BY RequestEffect
<1>3. DOMAIN audit' = DOMAIN audit \cup {Len(audit) + 1}
  BY RequestEffect
<1>4. pending' \subseteq pending \cup {Len(audit) + 1}
  <2>1. pending' = IF StatusFor = "pending" THEN pending \cup {Len(audit) + 1} ELSE pending
    BY RequestEffect
  <2> QED BY <2>1
<1> QED BY <1>1, <1>2, <1>3, <1>4
-----------------------------------------------------------------------------
LEMMA InitTyped == Init => TypeOK /\ LoopInv
<1> SUFFICES ASSUME Init PROVE TypeOK /\ LoopInv
  OBVIOUS
<1>1. audit \in Seq(Entries) /\ effects \in Seq(Nat) /\ Len(effects) = Len(audit)
      /\ pending \subseteq DOMAIN audit
  BY DEF Init
<1>2. cycle \in 0..Cycles
  BY BoundsAssumption DEF Init
<1> QED BY <1>1, <1>2 DEF Init, TypeOK, LoopInv

LEMMA NextTyped == TypeOK /\ LoopInv /\ [Next]_vars => TypeOK' /\ LoopInv'
<1> SUFFICES ASSUME TypeOK, LoopInv, [Next]_vars PROVE TypeOK' /\ LoopInv'
  OBVIOUS
<1> USE DEF TypeOK, LoopInv
<1>1. CASE BeginCycle
  BY <1>1, BoundsAssumption DEF BeginCycle, Quiet, router, runtime, gateway, supervisor
<1>2. CASE Fuse
  BY <1>2 DEF Fuse, router, runtime, gateway, supervisor
<1>3. ASSUME NEW s \in Symbols, Turn(s) PROVE TypeOK' /\ LoopInv'
  BY <1>3 DEF Turn, runtime, gateway, supervisor
<1>4. CASE Hold
  BY <1>4 DEF Hold, router, runtime, gateway, supervisor
<1>5. CASE Block
  BY <1>5 DEF Block, runtime, gateway, supervisor
<1>6. CASE Trade
  BY <1>6 DEF Trade, runtime, gateway, supervisor
<1>7. CASE Complete
  BY <1>7 DEF Complete, router, runtime, gateway, supervisor
<1>8. CASE EndCycle
  BY <1>8, BoundsAssumption DEF EndCycle, router, runtime, gateway, supervisor
<1>9. CASE Fail
  BY <1>9 DEF Fail, router, runtime, gateway, supervisor
<1>10. CASE Supervise
  <2>1. blocks' \in Nat /\ tripped' \in BOOLEAN /\ tasks' \subseteq tasks
        /\ "risk_supervisor" \in tasks /\ UNCHANGED loop
    BY <1>10 DEF Supervise
  <2>2. CASE ~tripped /\ tripped'
    <3>1. Request("halt") /\ "halt" \in Actions
      BY <1>10, <2>2 DEF Supervise, Actions
    <3> QED BY <2>1, <3>1, RequestTyped DEF loop
  <2>3. CASE ~(~tripped /\ tripped')
    <3>1. UNCHANGED <<runtime, gateway>>
      BY <1>10, <2>3 DEF Supervise
    <3> QED BY <2>1, <3>1 DEF loop, runtime, gateway
  <2> QED BY <2>2, <2>3
<1>11. CASE Judge
  BY <1>11 DEF Judge, router, runtime, gateway, supervisor, loop
<1>12. CASE Tune
  <2>1. tasks' \subseteq tasks /\ "tuner" \in tasks /\ UNCHANGED <<loop, supervisor>>
    BY <1>12 DEF Tune
  <2>2. ASSUME NEW preset \in Presets, Request(preset) PROVE TypeOK' /\ LoopInv'
    BY <2>1, <2>2, RequestTyped DEF Actions, loop, supervisor
  <2>3. CASE UNCHANGED <<runtime, gateway>>
    BY <2>1, <2>3 DEF loop, supervisor, runtime, gateway
  <2> QED BY <1>12, <2>2, <2>3 DEF Tune
<1>13. ASSUME NEW agent \in {"analyst", "tuner"}, ClaudeRaises(agent) PROVE TypeOK' /\ LoopInv'
  BY <1>13 DEF ClaudeRaises, runtime, gateway, supervisor, loop
<1>14. ASSUME NEW j \in jobs, Notify(j) \/ NotifierRaises(j) PROVE TypeOK' /\ LoopInv'
  BY <1>14 DEF Notify, NotifierRaises, runtime, gateway, supervisor, loop
<1>15. ASSUME NEW id \in pending, Approve(id) PROVE TypeOK' /\ LoopInv'
  <2>1. audit[id] \in Entries /\ id \in DOMAIN audit
    OBVIOUS
  <2>2. audit' \in Seq(Entries) /\ Len(audit') = Len(audit) /\ DOMAIN audit' = DOMAIN audit
    <3>1. [audit[id] EXCEPT !.status = "applied"] \in Entries
      BY <2>1 DEF Entries
    <3> QED BY <1>15, <2>1, <3>1 DEF Approve
  <2>3. effects' \in Seq(Nat) /\ Len(effects') = Len(effects)
    BY <1>15, <2>1 DEF Approve
  <2>4. trading_enabled' \in BOOLEAN /\ weights' \in Presets \cup {Default}
    BY <1>15, <2>1 DEF Approve, Apply, Entries, Actions
  <2> QED BY <1>15, <2>2, <2>3, <2>4 DEF Approve, router, supervisor, loop
<1>16. CASE UNCHANGED vars
  BY <1>16 DEF vars, router, runtime, gateway, supervisor, loop
<1> QED
  BY <1>1, <1>2, <1>3, <1>4, <1>5, <1>6, <1>7, <1>8, <1>9, <1>10, <1>11, <1>12, <1>13, <1>14, <1>15,
     <1>16 DEF Next, CycleStep, AgentStep

\* Every variable keeps its type.
THEOREM Typing == Spec => []TypeOK
<1>1. Spec => [](TypeOK /\ LoopInv)
  BY InitTyped, NextTyped, PTL DEF Spec
<1> QED BY <1>1, PTL

-----------------------------------------------------------------------------
(***************************************************************************)
(* The gateway's audit.                                                    *)
(***************************************************************************)
LEMMA RequestAudited ==
  ASSUME TypeOK, AuditTells, NEW action \in Actions, Request(action)
  PROVE  AuditTells'
<1>1. /\ audit'[Len(audit) + 1].status = StatusFor
      /\ effects'[Len(audit) + 1] = IF StatusFor = "applied" THEN 1 ELSE 0
      /\ \A id \in DOMAIN audit : audit'[id] = audit[id] /\ effects'[id] = effects[id]
      /\ DOMAIN audit' = DOMAIN audit \cup {Len(audit) + 1}
      /\ pending' = IF StatusFor = "pending" THEN pending \cup {Len(audit) + 1} ELSE pending
  BY RequestEffect
<1>2. Len(audit) + 1 \notin DOMAIN audit /\ pending \subseteq DOMAIN audit
  BY DEF TypeOK
<1>3. ASSUME NEW id \in DOMAIN audit
      PROVE  /\ effects'[id] = IF audit'[id].status = "applied" THEN 1 ELSE 0
             /\ audit'[id].status = "pending" <=> id \in pending'
  <2>1. id # Len(audit) + 1
    BY <1>2
  <2>2. id \in pending' <=> id \in pending
    BY <1>1, <2>1
  <2> QED BY <1>1, <2>2 DEF AuditTells
<1>4. LET id == Len(audit) + 1
      IN  /\ effects'[id] = IF audit'[id].status = "applied" THEN 1 ELSE 0
          /\ audit'[id].status = "pending" <=> id \in pending'
  <2>1. Len(audit) + 1 \in pending' <=> StatusFor = "pending"
    BY <1>1, <1>2
  <2> QED BY <1>1, <2>1
<1> QED BY <1>1, <1>3, <1>4 DEF AuditTells

LEMMA ApproveAudited ==
  ASSUME TypeOK, AuditTells, NEW id \in pending, Approve(id)
  PROVE  AuditTells'
<1>1. id \in DOMAIN audit /\ audit[id] \in Entries /\ audit[id].status = "pending"
      /\ DOMAIN effects = DOMAIN audit /\ effects[id] = 0
  BY DEF TypeOK, AuditTells
<1>2. pending' = pending \ {id} /\ audit' = [audit EXCEPT ![id].status = "applied"]
      /\ effects' = [effects EXCEPT ![id] = @ + 1]
  BY DEF Approve
<1>3. DOMAIN audit' = DOMAIN audit
  BY <1>2
<1>4. audit'[id].status = "applied" /\ effects'[id] = 1 /\ id \notin pending'
  BY <1>1, <1>2 DEF Entries
<1>5. ASSUME NEW other \in DOMAIN audit, other # id
      PROVE  audit'[other] = audit[other] /\ effects'[other] = effects[other]
             /\ (other \in pending' <=> other \in pending)
  BY <1>1, <1>2, <1>5
<1> QED BY <1>3, <1>4, <1>5 DEF AuditTells

LEMMA NextAudited == TypeOK /\ AuditTells /\ [Next]_vars => AuditTells'
<1> SUFFICES ASSUME TypeOK, AuditTells, [Next]_vars PROVE AuditTells'
  OBVIOUS
<1>1. CASE UNCHANGED gateway
  BY <1>1 DEF gateway, AuditTells
<1>2. CASE CycleStep
  BY <1>1, <1>2 DEF CycleStep, BeginCycle, Fuse, Hold, Block, Trade, Complete, EndCycle, Fail, Turn
<1>3. CASE Supervise
  BY <1>1, <1>3, RequestAudited DEF Supervise, Actions
<1>4. CASE Tune
  BY <1>1, <1>4, RequestAudited DEF Tune, Actions
<1>5. ASSUME NEW id \in pending, Approve(id) PROVE AuditTells'
  BY <1>5, ApproveAudited
<1>6. CASE Judge \/ \E agent \in {"analyst", "tuner"} : ClaudeRaises(agent)
  BY <1>1, <1>6 DEF Judge, ClaudeRaises
<1>7. ASSUME NEW j \in jobs, Notify(j) \/ NotifierRaises(j) PROVE AuditTells'
  BY <1>1, <1>7 DEF Notify, NotifierRaises
<1>8. CASE UNCHANGED vars
  BY <1>1, <1>8 DEF vars
<1> QED BY <1>2, <1>3, <1>4, <1>5, <1>6, <1>7, <1>8 DEF Next, AgentStep

\* The audit and what was done never disagree: whatever the agents ask for and
\* whenever an operator approves, the entries that say applied are those that
\* took effect, once each, and those that say pending can still be approved.
THEOREM AuditTruth == Spec => []AuditTells
<1>1. Init => AuditTells
  BY DEF Init, AuditTells
<1> QED BY <1>1, Typing, NextAudited, PTL DEF Spec

-----------------------------------------------------------------------------
(***************************************************************************)
(* The supervisor under automatic approval, and the weights of a pass.     *)
(***************************************************************************)
\* Until the supervisor trips it has counted every published block but the
\* one it is about to handle; once it has, trading is disabled for good.
SupervisorInv ==
  policy = "auto" =>
    /\ tripped => ~trading_enabled
    /\ ~tripped => blocks < MaxBlocks
                   /\ reported = blocks + (IF "risk_supervisor" \in tasks THEN 1 ELSE 0)
    /\ pc = "gather" /\ tripped => ~permit

\* Nothing is left to an operator, so nothing changes while bars are fetched.
WeightsInv ==
  policy # "manual" =>
    /\ pending = {}
    /\ pc = "gather" => weights = begun
    /\ Cycling => fused = begun

PassInv == TypeOK /\ LoopInv /\ SupervisorInv /\ WeightsInv

LEMMA InitPass == Init => SupervisorInv /\ WeightsInv
BY BoundsAssumption DEF Init, SupervisorInv, WeightsInv, Cycling

\* What a request does to the runtime, by policy.
LEMMA RequestPass ==
  ASSUME PassInv, NEW action \in Actions, Request(action), UNCHANGED loop, pc # "gather"
  PROVE  WeightsInv' /\ (action # "halt" => trading_enabled' = trading_enabled)
         /\ (policy = "auto" /\ action = "halt" => ~trading_enabled') /\ policy' = policy
<1>1. /\ pending' = IF StatusFor = "pending" THEN pending \cup {Len(audit) + 1} ELSE pending
      /\ policy' = policy
      /\ action # "halt" => trading_enabled' = trading_enabled
      /\ StatusFor = "applied" /\ action = "halt" => trading_enabled' = FALSE
  BY RequestEffect DEF PassInv
<1>2. policy \in {"auto", "manual", "deny"}
  BY PoliciesAssumption DEF PassInv, TypeOK
<1>3. (policy = "auto" => StatusFor = "applied") /\ (policy # "manual" => StatusFor # "pending")
  BY <1>2 DEF StatusFor
<1> QED BY <1>1, <1>3 DEF PassInv, WeightsInv, Cycling, loop

LEMMA NextPass == PassInv /\ [Next]_vars => SupervisorInv' /\ WeightsInv'
<1> SUFFICES ASSUME PassInv, [Next]_vars PROVE SupervisorInv' /\ WeightsInv'
  OBVIOUS
<1> USE DEF PassInv, LoopInv, SupervisorInv, WeightsInv, Cycling
<1>0. blocks \in Nat /\ reported \in Nat /\ MaxBlocks \in Nat
  BY BoundsAssumption DEF TypeOK
<1>1. CASE BeginCycle
  BY <1>1 DEF BeginCycle, Quiet, runtime, gateway, supervisor
<1>2. CASE Fuse
  BY <1>2 DEF Fuse, runtime, gateway, supervisor
<1>3. ASSUME NEW s \in Symbols, Turn(s) PROVE SupervisorInv' /\ WeightsInv'
  BY <1>3 DEF Turn, runtime, gateway, supervisor
<1>4. CASE Hold
  BY <1>4 DEF Hold, runtime, gateway, supervisor
<1>5. CASE Block
  <2>1. pc = "act" /\ tasks = {} /\ pc' = "turn" /\ tasks' = {"risk_supervisor"}
        /\ reported' = reported + 1
        /\ UNCHANGED <<runtime, gateway, supervisor, begun, fused>>
    BY <1>5 DEF Block, Quiet
  <2> QED BY <1>0, <2>1 DEF runtime, gateway, supervisor
<1>6. CASE Trade
  BY <1>6 DEF Trade, runtime, gateway, supervisor
<1>7. CASE Complete
  BY <1>7 DEF Complete, Quiet, runtime, gateway, supervisor
<1>8. CASE EndCycle
  BY <1>8 DEF EndCycle, runtime, gateway, supervisor
<1>9. CASE Fail
  BY <1>9 DEF Fail, runtime, gateway, supervisor
<1>10. CASE Supervise
  <2>1. pc # "gather" /\ UNCHANGED loop /\ "risk_supervisor" \in tasks
        /\ tasks' = tasks \ {"risk_supervisor"}
        /\ blocks' = (IF tripped THEN blocks ELSE blocks + 1)
        /\ tripped' = (tripped \/ blocks' >= MaxBlocks)
    BY <1>10 DEF Supervise, TooMany
  <2>2. CASE ~tripped /\ tripped'
    <3>1. Request("halt") /\ "halt" \in Actions
      BY <1>10, <2>2 DEF Supervise, Actions
    <3>2. WeightsInv' /\ policy' = policy /\ (policy = "auto" => ~trading_enabled')
      BY <2>1, <3>1, RequestPass
    <3> QED BY <2>1, <2>2, <3>2 DEF loop
  <2>3. CASE ~(~tripped /\ tripped')
    <3>1. UNCHANGED <<runtime, gateway>>
      BY <1>10, <2>3 DEF Supervise
    <3>2. ASSUME ~tripped, policy = "auto"
          PROVE  blocks' < MaxBlocks /\ reported' = blocks' /\ ~tripped'
      <4>1. blocks' = blocks + 1 /\ ~tripped' /\ ~(blocks' >= MaxBlocks)
        BY <2>1, <2>3, <3>2
      <4>2. reported' = blocks + 1
        BY <2>1, <3>2 DEF loop
      <4> QED BY <1>0, <4>1, <4>2
    <3>3. tripped => tripped'
      BY <2>1
    <3>4. trading_enabled' = trading_enabled /\ policy' = policy /\ pending' = pending
          /\ weights' = weights /\ UNCHANGED <<pc, permit, begun, fused, reported>>
      BY <2>1, <3>1 DEF runtime, gateway, loop
    <3>5. "risk_supervisor" \notin tasks'
      BY <2>1
    <3> QED BY <1>0, <2>1, <3>2, <3>3, <3>4, <3>5
  <2> QED BY <2>2, <2>3
<1>11. CASE Judge
  BY <1>11 DEF Judge, runtime, gateway, supervisor, loop
<1>12. CASE Tune
  <2>1. pc # "gather" /\ UNCHANGED <<supervisor, loop>> /\ tasks' = tasks \ {"tuner"}
    BY <1>12 DEF Tune
  <2>2. ASSUME NEW preset \in Presets, Request(preset) PROVE SupervisorInv' /\ WeightsInv'
    <3>1. preset \in Actions /\ preset # "halt"
      BY PresetsAssumption DEF Actions
    <3>2. WeightsInv' /\ policy' = policy /\ trading_enabled' = trading_enabled
      BY <2>1, <2>2, <3>1, RequestPass
    <3> QED BY <2>1, <3>2 DEF supervisor, loop
  <2>3. CASE UNCHANGED <<runtime, gateway>>
    BY <2>1, <2>3 DEF supervisor, loop, runtime, gateway
  <2> QED BY <1>12, <2>2, <2>3 DEF Tune
<1>13. ASSUME NEW agent \in {"analyst", "tuner"}, ClaudeRaises(agent)
       PROVE  SupervisorInv' /\ WeightsInv'
  BY <1>13 DEF ClaudeRaises, runtime, gateway, supervisor, loop
<1>14. ASSUME NEW j \in jobs, Notify(j) \/ NotifierRaises(j) PROVE SupervisorInv' /\ WeightsInv'
  BY <1>14 DEF Notify, NotifierRaises, runtime, gateway, supervisor, loop
<1>15. ASSUME NEW id \in pending, Approve(id) PROVE SupervisorInv' /\ WeightsInv'
  BY <1>15 DEF Approve
<1>16. CASE UNCHANGED vars
  BY <1>16 DEF vars, runtime, gateway, supervisor, loop
<1> QED
  BY <1>1, <1>2, <1>3, <1>4, <1>5, <1>6, <1>7, <1>8, <1>9, <1>10, <1>11, <1>12, <1>13, <1>14, <1>15,
     <1>16 DEF Next, CycleStep, AgentStep

LEMMA PassHolds == Spec => []PassInv
<1>1. Init => PassInv
  BY InitTyped, InitPass DEF PassInv
<1>2. PassInv /\ [Next]_vars => PassInv'
  BY NextTyped, NextPass DEF PassInv
<1> QED BY <1>1, <1>2, PTL DEF Spec

\* Under automatic approval, the loop never goes on after max_blocks published
\* blocks with trading still enabled: no block is lost between publication and
\* count, and no later request of another agent undoes the halt.
THEOREM SupervisorHaltsTrading == Spec => []SupervisorHalts
<1>1. PassInv => SupervisorHalts
  <2>1. SUFFICES ASSUME PassInv, policy = "auto", Quiet, reported >= MaxBlocks
                 PROVE  ~trading_enabled /\ (pc = "gather" => ~permit)
    BY DEF SupervisorHalts
  <2>2. tripped
    BY <2>1, BoundsAssumption DEF PassInv, SupervisorInv, TypeOK, Quiet
  <2> QED BY <2>1, <2>2 DEF PassInv, SupervisorInv
<1> QED BY <1>1, PassHolds, PTL

\* Without an operator, whatever the agents request, a pass is decided with the
\* weights in force as it began.
THEOREM AgentsBetweenPasses == Spec => []AgentsActBetweenPasses
<1>1. PassInv => AgentsActBetweenPasses
  BY DEF PassInv, WeightsInv, AgentsActBetweenPasses
<1> QED BY <1>1, PassHolds, PTL

-----------------------------------------------------------------------------
(***************************************************************************)
(* The router.                                                             *)
(***************************************************************************)
JobsInv ==
  \A j \in jobs :
    /\ j = [alert |-> j.alert, copy |-> j.copy, left |-> j.left, at |-> j.at]
    /\ j.left \subseteq Recipients
    /\ j.at \in Recipients \cup {NoRecipient}

\* A send and the mark that forbids another are one step.
SendsInv == sends = [key \in seen |-> 1]

RouterInv == JobsInv /\ SendsInv /\ AttemptsRecorded

\* What the other modules do to the router: they call dispatch, or nothing.
Calls == /\ jobs' = jobs \/ \E alert : jobs' = Opened(jobs, alert)
         /\ UNCHANGED <<seen, dispatched, sends>>

LEMMA OpenedJobs ==
  ASSUME NEW js, NEW alert
  PROVE  /\ js \subseteq Opened(js, alert)
         /\ \A j \in Opened(js, alert) \ js :
              /\ j = [alert |-> j.alert, copy |-> j.copy, left |-> j.left, at |-> j.at]
              /\ j.left \subseteq Recipients
              /\ j.at = NoRecipient
BY DEF Opened, ForAlert

LEMMA AdvancedJobs ==
  ASSUME JobsInv, NEW j \in jobs, NEW r
  PROVE  /\ jobs \ {j} \subseteq Advanced(j, r)
         /\ \A other \in Advanced(j, r) \ jobs :
              /\ other = [alert |-> other.alert, copy |-> other.copy, left |-> other.left,
                          at |-> other.at]
              /\ other.left \subseteq Recipients
              /\ other.at = NoRecipient
         /\ Advanced(j, r) \ jobs \subseteq {[j EXCEPT !.left = j.left \ {r}, !.at = NoRecipient]}
<1> DEFINE next == [j EXCEPT !.left = j.left \ {r}, !.at = NoRecipient]
<1>1. j = [alert |-> j.alert, copy |-> j.copy, left |-> j.left, at |-> j.at]
      /\ j.left \subseteq Recipients
  BY DEF JobsInv
<1>2. next = [alert |-> j.alert, copy |-> j.copy, left |-> j.left \ {r}, at |-> NoRecipient]
  <2>1. DOMAIN j = {"alert", "copy", "left", "at"}
    BY <1>1
  <2>2. next = [field \in DOMAIN j |-> IF field = "at" THEN NoRecipient
                                       ELSE IF field = "left" THEN j.left \ {r} ELSE j[field]]
    BY Zenon
  <2>3. next = [field \in {"alert", "copy", "left", "at"} |->
                  IF field = "at" THEN NoRecipient
                  ELSE IF field = "left" THEN j.left \ {r} ELSE j[field]]
    BY <2>1, <2>2
  <2> HIDE DEF next
  <2> QED BY <2>3
<1>3. Advanced(j, r) \subseteq (jobs \ {j}) \cup {next} /\ jobs \ {j} \subseteq Advanced(j, r)
  BY DEF Advanced
<1>4. next = [alert |-> next.alert, copy |-> next.copy, left |-> next.left, at |-> next.at]
      /\ next.left \subseteq Recipients /\ next.at = NoRecipient
  BY <1>1, <1>2
<1> QED BY <1>3, <1>4

LEMMA AdvancedKeeps ==
  ASSUME JobsInv, NEW j \in jobs, NEW r, jobs' = Advanced(j, r)
  PROVE  jobs \ {j} \subseteq jobs' /\ JobsInv'
<1>1. jobs \ {j} \subseteq jobs'
  BY AdvancedJobs
<1>2. ASSUME NEW other \in jobs'
      PROVE  /\ other = [alert |-> other.alert, copy |-> other.copy, left |-> other.left,
                         at |-> other.at]
             /\ other.left \subseteq Recipients
             /\ other.at \in Recipients \cup {NoRecipient}
  <2>1. CASE other \in jobs
    BY <2>1 DEF JobsInv
  <2>2. CASE other \notin jobs
    <3>1. other \in Advanced(j, r) \ jobs
      BY <2>2
    <3> QED BY <3>1, AdvancedJobs
  <2> QED BY <2>1, <2>2
<1> QED BY <1>1, <1>2 DEF JobsInv

\* An attempt stays accounted for when the jobs in flight stay.
LEMMA StillRecorded ==
  ASSUME AttemptsRecorded, seen' = seen,
         \A key \in seen : key[2] \notin Raising /\ InFlight(key) =>
                             InFlight(key)' \/ key \in dispatched',
         dispatched \subseteq dispatched'
  PROVE  AttemptsRecorded'
BY DEF AttemptsRecorded

LEMMA CallsRouter == ASSUME RouterInv, Calls PROVE RouterInv'
<1>1. jobs \subseteq jobs' /\ \A j \in jobs' \ jobs :
        /\ j = [alert |-> j.alert, copy |-> j.copy, left |-> j.left, at |-> j.at]
        /\ j.left \subseteq Recipients
        /\ j.at = NoRecipient
  <2>1. CASE jobs' = jobs
    BY <2>1
  <2>2. ASSUME NEW alert, jobs' = Opened(jobs, alert)
        PROVE  jobs \subseteq jobs' /\ \A j \in jobs' \ jobs :
                 /\ j = [alert |-> j.alert, copy |-> j.copy, left |-> j.left, at |-> j.at]
                 /\ j.left \subseteq Recipients
                 /\ j.at = NoRecipient
    BY <2>2, OpenedJobs
  <2> QED BY <2>1, <2>2 DEF Calls
<1>2. JobsInv'
  BY <1>1 DEF RouterInv, JobsInv
<1>3. SendsInv' /\ seen' = seen /\ dispatched' = dispatched
  BY DEF Calls, RouterInv, SendsInv
<1>4. ASSUME NEW key, InFlight(key) PROVE InFlight(key)'
  BY <1>1, <1>4 DEF InFlight, Key
<1> QED BY <1>2, <1>3, <1>4, StillRecorded DEF RouterInv

LEMMA SkipRouter == ASSUME RouterInv, NEW j \in jobs, SkipRecipient(j) PROVE RouterInv'
<1>1. PICK r \in j.left : jobs' = Advanced(j, r)
  BY DEF SkipRecipient
<1>2. jobs \ {j} \subseteq jobs' /\ JobsInv'
  BY <1>1, AdvancedKeeps DEF RouterInv
<1>3. SendsInv' /\ seen' = seen /\ dispatched' = dispatched /\ j.at = NoRecipient
  BY DEF SkipRecipient, RouterInv, SendsInv
<1>4. ASSUME NEW key, InFlight(key) PROVE InFlight(key)'
  <2>1. PICK k \in jobs : k.at # NoRecipient /\ key = Key(k.alert, k.at)
    BY <1>4 DEF InFlight
  <2>2. k \in jobs'
    BY <1>2, <1>3, <2>1
  <2> QED BY <2>1, <2>2 DEF InFlight, Key
<1> QED BY <1>2, <1>3, <1>4, StillRecorded DEF RouterInv

LEMMA AnsweredRouter == ASSUME RouterInv, NEW j \in jobs, Answered(j) PROVE RouterInv'
<1>1. jobs' = Advanced(j, j.at)
  BY DEF Answered
<1>2. jobs \ {j} \subseteq jobs' /\ JobsInv'
  BY <1>1, AdvancedKeeps DEF RouterInv
<1>3. SendsInv' /\ seen' = seen /\ dispatched' = dispatched \cup {Key(j.alert, j.at)}
  BY DEF Answered, RouterInv, SendsInv
<1>4. ASSUME NEW key, InFlight(key) PROVE InFlight(key)' \/ key \in dispatched'
  <2>1. PICK k \in jobs : k.at # NoRecipient /\ key = Key(k.alert, k.at)
    BY <1>4 DEF InFlight
  <2>2. CASE k = j
    BY <1>3, <2>1, <2>2
  <2>3. CASE k \in jobs'
    BY <2>1, <2>3 DEF InFlight, Key
  <2> QED BY <1>2, <2>2, <2>3
<1> QED BY <1>2, <1>3, <1>4, StillRecorded DEF RouterInv

LEMMA SendRouter == ASSUME RouterInv, NEW j \in jobs, Send(j) PROVE RouterInv'
<1>1. PICK r \in j.left :
        /\ Key(j.alert, r) \notin seen
        /\ seen' = seen \cup {Key(j.alert, r)}
        /\ sends' = [k \in DOMAIN sends \cup {Key(j.alert, r)} |->
                       IF k = Key(j.alert, r) THEN SendsTo(k) + 1 ELSE sends[k]]
        /\ jobs' = (jobs \ {j}) \cup {[j EXCEPT !.at = r]}
  BY DEF Send
<1> DEFINE sent == [j EXCEPT !.at = r]
<1>2. j = [alert |-> j.alert, copy |-> j.copy, left |-> j.left, at |-> j.at]
      /\ j.left \subseteq Recipients /\ r \in Recipients /\ r # NoRecipient
  BY NoRecipientAssumption DEF RouterInv, JobsInv
<1>3. sent = [alert |-> j.alert, copy |-> j.copy, left |-> j.left, at |-> r]
  <2>1. PICK alert, copy, left, at :
          j = [alert |-> alert, copy |-> copy, left |-> left, at |-> at]
    BY <1>2
  <2>2. j.alert = alert /\ j.copy = copy /\ j.left = left
    BY <2>1
  <2>3. sent = [alert |-> alert, copy |-> copy, left |-> left, at |-> r]
    BY <2>1
  <2> QED BY <2>2, <2>3
<1>4. sent.alert = j.alert /\ sent.at = r /\ sent.left = j.left /\ sent.copy = j.copy
  BY <1>3
<1>5. sent = [alert |-> sent.alert, copy |-> sent.copy, left |-> sent.left, at |-> sent.at]
  BY <1>3, <1>4
<1> HIDE DEF sent
<1>6. jobs' = (jobs \ {j}) \cup {sent}
  BY <1>1 DEF sent
<1>7. JobsInv'
  <2>1. ASSUME NEW k \in jobs'
        PROVE  /\ k = [alert |-> k.alert, copy |-> k.copy, left |-> k.left, at |-> k.at]
               /\ k.left \subseteq Recipients
               /\ k.at \in Recipients \cup {NoRecipient}
    <3>1. CASE k = sent
      BY <1>2, <1>4, <1>5, <3>1
    <3>2. CASE k \in jobs
      BY <3>2 DEF RouterInv, JobsInv
    <3> QED BY <1>6, <3>1, <3>2
  <2> QED BY <2>1 DEF JobsInv
<1>8. SendsInv'
  <2>1. DOMAIN sends = seen /\ \A k \in seen : sends[k] = 1
    BY DEF RouterInv, SendsInv
  <2>2. SendsTo(Key(j.alert, r)) = 0
    BY <1>1, <2>1 DEF SendsTo
  <2> QED BY <1>1, <2>1, <2>2 DEF SendsInv
<1>9. AttemptsRecorded'
  <2>1. dispatched' = dispatched /\ j.at = NoRecipient
    BY DEF Send
  <2>2. ASSUME NEW key, InFlight(key) PROVE InFlight(key)'
    <3>1. PICK k \in jobs : k.at # NoRecipient /\ key = Key(k.alert, k.at)
      BY <2>2 DEF InFlight
    <3>2. k \in jobs'
      BY <1>6, <2>1, <3>1
    <3> QED BY <3>1, <3>2 DEF InFlight, Key
  <2>3. InFlight(Key(j.alert, r))'
    <3>1. sent \in jobs' /\ sent.at # NoRecipient /\ Key(j.alert, r) = Key(sent.alert, sent.at)
      BY <1>2, <1>4, <1>6
    <3> QED BY <3>1 DEF InFlight, Key
  <2> QED BY <1>1, <2>1, <2>2, <2>3 DEF RouterInv, AttemptsRecorded
<1> QED BY <1>7, <1>8, <1>9 DEF RouterInv

LEMMA RaisedRouter ==
  ASSUME RouterInv, NEW j \in jobs, NEW then, SendRaised(j, then)
  PROVE  RouterInv'
<1>1. jobs \ {j} \subseteq jobs' /\ \A k \in jobs' \ (jobs \ {j}) :
        /\ k = [alert |-> k.alert, copy |-> k.copy, left |-> k.left, at |-> k.at]
        /\ k.left \subseteq Recipients
        /\ k.at = NoRecipient
  <2>1. CASE then = {}
    BY <2>1 DEF SendRaised
  <2>2. CASE then # {}
    <3>1. jobs' = Opened(jobs \ {j}, CHOOSE alert \in then : TRUE)
      BY <2>2 DEF SendRaised
    <3> HIDE DEF SendRaised
    <3> QED BY <3>1, OpenedJobs
  <2> QED BY <2>1, <2>2
<1>2. JobsInv'
  BY <1>1 DEF RouterInv, JobsInv
<1>3. SendsInv' /\ seen' = seen /\ dispatched' = dispatched /\ j.at \in Raising
  BY DEF SendRaised, RouterInv, SendsInv
<1>4. ASSUME NEW key, InFlight(key), key[2] \notin Raising PROVE InFlight(key)'
  <2>1. PICK k \in jobs : k.at # NoRecipient /\ key = Key(k.alert, k.at)
    BY <1>4 DEF InFlight
  <2>2. k # j
    BY <1>3, <1>4, <2>1 DEF Key
  <2> QED BY <1>1, <2>1, <2>2 DEF InFlight, Key
<1> QED BY <1>2, <1>3, <1>4, StillRecorded DEF RouterInv

LEMMA InitRouter == Init => RouterInv
<1> SUFFICES ASSUME Init PROVE RouterInv
  OBVIOUS
<1>1. jobs = {} /\ seen = {} /\ sends = [k \in {} |-> 0]
  BY DEF Init, RouterInit
<1> QED BY <1>1 DEF RouterInv, JobsInv, SendsInv, AttemptsRecorded

LEMMA NextRouter == RouterInv /\ [Next]_vars => RouterInv'
<1> SUFFICES ASSUME RouterInv, [Next]_vars PROVE RouterInv'
  OBVIOUS
<1>1. CASE UNCHANGED router
  <2>1. Calls
    BY <1>1 DEF router, Calls
  <2> QED BY <2>1, CallsRouter
<1>2. CASE BeginCycle \/ Fuse \/ Hold \/ Complete \/ EndCycle \/ Fail \/ Judge
  BY <1>1, <1>2 DEF BeginCycle, Fuse, Hold, Complete, EndCycle, Fail, Judge
<1>3. ASSUME NEW s \in Symbols, Turn(s) PROVE Calls
  <2>1. jobs' = jobs \/ jobs' = Opened(jobs, StrongSignal(s))
    BY <1>3 DEF Turn
  <2> QED BY <1>3, <2>1 DEF Turn, Calls
<1>4. Block => Calls
  BY DEF Block, Calls
<1>5. Trade => Calls
  BY DEF Trade, Calls
<1>6. ASSUME NEW action, Request(action), UNCHANGED <<seen, dispatched, sends>> PROVE Calls
  BY <1>6 DEF Request, Calls
<1>7. Supervise => Calls
  BY <1>6 DEF Supervise, Calls
<1>8. Tune => Calls
  BY <1>6 DEF Tune, Calls
<1>9. ASSUME NEW agent \in {"analyst", "tuner"}, ClaudeRaises(agent) PROVE Calls
  BY <1>9 DEF ClaudeRaises, Calls
<1>10. ASSUME NEW j \in jobs, Notify(j) \/ NotifierRaises(j) PROVE RouterInv'
  BY <1>10, SkipRouter, SendRouter, AnsweredRouter, RaisedRouter DEF Notify, NotifierRaises
<1>11. ASSUME NEW id \in pending, Approve(id) PROVE RouterInv'
  BY <1>1, <1>11 DEF Approve
<1>12. CASE UNCHANGED vars
  BY <1>1, <1>12 DEF vars
<1> QED
  BY <1>2, <1>3, <1>4, <1>5, <1>7, <1>8, <1>9, <1>10, <1>11, <1>12, CallsRouter
  DEF Next, CycleStep, AgentStep

LEMMA RouterHolds == Spec => []RouterInv
BY InitRouter, NextRouter, PTL DEF Spec

\* However many dispatches overlap, a recipient is sent a title at most once.
THEOREM SentOnce == Spec => []AtMostOneSend
<1>1. RouterInv => AtMostOneSend
  BY DEF RouterInv, SendsInv, AtMostOneSend
<1> QED BY <1>1, RouterHolds, PTL

\* Recipients on channels that never raise: an attempt that was started is
\* recorded or still under way, even when others' channels end the dispatch.
THEOREM AttemptsOnRecord == Spec => []AttemptsRecorded
<1>1. RouterInv => AttemptsRecorded
  BY DEF RouterInv
<1> QED BY <1>1, RouterHolds, PTL
=============================================================================
