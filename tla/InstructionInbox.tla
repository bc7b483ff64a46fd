-------------------------- MODULE InstructionInbox --------------------------
(***************************************************************************)
(* The instruction inbox (research/ops.py): one object of JSON lines that  *)
(* the HTTP API, the MCP server and the command line append to, execute    *)
(* and acknowledge, each by reading it, changing it and writing it whole.  *)
(* Instructions are numbered in the order they are appended.               *)
(***************************************************************************)
EXTENDS Integers, FiniteSets

CONSTANTS
  Instructions,  \* the numbers of instructions
  Executable,    \* those whose action is in STRATEGY_INBOX_ACTIONS
  Hands          \* threads and processes that work on the inbox

ASSUME InboxAssumption ==
  Instructions \subseteq Nat \ {0} /\ Executable \subseteq Instructions

VARIABLES
  inbox,      \* the object: the state of each instruction's line
  job,        \* what each hand is doing
  added,      \* history: instructions whose append was acknowledged
  runs,       \* history: how often each was executed, up to 2
  lossy,      \* history: a write undid another one, or was cut short
  excused,    \* history: raised, abandoned, taken up twice or closed by hand meanwhile
  jumped,     \* history: pending when a later one was executed at once
  overtaken   \* history: executed after a later one

inboxVars == <<inbox, job, added, runs, lossy, excused, jumped, overtaken>>
inboxHistory == <<runs, excused, jumped, overtaken>>

Lines == {"none", "pending", "acked"}
NoLines == [i \in Instructions |-> "none"]
Done == [step |-> "idle"]

Doing(h, step) == job[h].step = step
Does(h, next) == job' = [job EXCEPT ![h] = next]
Pending == {i \in Instructions : inbox[i] = "pending"}
First(s) == CHOOSE i \in s : \A j \in s : i <= j

Holds(g, i) ==
  \/ Doing(g, "take") /\ i \in job[g].todo
  \/ job[g].step \in {"execute", "ackread", "ackwrite"} /\ (i = job[g].item \/ i \in job[g].todo)

Outstanding == Pending \cup {i \in Instructions : \E g \in Hands : Holds(g, i)}

\* The rest of a run over the inbox; other calls are over.
NextOf(todo) == IF todo = {} THEN Done ELSE [step |-> "take", todo |-> todo]

-----------------------------------------------------------------------------
\* add_instruction, up to the read in _append_jsonl; with execute_now the API
\* handler goes on to execute and acknowledge it.
AppendRead(h, now) ==
  LET used == {i \in Instructions : inbox[i] # "none" \/ i \in added
                 \/ \E g \in Hands : Doing(g, "append") /\ job[g].item = i}
  IN /\ Doing(h, "idle")
     /\ \E i \in Instructions \ used :
          /\ \A j \in used : j < i
          /\ \A j \in Instructions \ used : i <= j
          /\ now => i \in Executable
          /\ Does(h, [step |-> "append", item |-> i, read |-> inbox, now |-> now])
     /\ UNCHANGED <<inbox, added, lossy, inboxHistory>>

AppendWrite(h) ==
  LET i == job[h].item
  IN /\ Doing(h, "append")
     /\ inbox' = [job[h].read EXCEPT ![i] = "pending"]
     /\ lossy' = (lossy \/ inbox # job[h].read)
     /\ added' = added \cup {i}
     /\ Does(h, IF job[h].now THEN [step |-> "execute", item |-> i, todo |-> {}] ELSE Done)
     /\ jumped' = IF job[h].now THEN jumped \cup {j \in Outstanding : j < i} ELSE jumped
     /\ UNCHANGED <<runs, excused, overtaken>>

\* process_strategy_inbox lists the pending instructions once.
ListInbox(h) ==
  LET todo == Pending \cap Executable
  IN /\ Doing(h, "idle")
     /\ Does(h, NextOf(todo))
     /\ excused' = excused \cup {i \in todo : \E g \in Hands : Holds(g, i)}
     /\ UNCHANGED <<inbox, added, lossy, runs, jumped, overtaken>>

Take(h) ==
  LET i == First(job[h].todo)
  IN /\ Doing(h, "take")
     /\ Does(h, [step |-> "execute", item |-> i, todo |-> job[h].todo \ {i}])
     /\ UNCHANGED <<inbox, added, lossy, inboxHistory>>

\* execute_strategy_instruction: it may raise having done all, some or none
\* of its work, and is then left pending.
ExecuteInstruction(h) ==
  LET i == job[h].item
  IN /\ Doing(h, "execute")
     /\ runs' = [runs EXCEPT ![i] = IF @ = 2 THEN 2 ELSE @ + 1]
     /\ overtaken' = IF \E j \in Instructions : j > i /\ runs[j] > 0
                     THEN overtaken \cup {i} ELSE overtaken
     /\ \/ /\ Does(h, [step |-> "ackread", item |-> i, todo |-> job[h].todo])
           /\ UNCHANGED excused
        \/ /\ Does(h, NextOf(job[h].todo))
           /\ excused' = excused \cup {i}
     /\ UNCHANGED <<inbox, added, lossy, jumped>>

\* ack_instruction, called by a run, by execute_now or by a person.
AckRead(h) ==
  /\ Doing(h, "ackread")
  /\ Does(h, IF inbox[job[h].item] = "none" THEN NextOf(job[h].todo)
             ELSE [step |-> "ackwrite", item |-> job[h].item, todo |-> job[h].todo,
                   read |-> inbox])
  /\ UNCHANGED <<inbox, added, lossy, inboxHistory>>

\* Mutant: the changed rows are not written back.
AckWriteDropped(h) ==
  /\ Doing(h, "ackwrite")
  /\ Does(h, NextOf(job[h].todo))
  /\ UNCHANGED <<inbox, added, lossy, inboxHistory>>

\* Mutant: the object is written with the acknowledged line only.
AckWriteOwnLine(h) ==
  /\ Doing(h, "ackwrite")
  /\ inbox' = [NoLines EXCEPT ![job[h].item] = "acked"]
  /\ lossy' = (lossy \/ inbox # job[h].read)
  /\ Does(h, NextOf(job[h].todo))
  /\ UNCHANGED <<added, inboxHistory>>

AckWrite(h) ==
  /\ Doing(h, "ackwrite")
  /\ inbox' = [job[h].read EXCEPT ![job[h].item] = "acked"]
  /\ lossy' = (lossy \/ inbox # job[h].read)
  /\ Does(h, NextOf(job[h].todo))
  /\ UNCHANGED <<added, inboxHistory>>

AckByHand(h, i) ==
  /\ Doing(h, "idle") /\ inbox[i] # "none"
  /\ Does(h, [step |-> "ackwrite", item |-> i, todo |-> {}, read |-> inbox])
  /\ excused' = IF \E g \in Hands : Holds(g, i) THEN excused \cup {i} ELSE excused
  /\ UNCHANGED <<inbox, added, lossy, runs, jumped, overtaken>>

\* The process of a hand dies.  A local store may have written a part of the
\* object; lines that are cut are dropped by the next reader.
HandDies(h) ==
  /\ ~Doing(h, "idle")
  /\ Does(h, Done)
  /\ excused' = excused \cup {i \in Instructions : Holds(h, i)}
  /\ \/ UNCHANGED <<inbox, lossy>>
     \/ /\ job[h].step \in {"append", "ackwrite"}
        /\ \E n \in Instructions :
             inbox' = [i \in Instructions |-> IF i < n THEN job[h].read[i] ELSE "none"]
        /\ lossy' = TRUE
  /\ UNCHANGED <<added, runs, jumped, overtaken>>

InboxInit ==
  /\ inbox = NoLines /\ added = {}
  /\ job = [h \in Hands |-> Done]
  /\ runs = [i \in Instructions |-> 0]
  /\ lossy = FALSE /\ excused = {} /\ jumped = {} /\ overtaken = {}

InboxNext ==
  \E h \in Hands :
    \/ \E now \in BOOLEAN : AppendRead(h, now)
    \/ AppendWrite(h) \/ ListInbox(h) \/ Take(h) \/ ExecuteInstruction(h)
    \/ AckRead(h) \/ AckWrite(h) \/ HandDies(h)
    \/ \E i \in Instructions : AckByHand(h, i)

InboxSpec == InboxInit /\ [][InboxNext]_inboxVars

-----------------------------------------------------------------------------
Jobs ==
  LET rows == [Instructions -> Lines] some == SUBSET Instructions
  IN [step : {"idle"}]
     \cup [step : {"append"}, item : Instructions, read : rows, now : BOOLEAN]
     \cup [step : {"take"}, todo : some]
     \cup [step : {"execute", "ackread"}, item : Instructions, todo : some]
     \cup [step : {"ackwrite"}, item : Instructions, todo : some, read : rows]

InboxTypeOK ==
  /\ inbox \in [Instructions -> Lines]
  /\ job \in [Hands -> Jobs]
  /\ runs \in [Instructions -> 0..2]
  /\ lossy \in BOOLEAN
  /\ added \subseteq Instructions /\ excused \subseteq Instructions
  /\ jumped \subseteq Instructions /\ overtaken \subseteq Executable

\* An instruction whose append was acknowledged stays in the inbox, whoever
\* appends, executes and acknowledges: it is lost only when a write was made
\* from a read that another write had outdated, or was cut short.
InboxKeeps == lossy \/ \A i \in added : inbox[i] # "none"

\* An instruction (a start, an order) is executed twice only if it raised, its
\* process died, two hands had it at once, or its acknowledgement was undone.
ExecutedOnce ==
  lossy \/ \A i \in Instructions : runs[i] = 2 => i \in excused

\* Instructions take effect in the order they were given - a halt after a
\* start is not followed by that start - but for one that has to be executed
\* again and one that was passed over by an execute_now.
GivenOrder == lossy \/ overtaken \subseteq excused \cup jumped

\* An instruction whose append was acknowledged is kept, executed once and in
\* its turn, but for what the three parts above except.
InstructionsObeyed == InboxKeeps /\ ExecutedOnce /\ GivenOrder
=============================================================================
