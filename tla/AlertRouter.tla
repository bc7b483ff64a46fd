----------------------------- MODULE AlertRouter -----------------------------
(***************************************************************************)
(* The alert router (alerts/router.py): every call of dispatch is a job    *)
(* that walks over the recipients its alert is for, and awaits the channel *)
(* of each one it has not tried yet.  Several jobs run at once, because    *)
(* the bus runs its handlers concurrently.                                 *)
(***************************************************************************)
EXTENDS Integers, FiniteSets

CONSTANTS
  Recipients,   \* ids in the recipient store
  Profile,      \* what each of them wants: [role, min]
  Raising,      \* those on a channel whose send may raise (Twilio)
  NoRecipient   \* nobody: the job is not sending

ASSUME NoRecipientAssumption == NoRecipient \notin Recipients
ASSUME RaisingAssumption == Raising \subseteq Recipients

VARIABLES
  jobs,        \* calls of dispatch under way
  seen,        \* AlertRouter._seen
  dispatched,  \* AuditLog.records, as the keys recorded
  sends        \* history: how often each key was handed to its channel

router == <<jobs, seen, dispatched, sends>>

Rank == [info |-> 0, warn |-> 1, critical |-> 2]
Alert(title, role, severity) == [title |-> title, role |-> role, severity |-> severity]

\* RecipientStore.for_alert
ForAlert(alert) ==
  {r \in Recipients : /\ Profile[r].role = alert.role
                      /\ Rank[alert.severity] >= Rank[Profile[r].min]}

Key(alert, r) == <<alert.title, r>>

\* Jobs for the same alert are told apart by a number.
Copy(js, alert) ==
  CHOOSE n \in 1..(Cardinality(js) + 1) : \A j \in js : j.alert = alert => j.copy # n

\* The jobs once dispatch was called with this alert.
Opened(js, alert) ==
  IF ForAlert(alert) = {} THEN js
  ELSE js \cup {[alert |-> alert, copy |-> Copy(js, alert),
                 left |-> ForAlert(alert), at |-> NoRecipient]}

\* The jobs once j is through with one recipient; dispatch returns after the last.
Advanced(j, r) ==
  (jobs \ {j}) \cup
  (IF j.left = {r} THEN {} ELSE {[j EXCEPT !.left = j.left \ {r}, !.at = NoRecipient]})

RouterInit == jobs = {} /\ seen = {} /\ dispatched = {} /\ sends = [k \in {} |-> 0]

SendsTo(key) == IF key \in DOMAIN sends THEN sends[key] ELSE 0

\* This recipient has had an alert with this title.
SkipRecipient(j) ==
  /\ j.at = NoRecipient
  /\ \E r \in j.left : Key(j.alert, r) \in seen /\ jobs' = Advanced(j, r)
  /\ UNCHANGED <<seen, dispatched, sends>>

\* Mutant: nobody remembers the attempt.
SendUnmarked(j) ==
  /\ j.at = NoRecipient
  /\ \E r \in j.left :
       /\ Key(j.alert, r) \notin seen
       /\ sends' = [k \in DOMAIN sends \cup {Key(j.alert, r)} |->
                      IF k = Key(j.alert, r) THEN SendsTo(k) + 1 ELSE sends[k]]
       /\ jobs' = (jobs \ {j}) \cup {[j EXCEPT !.at = r]}
  /\ UNCHANGED <<seen, dispatched>>

\* The key is remembered first, then the channel is awaited.
Send(j) ==
  /\ j.at = NoRecipient
  /\ \E r \in j.left :
       /\ Key(j.alert, r) \notin seen
       /\ seen' = seen \cup {Key(j.alert, r)}
       /\ sends' = [k \in DOMAIN sends \cup {Key(j.alert, r)} |->
                      IF k = Key(j.alert, r) THEN SendsTo(k) + 1 ELSE sends[k]]
       /\ jobs' = (jobs \ {j}) \cup {[j EXCEPT !.at = r]}
  /\ UNCHANGED dispatched

\* Mutant: only what was delivered is recorded.
AnsweredDelivered(j) ==
  /\ j.at # NoRecipient
  /\ \E delivered \in BOOLEAN :
       dispatched' = IF delivered THEN dispatched \cup {Key(j.alert, j.at)} ELSE dispatched
  /\ jobs' = Advanced(j, j.at)
  /\ UNCHANGED <<seen, sends>>

\* The channel returned, delivered or not, and the attempt is recorded.
Answered(j) ==
  /\ j.at # NoRecipient
  /\ dispatched' = dispatched \cup {Key(j.alert, j.at)}
  /\ jobs' = Advanced(j, j.at)
  /\ UNCHANGED <<seen, sends>>

\* The channel raised: dispatch is left with its other recipients untried,
\* and the bus opens what `then` says about it.
SendRaised(j, then) ==
  /\ j.at \in Raising
  /\ jobs' = IF then = {} THEN jobs \ {j} ELSE Opened(jobs \ {j}, CHOOSE alert \in then : TRUE)
  /\ UNCHANGED <<seen, dispatched, sends>>

-----------------------------------------------------------------------------
InFlight(key) == \E j \in jobs : j.at # NoRecipient /\ key = Key(j.alert, j.at)

\* "Dedupes identical (title, recipient) pairs": nobody gets the same title
\* twice, although dispatches of one title overlap at their awaits.
AtMostOneSend == \A key \in DOMAIN sends : sends[key] <= 1

\* Whoever is on a channel that does not raise: once tried, the attempt is on
\* its way or on record, whatever happens to the other recipients.
AttemptsRecorded ==
  \A key \in seen : key[2] \notin Raising => InFlight(key) \/ key \in dispatched

\* The module docstring: the router "records every dispatch attempt (delivered
\* or not) to the audit log".
EveryAttemptRecorded == \A key \in seen : InFlight(key) \/ key \in dispatched
=============================================================================
