------------------------- MODULE NotificationOutbox -------------------------
(***************************************************************************)
(* The durable notification outbox of the core and the notifier process    *)
(* that empties it.                                                        *)
(*                                                                         *)
(* The notifier is one process with one call to the core at a time.  A call*)
(* that writes waits in the core for Database._write_lock, which serves its *)
(* waiters first come first served; the core finishes it even when the     *)
(* notifier has stopped waiting.  due_notifications takes no lock and reads *)
(* on the connection of the writer: it sees rows of a transaction that is  *)
(* still open.  A transaction that commits is one action, as nobody else   *)
(* writes meanwhile; one that queues an alert and fails is visible from the *)
(* action that writes to the one that rolls it back.                       *)
(*                                                                         *)
(* Time is abstract: an alert scheduled for a retry becomes due at some    *)
(* later moment.  The rows are numbered in the order of their creation.    *)
(***************************************************************************)
EXTENDS Naturals, Sequences, FiniteSets

CONSTANTS
  MaxAttempts,     \* max_attempts of mark_notification
  Limit,           \* the limit the notifier asks notifications_due for
  Configurations,  \* the values of webhook_enabled the notifier can be started with
  MaxAlerts,       \* bound: rows of the outbox
  MaxTimeouts,     \* bound: calls the notifier stops waiting for
  MaxLosses        \* bound: process crashes, restarts and failed transactions

ASSUME OutboxAssumption ==
  /\ MaxAttempts \in Nat \ {0}
  /\ Limit \in Nat \ {0}
  /\ Configurations \subseteq BOOLEAN
  /\ MaxAlerts \in Nat
  /\ MaxTimeouts \in Nat
  /\ MaxLosses \in Nat

Alerts == 1..MaxAlerts

VARIABLES
  outbox,     \* notification_outbox: status, attempt_count, next_attempt_at reached;
              \* "written" by an open transaction that will fail, "undone" after it
  enabled,    \* notification_enabled in runtime_state
  requests,   \* the notifier's calls that wait for the write lock
  notifier,   \* the notifier process
  posts,      \* history: the posts of every alert
  accepted,   \* history: the posts of every alert that the receiver confirmed
  timeouts,   \* how much of MaxTimeouts is spent
  losses      \* how much of MaxLosses is spent

vars == <<outbox, enabled, requests, notifier, posts, accepted, timeouts, losses>>

-----------------------------------------------------------------------------
(* The core.                                                               *)

Pending == {a \in Alerts : outbox[a].status = "pending"}

\* No transaction is open.
Unlocked == \A a \in Alerts : outbox[a].status # "written"

\* Faulty variant of Due: suppressed rows are not left out.
Due_Suppressed ==
  {a \in Alerts : outbox[a].status \in {"pending", "written", "suppressed"} /\ outbox[a].due}

\* The rows that are due, whether they are committed or not.
Due == {a \in Alerts : outbox[a].status \in {"pending", "written"} /\ outbox[a].due}

\* Faulty variant of Batch: the rows are numbered from one.
Batch_FromOne == {a \in Due : Cardinality({b \in Due : b < a}) \in 1..Limit}

\* due_notifications: the oldest Limit rows that are due.
Batch == {a \in Due : Cardinality({b \in Due : b < a}) < Limit}

\* Faulty variant of Muted: the switch is not looked at.
Muted_Never == FALSE

\* _notifications_may_queue_unlocked; the value is absent before the first heartbeat.
Muted == enabled = "false"

\* An incident event is written with notify: the next row of the outbox.
Insert(a, status) ==
  /\ Unlocked
  /\ outbox[a].status = "unqueued"
  /\ \A b \in Alerts : b < a => outbox[b].status # "unqueued"
  /\ ~Muted
  /\ outbox' = [outbox EXCEPT ![a] = [status |-> status, attempts |-> 0, due |-> TRUE]]
  /\ UNCHANGED <<enabled, requests, notifier, posts, accepted, timeouts>>

\* Its transaction commits.
Queue(a) == Insert(a, "pending") /\ UNCHANGED losses

\* Its transaction fails later: until the rollback the row can be read.
QueueFails(a) ==
  /\ Insert(a, "written")
  /\ losses < MaxLosses
  /\ losses' = losses + 1

\* What a rollback leaves of the rows.
Undone == [a \in Alerts |-> IF outbox[a].status = "written"
                            THEN [outbox[a] EXCEPT !.status = "undone"] ELSE outbox[a]]

\* The exception rolls the failed transaction back and releases the lock.
Undo ==
  /\ ~Unlocked
  /\ outbox' = Undone
  /\ UNCHANGED <<enabled, requests, notifier, posts, accepted, timeouts, losses>>

\* next_attempt_at of a rescheduled row passes.
BecomeDue(a) ==
  /\ a \in Pending \ Due
  /\ outbox' = [outbox EXCEPT ![a].due = TRUE]
  /\ UNCHANGED <<enabled, requests, notifier, posts, accepted, timeouts, losses>>

\* mark_notification; a row that is settled or was never committed is not found.
AfterAttempt(row, ok) ==
  IF row.status # "pending" THEN row
  ELSE [row EXCEPT !.attempts = @ + 1, !.due = FALSE,
                   !.status = IF ok THEN "delivered"
                              ELSE IF row.attempts + 1 >= MaxAttempts THEN "dead_letter"
                              ELSE "pending"]

\* record_notification_heartbeat
ApplyHeartbeat(on) ==
  /\ enabled' = IF on THEN "true" ELSE "false"
  /\ outbox' = IF on THEN outbox
               ELSE [a \in Alerts |-> IF a \in Pending
                                      THEN [outbox[a] EXCEPT !.status = "suppressed"]
                                      ELSE outbox[a]]

ApplyMark(a, ok) ==
  /\ outbox' = [outbox EXCEPT ![a] = AfterAttempt(outbox[a], ok)]
  /\ UNCHANGED enabled

\* The first waiter gets the write lock and commits.
Apply ==
  /\ Unlocked
  /\ requests # <<>>
  /\ requests' = Tail(requests)
  /\ LET r == Head(requests)
     IN  IF r.alert = 0 THEN ApplyHeartbeat(r.ok) ELSE ApplyMark(r.alert, r.ok)
  /\ UNCHANGED <<notifier, posts, accepted, timeouts, losses>>

-----------------------------------------------------------------------------
(* The notifier.                                                           *)

NoResult == [alert |-> 0, ok |-> FALSE]

Idle(on) == [pc |-> "idle", on |-> on, items |-> {}, result |-> NoResult]

Waiting == notifier.pc \in {"heartbeat", "mark", "deadman"}

\* Its one call waits behind every call it has abandoned.
Answered == Waiting /\ requests = <<>>

Heartbeat == [alert |-> 0, ok |-> notifier.on]

\* run_once is over; _deadman may be due and report once more.
EndCycle ==
  \/ notifier' = Idle(notifier.on) /\ UNCHANGED requests
  \/ /\ notifier' = [Idle(notifier.on) EXCEPT !.pc = "deadman"]
     /\ requests' = Append(requests, Heartbeat)

\* Faulty variant of StartCycle: the answer to the heartbeat is not awaited.
StartCycle_NoWait ==
  /\ notifier.pc = "idle"
  /\ notifier' = [notifier EXCEPT !.pc = IF notifier.on THEN "fetch" ELSE "idle"]
  /\ requests' = IF notifier.on THEN requests ELSE Append(requests, Heartbeat)
  /\ UNCHANGED <<outbox, enabled, posts, accepted, timeouts, losses>>

StartCycle ==
  /\ notifier.pc = "idle"
  /\ notifier' = [notifier EXCEPT !.pc = "heartbeat"]
  /\ requests' = Append(requests, Heartbeat)
  /\ UNCHANGED <<outbox, enabled, posts, accepted, timeouts, losses>>

HeartbeatAnswered ==
  /\ notifier.pc = "heartbeat"
  /\ Answered
  /\ IF notifier.on
     THEN notifier' = [notifier EXCEPT !.pc = "fetch"] /\ UNCHANGED requests
     ELSE EndCycle
  /\ UNCHANGED <<outbox, enabled, posts, accepted, timeouts, losses>>

Fetch ==
  /\ notifier.pc = "fetch"
  /\ IF Batch = {}
     THEN EndCycle
     ELSE notifier' = [notifier EXCEPT !.pc = "post", !.items = Batch] /\ UNCHANGED requests
  /\ UNCHANGED <<outbox, enabled, posts, accepted, timeouts, losses>>

\* _deliver one item.
Post(a, ok) ==
  /\ notifier.pc = "post"
  /\ a \in notifier.items
  /\ \A b \in notifier.items : a <= b
  /\ posts' = [posts EXCEPT ![a] = @ + 1]
  /\ accepted' = [accepted EXCEPT ![a] = IF ok THEN @ + 1 ELSE @]
  /\ notifier' = [notifier EXCEPT !.pc = "report", !.items = @ \ {a},
                                  !.result = [alert |-> a, ok |-> ok]]
  /\ UNCHANGED <<outbox, enabled, requests, timeouts, losses>>

\* What came of it goes to the core.
Report ==
  /\ notifier.pc = "report"
  /\ notifier' = [notifier EXCEPT !.pc = "mark", !.result = NoResult]
  /\ requests' = Append(requests, notifier.result)
  /\ UNCHANGED <<outbox, enabled, posts, accepted, timeouts, losses>>

MarkAnswered ==
  /\ notifier.pc = "mark"
  /\ Answered
  /\ IF notifier.items = {}
     THEN EndCycle
     ELSE notifier' = [notifier EXCEPT !.pc = "post"] /\ UNCHANGED requests
  /\ UNCHANGED <<outbox, enabled, posts, accepted, timeouts, losses>>

DeadmanAnswered ==
  /\ notifier.pc = "deadman"
  /\ Answered
  /\ notifier' = Idle(notifier.on)
  /\ UNCHANGED <<outbox, enabled, requests, posts, accepted, timeouts, losses>>

\* The notifier stops waiting: run_forever drops the cycle, the core keeps the call.
TimeOut ==
  /\ Waiting \/ notifier.pc = "fetch"
  /\ timeouts < MaxTimeouts
  /\ timeouts' = timeouts + 1
  /\ notifier' = Idle(notifier.on)
  /\ UNCHANGED <<outbox, enabled, requests, posts, accepted, losses>>

-----------------------------------------------------------------------------
(* Failures.                                                               *)

Lose ==
  /\ losses < MaxLosses
  /\ losses' = losses + 1
  /\ UNCHANGED <<enabled, posts, accepted, timeouts>>

\* The transaction of a call fails and is rolled back; whoever waits for it drops
\* the cycle.  The notifier reads the outbox only when its own calls are over.
RollBack ==
  /\ Lose
  /\ Unlocked
  /\ requests # <<>>
  /\ requests' = Tail(requests)
  /\ notifier' = IF Waiting /\ Len(requests) = 1 THEN Idle(notifier.on) ELSE notifier
  /\ UNCHANGED outbox

\* The core dies with its calls and its open transaction; a caller gets no answer.
CoreCrash ==
  /\ Lose
  /\ outbox' = Undone
  /\ requests' = <<>>
  /\ notifier' = IF notifier.pc \in {"idle", "post", "report"} THEN notifier ELSE Idle(notifier.on)

\* The notifier dies or is restarted; it reads its settings when it starts.
NotifierRestart(on) ==
  /\ Lose
  /\ notifier' = Idle(on)
  /\ UNCHANGED <<outbox, requests>>

-----------------------------------------------------------------------------
Init ==
  /\ outbox = [a \in Alerts |-> [status |-> "unqueued", attempts |-> 0, due |-> FALSE]]
  /\ enabled = "unset"
  /\ requests = <<>>
  /\ \E on \in Configurations : notifier = Idle(on)
  /\ posts = [a \in Alerts |-> 0]
  /\ accepted = [a \in Alerts |-> 0]
  /\ timeouts = 0
  /\ losses = 0

NotifierStep ==
  \/ StartCycle
  \/ HeartbeatAnswered
  \/ Fetch
  \/ \E a \in Alerts, ok \in BOOLEAN : Post(a, ok)
  \/ Report
  \/ MarkAnswered
  \/ DeadmanAnswered

Next ==
  \/ \E a \in Alerts : Queue(a) \/ QueueFails(a) \/ BecomeDue(a)
  \/ Undo
  \/ Apply
  \/ NotifierStep
  \/ TimeOut
  \/ RollBack
  \/ CoreCrash
  \/ \E on \in Configurations : NotifierRestart(on)

Spec == Init /\ [][Next]_vars

(***************************************************************************)
(* Time passes, the core rolls back what failed and serves its write lock, *)
(* and the notifier loop goes on.  Timeouts, crashes and restarts come to  *)
(* an end.                                                                 *)
(***************************************************************************)
FairSpec ==
  /\ Spec
  /\ WF_vars(Undo)
  /\ WF_vars(Apply)
  /\ WF_vars(NotifierStep)
  /\ \A a \in Alerts : WF_vars(BecomeDue(a))

-----------------------------------------------------------------------------
(* Properties.                                                             *)

Row == [status : {"unqueued", "written", "undone", "pending", "delivered", "dead_letter",
                  "suppressed"},
        attempts : 0..MaxAttempts, due : BOOLEAN]

Request == [alert : Alerts \cup {0}, ok : BOOLEAN]

(* Every variable holds values of its type; no alert is attempted more than *)
(* MaxAttempts times (mark_notification).                                   *)
TypeOK ==
  /\ outbox \in [Alerts -> Row]
  /\ enabled \in {"unset", "true", "false"}
  /\ requests \in Seq(Request)
  /\ notifier \in [pc : {"idle", "heartbeat", "fetch", "post", "report", "mark", "deadman"},
                   on : BOOLEAN, items : SUBSET Alerts, result : Request]
  /\ posts \in [Alerts -> Nat]
  /\ accepted \in [Alerts -> Nat]
  /\ timeouts \in 0..MaxTimeouts
  /\ losses \in 0..MaxLosses

(* While delivery is switched off nothing waits to be sent later as a stale *)
(* alert, however a heartbeat and a new incident event interleave           *)
(* (record_notification_heartbeat, _notifications_may_queue_unlocked).      *)
MutedHoldsNothing == enabled = "false" => Pending = {} /\ Unlocked

(* The outbox never counts an attempt that was not made, although calls are *)
(* abandoned and applied late (mark_notification).                          *)
AttemptsHappened == \A a \in Alerts : outbox[a].attempts <= posts[a]

(* The receiver confirms an alert once, and once more at the most for every *)
(* crash, restart or failed transaction: calls that are merely slow never   *)
(* cause a duplicate, because an abandoned mark commits before the next     *)
(* heartbeat and the notifier looks for work only after that (run_once).    *)
DuplicatesNeedLoss == \A a \in Alerts : accepted[a] <= 1 + losses

Delivery == INSTANCE AlertDelivery
              WITH status <- [a \in Alerts |-> outbox[a].status],
                   tried <- posts, heard <- accepted

(* The outbox and the notifier keep the promises of AlertDelivery: no post  *)
(* of an alert that is settled, no delivery without a confirmed post, no    *)
(* dead letter before MaxAttempts posts, no end that is undone, and one     *)
(* post at the most of an alert whose transaction failed: it can be read    *)
(* before it is rolled back (_transaction, due_notifications).              *)
ImplementsDelivery == Delivery!Spec

(* Every queued alert is delivered, becomes a dead letter or is suppressed, *)
(* also when others fail again and again in front of it (run_forever,       *)
(* due_notifications, mark_notification).                                   *)
EveryAlertSettles ==
  \A a \in Alerts : outbox[a].status = "pending" ~> outbox[a].status # "pending"
=============================================================================
