--------------------------- MODULE AlertDelivery ---------------------------
(***************************************************************************)
(* What the notification outbox promises of every alert, whatever happens  *)
(* to the processes in between: an alert that was committed is posted only *)
(* while it is pending, it ends as delivered only if the receiver confirmed *)
(* a post, as a dead letter only after MaxAttempts posts, and an end is    *)
(* final.  Of an alert whose transaction failed, one post can go out.      *)
(***************************************************************************)
EXTENDS Naturals

CONSTANTS
  Alerts,
  MaxAttempts   \* posts before an alert becomes a dead letter

VARIABLES
  status,   \* the state of every alert
  tried,    \* how often each alert was posted
  heard     \* how often the receiver confirmed it

vars == <<status, tried, heard>>

Queue(a) ==
  /\ status[a] = "unqueued"
  /\ status' = [status EXCEPT ![a] = "pending"]
  /\ UNCHANGED <<tried, heard>>

\* Its transaction fails: the alert is written and then undone.
Write(a) ==
  /\ status[a] = "unqueued"
  /\ status' = [status EXCEPT ![a] = "written"]
  /\ UNCHANGED <<tried, heard>>

Undo ==
  /\ status' = [a \in Alerts |-> IF status[a] = "written" THEN "undone" ELSE status[a]]
  /\ UNCHANGED <<tried, heard>>

Post(a) ==
  /\ status[a] = "pending" \/ (status[a] \in {"written", "undone"} /\ tried[a] = 0)
  /\ tried' = [tried EXCEPT ![a] = @ + 1]
  /\ \E ok \in {0, 1} : heard' = [heard EXCEPT ![a] = @ + ok]
  /\ UNCHANGED status

Deliver(a) ==
  /\ status[a] = "pending"
  /\ heard[a] > 0
  /\ status' = [status EXCEPT ![a] = "delivered"]
  /\ UNCHANGED <<tried, heard>>

GiveUp(a) ==
  /\ status[a] = "pending"
  /\ tried[a] >= MaxAttempts
  /\ status' = [status EXCEPT ![a] = "dead_letter"]
  /\ UNCHANGED <<tried, heard>>

\* Delivery is switched off: nothing stays pending.
Suppress ==
  /\ status' = [a \in Alerts |-> IF status[a] = "pending" THEN "suppressed" ELSE status[a]]
  /\ UNCHANGED <<tried, heard>>

Init ==
  /\ status = [a \in Alerts |-> "unqueued"]
  /\ tried = [a \in Alerts |-> 0]
  /\ heard = [a \in Alerts |-> 0]

Next ==
  \/ \E a \in Alerts : Queue(a) \/ Write(a) \/ Post(a) \/ Deliver(a) \/ GiveUp(a)
  \/ Undo
  \/ Suppress

Spec == Init /\ [][Next]_vars
=============================================================================
