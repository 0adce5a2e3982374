---------------------- MODULE NotificationOutboxProofs ----------------------
(***************************************************************************)
(* Proofs of the safety properties of NotificationOutbox, for any number   *)
(* of alerts, attempts, timeouts, crashes and restarts.                    *)
(*                                                                         *)
(* The argument rests on the order of the notifier's calls: a mark is only *)
(* sent when no other call is in the core, and work is only fetched when   *)
(* all earlier calls are over.  So a mark that is still on its way is the  *)
(* first call in the core and its alert is still pending, or was never     *)
(* committed.  A row that is read before its transaction fails is posted   *)
(* once: the mark waits for the lock, and the row is gone when it is over. *)
(***************************************************************************)
EXTENDS NotificationOutbox, SequenceTheorems, TLAPS

\* The mark of a is on its way: held by the notifier, or first in the core.
MarkOnItsWay(a) ==
  \/ notifier.pc = "report" /\ notifier.result.alert = a
  \/ requests # <<>> /\ requests[1].alert = a

ConfirmationOnItsWay(a) ==
  \/ notifier.pc = "report" /\ notifier.result = [alert |-> a, ok |-> TRUE]
  \/ requests # <<>> /\ requests[1] = [alert |-> a, ok |-> TRUE]

Settled(a) == outbox[a].status \in {"delivered", "dead_letter", "suppressed"}

\* The alerts whose transaction fails; they are posted at most once.
Phantoms == {a \in Alerts : outbox[a].status \in {"written", "undone"}}

PhantomsCounted ==
  \A a \in Phantoms : /\ outbox[a].attempts = 0
                      /\ accepted[a] <= posts[a]
                      /\ posts[a] <= 1
                      /\ losses > 0

\* Nothing that is read now was posted before.
NonePosted == \A a \in Alerts : outbox[a].status = "written" => posts[a] = 0

\* While one that was posted is still written, the notifier waits for the lock.
PhantomsWait ==
  notifier.pc \in {"fetch", "post"} \/ (Waiting /\ requests = <<>>) => NonePosted

Postable == Pending \cup {a \in Phantoms : posts[a] = 0}

\* An alert that is to be attempted again has an attempt left.
AttemptsLeft == \A a \in Pending : outbox[a].attempts < MaxAttempts

UnqueuedUntouched ==
  \A a \in Alerts : outbox[a].status = "unqueued" =>
    outbox[a].attempts = 0 /\ posts[a] = 0 /\ accepted[a] = 0

\* Where the notifier's calls are.
CallsInOrder ==
  /\ notifier.pc \in {"fetch", "post", "report"} => requests = <<>>
  /\ \A n \in 2..Len(requests) : requests[n].alert = 0
  /\ notifier.pc = "mark" => /\ Len(requests) <= 1
                             /\ requests # <<>> => requests[1].alert \in Alerts

\* What the notifier works on is pending or a phantom, and so is what it reports.
WorkIsPending ==
  /\ notifier.pc \in {"post", "report", "mark"} => notifier.items \subseteq Postable
  /\ \A a \in Alerts : MarkOnItsWay(a) => a \in Pending \cup Phantoms
  /\ notifier.pc = "report" => notifier.result.alert \in Alerts
  /\ \A a \in Alerts :
       notifier.pc \in {"report", "mark"} /\ MarkOnItsWay(a) => a \notin notifier.items

\* A mark on its way stands for a post that is not counted yet.
PostsCovered ==
  \A a \in Alerts :
    outbox[a].attempts + (IF MarkOnItsWay(a) THEN 1 ELSE 0) <= posts[a]

\* A confirmed post is lost, or recorded, or about to be.
ConfirmationsCovered ==
  \A a \in Alerts :
    /\ accepted[a] <= losses + (IF Settled(a) \/ ConfirmationOnItsWay(a) THEN 1 ELSE 0)
    /\ ConfirmationOnItsWay(a) => accepted[a] > 0

IInv ==
  /\ TypeOK
  /\ AttemptsLeft
  /\ UnqueuedUntouched
  /\ CallsInOrder
  /\ WorkIsPending
  /\ MutedHoldsNothing
  /\ PostsCovered
  /\ ConfirmationsCovered
  /\ PhantomsCounted
  /\ PhantomsWait
-----------------------------------------------------------------------------
(* The queue of calls.                                                     *)

LEMMA FirstCallLeaves ==
  ASSUME TypeOK, requests # <<>>, requests' = Tail(requests)
  PROVE  /\ requests' \in Seq(Request)
         /\ Head(requests) = requests[1]
         /\ requests[1] \in Request
         /\ Len(requests) \in Nat \ {0}
         /\ Len(requests') = Len(requests) - 1
         /\ \A n \in 1..Len(requests') : requests'[n] = requests[n + 1]
         /\ requests' # <<>> => Len(requests) >= 2 /\ requests'[1] = requests[2]
BY DEF TypeOK

LEMMA CallArrives ==
  ASSUME TypeOK, NEW r \in Request, requests' = Append(requests, r)
  PROVE  /\ requests' \in Seq(Request)
         /\ Len(requests) \in Nat
         /\ Len(requests') = Len(requests) + 1
         /\ requests' # <<>>
         /\ \A n \in 1..Len(requests) : requests'[n] = requests[n]
         /\ requests'[Len(requests) + 1] = r
         /\ requests = <<>> => requests'[1] = r
         /\ requests # <<>> => requests'[1] = requests[1]
BY DEF TypeOK

LEMMA HeartbeatIsRequest ==
  ASSUME TypeOK
  PROVE  Heartbeat \in Request /\ Heartbeat.alert = 0
BY DEF TypeOK, Heartbeat, Request

LEMMA IdleTypes ==
  ASSUME NEW on \in BOOLEAN
  PROVE  /\ Idle(on) \in [pc : {"idle", "heartbeat", "fetch", "post", "report", "mark", "deadman"},
                          on : BOOLEAN, items : SUBSET Alerts, result : Request]
         /\ Idle(on).pc = "idle"
BY DEF Idle, NoResult, Request

-----------------------------------------------------------------------------
(* What the notifier does between two posts, and every failure, moves calls *)
(* but touches no row, except to undo one; only a failure loses a           *)
(* confirmation.                                                           *)

LEMMA RowsAlike ==
  ASSUME TypeOK, outbox' = outbox \/ outbox' = Undone
  PROVE  /\ outbox' \in [Alerts -> Row]
         /\ Pending' = Pending /\ Phantoms' = Phantoms
         /\ Unlocked => Unlocked'
         /\ outbox' = Undone => Unlocked'
         /\ \A a \in Alerts : /\ outbox'[a].attempts = outbox[a].attempts
                              /\ outbox'[a].status = "unqueued" <=> outbox[a].status = "unqueued"
                              /\ outbox'[a].status = "written" => outbox[a].status = "written"
                              /\ Settled(a)' <=> Settled(a)
<1>1. outbox \in [Alerts -> Row]
  BY DEF TypeOK
<1>2. ASSUME NEW a \in Alerts
      PROVE  /\ outbox'[a] \in Row
             /\ outbox'[a].attempts = outbox[a].attempts
             /\ \/ outbox'[a].status = outbox[a].status
                \/ outbox[a].status = "written" /\ outbox'[a].status = "undone"
             /\ outbox' = Undone => outbox'[a].status # "written"
  <2>1. outbox[a] \in Row
    BY <1>1
  <2>2. CASE outbox' = outbox /\ outbox' # Undone
    BY <2>1, <2>2
  <2>3. CASE outbox'[a] = outbox[a] /\ outbox[a].status # "written"
    BY <2>1, <2>3
  <2>4. CASE /\ outbox[a].status = "written"
             /\ outbox'[a] = [outbox[a] EXCEPT !.status = "undone"]
    BY <2>1, <2>4 DEF Row
  <2>. QED BY <2>2, <2>3, <2>4 DEF Undone
<1>3. outbox' \in [Alerts -> Row]
  BY <1>1, <1>2 DEF Undone
<1>4. Pending' = Pending /\ Phantoms' = Phantoms
  BY <1>2 DEF Pending, Phantoms
<1>. QED BY <1>2, <1>3, <1>4 DEF Unlocked, Settled

Moves ==
  /\ UNCHANGED <<enabled, posts, accepted>>
  /\ outbox' = outbox \/ outbox' = Undone
  /\ \A a \in Alerts : MarkOnItsWay(a)' => MarkOnItsWay(a)
  /\ \A a \in Alerts : ConfirmationOnItsWay(a)' => ConfirmationOnItsWay(a)
  /\ \/ losses' = losses /\ \A a \in Alerts : ConfirmationOnItsWay(a) => ConfirmationOnItsWay(a)'
     \/ losses' = losses + 1

\* The notifier's own part of WorkIsPending.
ItemsPending ==
  /\ notifier.pc \in {"post", "report", "mark"} => notifier.items \subseteq Postable
  /\ notifier.pc = "report" => notifier.result.alert \in Alerts
  /\ \A a \in Alerts :
       notifier.pc \in {"report", "mark"} /\ MarkOnItsWay(a) => a \notin notifier.items

LEMMA MovesKeep ==
  ASSUME IInv, Moves, TypeOK', CallsInOrder', ItemsPending', PhantomsWait'
  PROVE  IInv'
<1>. USE DEF Moves
<1>0. /\ Pending' = Pending /\ Phantoms' = Phantoms
      /\ Unlocked => Unlocked'
      /\ \A a \in Alerts : /\ outbox'[a].attempts = outbox[a].attempts
                           /\ outbox'[a].status = "unqueued" <=> outbox[a].status = "unqueued"
                           /\ Settled(a)' <=> Settled(a)
  BY RowsAlike DEF IInv
<1>1. AttemptsLeft' /\ UnqueuedUntouched' /\ MutedHoldsNothing'
  <2>1. Pending \subseteq Alerts
    BY DEF Pending
  <2>. QED BY <1>0, <2>1 DEF IInv, AttemptsLeft, UnqueuedUntouched, MutedHoldsNothing
<1>2. WorkIsPending'
  BY <1>0 DEF IInv, WorkIsPending, ItemsPending
<1>5. PhantomsCounted'
  <2>1. /\ Phantoms \subseteq Alerts
        /\ losses \in Nat
    BY DEF Phantoms, IInv, TypeOK
  <2>. QED BY <1>0, <2>1 DEF IInv, PhantomsCounted
<1>3. PostsCovered'
  <2>. SUFFICES ASSUME NEW a \in Alerts
                PROVE  (outbox[a].attempts + (IF MarkOnItsWay(a) THEN 1 ELSE 0) <= posts[a])'
    BY DEF PostsCovered
  <2>1. outbox[a].attempts \in Nat /\ posts[a] \in Nat
    BY OutboxAssumption DEF IInv, TypeOK, Row
  <2>2. outbox[a].attempts + (IF MarkOnItsWay(a) THEN 1 ELSE 0) <= posts[a]
    BY DEF IInv, PostsCovered
  <2>. QED BY <1>0, <2>1, <2>2
<1>4. ConfirmationsCovered'
  <2>. SUFFICES ASSUME NEW a \in Alerts
                PROVE  (/\ accepted[a] <= losses + (IF Settled(a) \/ ConfirmationOnItsWay(a)
                                                    THEN 1 ELSE 0)
                        /\ ConfirmationOnItsWay(a) => accepted[a] > 0)'
    BY DEF ConfirmationsCovered
  <2>1. accepted[a] \in Nat /\ losses \in Nat
    BY DEF IInv, TypeOK
  <2>2. /\ accepted[a] <= losses + (IF Settled(a) \/ ConfirmationOnItsWay(a) THEN 1 ELSE 0)
        /\ ConfirmationOnItsWay(a) => accepted[a] > 0
    BY DEF IInv, ConfirmationsCovered
  <2>3. Settled(a)' <=> Settled(a)
    BY <1>0
  <2>. QED BY <2>1, <2>2, <2>3
<1>. QED BY <1>1, <1>2, <1>3, <1>4, <1>5 DEF IInv

\* A heartbeat that arrives last is no mark.
LEMMA HeartbeatArrives ==
  ASSUME IInv, requests' = Append(requests, Heartbeat),
         notifier.pc # "report", notifier'.pc \notin {"report", "fetch", "post", "mark"},
         UNCHANGED <<outbox, enabled, posts, accepted, losses>>
  PROVE  Moves /\ CallsInOrder' /\ ItemsPending' /\ PhantomsWait'
<1>1. /\ requests' # <<>>
      /\ requests'[Len(requests) + 1].alert = 0
      /\ Len(requests) \in Nat
      /\ Len(requests') = Len(requests) + 1
      /\ \A n \in 1..Len(requests) : requests'[n] = requests[n]
      /\ requests = <<>> => requests'[1].alert = 0
      /\ requests # <<>> => requests'[1] = requests[1]
  BY CallArrives, HeartbeatIsRequest DEF IInv
<1>2. \A a \in Alerts : a # 0
  BY DEF Alerts
<1>3. \A a \in Alerts : /\ MarkOnItsWay(a)' <=> MarkOnItsWay(a)
                        /\ ConfirmationOnItsWay(a)' <=> ConfirmationOnItsWay(a)
  BY <1>1, <1>2 DEF MarkOnItsWay, ConfirmationOnItsWay
<1>4. CallsInOrder'
  BY <1>1 DEF IInv, CallsInOrder
<1>5. PhantomsWait'
  BY <1>1 DEF PhantomsWait
<1>. QED BY <1>3, <1>4, <1>5 DEF Moves, ItemsPending

\* When the notifier has its answer or reads, nothing it posted is still written;
\* a notifier that is idle or reports does not read.
LEMMA WaitKept ==
  ASSUME IInv, UNCHANGED <<outbox, posts>>,
         \/ notifier.pc \in {"fetch", "post"}
         \/ Waiting /\ requests = <<>>
         \/ notifier'.pc \in {"idle", "report"}
  PROVE  PhantomsWait'
<1>1. notifier'.pc \in {"idle", "report"} => PhantomsWait'
  BY DEF PhantomsWait, Waiting
<1>2. NonePosted => PhantomsWait'
  BY DEF PhantomsWait, NonePosted
<1>3. notifier.pc \in {"fetch", "post"} \/ (Waiting /\ requests = <<>>) => NonePosted
  BY DEF IInv, PhantomsWait
<1>. QED BY <1>1, <1>2, <1>3

\* The notifier goes on while no call is in the core.
LEMMA NoCallMoves ==
  ASSUME IInv, UNCHANGED requests,
         notifier.pc # "report", notifier'.pc # "report",
         UNCHANGED <<outbox, enabled, posts, accepted, losses>>
  PROVE  Moves
BY DEF Moves, MarkOnItsWay, ConfirmationOnItsWay

LEMMA EndCycleKeeps ==
  ASSUME IInv, EndCycle, notifier.pc = "fetch" \/ (Waiting /\ requests = <<>>),
         UNCHANGED <<outbox, enabled, posts, accepted, timeouts, losses>>
  PROVE  IInv'
<1>. notifier.on \in BOOLEAN /\ notifier.pc # "report"
  BY DEF IInv, TypeOK, Waiting
<1>0. PhantomsWait'
  BY WaitKept
<1>1. CASE notifier' = Idle(notifier.on) /\ UNCHANGED requests
  <2>1. TypeOK'
    BY <1>1, IdleTypes DEF IInv, TypeOK
  <2>2. CallsInOrder' /\ ItemsPending'
    BY <1>1, IdleTypes DEF IInv, CallsInOrder, ItemsPending
  <2>3. Moves
    BY <1>1, IdleTypes, NoCallMoves
  <2>. QED BY <1>0, <2>1, <2>2, <2>3, MovesKeep
<1>2. CASE /\ notifier' = [Idle(notifier.on) EXCEPT !.pc = "deadman"]
           /\ requests' = Append(requests, Heartbeat)
  <2>1. TypeOK'
    BY <1>2, CallArrives, HeartbeatIsRequest DEF IInv, TypeOK, Idle, NoResult, Request
  <2>2. notifier'.pc = "deadman"
    BY <1>2 DEF Idle
  <2>3. Moves /\ CallsInOrder' /\ ItemsPending'
    BY <1>2, <2>2, HeartbeatArrives
  <2>. QED BY <1>0, <2>1, <2>3, MovesKeep
<1>. QED BY <1>1, <1>2 DEF EndCycle
-----------------------------------------------------------------------------
(* The steps of the notifier.                                              *)

LEMMA StartCycleKeeps ==
  ASSUME IInv, StartCycle
  PROVE  IInv'
<1>1. TypeOK'
  <2>1. requests' \in Seq(Request)
    BY CallArrives, HeartbeatIsRequest DEF IInv, StartCycle
  <2>. QED BY <2>1 DEF IInv, TypeOK, StartCycle
<1>2. Moves /\ CallsInOrder' /\ ItemsPending' /\ PhantomsWait'
  BY HeartbeatArrives DEF IInv, TypeOK, StartCycle
<1>. QED BY <1>1, <1>2, MovesKeep

LEMMA HeartbeatAnsweredKeeps ==
  ASSUME IInv, HeartbeatAnswered
  PROVE  IInv'
<1>1. CASE notifier.on
  <2>1. TypeOK'
    BY <1>1 DEF IInv, TypeOK, HeartbeatAnswered
  <2>2. CallsInOrder' /\ ItemsPending'
    BY <1>1 DEF IInv, TypeOK, CallsInOrder, ItemsPending, HeartbeatAnswered, Answered
  <2>3. Moves
    BY <1>1, NoCallMoves DEF IInv, TypeOK, HeartbeatAnswered
  <2>4. PhantomsWait'
    BY WaitKept DEF HeartbeatAnswered, Answered
  <2>. QED BY <2>1, <2>2, <2>3, <2>4, MovesKeep
<1>2. CASE ~notifier.on
  BY <1>2, EndCycleKeeps DEF HeartbeatAnswered, Answered
<1>. QED BY <1>1, <1>2

LEMMA FetchKeeps ==
  ASSUME IInv, Fetch
  PROVE  IInv'
<1>1. CASE Batch = {}
  BY <1>1, EndCycleKeeps DEF Fetch
<1>2. CASE Batch # {}
  <2>1. Batch \subseteq Postable /\ Postable \subseteq Alerts
    <3>1. NonePosted
      BY DEF Fetch, IInv, PhantomsWait
    <3>. QED BY <3>1 DEF Batch, Due, Pending, Postable, Phantoms, NonePosted
  <2>2. /\ notifier' = [notifier EXCEPT !.pc = "post", !.items = Batch]
        /\ requests' = requests
        /\ requests = <<>>
    BY <1>2 DEF Fetch, IInv, CallsInOrder
  <2>3. TypeOK'
    BY <2>1, <2>2 DEF IInv, TypeOK, Fetch
  <2>4. CallsInOrder'
    BY <2>2 DEF IInv, TypeOK, CallsInOrder
  <2>5. ItemsPending'
    BY <2>1, <2>2 DEF IInv, TypeOK, ItemsPending, Postable, Phantoms, Pending, Fetch
  <2>6. Moves
    BY <2>2, NoCallMoves DEF IInv, TypeOK, Fetch
  <2>7. PhantomsWait'
    BY WaitKept DEF Fetch
  <2>. QED BY <2>3, <2>4, <2>5, <2>6, <2>7, MovesKeep
<1>. QED BY <1>1, <1>2

LEMMA ReportKeeps ==
  ASSUME IInv, Report
  PROVE  IInv'
<1>1. /\ notifier.pc = "report"
      /\ requests = <<>>
      /\ notifier.result \in Request
      /\ notifier.result.alert \in Alerts
      /\ notifier.result.alert \notin notifier.items
      /\ notifier.items \subseteq Postable
  BY DEF Report, IInv, TypeOK, CallsInOrder, WorkIsPending, MarkOnItsWay
<1>2. /\ requests' \in Seq(Request)
      /\ Len(requests') = 1
      /\ requests' # <<>>
      /\ requests'[1] = notifier.result
  BY <1>1, CallArrives DEF IInv, Report
<1>3. /\ notifier'.pc = "mark"
      /\ notifier'.items = notifier.items
      /\ UNCHANGED <<outbox, enabled, posts, accepted, losses>>
  BY DEF Report, IInv, TypeOK
<1>9. PhantomsWait'
  BY <1>2, <1>3 DEF PhantomsWait
<1>4. TypeOK'
  BY <1>2 DEF IInv, TypeOK, Report, NoResult, Request
<1>5. CallsInOrder'
  BY <1>1, <1>2, <1>3 DEF CallsInOrder
<1>6. \A a \in Alerts : /\ MarkOnItsWay(a)' <=> a = notifier.result.alert
                        /\ MarkOnItsWay(a) <=> a = notifier.result.alert
                        /\ ConfirmationOnItsWay(a)' <=> ConfirmationOnItsWay(a)
  BY <1>1, <1>2, <1>3 DEF MarkOnItsWay, ConfirmationOnItsWay
<1>7. ItemsPending'
  BY <1>1, <1>3, <1>6 DEF ItemsPending, Postable, Phantoms, Pending
<1>8. Moves
  BY <1>3, <1>6 DEF Moves
<1>. QED BY <1>4, <1>5, <1>7, <1>8, <1>9, MovesKeep

LEMMA MarkAnsweredKeeps ==
  ASSUME IInv, MarkAnswered
  PROVE  IInv'
<1>1. CASE notifier.items = {}
  BY <1>1, EndCycleKeeps DEF MarkAnswered, Answered
<1>2. CASE notifier.items # {}
  <2>1. /\ notifier' = [notifier EXCEPT !.pc = "post"]
        /\ requests' = requests
        /\ requests = <<>>
        /\ UNCHANGED <<outbox, enabled, posts, accepted, timeouts, losses>>
    BY <1>2 DEF MarkAnswered, Answered
  <2>2. TypeOK'
    BY <2>1 DEF IInv, TypeOK
  <2>3. CallsInOrder'
    BY <2>1 DEF IInv, TypeOK, CallsInOrder
  <2>4. ItemsPending'
    BY <2>1 DEF IInv, TypeOK, WorkIsPending, ItemsPending, Postable, Phantoms, Pending, MarkAnswered
  <2>5. Moves
    BY <2>1, NoCallMoves DEF IInv, TypeOK, MarkAnswered
  <2>6. PhantomsWait'
    BY <2>1, WaitKept DEF MarkAnswered, Answered
  <2>. QED BY <2>2, <2>3, <2>4, <2>5, <2>6, MovesKeep
<1>. QED BY <1>1, <1>2

\* The notifier gives its call up, or its answer comes last: it is idle again.
LEMMA IdleKeeps ==
  ASSUME IInv, NEW on \in BOOLEAN, notifier' = Idle(on), notifier.pc # "report",
         UNCHANGED <<outbox, enabled, requests, posts, accepted, losses>>,
         timeouts' \in 0..MaxTimeouts
  PROVE  IInv'
<1>1. TypeOK'
  BY IdleTypes DEF IInv, TypeOK
<1>2. CallsInOrder' /\ ItemsPending'
  BY IdleTypes DEF IInv, CallsInOrder, ItemsPending
<1>3. Moves
  BY IdleTypes, NoCallMoves
<1>4. PhantomsWait'
  BY IdleTypes, WaitKept
<1>. QED BY <1>1, <1>2, <1>3, <1>4, MovesKeep

LEMMA DeadmanAnsweredKeeps ==
  ASSUME IInv, DeadmanAnswered
  PROVE  IInv'
BY IdleKeeps DEF IInv, TypeOK, DeadmanAnswered

LEMMA TimeOutKeeps ==
  ASSUME IInv, TimeOut
  PROVE  IInv'
BY IdleKeeps, OutboxAssumption DEF IInv, TypeOK, TimeOut, Waiting

-----------------------------------------------------------------------------
(* Failures.                                                               *)

LEMMA RollBackKeeps ==
  ASSUME IInv, RollBack
  PROVE  IInv'
<1>1. /\ requests # <<>>
      /\ requests' = Tail(requests)
      /\ losses' = losses + 1
      /\ losses' \in 0..MaxLosses
      /\ UNCHANGED <<outbox, enabled, posts, accepted, timeouts>>
  BY OutboxAssumption DEF RollBack, Lose, IInv, TypeOK
<1>2. /\ requests' \in Seq(Request)
      /\ Len(requests) \in Nat
      /\ Len(requests') = Len(requests) - 1
      /\ \A n \in 1..Len(requests') : requests'[n] = requests[n + 1]
      /\ requests' # <<>> => Len(requests) >= 2 /\ requests'[1] = requests[2]
  BY <1>1, FirstCallLeaves DEF IInv
<1>3. notifier.pc \notin {"fetch", "post", "report"}
  BY <1>1 DEF IInv, CallsInOrder
<1>4. /\ notifier' \in [pc : {"idle", "heartbeat", "fetch", "post", "report", "mark", "deadman"},
                        on : BOOLEAN, items : SUBSET Alerts, result : Request]
      /\ notifier'.pc = "idle" \/ notifier' = notifier
      /\ notifier'.pc # "mark"
  <2>1. notifier.pc = "mark" => Len(requests) = 1
    BY <1>1, <1>2 DEF IInv, TypeOK, CallsInOrder
  <2>2. CASE Waiting /\ Len(requests) = 1
    BY <2>2, IdleTypes DEF RollBack, IInv, TypeOK
  <2>3. CASE ~(Waiting /\ Len(requests) = 1)
    BY <2>1, <2>3 DEF RollBack, IInv, TypeOK, Waiting
  <2>. QED BY <2>2, <2>3
<1>5. TypeOK'
  BY <1>1, <1>2, <1>4 DEF IInv, TypeOK
<1>6. \A n \in 1..Len(requests') : requests'[n].alert = 0
  BY <1>2 DEF IInv, CallsInOrder
<1>7. CallsInOrder'
  BY <1>2, <1>3, <1>4, <1>6 DEF CallsInOrder
<1>8. \A a \in Alerts : ~MarkOnItsWay(a)' /\ ~ConfirmationOnItsWay(a)'
  <2>1. requests' # <<>> => requests'[1].alert = 0
    BY <1>2 DEF IInv, CallsInOrder
  <2>2. \A a \in Alerts : a # 0
    BY DEF Alerts
  <2>. QED BY <1>3, <1>4, <2>1, <2>2 DEF MarkOnItsWay, ConfirmationOnItsWay
<1>9. ItemsPending'
  BY <1>3, <1>4 DEF ItemsPending
<1>10. Moves
  BY <1>1, <1>8 DEF Moves
<1>11. PhantomsWait'
  BY <1>1 DEF RollBack, Unlocked, PhantomsWait, NonePosted
<1>. QED BY <1>5, <1>7, <1>9, <1>10, <1>11, MovesKeep

\* Without a call in the core and a result to report nothing is on its way.
LEMMA NothingOnItsWay ==
  ASSUME requests' = <<>>, notifier'.pc # "report"
  PROVE  \A a : ~MarkOnItsWay(a)' /\ ~ConfirmationOnItsWay(a)'
BY DEF MarkOnItsWay, ConfirmationOnItsWay

LEMMA CoreCrashKeeps ==
  ASSUME IInv, CoreCrash
  PROVE  IInv'
<1>1. /\ requests' = <<>>
      /\ losses' = losses + 1
      /\ losses' \in 0..MaxLosses
      /\ outbox' = Undone
      /\ UNCHANGED <<enabled, posts, accepted, timeouts>>
  BY OutboxAssumption DEF CoreCrash, Lose, IInv, TypeOK
<1>2. /\ notifier' \in [pc : {"idle", "heartbeat", "fetch", "post", "report", "mark", "deadman"},
                        on : BOOLEAN, items : SUBSET Alerts, result : Request]
      /\ \/ notifier'.pc = "idle"
         \/ notifier' = notifier /\ notifier.pc \in {"idle", "post", "report"}
  BY IdleTypes DEF CoreCrash, IInv, TypeOK
<1>3. TypeOK'
  BY <1>1, <1>2, RowsAlike DEF IInv, TypeOK
<1>7. PhantomsWait'
  BY <1>1, RowsAlike DEF IInv, Unlocked, PhantomsWait, NonePosted
<1>4. CallsInOrder'
  BY <1>1, <1>2 DEF CallsInOrder
<1>5. CASE notifier'.pc = "idle"
  <2>1. ItemsPending' /\ Moves
    BY <1>1, <1>5, NothingOnItsWay DEF ItemsPending, Moves
  <2>. QED BY <1>3, <1>4, <1>7, <2>1, MovesKeep
<1>6. CASE notifier' = notifier /\ notifier.pc \in {"idle", "post", "report"}
  <2>1. \A a \in Alerts : /\ MarkOnItsWay(a)' => MarkOnItsWay(a)
                          /\ ConfirmationOnItsWay(a)' => ConfirmationOnItsWay(a)
    BY <1>1, <1>6 DEF MarkOnItsWay, ConfirmationOnItsWay
  <2>2. Moves
    BY <1>1, <2>1 DEF Moves
  <2>3. Postable' = Postable
    BY <1>1, RowsAlike DEF IInv, Postable
  <2>4. ItemsPending'
    BY <1>1, <1>6, <2>1, <2>3 DEF IInv, WorkIsPending, ItemsPending
  <2>. QED BY <1>3, <1>4, <1>7, <2>2, <2>4, MovesKeep
<1>. QED BY <1>2, <1>5, <1>6

LEMMA UndoKeeps ==
  ASSUME IInv, Undo
  PROVE  IInv'
<1>1. /\ outbox' = Undone
      /\ UNCHANGED <<enabled, requests, notifier, posts, accepted, timeouts, losses>>
  BY DEF Undo
<1>2. \A a \in Alerts : /\ MarkOnItsWay(a)' <=> MarkOnItsWay(a)
                        /\ ConfirmationOnItsWay(a)' <=> ConfirmationOnItsWay(a)
  BY <1>1 DEF MarkOnItsWay, ConfirmationOnItsWay
<1>3. Postable' = Postable
  BY <1>1, RowsAlike DEF IInv, Postable
<1>4. TypeOK'
  BY <1>1, RowsAlike DEF IInv, TypeOK
<1>5. CallsInOrder' /\ ItemsPending'
  BY <1>1, <1>2, <1>3 DEF IInv, CallsInOrder, WorkIsPending, ItemsPending
<1>6. PhantomsWait'
  BY <1>1, RowsAlike DEF IInv, Unlocked, PhantomsWait, NonePosted
<1>7. Moves
  BY <1>1, <1>2 DEF Moves
<1>. QED BY <1>4, <1>5, <1>6, <1>7, MovesKeep

LEMMA NotifierRestartKeeps ==
  ASSUME IInv, NEW on \in Configurations, NotifierRestart(on)
  PROVE  IInv'
<1>1. /\ notifier' = Idle(on)
      /\ on \in BOOLEAN
      /\ losses' = losses + 1
      /\ losses' \in 0..MaxLosses
      /\ UNCHANGED <<outbox, enabled, requests, posts, accepted, timeouts>>
  BY OutboxAssumption DEF NotifierRestart, Lose, IInv, TypeOK
<1>2. TypeOK'
  BY <1>1, IdleTypes DEF IInv, TypeOK
<1>3. CallsInOrder' /\ ItemsPending'
  BY <1>1, IdleTypes DEF IInv, CallsInOrder, ItemsPending
<1>4. Moves
  BY <1>1, IdleTypes DEF Moves, MarkOnItsWay, ConfirmationOnItsWay
<1>5. PhantomsWait'
  BY <1>1, IdleTypes, WaitKept
<1>. QED BY <1>2, <1>3, <1>4, <1>5, MovesKeep
-----------------------------------------------------------------------------
(* The steps that write rows, and the post itself.                         *)

\* Rows change, none that was pending is lost to it or gains an attempt.
LEMMA RowsKeep ==
  ASSUME IInv, UNCHANGED <<requests, notifier, posts, accepted>>,
         losses' \in {losses, losses + 1},
         TypeOK', Pending \subseteq Pending', MutedHoldsNothing',
         Phantoms \subseteq Phantoms', PhantomsCounted', NonePosted => NonePosted',
         \A b \in Alerts : /\ outbox'[b].attempts = outbox[b].attempts
                           /\ Settled(b)' <=> Settled(b),
         AttemptsLeft', UnqueuedUntouched'
  PROVE  IInv'
<1>1. \A b : /\ MarkOnItsWay(b)' <=> MarkOnItsWay(b)
             /\ ConfirmationOnItsWay(b)' <=> ConfirmationOnItsWay(b)
  BY DEF MarkOnItsWay, ConfirmationOnItsWay
<1>2. CallsInOrder'
  BY DEF IInv, CallsInOrder
<1>3. WorkIsPending'
  <2>1. Postable \subseteq Postable'
    BY DEF Postable
  <2>. QED BY <1>1, <2>1 DEF IInv, WorkIsPending
<1>4. PostsCovered'
  BY <1>1 DEF IInv, PostsCovered
<1>5. ConfirmationsCovered'
  <2>. SUFFICES ASSUME NEW b \in Alerts
                PROVE  (/\ accepted[b] <= losses + (IF Settled(b) \/ ConfirmationOnItsWay(b)
                                                    THEN 1 ELSE 0)
                        /\ ConfirmationOnItsWay(b) => accepted[b] > 0)'
    BY DEF ConfirmationsCovered
  <2>1. accepted[b] \in Nat /\ losses \in Nat
    BY DEF IInv, TypeOK
  <2>2. /\ accepted[b] <= losses + (IF Settled(b) \/ ConfirmationOnItsWay(b) THEN 1 ELSE 0)
        /\ ConfirmationOnItsWay(b) => accepted[b] > 0
    BY DEF IInv, ConfirmationsCovered
  <2>3. /\ Settled(b)' <=> Settled(b)
        /\ ConfirmationOnItsWay(b)' <=> ConfirmationOnItsWay(b)
    BY <1>1
  <2>. QED BY <2>1, <2>2, <2>3
<1>6. PhantomsWait'
  BY DEF IInv, PhantomsWait, Waiting
<1>. QED BY <1>2, <1>3, <1>4, <1>5, <1>6 DEF IInv

LEMMA InsertKeeps ==
  ASSUME IInv, NEW a \in Alerts, NEW status \in {"pending", "written"}, Insert(a, status),
         losses' = losses + (IF status = "written" THEN 1 ELSE 0), losses' <= MaxLosses
  PROVE  IInv'
<1>1. /\ outbox \in [Alerts -> Row]
      /\ outbox[a].status = "unqueued"
      /\ outbox' = [outbox EXCEPT ![a] = [status |-> status, attempts |-> 0, due |-> TRUE]]
      /\ UNCHANGED <<enabled, requests, notifier, posts, accepted, timeouts>>
      /\ losses \in Nat
  BY DEF Insert, IInv, TypeOK
<1>2. /\ outbox'[a] = [status |-> status, attempts |-> 0, due |-> TRUE]
      /\ \A b \in Alerts \ {a} : outbox'[b] = outbox[b]
  BY <1>1
<1>3. TypeOK'
  <2>1. [status |-> status, attempts |-> 0, due |-> TRUE] \in Row
    BY OutboxAssumption DEF Row
  <2>2. outbox' \in [Alerts -> Row]
    BY <1>1, <2>1
  <2>3. losses' \in 0..MaxLosses
    BY <1>1, OutboxAssumption
  <2>. QED BY <1>1, <2>2, <2>3 DEF IInv, TypeOK
<1>4. MutedHoldsNothing'
  BY <1>1 DEF MutedHoldsNothing, Insert, Muted
<1>5. AttemptsLeft'
  BY <1>2, OutboxAssumption DEF IInv, AttemptsLeft, Pending
<1>6. outbox[a].attempts = 0 /\ posts[a] = 0 /\ accepted[a] = 0
  BY <1>1 DEF IInv, UnqueuedUntouched
<1>7. ASSUME NEW b \in Alerts
      PROVE  /\ outbox'[b].attempts = outbox[b].attempts
             /\ Settled(b)' <=> Settled(b)
  BY <1>1, <1>2, <1>6 DEF Settled
<1>8. UnqueuedUntouched'
  BY <1>1, <1>2 DEF IInv, UnqueuedUntouched
<1>9. Pending \subseteq Pending' /\ Phantoms \subseteq Phantoms'
  BY <1>1, <1>2 DEF Pending, Phantoms
<1>10. PhantomsCounted'
  <2>1. ASSUME NEW b \in Phantoms'
        PROVE  /\ outbox'[b].attempts = 0 /\ accepted[b] <= posts[b]
               /\ posts[b] <= 1 /\ losses' > 0
    <3>1. CASE b = a
      BY <1>1, <1>2, <1>6, <2>1, <3>1 DEF Phantoms
    <3>2. CASE b # a
      BY <1>1, <1>2, <2>1, <3>2 DEF IInv, PhantomsCounted, Phantoms
    <3>. QED BY <3>1, <3>2
  <2>. QED BY <1>1, <2>1 DEF PhantomsCounted
<1>11. NonePosted => NonePosted'
  BY <1>1, <1>2, <1>6 DEF NonePosted
<1>12. losses' \in {losses, losses + 1}
  BY <1>1
<1>. QED BY <1>1, <1>3, <1>4, <1>5, <1>7, <1>8, <1>9, <1>10, <1>11, <1>12, RowsKeep

LEMMA QueueKeeps ==
  ASSUME IInv, NEW a \in Alerts, Queue(a) \/ QueueFails(a)
  PROVE  IInv'
<1>1. losses \in Nat /\ losses <= MaxLosses /\ losses + 0 = losses
  BY OutboxAssumption DEF IInv, TypeOK
<1>2. CASE Queue(a)
  BY <1>1, <1>2, InsertKeeps DEF Queue
<1>3. CASE QueueFails(a)
  <2>1. losses + 1 <= MaxLosses
    BY <1>1, <1>3, OutboxAssumption DEF QueueFails
  <2>. QED BY <1>1, <1>3, <2>1, InsertKeeps DEF QueueFails
<1>. QED BY <1>2, <1>3

LEMMA BecomeDueKeeps ==
  ASSUME IInv, NEW a \in Alerts, BecomeDue(a)
  PROVE  IInv'
<1>1. /\ outbox \in [Alerts -> Row]
      /\ outbox' = [outbox EXCEPT ![a] = [outbox[a] EXCEPT !.due = TRUE]]
      /\ UNCHANGED <<enabled, requests, notifier, posts, accepted, timeouts, losses>>
  BY DEF BecomeDue, IInv, TypeOK
<1>2. \A b \in Alerts : /\ outbox'[b].status = outbox[b].status
                        /\ outbox'[b].attempts = outbox[b].attempts
                        /\ outbox'[b] \in Row
  BY <1>1 DEF Row
<1>3. Pending' = Pending /\ Phantoms' = Phantoms /\ (Unlocked => Unlocked')
  BY <1>2 DEF Pending, Phantoms, Unlocked
<1>9. PhantomsCounted' /\ (NonePosted => NonePosted')
  <2>1. Phantoms \subseteq Alerts
    BY DEF Phantoms
  <2>. QED BY <1>1, <1>2, <1>3, <2>1 DEF IInv, PhantomsCounted, NonePosted
<1>4. TypeOK'
  BY <1>1, <1>2 DEF IInv, TypeOK
<1>5. MutedHoldsNothing'
  BY <1>1, <1>3 DEF IInv, MutedHoldsNothing
<1>6. AttemptsLeft'
  BY <1>2, <1>3 DEF IInv, AttemptsLeft, Pending
<1>7. \A b \in Alerts : Settled(b)' <=> Settled(b)
  BY <1>2 DEF Settled
<1>8. UnqueuedUntouched'
  BY <1>1, <1>2 DEF IInv, UnqueuedUntouched
<1>. QED BY <1>1, <1>2, <1>3, <1>4, <1>5, <1>6, <1>7, <1>8, <1>9, RowsKeep

LEMMA PostKeeps ==
  ASSUME IInv, NEW a \in Alerts, NEW ok \in BOOLEAN, Post(a, ok)
  PROVE  IInv'
<1>1. /\ notifier.pc = "post"
      /\ a \in notifier.items
      /\ notifier.items \subseteq Postable
      /\ requests = <<>>
  BY DEF Post, IInv, WorkIsPending, CallsInOrder
<1>2. /\ notifier'.pc = "report"
      /\ notifier'.items = notifier.items \ {a}
      /\ notifier'.result = [alert |-> a, ok |-> ok]
      /\ UNCHANGED <<outbox, enabled, requests, timeouts, losses>>
  BY DEF Post, IInv, TypeOK
<1>3. /\ posts' = [posts EXCEPT ![a] = posts[a] + 1]
      /\ accepted' = [accepted EXCEPT ![a] = IF ok THEN accepted[a] + 1 ELSE accepted[a]]
      /\ posts \in [Alerts -> Nat]
      /\ accepted \in [Alerts -> Nat]
  BY DEF Post, IInv, TypeOK
<1>4. TypeOK'
  <2>1. /\ [alert |-> a, ok |-> ok] \in Request
        /\ notifier.items \ {a} \in SUBSET Alerts
    BY DEF IInv, TypeOK, Request
  <2>2. notifier' \in [pc : {"idle", "heartbeat", "fetch", "post", "report", "mark", "deadman"},
                       on : BOOLEAN, items : SUBSET Alerts, result : Request]
    BY <2>1 DEF Post, IInv, TypeOK
  <2>3. posts' \in [Alerts -> Nat] /\ accepted' \in [Alerts -> Nat]
    BY <1>3
  <2>. QED BY <1>2, <2>2, <2>3 DEF IInv, TypeOK
<1>5. /\ AttemptsLeft' /\ MutedHoldsNothing'
      /\ Pending' = Pending /\ Phantoms' = Phantoms
  BY <1>2 DEF IInv, AttemptsLeft, MutedHoldsNothing, Pending, Phantoms, Unlocked
<1>11. UnqueuedUntouched'
  <2>1. outbox[a].status # "unqueued"
    BY <1>1 DEF Postable, Pending, Phantoms
  <2>. QED BY <1>2, <1>3, <2>1 DEF IInv, UnqueuedUntouched
<1>12. PhantomsCounted'
  <2>. SUFFICES ASSUME NEW b \in Phantoms
                PROVE  /\ outbox[b].attempts = 0 /\ accepted'[b] <= posts'[b]
                       /\ posts'[b] <= 1 /\ losses > 0
    BY <1>2, <1>5 DEF PhantomsCounted
  <2>1. /\ b \in Alerts /\ posts[b] \in Nat /\ accepted[b] \in Nat
        /\ outbox[b].attempts = 0 /\ accepted[b] <= posts[b]
        /\ posts[b] <= 1 /\ losses > 0
    BY <1>3 DEF IInv, PhantomsCounted, Phantoms
  <2>2. b = a => posts[b] = 0
    BY <1>1 DEF Postable, Pending, Phantoms
  <2>. QED BY <1>3, <2>1, <2>2
<1>13. PhantomsWait'
  BY <1>2 DEF PhantomsWait, Waiting
<1>6. CallsInOrder'
  BY <1>1, <1>2 DEF CallsInOrder
<1>7. \A b \in Alerts : /\ MarkOnItsWay(b)' <=> b = a
                        /\ ~MarkOnItsWay(b) /\ ~ConfirmationOnItsWay(b)
                        /\ ConfirmationOnItsWay(b)' <=> b = a /\ ok
  <2>1. notifier'.result.alert = a /\ notifier'.result.ok = ok
    BY <1>2
  <2>2. \A b \in Alerts : MarkOnItsWay(b)' <=> b = a
    BY <1>1, <1>2, <2>1 DEF MarkOnItsWay
  <2>3. \A b \in Alerts : ~MarkOnItsWay(b) /\ ~ConfirmationOnItsWay(b)
    BY <1>1 DEF MarkOnItsWay, ConfirmationOnItsWay
  <2>4. \A b \in Alerts : [alert |-> a, ok |-> ok] = [alert |-> b, ok |-> TRUE] <=> b = a /\ ok
    OBVIOUS
  <2>5. \A b \in Alerts : ConfirmationOnItsWay(b)' <=> b = a /\ ok
    BY <1>1, <1>2, <2>4 DEF ConfirmationOnItsWay
  <2>. QED BY <2>2, <2>3, <2>5
<1>8. WorkIsPending'
  <2>1. notifier.items \ {a} \subseteq Postable'
    BY <1>1, <1>3, <1>5 DEF Postable, Phantoms
  <2>. QED BY <1>1, <1>2, <1>5, <1>7, <2>1 DEF WorkIsPending, Postable
<1>9. PostsCovered'
  <2>. SUFFICES ASSUME NEW b \in Alerts
                PROVE  outbox[b].attempts + (IF MarkOnItsWay(b)' THEN 1 ELSE 0) <= posts'[b]
    BY <1>2 DEF PostsCovered
  <2>1. outbox[b].attempts \in Nat /\ outbox[b].attempts <= posts[b]
    BY <1>3, <1>7, OutboxAssumption DEF IInv, TypeOK, Row, PostsCovered
  <2>. QED BY <1>3, <1>7, <2>1
<1>10. ConfirmationsCovered'
  <2>. SUFFICES ASSUME NEW b \in Alerts
                PROVE  /\ accepted'[b] <= losses + (IF Settled(b)' \/ ConfirmationOnItsWay(b)'
                                                   THEN 1 ELSE 0)
                       /\ ConfirmationOnItsWay(b)' => accepted'[b] > 0
    BY <1>2 DEF ConfirmationsCovered
  <2>1. accepted[b] <= losses + (IF Settled(b) THEN 1 ELSE 0)
    BY <1>7 DEF IInv, ConfirmationsCovered
  <2>2. (Settled(b)' <=> Settled(b)) /\ (b = a => ~Settled(b))
    BY <1>1, <1>2 DEF Settled, Postable, Pending, Phantoms
  <2>3. accepted[b] \in Nat /\ losses \in Nat
    BY <1>3 DEF IInv, TypeOK
  <2>. QED BY <1>3, <1>7, <2>1, <2>2, <2>3
<1>. QED BY <1>4, <1>5, <1>6, <1>8, <1>9, <1>10, <1>11, <1>12, <1>13 DEF IInv

\* The first call in the core is done: nothing is on its way behind it.
LEMMA ApplyEmpties ==
  ASSUME IInv, Apply
  PROVE  /\ CallsInOrder'
         /\ notifier.pc \notin {"fetch", "post", "report"}
         /\ requests' \in Seq(Request)
         /\ \A a \in Alerts : ~MarkOnItsWay(a)' /\ ~ConfirmationOnItsWay(a)'
         /\ Unlocked
<1>1. /\ requests # <<>>
      /\ requests' = Tail(requests)
      /\ notifier' = notifier
      /\ Unlocked
  BY DEF Apply
<1>2. /\ requests' \in Seq(Request)
      /\ Len(requests) \in Nat
      /\ Len(requests') = Len(requests) - 1
      /\ \A n \in 1..Len(requests') : requests'[n] = requests[n + 1]
      /\ requests' # <<>> => Len(requests) >= 2 /\ requests'[1] = requests[2]
  BY <1>1, FirstCallLeaves DEF IInv
<1>3. notifier.pc \notin {"fetch", "post", "report"}
  BY <1>1 DEF IInv, CallsInOrder
<1>4. \A n \in 1..Len(requests') : requests'[n].alert = 0
  BY <1>2 DEF IInv, CallsInOrder
<1>5. notifier.pc = "mark" => requests' = <<>>
  BY <1>1, <1>2 DEF IInv, CallsInOrder
<1>6. CallsInOrder'
  <2>1. \A n \in 2..Len(requests') : requests'[n].alert = 0
    BY <1>2, <1>4
  <2>2. notifier'.pc \notin {"fetch", "post", "report"}
    BY <1>1, <1>3
  <2>3. requests' = <<>> => Len(requests') = 0
    OBVIOUS
  <2>4. notifier'.pc = "mark" => requests' = <<>> /\ Len(requests') <= 1
    <3>1. notifier'.pc = "mark" => requests' = <<>>
      BY <1>1, <1>5
    <3>2. Len(requests') = 0 => Len(requests') <= 1
      OBVIOUS
    <3>. QED BY <2>3, <3>1, <3>2
  <2>. QED BY <2>1, <2>2, <2>4 DEF CallsInOrder
<1>7. requests' # <<>> => requests'[1].alert = 0
  BY <1>2 DEF IInv, CallsInOrder
<1>8. \A a \in Alerts : a # 0
  BY DEF Alerts
<1>9. \A a \in Alerts : ~MarkOnItsWay(a)' /\ ~ConfirmationOnItsWay(a)'
  BY <1>1, <1>3, <1>7, <1>8 DEF MarkOnItsWay, ConfirmationOnItsWay
<1>. QED BY <1>1, <1>2, <1>3, <1>6, <1>9

LEMMA ApplyHeartbeatKeeps ==
  ASSUME IInv, Apply, NEW on \in BOOLEAN, ApplyHeartbeat(on), requests[1].alert = 0
  PROVE  IInv'
<1>1. /\ UNCHANGED <<notifier, posts, accepted, timeouts, losses>>
      /\ requests # <<>>
      /\ outbox \in [Alerts -> Row]
  BY DEF Apply, IInv, TypeOK
<1>2. \A b \in Alerts :
        /\ outbox'[b] \in Row
        /\ outbox'[b].attempts = outbox[b].attempts
        /\ outbox'[b].status = "unqueued" <=> outbox[b].status = "unqueued"
        /\ Settled(b) => Settled(b)'
        /\ outbox'[b].status = "pending" => outbox[b].status = "pending"
        /\ outbox'[b].status \in {"written", "undone"} => outbox'[b] = outbox[b]
  BY <1>1 DEF ApplyHeartbeat, Pending, Row, Settled
<1>3. outbox' \in [Alerts -> Row]
  BY <1>1, <1>2 DEF ApplyHeartbeat
<1>11. Unlocked' /\ Phantoms' \subseteq Phantoms
  BY <1>2, ApplyEmpties DEF Unlocked, Phantoms
<1>12. PhantomsCounted' /\ PhantomsWait'
  <2>1. PhantomsCounted'
    BY <1>1, <1>2, <1>11 DEF IInv, PhantomsCounted, Phantoms
  <2>2. NonePosted'
    BY <1>11 DEF NonePosted, Unlocked
  <2>. QED BY <2>1, <2>2 DEF PhantomsWait
<1>4. enabled' = "false" => Pending' = {} /\ Unlocked'
  BY <1>1, <1>11 DEF ApplyHeartbeat, Pending, Row
<1>5. TypeOK'
  BY <1>1, <1>3, ApplyEmpties DEF IInv, TypeOK, ApplyHeartbeat
<1>6. AttemptsLeft' /\ UnqueuedUntouched' /\ MutedHoldsNothing'
  BY <1>1, <1>2, <1>4 DEF IInv, AttemptsLeft, UnqueuedUntouched, MutedHoldsNothing, Pending
<1>7. notifier.pc # "mark"
  <2>1. \A a \in Alerts : a # 0
    BY DEF Alerts
  <2>. QED BY <1>1, <2>1 DEF IInv, CallsInOrder
<1>8. WorkIsPending'
  BY <1>1, <1>7, ApplyEmpties DEF WorkIsPending
<1>9. PostsCovered'
  <2>. SUFFICES ASSUME NEW b \in Alerts
                PROVE  outbox'[b].attempts + 0 <= posts[b]
    BY <1>1, ApplyEmpties DEF PostsCovered
  <2>1. outbox[b].attempts + (IF MarkOnItsWay(b) THEN 1 ELSE 0) <= posts[b]
    BY DEF IInv, PostsCovered
  <2>2. outbox[b].attempts \in Nat /\ posts[b] \in Nat
    BY OutboxAssumption DEF IInv, TypeOK, Row
  <2>. QED BY <1>2, <2>1, <2>2
<1>10. ConfirmationsCovered'
  <2>. SUFFICES ASSUME NEW b \in Alerts
                PROVE  accepted[b] <= losses + (IF Settled(b)' THEN 1 ELSE 0)
    BY <1>1, ApplyEmpties DEF ConfirmationsCovered
  <2>1. accepted[b] <= losses + (IF Settled(b) \/ ConfirmationOnItsWay(b) THEN 1 ELSE 0)
    BY DEF IInv, ConfirmationsCovered
  <2>2. ~ConfirmationOnItsWay(b)
    <3>1. b # 0
      BY DEF Alerts
    <3>2. notifier.pc # "report"
      BY ApplyEmpties
    <3>. QED BY <3>1, <3>2 DEF ConfirmationOnItsWay
  <2>3. accepted[b] \in Nat /\ losses \in Nat
    BY DEF IInv, TypeOK
  <2>. QED BY <1>2, <2>1, <2>2, <2>3
<1>. QED BY <1>5, <1>6, <1>8, <1>9, <1>10, <1>12, ApplyEmpties DEF IInv

\* What applying a mark does to its row.
LEMMA MarkedRow ==
  ASSUME IInv, NEW a \in Pending, MarkOnItsWay(a), NEW ok \in BOOLEAN
  PROVE  /\ AfterAttempt(outbox[a], ok) \in Row
         /\ AfterAttempt(outbox[a], ok).attempts = outbox[a].attempts + 1
         /\ AfterAttempt(outbox[a], ok).status =
              IF ok THEN "delivered"
              ELSE IF outbox[a].attempts + 1 >= MaxAttempts THEN "dead_letter" ELSE "pending"
<1>1. outbox[a] \in Row /\ outbox[a].status = "pending"
  BY DEF IInv, TypeOK, Pending
<1>2. outbox[a].attempts \in Nat /\ outbox[a].attempts < MaxAttempts
  BY <1>1, OutboxAssumption DEF IInv, AttemptsLeft, Pending, Row
<1>3. /\ AfterAttempt(outbox[a], ok).status =
              IF ok THEN "delivered"
              ELSE IF outbox[a].attempts + 1 >= MaxAttempts THEN "dead_letter" ELSE "pending"
      /\ AfterAttempt(outbox[a], ok).attempts = outbox[a].attempts + 1
      /\ AfterAttempt(outbox[a], ok) \in [status : {"delivered", "dead_letter", "pending"},
                                          attempts : {outbox[a].attempts + 1},
                                          due : BOOLEAN]
  <2>. DEFINE row == outbox[a]
              end == IF ok THEN "delivered"
                     ELSE IF row.attempts + 1 >= MaxAttempts THEN "dead_letter" ELSE "pending"
  <2>1. AfterAttempt(row, ok) =
          [[[row EXCEPT !.attempts = row.attempts + 1] EXCEPT !.due = FALSE] EXCEPT !.status = end]
    BY <1>1 DEF AfterAttempt
  <2>. QED BY <1>1, <2>1 DEF Row
<1>4. outbox[a].attempts + 1 \in 0..MaxAttempts
  BY <1>2, OutboxAssumption
<1>. QED BY <1>3, <1>4 DEF Row

\* The mark of a row that is gone finds nothing.
LEMMA PhantomMarkKeeps ==
  ASSUME IInv, Apply, NEW a \in Phantoms, NEW ok \in BOOLEAN,
         requests[1] = [alert |-> a, ok |-> ok], ApplyMark(a, ok)
  PROVE  IInv' /\ outbox' = outbox
<1>1. /\ UNCHANGED <<enabled, notifier, posts, accepted, timeouts, losses>>
      /\ outbox \in [Alerts -> Row]
      /\ a \in Alerts /\ outbox[a].status # "pending"
  BY DEF Apply, ApplyMark, IInv, TypeOK, Phantoms
<1>2. outbox' = outbox
  BY <1>1 DEF ApplyMark, AfterAttempt
<1>3. TypeOK' /\ AttemptsLeft' /\ UnqueuedUntouched' /\ MutedHoldsNothing'
  BY <1>1, <1>2, ApplyEmpties DEF IInv, TypeOK, AttemptsLeft, UnqueuedUntouched,
     MutedHoldsNothing, Pending, Unlocked
<1>4. Pending' = Pending /\ Phantoms' = Phantoms /\ Postable' = Postable
  BY <1>1, <1>2 DEF Pending, Phantoms, Postable
<1>5. WorkIsPending'
  BY <1>1, <1>4, ApplyEmpties DEF IInv, WorkIsPending
<1>6. PostsCovered'
  <2>. SUFFICES ASSUME NEW b \in Alerts
                PROVE  outbox[b].attempts + 0 <= posts[b]
    BY <1>1, <1>2, ApplyEmpties DEF PostsCovered
  <2>1. outbox[b].attempts + (IF MarkOnItsWay(b) THEN 1 ELSE 0) <= posts[b]
    BY DEF IInv, PostsCovered
  <2>2. outbox[b].attempts \in Nat /\ posts[b] \in Nat
    BY OutboxAssumption DEF IInv, TypeOK, Row
  <2>. QED BY <2>1, <2>2
<1>7. ConfirmationsCovered'
  <2>. SUFFICES ASSUME NEW b \in Alerts
                PROVE  accepted[b] <= losses + (IF Settled(b) THEN 1 ELSE 0)
    BY <1>1, <1>2, ApplyEmpties DEF ConfirmationsCovered, Settled
  <2>1. accepted[b] <= losses + (IF Settled(b) \/ ConfirmationOnItsWay(b) THEN 1 ELSE 0)
    BY DEF IInv, ConfirmationsCovered
  <2>2. accepted[b] \in Nat /\ losses \in Nat /\ posts[b] \in Nat
    BY DEF IInv, TypeOK
  <2>3. ConfirmationOnItsWay(b) => b \in Pending \cup Phantoms
    BY DEF IInv, WorkIsPending, MarkOnItsWay, ConfirmationOnItsWay
  <2>4. CASE b \in Phantoms
    BY <2>2, <2>4 DEF IInv, PhantomsCounted
  <2>5. CASE ~ConfirmationOnItsWay(b)
    BY <2>1, <2>5
  <2>6. CASE b \notin Phantoms /\ ConfirmationOnItsWay(b)
    <3>1. notifier.pc # "report"
      BY ApplyEmpties
    <3>2. requests[1] = [alert |-> b, ok |-> TRUE]
      BY <2>6, <3>1 DEF ConfirmationOnItsWay
    <3>3. b = a
      BY <3>2
    <3>. QED BY <2>6, <3>3
  <2>. QED BY <2>4, <2>5, <2>6
<1>8. PhantomsCounted' /\ PhantomsWait'
  <2>1. NonePosted'
    BY <1>2, ApplyEmpties DEF NonePosted, Unlocked
  <2>2. PhantomsCounted'
    BY <1>1, <1>2, <1>4 DEF IInv, PhantomsCounted
  <2>. QED BY <2>1, <2>2 DEF PhantomsWait
<1>. QED BY <1>2, <1>3, <1>5, <1>6, <1>7, <1>8, ApplyEmpties DEF IInv

LEMMA ApplyMarkKeeps ==
  ASSUME IInv, Apply, NEW a \in Pending, NEW ok \in BOOLEAN,
         requests[1] = [alert |-> a, ok |-> ok], ApplyMark(a, ok)
  PROVE  IInv'
<1>1. /\ UNCHANGED <<enabled, notifier, posts, accepted, timeouts, losses>>
      /\ requests # <<>>
      /\ outbox \in [Alerts -> Row]
      /\ notifier.pc # "report"
      /\ a \in Alerts
  BY ApplyEmpties DEF Apply, ApplyMark, IInv, TypeOK, Pending
<1>2. MarkOnItsWay(a)
  <2>1. requests[1].alert = a
    OBVIOUS
  <2>. QED BY <1>1, <2>1 DEF MarkOnItsWay
<1>3. /\ outbox' = [outbox EXCEPT ![a] = outbox'[a]]
      /\ outbox'[a] \in Row
      /\ outbox'[a].attempts = outbox[a].attempts + 1
      /\ outbox'[a].status =
              IF ok THEN "delivered"
              ELSE IF outbox[a].attempts + 1 >= MaxAttempts THEN "dead_letter" ELSE "pending"
  BY <1>1, <1>2, MarkedRow DEF ApplyMark
<1>4. /\ outbox' \in [Alerts -> Row]
      /\ \A b \in Alerts \ {a} : outbox'[b] = outbox[b]
      /\ a \in Pending
  BY <1>1, <1>3
<1>5. /\ Pending \ {a} \subseteq Pending' /\ Pending' \subseteq Pending
      /\ Phantoms' = Phantoms /\ Postable \ {a} \subseteq Postable'
      /\ Unlocked'
  <2>1. Unlocked
    BY ApplyEmpties
  <2>2. outbox[a].status = "pending" /\ outbox'[a].status \notin {"written", "undone"}
    BY <1>3, <1>4 DEF Pending
  <2>3. Pending \ {a} \subseteq Pending' /\ Pending' \subseteq Pending
    BY <1>4 DEF Pending
  <2>4. Phantoms' = Phantoms
    BY <1>4, <2>2 DEF Phantoms
  <2>5. Unlocked'
    BY <1>4, <2>1, <2>2 DEF Unlocked
  <2>. QED BY <1>1, <2>3, <2>4, <2>5 DEF Postable
<1>6. TypeOK'
  BY <1>1, <1>4, ApplyEmpties DEF IInv, TypeOK
<1>7. AttemptsLeft'
  <2>1. outbox[a].attempts \in Nat
    BY <1>1, OutboxAssumption DEF Row
  <2>. QED BY <1>3, <1>4, <1>5, <2>1, OutboxAssumption DEF IInv, AttemptsLeft, Pending
<1>8. UnqueuedUntouched' /\ MutedHoldsNothing'
  BY <1>1, <1>3, <1>4, <1>5 DEF IInv, UnqueuedUntouched, MutedHoldsNothing
<1>12. PhantomsCounted' /\ PhantomsWait'
  <2>1. a \notin Phantoms /\ Phantoms \subseteq Alerts
    BY <1>4 DEF Phantoms, Pending
  <2>2. PhantomsCounted'
    BY <1>1, <1>4, <1>5, <2>1 DEF IInv, PhantomsCounted
  <2>3. NonePosted'
    BY <1>5 DEF NonePosted, Unlocked
  <2>. QED BY <2>2, <2>3 DEF PhantomsWait
<1>9. WorkIsPending'
  <2>1. notifier.pc = "mark" => a \notin notifier.items
    BY <1>1, <1>2 DEF IInv, WorkIsPending
  <2>. QED BY <1>1, <1>5, <2>1, ApplyEmpties DEF IInv, WorkIsPending
<1>10. PostsCovered'
  <2>. SUFFICES ASSUME NEW b \in Alerts
                PROVE  outbox'[b].attempts + 0 <= posts[b]
    BY <1>1, ApplyEmpties DEF PostsCovered
  <2>1. outbox[b].attempts + (IF MarkOnItsWay(b) THEN 1 ELSE 0) <= posts[b]
    BY DEF IInv, PostsCovered
  <2>2. outbox[b].attempts \in Nat /\ posts[b] \in Nat
    BY OutboxAssumption DEF IInv, TypeOK, Row
  <2>. QED BY <1>2, <1>3, <1>4, <2>1, <2>2
<1>11. ConfirmationsCovered'
  <2>. SUFFICES ASSUME NEW b \in Alerts
                PROVE  accepted[b] <= losses + (IF Settled(b)' THEN 1 ELSE 0)
    BY <1>1, ApplyEmpties DEF ConfirmationsCovered
  <2>1. accepted[b] <= losses + (IF Settled(b) \/ ConfirmationOnItsWay(b) THEN 1 ELSE 0)
    BY DEF IInv, ConfirmationsCovered
  <2>2. accepted[b] \in Nat /\ losses \in Nat
    BY DEF IInv, TypeOK
  <2>3. CASE b = a
    <3>1. ~Settled(a)
      BY <1>4 DEF Settled, Pending
    <3>2. ConfirmationOnItsWay(a) => ok
      BY <1>1 DEF ConfirmationOnItsWay
    <3>3. ok => Settled(a)'
      BY <1>3 DEF Settled
    <3>. QED BY <2>1, <2>2, <2>3, <3>1, <3>2, <3>3
  <2>4. CASE b # a
    <3>1. ~ConfirmationOnItsWay(b)
      BY <1>1, <2>4 DEF ConfirmationOnItsWay
    <3>2. Settled(b)' <=> Settled(b)
      BY <1>4, <2>4 DEF Settled
    <3>. QED BY <2>1, <2>2, <3>1, <3>2
  <2>. QED BY <2>3, <2>4
<1>. QED BY <1>6, <1>7, <1>8, <1>9, <1>10, <1>11, <1>12, ApplyEmpties DEF IInv

\* The first call is a heartbeat or a mark.
LEMMA FirstCall ==
  ASSUME IInv, Apply
  PROVE  \/ \E on \in BOOLEAN : requests[1].alert = 0 /\ ApplyHeartbeat(on)
         \/ \E a \in Alerts, ok \in BOOLEAN :
              requests[1] = [alert |-> a, ok |-> ok] /\ ApplyMark(a, ok)
<1>1. /\ Head(requests) = requests[1]
      /\ requests[1] \in Request
  BY FirstCallLeaves DEF IInv, Apply
<1>2. requests[1].alert = 0 \/ requests[1].alert \in Alerts
  BY <1>1 DEF Request
<1>3. CASE requests[1].alert = 0
  BY <1>1, <1>3 DEF Apply, Request
<1>4. CASE requests[1].alert \in Alerts
  <2>1. requests[1].alert # 0
    BY <1>4 DEF Alerts
  <2>2. ApplyMark(requests[1].alert, requests[1].ok)
    BY <1>1, <2>1 DEF Apply
  <2>3. /\ requests[1] = [alert |-> requests[1].alert, ok |-> requests[1].ok]
        /\ requests[1].ok \in BOOLEAN
    BY <1>1 DEF Request
  <2>. QED BY <1>4, <2>2, <2>3
<1>. QED BY <1>2, <1>3, <1>4

\* Its alert is pending or was never committed.
LEMMA FirstMark ==
  ASSUME IInv, Apply, NEW a \in Alerts, requests[1].alert = a
  PROVE  MarkOnItsWay(a) /\ a \in Pending \cup Phantoms
<1>1. MarkOnItsWay(a)
  BY DEF Apply, MarkOnItsWay
<1>. QED BY <1>1 DEF IInv, WorkIsPending

LEMMA ApplyKeeps ==
  ASSUME IInv, Apply
  PROVE  IInv'
<1>1. ASSUME NEW a \in Alerts, NEW ok \in BOOLEAN,
             requests[1] = [alert |-> a, ok |-> ok], ApplyMark(a, ok)
      PROVE  IInv'
  <2>1. a \in Pending \cup Phantoms
    BY <1>1, FirstMark
  <2>. QED BY <1>1, <2>1, ApplyMarkKeeps, PhantomMarkKeeps
<1>. QED BY <1>1, FirstCall, ApplyHeartbeatKeeps

-----------------------------------------------------------------------------
(* The invariant.                                                          *)

LEMMA InitHolds == Init => IInv
<1>. SUFFICES ASSUME Init
              PROVE  IInv
  OBVIOUS
<1>1. PICK on \in Configurations : notifier = Idle(on)
  BY DEF Init
<1>2. on \in BOOLEAN
  BY OutboxAssumption
<1>3. TypeOK
  BY <1>1, <1>2, IdleTypes, OutboxAssumption DEF Init, TypeOK, Row
<1>4. /\ Pending = {}
      /\ \A a : ~MarkOnItsWay(a) /\ ~ConfirmationOnItsWay(a)
  BY <1>1, <1>2, IdleTypes DEF Init, Pending, MarkOnItsWay, ConfirmationOnItsWay
<1>5. AttemptsLeft /\ UnqueuedUntouched /\ MutedHoldsNothing
  BY <1>4 DEF Init, AttemptsLeft, UnqueuedUntouched, MutedHoldsNothing
<1>6. CallsInOrder /\ WorkIsPending
  BY <1>1, <1>2, <1>4, IdleTypes DEF Init, CallsInOrder, WorkIsPending
<1>8. PhantomsCounted /\ PhantomsWait
  BY DEF Init, PhantomsCounted, PhantomsWait, Phantoms, NonePosted
<1>7. PostsCovered /\ ConfirmationsCovered
  BY <1>4 DEF Init, PostsCovered, ConfirmationsCovered
<1>. QED BY <1>3, <1>5, <1>6, <1>7, <1>8 DEF IInv

LEMMA StepKeeps == IInv /\ [Next]_vars => IInv'
<1>. SUFFICES ASSUME IInv, [Next]_vars
              PROVE  IInv'
  OBVIOUS
<1>1. CASE UNCHANGED vars
  BY <1>1 DEF vars, IInv, TypeOK, AttemptsLeft, UnqueuedUntouched, CallsInOrder, WorkIsPending,
     MutedHoldsNothing, PostsCovered, ConfirmationsCovered, MarkOnItsWay,
     ConfirmationOnItsWay, Settled, Pending, PhantomsCounted, PhantomsWait, Phantoms,
     NonePosted, Postable, Unlocked, Waiting
<1>2. ASSUME NEW a \in Alerts, Queue(a) \/ QueueFails(a) \/ BecomeDue(a)
      PROVE  IInv'
  BY <1>2, QueueKeeps, BecomeDueKeeps
<1>3. CASE Apply
  BY <1>3, ApplyKeeps
<1>4. CASE NotifierStep
  BY <1>4, StartCycleKeeps, HeartbeatAnsweredKeeps, FetchKeeps, PostKeeps, ReportKeeps,
     MarkAnsweredKeeps, DeadmanAnsweredKeeps DEF NotifierStep
<1>5. CASE TimeOut \/ RollBack \/ CoreCrash \/ Undo
  BY <1>5, TimeOutKeeps, RollBackKeeps, CoreCrashKeeps, UndoKeeps
<1>6. ASSUME NEW on \in Configurations, NotifierRestart(on)
      PROVE  IInv'
  BY <1>6, NotifierRestartKeeps
<1>. QED BY <1>1, <1>2, <1>3, <1>4, <1>5, <1>6 DEF Next

LEMMA Invariant == Spec => []IInv
BY InitHolds, StepKeeps, PTL DEF Spec

(* Every variable keeps its type and no alert is attempted more than        *)
(* MaxAttempts times (mark_notification).                                   *)
THEOREM TypeCorrect == Spec => []TypeOK
<1>1. IInv => TypeOK
  BY DEF IInv
<1>. QED BY <1>1, Invariant, PTL

(* Nothing is pending while delivery is switched off                        *)
(* (record_notification_heartbeat, _notifications_may_queue_unlocked).      *)
THEOREM MutedIsEmpty == Spec => []MutedHoldsNothing
<1>1. IInv => MutedHoldsNothing
  BY DEF IInv
<1>. QED BY <1>1, Invariant, PTL

(* Every counted attempt was a post (mark_notification).                    *)
THEOREM AttemptsAreReal == Spec => []AttemptsHappened
<1>1. IInv => AttemptsHappened
  <2>. SUFFICES ASSUME IInv, NEW a \in Alerts
                PROVE  outbox[a].attempts <= posts[a]
    BY DEF AttemptsHappened
  <2>1. outbox[a].attempts + (IF MarkOnItsWay(a) THEN 1 ELSE 0) <= posts[a]
    BY DEF IInv, PostsCovered
  <2>2. outbox[a].attempts \in Nat /\ posts[a] \in Nat
    BY OutboxAssumption DEF IInv, TypeOK, Row
  <2>. QED BY <2>1, <2>2
<1>. QED BY <1>1, Invariant, PTL

(* Every duplicate confirmation is paid for by a crash, a restart or a      *)
(* failed transaction, never by a slow call (run_once).                     *)
THEOREM DuplicatesAreBounded == Spec => []DuplicatesNeedLoss
<1>1. IInv => DuplicatesNeedLoss
  <2>. SUFFICES ASSUME IInv, NEW a \in Alerts
                PROVE  accepted[a] <= 1 + losses
    BY DEF DuplicatesNeedLoss
  <2>1. accepted[a] <= losses + (IF Settled(a) \/ ConfirmationOnItsWay(a) THEN 1 ELSE 0)
    BY DEF IInv, ConfirmationsCovered
  <2>2. accepted[a] \in Nat /\ losses \in Nat
    BY DEF IInv, TypeOK
  <2>. QED BY <2>1, <2>2
<1>. QED BY <1>1, Invariant, PTL
-----------------------------------------------------------------------------
(* The refinement of AlertDelivery.                                        *)

Status == [a \in Alerts |-> outbox[a].status]

LEMMA StepDelivers == IInv /\ [Next]_vars => [Delivery!Next]_Delivery!vars
<1>. SUFFICES ASSUME IInv, [Next]_vars
              PROVE  Delivery!Next \/ UNCHANGED Delivery!vars
  OBVIOUS
<1>. USE DEF Delivery!vars
<1>1. CASE UNCHANGED <<outbox, posts, accepted>>
  BY <1>1
<1>2. ASSUME NEW a \in Alerts, Queue(a) \/ QueueFails(a)
      PROVE  Delivery!Queue(a) \/ Delivery!Write(a)
  <2>1. /\ UNCHANGED <<posts, accepted>>
        /\ outbox \in [Alerts -> Row]
        /\ outbox[a].status = "unqueued"
    BY <1>2 DEF Queue, QueueFails, Insert, IInv, TypeOK
  <2>2. CASE Queue(a)
    BY <2>1, <2>2 DEF Queue, Insert, Delivery!Queue
  <2>3. CASE QueueFails(a)
    BY <2>1, <2>3 DEF QueueFails, Insert, Delivery!Write
  <2>. QED BY <1>2, <2>2, <2>3
<1>3. ASSUME NEW a \in Alerts, BecomeDue(a)
      PROVE  UNCHANGED Delivery!vars
  BY <1>3 DEF BecomeDue, IInv, TypeOK, Row
<1>4. ASSUME NEW a \in Alerts, NEW ok \in BOOLEAN, Post(a, ok)
      PROVE  Delivery!Post(a)
  <2>1. \/ outbox[a].status = "pending"
        \/ outbox[a].status \in {"written", "undone"} /\ posts[a] = 0
    BY <1>4 DEF Post, IInv, WorkIsPending, Postable, Pending, Phantoms
  <2>2. /\ accepted' = [accepted EXCEPT ![a] = IF ok THEN accepted[a] + 1 ELSE accepted[a]]
        /\ accepted[a] \in Nat
    BY <1>4 DEF Post, IInv, TypeOK
  <2>3. \E n \in {0, 1} : accepted' = [accepted EXCEPT ![a] = accepted[a] + n]
    <3>1. CASE ok
      BY <2>2, <3>1
    <3>2. CASE ~ok
      <4>1. accepted[a] + 0 = accepted[a]
        BY <2>2
      <4>. QED BY <2>2, <3>2, <4>1
    <3>. QED BY <3>1, <3>2
  <2>. QED BY <1>4, <2>1, <2>3 DEF Post, Delivery!Post
<1>5. ASSUME Apply, NEW on \in BOOLEAN, ApplyHeartbeat(on)
      PROVE  Delivery!Suppress \/ UNCHANGED Delivery!vars
  <2>1. UNCHANGED <<posts, accepted>>
    BY <1>5 DEF Apply
  <2>2. CASE on
    BY <1>5, <2>1, <2>2 DEF ApplyHeartbeat
  <2>3. CASE ~on
    <3>1. \A b \in Alerts : outbox'[b].status = IF outbox[b].status = "pending" THEN "suppressed"
                                                ELSE outbox[b].status
      BY <1>5, <2>3 DEF ApplyHeartbeat, Pending, IInv, TypeOK, Row
    <3>2. Status' = [b \in Alerts |-> IF Status[b] = "pending" THEN "suppressed" ELSE Status[b]]
      BY <3>1 DEF Status
    <3>. QED BY <2>1, <3>2 DEF Delivery!Suppress, Status
  <2>. QED BY <2>2, <2>3
<1>6. ASSUME Apply, NEW a \in Alerts, NEW ok \in BOOLEAN,
             requests[1] = [alert |-> a, ok |-> ok], ApplyMark(a, ok)
      PROVE  Delivery!Deliver(a) \/ Delivery!GiveUp(a) \/ UNCHANGED Delivery!vars
  <2>1. /\ UNCHANGED <<posts, accepted>>
        /\ requests # <<>>
        /\ outbox \in [Alerts -> Row]
    BY <1>6 DEF Apply, IInv, TypeOK
  <2>2. MarkOnItsWay(a) /\ a \in Pending \cup Phantoms
    BY <1>6, FirstMark
  <2>10. CASE a \in Phantoms
    BY <1>6, <2>1, <2>10, PhantomMarkKeeps
  <2> SUFFICES ASSUME a \in Pending
              PROVE  Delivery!Deliver(a) \/ Delivery!GiveUp(a) \/ UNCHANGED Delivery!vars
    BY <2>2, <2>10
  <2>3. outbox[a].status = "pending"
    BY DEF Pending
  <2>4. /\ outbox[a].attempts \in Nat
        /\ outbox[a].attempts + 1 <= posts[a]
    BY <2>1, <2>2, OutboxAssumption DEF IInv, PostsCovered, Row
  <2>5. /\ outbox' = [outbox EXCEPT ![a] = AfterAttempt(outbox[a], ok)]
        /\ AfterAttempt(outbox[a], ok).status =
             IF ok THEN "delivered"
             ELSE IF outbox[a].attempts + 1 >= MaxAttempts THEN "dead_letter" ELSE "pending"
    BY <1>6, <2>2, MarkedRow DEF ApplyMark
  <2>6. Status' = [Status EXCEPT ![a] = AfterAttempt(outbox[a], ok).status]
    BY <2>1, <2>5 DEF Status
  <2>7. CASE ok
    <3>1. ok = TRUE
      BY <2>7
    <3>2. accepted[a] > 0
      BY <1>6, <2>1, <3>1 DEF IInv, ConfirmationsCovered, ConfirmationOnItsWay
    <3>. QED BY <2>1, <2>3, <2>5, <2>6, <2>7, <3>2 DEF Delivery!Deliver, Status
  <2>8. CASE ~ok /\ outbox[a].attempts + 1 >= MaxAttempts
    <3>1. posts[a] >= MaxAttempts
      BY <2>4, <2>8, OutboxAssumption DEF IInv, TypeOK
    <3>. QED BY <2>1, <2>3, <2>5, <2>6, <2>8, <3>1 DEF Delivery!GiveUp, Status
  <2>9. CASE ~ok /\ ~(outbox[a].attempts + 1 >= MaxAttempts)
    <3>1. Status' = Status
      BY <2>3, <2>5, <2>6, <2>9 DEF Status
    <3>. QED BY <2>1, <3>1 DEF Status
  <2>. QED BY <2>7, <2>8, <2>9
<1>7. CASE Apply
  BY <1>5, <1>6, <1>7, FirstCall DEF Delivery!Next
<1>8. CASE UNCHANGED vars \/ TimeOut \/ RollBack
           \/ \E on \in Configurations : NotifierRestart(on)
  BY <1>1, <1>8 DEF vars, TimeOut, RollBack, NotifierRestart, Lose
<1>10. CASE Undo \/ CoreCrash
  <2>1. outbox' = Undone /\ UNCHANGED <<posts, accepted>>
    BY <1>10 DEF Undo, CoreCrash, Lose
  <2>2. \A b \in Alerts : Undone[b].status = IF outbox[b].status = "written" THEN "undone"
                                             ELSE outbox[b].status
    BY DEF Undone, IInv, TypeOK, Row
  <2>3. Status' = [b \in Alerts |-> IF Status[b] = "written" THEN "undone" ELSE Status[b]]
    BY <2>1, <2>2 DEF Status
  <2>. QED BY <2>1, <2>3 DEF Delivery!Undo, Delivery!Next, Status
<1>9. CASE StartCycle \/ HeartbeatAnswered \/ Fetch \/ Report \/ MarkAnswered \/ DeadmanAnswered
  BY <1>1, <1>9 DEF StartCycle, HeartbeatAnswered, Fetch, Report, MarkAnswered, DeadmanAnswered
<1>. QED BY <1>2, <1>3, <1>4, <1>7, <1>8, <1>9, <1>10 DEF Next, NotifierStep, Delivery!Next

(* The outbox and the notifier implement AlertDelivery: nothing settled is  *)
(* posted, a delivery was confirmed, a dead letter was tried MaxAttempts    *)
(* times, an end is final, and an alert that is rolled back is posted once  *)
(* at the most (due_notifications, run_once, mark_notification).            *)
THEOREM OutboxImplementsDelivery == Spec => ImplementsDelivery
<1>1. Init => Delivery!Init
  BY DEF Init, Delivery!Init
<1>. QED BY <1>1, Invariant, StepDelivers, PTL DEF Spec, ImplementsDelivery, Delivery!Spec
=============================================================================
