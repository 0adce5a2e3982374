-------------------------- MODULE CollectorProofs --------------------------
(***************************************************************************)
(* Proofs of the safety properties of Collector, for any number of         *)
(* attempts, logs, requests and troubles, any cache and any intervals.     *)
(*                                                                         *)
(* The argument is about time.  No tick passes during a call, so a node    *)
(* that has been quiet for a tick at its end has not moved since it began, *)
(* and what the call found is the present (CallIsCurrent).  From then on   *)
(* the age of the verdict and the quiet of the node grow together: as long *)
(* as the quiet is ahead, the verdict is true (BatchTrue).                 *)
(***************************************************************************)
EXTENDS Collector, WellFoundedInduction, TLAPS

-----------------------------------------------------------------------------
(* Numbers.                                                                *)

LEMMA Smallest ==
  ASSUME NEW T \in SUBSET Nat, T # {}
  PROVE  \E x \in T : \A y \in T : x <= y
<1> DEFINE R == OpToRel(<, Nat)
<1>1. IsWellFoundedOn(R, Nat)
  BY NatLessThanWellFounded
<1> HIDE DEF R
<1>2. \E x \in T : \A y \in T : <<y, x>> \notin R
  BY <1>1, WFMin
<1>3. \A x, y \in Nat : <<y, x>> \notin R => x <= y
  BY DEF R, OpToRel
<1> QED
  BY <1>2, <1>3

LEMMA Greatest ==
  ASSUME NEW bound \in Nat, NEW T \in SUBSET (0..bound), T # {}
  PROVE  Max(T) \in T /\ \A x \in T : x <= Max(T)
<1> DEFINE gaps == {gap \in Nat : \E x \in T : gap = bound - x}
<1>1. PICK least \in gaps : \A gap \in gaps : least <= gap
  <2>1. PICK x \in T : TRUE
    OBVIOUS
  <2>2. bound - x \in gaps
    BY <2>1
  <2> QED
    BY <2>2, Smallest
<1>2. PICK x \in T : least = bound - x
  OBVIOUS
<1>3. \A y \in T : x >= y
  <2> TAKE y \in T
  <2>1. bound - y \in gaps
    OBVIOUS
  <2> QED
    BY <1>1, <1>2, <2>1
<1> QED
  BY <1>3 DEF Max

LEMMA ConstantsAreNumbers ==
  /\ MaxAttempts \in Nat \ {0} /\ QuietCap \in Nat \ {0} /\ LogCache \in Nat \ {0}
  /\ Interval \in Nat \ {0} /\ MaxBackoff \in Nat \ {0} /\ MaxRequests \in Nat \ {0}
  /\ JitterPercent \in 0..50 /\ MaxTroubles \in Nat
  /\ StaleAfter \in Nat /\ StaleAfter < QuietCap
BY BackupAssumption, CollectorAssumption DEF StaleAfter

\* The backoff before jitter, up to the largest power of two that it uses.
LEMMA BackoffsAreNumbers == \A n \in 0..6 : Interval * 2 ^ n \in Nat
<1> SUFFICES ASSUME NEW n \in 0..6 PROVE Interval * 2 ^ n \in Nat
  OBVIOUS
<1>1. n \in {0, 1, 2, 3, 4, 5, 6}
  OBVIOUS
<1>2. /\ 2 ^ 0 \in Nat /\ 2 ^ 1 \in Nat /\ 2 ^ 2 \in Nat /\ 2 ^ 3 \in Nat
      /\ 2 ^ 4 \in Nat /\ 2 ^ 5 \in Nat /\ 2 ^ 6 \in Nat
  OBVIOUS
<1> DEFINE power == 2 ^ n
<1>3. power \in Nat
  BY <1>1, <1>2
<1> HIDE DEF power
<1>4. Interval * power \in Nat
  BY <1>3, ConstantsAreNumbers
<1> QED
  BY <1>4 DEF power

\* The backoff stops growing at the first power that reaches its limit, or the sixth.
LEMMA EnoughType == Enough \in 0..6
<1> DEFINE reaches(n) == n = 6 \/ Interval * 2 ^ n >= MaxBackoff
<1> DEFINE reaching == {n \in 0..6 : reaches(n)}
<1>1. PICK least \in reaching : \A n \in reaching : least <= n
  BY Smallest
<1>2. ASSUME NEW k \in 0..(least - 1) PROVE Interval * 2 ^ k < MaxBackoff
  <2>1. k \in 0..6 /\ k \notin reaching
    BY <1>1
  <2>2. Interval * 2 ^ k \in Nat
    BY <2>1, BackoffsAreNumbers, ConstantsAreNumbers
  <2> QED
    BY <2>1, <2>2, ConstantsAreNumbers
<1>3. reaches(least) /\ least \in 0..6
  OBVIOUS
<1> QED
  BY <1>2, <1>3 DEF Enough

LEMMA JitterIsSmall ==
  ASSUME NEW base \in Nat
  PROVE  (base * JitterPercent) \div 100 \in 0..base
<1>1. JitterPercent \in 0..50
  BY ConstantsAreNumbers
<1>2. base * JitterPercent \in Nat /\ base * JitterPercent <= base * 50
  BY <1>1
<1> QED
  BY <1>2

LEMMA WaitsType ==
  ASSUME NEW success \in BOOLEAN, NEW failures \in 0..Enough
  PROVE  Waits(success, failures) \subseteq 0..(2 * (Interval + MaxBackoff))
<1> DEFINE backoff == Smaller(MaxBackoff, Interval * 2 ^ Smaller(failures, 6))
<1> DEFINE base == IF success THEN Interval ELSE backoff
<1> DEFINE jitter == (base * JitterPercent) \div 100
<1>1. Smaller(failures, 6) \in 0..6
  BY EnoughType DEF Smaller
<1>2. Interval * 2 ^ Smaller(failures, 6) \in Nat
  BY <1>1, BackoffsAreNumbers, ConstantsAreNumbers
<1>3. backoff \in 0..MaxBackoff
  BY <1>2, ConstantsAreNumbers DEF Smaller
<1>4. Waits(success, failures) = (base - jitter)..(base + jitter)
  BY DEF Waits
<1> HIDE DEF backoff
<1>5. base \in Nat /\ base <= Interval + MaxBackoff
  BY <1>3, ConstantsAreNumbers
<1>6. jitter \in 0..base
  BY <1>5, JitterIsSmall
<1> HIDE DEF base, jitter
<1> QED
  BY <1>4, <1>5, <1>6, ConstantsAreNumbers

-----------------------------------------------------------------------------
(* The inductive invariant.                                                *)

\* How the log of a task that has ended reads.
FinalStatus(i) == IF attempt[i].guest = "absent" THEN "none"
                  ELSE IF attempt[i].guest = "finished" THEN "OK" ELSE "ERROR"

OneAtATime == \A i \in Attempts : i < Len(attempt) => attempt[i].ended

\* What is remembered will not change.
CacheIsTrue(entries) ==
  \A k \in DOMAIN entries :
    /\ entries[k].task \in Attempts /\ attempt[entries[k].task].ended
    /\ entries[k].status = FinalStatus(entries[k].task)

\* The logs that the call has read, or knows.
Seen(call) == LatestParents(call.listed) \ (call.todo \cup call.unread)

CallIsListed(call) ==
  /\ call.listed <= Len(attempt)
  /\ call.ended => \A i \in 1..call.listed : attempt[i].ended
  /\ call.todo \subseteq LatestParents(call.listed) /\ call.todo \cap call.unread = {}
  /\ \A i \in 1..MaxAttempts : i \notin Seen(call) => call.found[i] = "none"

\* The status of a task whose end the call knows of.
StatusNow(i) == IF attempt[i].guest = "started" /\ ~attempt[i].ended THEN "RUNNING"
                                                                  ELSE FinalStatus(i)

\* If the node has not moved for a tick, the call has seen all there is.
CallIsCurrent(call) ==
  quiet > 0 => /\ call.listed = Len(attempt) /\ call.ended = Idle
               /\ \A i \in Seen(call) : call.found[i] = StatusNow(i)

CallIsTrue(call) == CallIsListed(call) /\ CallIsCurrent(call)

\* What a verdict says of the attempts.
Truthful(verdict, passedOver) ==
  /\ verdict = "healthy" =>
       \E k \in Attempts : /\ Succeeded(k)
                           /\ \A j \in Attempts : j > k /\ Failed(j) => j \in passedOver
  /\ verdict = "failed" =>
       \E j \in Attempts : /\ ~Succeeded(j) \/ ~attempt[j].ended
                           /\ \A k \in Attempts : k > j /\ Succeeded(k) => k \in passedOver

\* A verdict is true as long as the node has been quiet for longer than it is old.
BatchTrue(batch) ==
  batch.age <= StaleAfter /\ quiet > batch.age => Truthful(batch.verdict, batch.passedOver)

IInv ==
  /\ TypeOK /\ OneAtATime /\ CacheIsTrue(cache)
  /\ poll.pc = "reading" => CallIsTrue(poll)
  /\ \A k \in DOMAIN inbox : BatchTrue(inbox[k])
  /\ BatchTrue(core)

-----------------------------------------------------------------------------
(* A call.                                                                 *)

Attempt == [kind : Kinds, guest : Phases, ended : BOOLEAN]
Entry == [task : 1..MaxAttempts, status : Statuses]
Poll == [pc : {"idle", "reading"}, listed : 0..MaxAttempts, ended : BOOLEAN,
         todo : SUBSET (1..MaxAttempts), found : [1..MaxAttempts -> Statuses],
         unread : SUBSET (1..MaxAttempts)]
Batch == [verdict : Verdicts, passedOver : SUBSET (1..MaxAttempts), age : Ages]

LEMMA BackupTyped ==
  ASSUME BackupTypeOK
  PROVE  /\ attempt \in Seq(Attempt) /\ cache \in Seq(Entry) /\ poll \in Poll
         /\ Len(attempt) \in 0..MaxAttempts /\ Attempts = 1..Len(attempt)
         /\ Len(attempt) \in Nat /\ Len(attempt) <= MaxAttempts
         /\ \A i \in Attempts : attempt[i] \in Attempt /\ i \in 1..MaxAttempts
<1>1. Len(attempt) \in Nat /\ Len(attempt) <= MaxAttempts
  BY DEF BackupTypeOK
<1>2. attempt \in Seq(Attempt) /\ cache \in Seq(Entry) /\ poll \in Poll
  BY DEF BackupTypeOK, Attempt, Entry, Poll
<1>3. Attempts = 1..Len(attempt)
  BY <1>2 DEF Attempts
<1>4. \A i \in Attempts : attempt[i] \in Attempt
  BY <1>2, <1>3
<1> QED
  BY <1>1, <1>2, <1>3, <1>4, ConstantsAreNumbers

LEMMA LatestParentsListed ==
  ASSUME NEW n
  PROVE  LatestParents(n) \subseteq Parents(n) /\ Parents(n) \subseteq 1..n
BY DEF LatestParents, Parents

\* Tasks keep their kind, so the same logs are looked at however far the node gets.
LEMMA LatestParentsKept ==
  ASSUME NEW n, \A i \in 1..n : attempt'[i].kind = attempt[i].kind
  PROVE  Parents(n)' = Parents(n) /\ LatestParents(n)' = LatestParents(n)
<1>1. Parents(n)' = Parents(n)
  BY DEF Parents
<1> QED
  BY <1>1 DEF LatestParents

LEMMA FinalStatusType ==
  ASSUME BackupTypeOK, NEW i \in Attempts
  PROVE  /\ FinalStatus(i) \in Statuses /\ StatusNow(i) \in Statuses
         /\ attempt[i].ended => StatusNow(i) = FinalStatus(i)
BY DEF FinalStatus, StatusNow, Statuses

\* What the log says, given what the call knows of the end of the task.
LEMMA GuestStatusIs ==
  ASSUME BackupTypeOK, NEW i \in Attempts
  PROVE  /\ GuestStatus(i) \in Statuses
         /\ ListedEnded(i) => GuestStatus(i) = FinalStatus(i)
         /\ ListedEnded(i) = attempt[i].ended => GuestStatus(i) = StatusNow(i)
<1>1. attempt[i].guest \in Phases /\ attempt[i].ended \in BOOLEAN
  BY BackupTyped DEF Attempt
<1> QED
  BY <1>1 DEF GuestStatus, FinalStatus, StatusNow, Phases, Statuses

\* The call knows the end of a task only if it has ended, and of all if it is current.
LEMMA EndsAreKnown ==
  ASSUME BackupTypeOK, OneAtATime, NEW i \in 1..poll.listed,
         poll.listed <= Len(attempt), poll.ended => \A j \in 1..poll.listed : attempt[j].ended
  PROVE  /\ i \in Attempts
         /\ ListedEnded(i) => attempt[i].ended
         /\ poll.listed = Len(attempt) /\ poll.ended = Idle => ListedEnded(i) = attempt[i].ended
<1>1. /\ poll.listed \in Nat /\ Len(attempt) \in Nat /\ Attempts = 1..Len(attempt)
      /\ poll.ended \in BOOLEAN
  BY BackupTyped, ConstantsAreNumbers DEF Poll
<1>2. i \in Attempts
  BY <1>1
<1>3. attempt[i].ended \in BOOLEAN
  BY <1>2, BackupTyped DEF Attempt
<1>4. ListedEnded(i) => attempt[i].ended
  BY <1>1, <1>2 DEF ListedEnded, OneAtATime
<1>5. ASSUME poll.listed = Len(attempt), poll.ended = Idle, attempt[i].ended
      PROVE  ListedEnded(i)
  <2>1. CASE i < poll.listed
    BY <2>1 DEF ListedEnded
  <2>2. CASE i = poll.listed
    <3>1. Idle
      BY <1>1, <1>5, <2>2 DEF Idle, OneAtATime
    <3> QED
      BY <1>5, <3>1 DEF ListedEnded
  <2> QED
    BY <1>1, <2>1, <2>2
<1>6. ListedEnded(i) \in BOOLEAN
  BY <1>1 DEF ListedEnded
<1> QED
  BY <1>2, <1>3, <1>4, <1>5, <1>6

LEMMA OnwardKeeps ==
  ASSUME BackupTypeOK, NEW call \in Poll, call.pc = "reading", NEW entries \in Seq(Entry),
         CacheIsTrue(entries), CallIsTrue(call)
  PROVE  /\ Onward(call, entries) \in Poll /\ Onward(call, entries).pc = "reading"
         /\ CallIsTrue(Onward(call, entries))
<1> DEFINE status(i) == {entries[k].status : k \in {k \in DOMAIN entries : entries[k].task = i}}
<1> DEFINE known == {i \in call.todo : \A j \in call.todo : j >= i => status(j) # {}}
<1> DEFINE found == [i \in 1..MaxAttempts |-> IF i \in known THEN CHOOSE st \in status(i) : TRUE
                                                             ELSE call.found[i]]
<1> DEFINE next == [call EXCEPT !.todo = call.todo \ known, !.found = found]
<1>1. /\ call.found \in [1..MaxAttempts -> Statuses] /\ DOMAIN call.found = 1..MaxAttempts
      /\ call.todo \subseteq 1..MaxAttempts
  BY DEF Poll
<1>2. Onward(call, entries) = next
  BY <1>1 DEF Onward
<1>3. ASSUME NEW i \in known
      PROVE  /\ i \in Attempts /\ attempt[i].ended
             /\ found[i] = FinalStatus(i) /\ FinalStatus(i) \in Statuses
  <2>1. i \in 1..MaxAttempts /\ status(i) # {}
    BY <1>1
  <2>2. \A st \in status(i) : i \in Attempts /\ attempt[i].ended /\ st = FinalStatus(i)
    BY DEF CacheIsTrue
  <2>3. (CHOOSE st \in status(i) : TRUE) \in status(i)
    BY <2>1
  <2> HIDE DEF status
  <2>4. i \in Attempts /\ attempt[i].ended /\ (CHOOSE st \in status(i) : TRUE) = FinalStatus(i)
    BY <2>2, <2>3
  <2> QED
    BY <2>1, <2>4, FinalStatusType
<1>4. \A i \in 1..MaxAttempts : i \notin known => found[i] = call.found[i]
  OBVIOUS
<1>5. found \in [1..MaxAttempts -> Statuses]
  <2>1. \A i \in 1..MaxAttempts : found[i] \in Statuses
    BY <1>1, <1>3, <1>4
  <2>2. found = [i \in 1..MaxAttempts |-> found[i]]
    OBVIOUS
  <2> HIDE DEF found
  <2> QED
    BY <2>1, <2>2
<1>6. known \subseteq call.todo
  OBVIOUS
<1> HIDE DEF found, known
<1>7. /\ next.todo = call.todo \ known /\ next.found = found /\ next.unread = call.unread
      /\ next.listed = call.listed /\ next.ended = call.ended /\ next.pc = call.pc
      /\ next \in Poll
  BY <1>1, <1>5 DEF Poll
<1> HIDE DEF next
<1>8. Seen(next) = Seen(call) \cup known /\ Seen(call) \cap known = {}
  BY <1>6, <1>7 DEF Seen, CallIsTrue, CallIsListed
<1>9. CallIsListed(next)
  BY <1>4, <1>6, <1>7, <1>8 DEF CallIsTrue, CallIsListed
<1>10. CallIsCurrent(next)
  <2> SUFFICES ASSUME quiet > 0, NEW i \in Seen(next) PROVE next.found[i] = StatusNow(i)
    BY <1>7 DEF CallIsTrue, CallIsCurrent
  <2>1. CASE i \in known
    BY <1>3, <1>7, <2>1, FinalStatusType
  <2>2. CASE i \notin known
    <3>1. i \in Seen(call) /\ i \in 1..MaxAttempts
      <4>1. i \in 1..call.listed /\ call.listed \in 0..MaxAttempts
        BY <1>7, LatestParentsListed DEF Seen, Poll
      <4> QED
        BY <1>8, <2>2, <4>1, ConstantsAreNumbers
    <3> QED
      BY <1>4, <1>7, <2>2, <3>1 DEF CallIsTrue, CallIsCurrent
  <2> QED
    BY <2>1, <2>2
<1> QED
  BY <1>2, <1>7, <1>9, <1>10 DEF CallIsTrue

-----------------------------------------------------------------------------
(* What the attempts say stays said while the node does nothing.           *)

LEMMA CallStillTrue ==
  ASSUME UNCHANGED <<attempt, quiet>>, CallIsTrue(poll')
  PROVE  CallIsTrue(poll)'
<1>1. \A n : LatestParents(n)' = LatestParents(n)
  BY LatestParentsKept
<1>2. Seen(poll)' = Seen(poll')
  BY <1>1 DEF Seen
<1>3. CallIsListed(poll)'
  BY <1>1, <1>2 DEF CallIsTrue, CallIsListed
<1>4. CallIsCurrent(poll)'
  BY <1>2 DEF CallIsTrue, CallIsCurrent, StatusNow, FinalStatus, Idle, Attempts
<1> QED
  BY <1>3, <1>4 DEF CallIsTrue

LEMMA CacheStillTrue ==
  ASSUME UNCHANGED attempt, CacheIsTrue(cache')
  PROVE  CacheIsTrue(cache)'
BY DEF CacheIsTrue, FinalStatus, Attempts

LEMMA BatchesStillTrue ==
  ASSUME UNCHANGED <<attempt, quiet>>
  PROVE  /\ (\A k \in DOMAIN inbox' : BatchTrue(inbox'[k]))
               => (\A k \in DOMAIN inbox : BatchTrue(inbox[k]))'
         /\ BatchTrue(core') => BatchTrue(core)'
BY DEF BatchTrue, Truthful, Succeeded, Failed, Attempts

LEMMA AgesTyped ==
  ASSUME TypeOK
  PROVE  /\ inbox \in Seq(Batch) /\ DOMAIN inbox = 1..Len(inbox) /\ Len(inbox) \in Nat
         /\ \A k \in DOMAIN inbox : inbox[k] \in Batch /\ inbox[k].age \in Nat
         /\ core.age \in Nat
<1>1. inbox \in Seq(Batch) /\ core.age \in Ages
  BY DEF TypeOK, Batch
<1>2. Ages \subseteq Nat
  BY ConstantsAreNumbers DEF Ages
<1>3. \A k \in DOMAIN inbox : inbox[k] \in Batch
  BY <1>1
<1>4. \A batch \in Batch : batch.age \in Nat
  BY <1>2 DEF Batch
<1>5. DOMAIN inbox = 1..Len(inbox) /\ Len(inbox) \in Nat
  BY <1>1
<1> QED
  BY <1>1, <1>2, <1>3, <1>4, <1>5

\* The node moves: its quiet is over, and an attempt that had ended remains.
LEMMA NodeMoves ==
  ASSUME IInv, quiet' = 0, attempt' \in Seq(Attempt),
         Len(attempt) <= Len(attempt'), Len(attempt') <= MaxAttempts,
         \A i \in Attempts : /\ attempt'[i].kind = attempt[i].kind
                             /\ attempt[i].ended => attempt'[i] = attempt[i],
         OneAtATime',
         UNCHANGED <<cache, poll, loop, inbox, core, troubles>>
  PROVE  IInv'
<1>1. /\ cache \in Seq(Entry) /\ poll \in Poll /\ Attempts = 1..Len(attempt)
      /\ Len(attempt) \in 0..MaxAttempts
  BY BackupTyped DEF IInv, TypeOK
<1>2. Len(attempt') \in Nat /\ Attempts' = 1..Len(attempt') /\ Attempts \subseteq Attempts'
  BY <1>1 DEF Attempts
<1>3. BackupTypeOK'
  BY ConstantsAreNumbers DEF IInv, TypeOK, BackupTypeOK, Attempt
<1>4. TypeOK'
  BY <1>3 DEF IInv, TypeOK
<1>5. CacheIsTrue(cache)'
  BY <1>2 DEF IInv, CacheIsTrue, FinalStatus
<1>6. ASSUME poll.pc = "reading"
      PROVE  CallIsTrue(poll)'
  <2>1. CallIsListed(poll) /\ poll.listed \in 0..MaxAttempts
    BY <1>1, <1>6 DEF IInv, CallIsTrue, Poll
  <2>2. \A i \in 1..poll.listed : i \in Attempts
    BY <1>1, <2>1, ConstantsAreNumbers DEF CallIsListed
  <2>3. LatestParents(poll.listed)' = LatestParents(poll.listed)
    BY <2>2, LatestParentsKept
  <2>4. Seen(poll)' = Seen(poll)
    BY <2>3 DEF Seen
  <2>5. poll.listed <= Len(attempt')
    BY <1>1, <1>2, <2>1, ConstantsAreNumbers DEF CallIsListed
  <2>6. CallIsListed(poll)'
    BY <2>1, <2>2, <2>3, <2>4, <2>5 DEF CallIsListed
  <2> QED
    BY <2>6 DEF CallIsTrue, CallIsCurrent
<1>7. (\A k \in DOMAIN inbox : BatchTrue(inbox[k]))' /\ BatchTrue(core)'
  <2>1. (\A k \in DOMAIN inbox : ~(quiet' > inbox[k].age)) /\ ~(quiet' > core.age)
    BY AgesTyped DEF IInv
  <2> QED
    BY <2>1 DEF BatchTrue
<1> QED
  BY <1>4, <1>5, <1>6, <1>7 DEF IInv

LEMMA StartAttemptKeeps ==
  ASSUME IInv, NEW kind \in Kinds, StartAttempt(kind), Rest
  PROVE  IInv'
<1> DEFINE new == [kind |-> kind, ended |-> FALSE,
                   guest |-> IF kind = "direct" THEN "started" ELSE "absent"]
<1>1. /\ attempt' = Append(attempt, new) /\ quiet' = 0 /\ Idle /\ Len(attempt) < MaxAttempts
      /\ UNCHANGED <<cache, poll, loop, inbox, core, troubles>>
  BY DEF StartAttempt, Rest
<1>2. /\ attempt \in Seq(Attempt) /\ Attempts = 1..Len(attempt) /\ Len(attempt) \in Nat
  BY BackupTyped DEF IInv, TypeOK
<1>3. new \in Attempt
  BY DEF Attempt, Phases, Kinds
<1> HIDE DEF new
<1>4. /\ attempt' \in Seq(Attempt) /\ Len(attempt') = Len(attempt) + 1
      /\ \A i \in Attempts : attempt'[i] = attempt[i]
  BY <1>1, <1>2, <1>3
<1>5. OneAtATime'
  <2>1. \A i \in 1..Len(attempt') : i < Len(attempt') => i \in Attempts
    BY <1>2, <1>4
  <2> QED
    BY <1>1, <1>4, <2>1 DEF Idle, OneAtATime, Attempts
<1> QED
  BY <1>1, <1>2, <1>4, <1>5, ConstantsAreNumbers, NodeMoves

\* The last attempt, which goes on, gets another status or ends.
LEMMA LastAttemptMoves ==
  ASSUME IInv, ~Idle, NEW row \in Attempt, row.kind = attempt[Len(attempt)].kind,
         attempt' = [attempt EXCEPT ![Len(attempt)] = row], quiet' = 0,
         UNCHANGED <<cache, poll, loop, inbox, core, troubles>>
  PROVE  IInv'
<1>1. /\ attempt \in Seq(Attempt) /\ Attempts = 1..Len(attempt) /\ Len(attempt) \in 0..MaxAttempts
  BY BackupTyped DEF IInv, TypeOK
<1>2. Len(attempt) \in Attempts /\ ~attempt[Len(attempt)].ended
  BY <1>1, ConstantsAreNumbers DEF IInv, Idle, OneAtATime
<1>3. /\ attempt' \in Seq(Attempt) /\ Len(attempt') = Len(attempt)
      /\ \A i \in Attempts : i # Len(attempt) => attempt'[i] = attempt[i]
      /\ attempt'[Len(attempt)] = row
  BY <1>1, <1>2
<1>4. OneAtATime'
  BY <1>1, <1>3, ConstantsAreNumbers DEF IInv, OneAtATime, Attempts
<1>5. \A i \in Attempts : /\ attempt'[i].kind = attempt[i].kind
                          /\ attempt[i].ended => attempt'[i] = attempt[i]
  BY <1>2, <1>3
<1>6. Len(attempt) <= Len(attempt') /\ Len(attempt') <= MaxAttempts
  <2>1. Len(attempt) \in Nat /\ Len(attempt) <= MaxAttempts
    BY BackupTyped DEF IInv, TypeOK
  <2>2. Len(attempt') = Len(attempt)
    BY <1>3
  <2> QED
    BY <2>1, <2>2
<1> QED
  BY <1>3, <1>4, <1>5, <1>6, NodeMoves

LEMMA NodeKeeps ==
  ASSUME IInv, Node, Rest
  PROVE  IInv'
<1>1. /\ attempt \in Seq(Attempt) /\ Attempts = 1..Len(attempt) /\ Len(attempt) \in 0..MaxAttempts
  BY BackupTyped DEF IInv, TypeOK
<1>2. ~Idle => attempt[Len(attempt)] \in Attempt
  BY <1>1, ConstantsAreNumbers DEF Idle
<1>3. ASSUME NEW phase \in Phases, WorkOnGuest(phase)
      PROVE  IInv'
  <2> DEFINE row == [attempt[Len(attempt)] EXCEPT !.guest = phase]
  <2>1. /\ attempt' = [attempt EXCEPT ![Len(attempt)] = row] /\ quiet' = 0 /\ ~Idle
        /\ UNCHANGED <<cache, poll, loop, inbox, core, troubles>>
    BY <1>3 DEF WorkOnGuest, Rest
  <2>2. row \in Attempt /\ row.kind = attempt[Len(attempt)].kind
    BY <1>2, <2>1 DEF Attempt
  <2> HIDE DEF row
  <2> QED
    BY <2>1, <2>2, LastAttemptMoves
<1>4. ASSUME EndAttempt
      PROVE  IInv'
  <2> DEFINE row == [attempt[Len(attempt)] EXCEPT !.ended = TRUE]
  <2>1. /\ attempt' = [attempt EXCEPT ![Len(attempt)] = row] /\ quiet' = 0 /\ ~Idle
        /\ UNCHANGED <<cache, poll, loop, inbox, core, troubles>>
    BY <1>4 DEF EndAttempt, Rest
  <2>2. row \in Attempt /\ row.kind = attempt[Len(attempt)].kind
    BY <1>2, <2>1 DEF Attempt
  <2> HIDE DEF row
  <2> QED
    BY <2>1, <2>2, LastAttemptMoves
<1> QED
  BY <1>3, <1>4, StartAttemptKeeps DEF Node

-----------------------------------------------------------------------------
(* The steps of a call.                                                    *)

LEMMA RememberedKeeps ==
  ASSUME BackupTypeOK, CacheIsTrue(cache), NEW i \in Attempts, NEW status \in Statuses,
         ListedEnded(i) => attempt[i].ended /\ status = FinalStatus(i)
  PROVE  /\ Remembered(i, status) \in Seq(Entry) /\ Len(Remembered(i, status)) <= LogCache
         /\ CacheIsTrue(Remembered(i, status))
<1> DEFINE kept == IF Len(cache) >= LogCache THEN Tail(cache) ELSE cache
<1> DEFINE entry == [task |-> i, status |-> status]
<1>1. /\ cache \in Seq(Entry) /\ Len(cache) \in Nat /\ Len(cache) <= LogCache
      /\ i \in 1..MaxAttempts
  BY BackupTyped DEF BackupTypeOK
<1>2. CASE ~ListedEnded(i)
  BY <1>1, <1>2 DEF Remembered
<1>3. CASE ListedEnded(i)
  <2>1. kept \in Seq(Entry) /\ Len(kept) \in Nat /\ Len(kept) < LogCache /\ CacheIsTrue(kept)
    <3>1. CASE Len(cache) >= LogCache
      <4>1. kept = Tail(cache) /\ cache # <<>>
        BY <1>1, <3>1, ConstantsAreNumbers
      <4>2. kept \in Seq(Entry) /\ Len(kept) = Len(cache) - 1
            /\ \A k \in 1..Len(kept) : kept[k] = cache[k + 1]
        BY <1>1, <4>1
      <4>3. \A k \in DOMAIN kept : k + 1 \in DOMAIN cache /\ kept[k] = cache[k + 1]
        BY <1>1, <4>2
      <4> HIDE DEF kept
      <4>4. CacheIsTrue(kept)
        BY <4>3 DEF CacheIsTrue
      <4> QED
        BY <1>1, <3>1, <4>1, <4>2, <4>4, ConstantsAreNumbers
    <3>2. CASE ~(Len(cache) >= LogCache)
      BY <1>1, <3>2, ConstantsAreNumbers
    <3> QED
      BY <3>1, <3>2
  <2> HIDE DEF kept
  <2>2. Remembered(i, status) = Append(kept, entry)
    BY <1>3 DEF Remembered, kept
  <2>3. entry \in Entry
    BY <1>1 DEF Entry
  <2>4. /\ Append(kept, entry) \in Seq(Entry) /\ Len(Append(kept, entry)) = Len(kept) + 1
        /\ \A k \in DOMAIN Append(kept, entry) :
             \/ k \in DOMAIN kept /\ Append(kept, entry)[k] = kept[k]
             \/ Append(kept, entry)[k] = entry
    BY <2>1, <2>3
  <2>5. CacheIsTrue(Append(kept, entry))
    BY <1>3, <2>1, <2>4 DEF CacheIsTrue
  <2> QED
    BY <2>1, <2>2, <2>4, <2>5, ConstantsAreNumbers
<1> QED
  BY <1>2, <1>3

\* A step that changes only the call and its cache.
LEMMA CallMoves ==
  ASSUME IInv, UNCHANGED <<attempt, quiet, inbox, core>>,
         cache' \in Seq(Entry), Len(cache') <= LogCache, CacheIsTrue(cache'),
         poll' \in Poll, poll'.pc = "reading" => CallIsTrue(poll')
  PROVE  /\ BackupTypeOK' /\ OneAtATime' /\ CacheIsTrue(cache)'
         /\ (poll.pc = "reading" => CallIsTrue(poll))'
         /\ (\A k \in DOMAIN inbox : BatchTrue(inbox[k]))' /\ BatchTrue(core)'
<1>1. BackupTypeOK'
  BY DEF IInv, TypeOK, BackupTypeOK, Entry, Poll
<1>2. OneAtATime'
  BY DEF IInv, OneAtATime, Attempts
<1>3. CacheIsTrue(cache)' /\ (poll.pc = "reading" => CallIsTrue(poll))'
  BY CacheStillTrue, CallStillTrue
<1>4. (\A k \in DOMAIN inbox' : BatchTrue(inbox'[k])) /\ BatchTrue(core')
  BY DEF IInv
<1>5. (\A k \in DOMAIN inbox : BatchTrue(inbox[k]))' /\ BatchTrue(core)'
  BY <1>4, BatchesStillTrue
<1> QED
  BY <1>1, <1>2, <1>3, <1>5

\* A call begins with all the logs to read.
LEMMA BeginPollKeeps ==
  ASSUME IInv, BeginPoll
  PROVE  IInv'
<1> DEFINE call == [NoPoll EXCEPT !.pc = "reading", !.listed = Len(attempt), !.ended = Idle,
                                  !.todo = LatestParents(Len(attempt))]
<1>1. /\ poll' = Onward(call, cache) /\ loop.pc = "waiting" /\ poll.pc = "idle"
      /\ loop' = [loop EXCEPT !.pc = "collecting"]
      /\ UNCHANGED <<attempt, quiet, cache, inbox, core, troubles>>
  BY DEF BeginPoll, ListTasks, Due
<1>2. /\ BackupTypeOK /\ cache \in Seq(Entry) /\ Len(cache) <= LogCache
      /\ Len(attempt) \in Nat /\ Len(attempt) <= MaxAttempts /\ Attempts = 1..Len(attempt)
  BY BackupTyped DEF IInv, TypeOK, BackupTypeOK
<1>3. LatestParents(Len(attempt)) \subseteq Attempts /\ Attempts \subseteq 1..MaxAttempts
  BY <1>2, LatestParentsListed, ConstantsAreNumbers
<1>4. NoPoll \in Poll /\ NoPoll.unread = {} /\ NoPoll.found = [i \in 1..MaxAttempts |-> "none"]
  BY ConstantsAreNumbers DEF NoPoll, Poll, Statuses
<1>5. /\ call \in Poll /\ call.pc = "reading" /\ call.listed = Len(attempt) /\ call.ended = Idle
      /\ call.todo = LatestParents(Len(attempt))
      /\ call.unread = {} /\ call.found = [i \in 1..MaxAttempts |-> "none"]
  <2>1. Idle \in BOOLEAN
    BY DEF Idle
  <2>2. Len(attempt) \in 0..MaxAttempts
    BY <1>2, ConstantsAreNumbers
  <2> QED
    BY <1>3, <1>4, <2>1, <2>2 DEF Poll
<1> HIDE DEF call
<1>6. Seen(call) = {}
  BY <1>5 DEF Seen
<1>7. CallIsTrue(call)
  BY <1>2, <1>5, <1>6 DEF CallIsTrue, CallIsListed, CallIsCurrent, Idle
<1>8. poll' \in Poll /\ poll'.pc = "reading" /\ CallIsTrue(poll')
  BY <1>1, <1>2, <1>5, <1>7, OnwardKeeps DEF IInv
<1>9. TypeOK'
  <2>1. /\ loop' \in [pc : {"waiting", "collecting", "answer", "down"},
                      wait : 0..(2 * (Interval + MaxBackoff)), failures : 0..Enough]
        /\ loop'.pc = "collecting"
    BY <1>1 DEF IInv, TypeOK
  <2> QED
    BY <1>1, <1>2, <1>8, <2>1, CallMoves DEF IInv, TypeOK
<1> QED
  BY <1>1, <1>2, <1>8, <1>9, CallMoves DEF IInv

LEMMA TurnIsNext ==
  ASSUME IInv, Requesting
  PROVE  /\ Turn \in poll.todo /\ Turn \in LatestParents(poll.listed) /\ Turn \in Attempts
         /\ Turn \in 1..MaxAttempts /\ Turn \in 1..poll.listed
<1>1. /\ poll \in Poll /\ CallIsListed(poll) /\ poll.todo # {}
      /\ Len(attempt) \in Nat /\ Attempts = 1..Len(attempt) /\ BackupTypeOK
  BY BackupTyped DEF IInv, TypeOK, Requesting, CallIsTrue
<1>2. poll.todo \in SUBSET (0..MaxAttempts) /\ poll.todo \subseteq 1..MaxAttempts
  BY <1>1 DEF Poll
<1>3. Turn \in poll.todo
  BY <1>1, <1>2, Greatest, ConstantsAreNumbers DEF Turn
<1>4. Turn \in LatestParents(poll.listed) /\ Turn \in 1..poll.listed
  BY <1>1, <1>3, LatestParentsListed DEF CallIsListed
<1>5. poll.listed \in Nat /\ poll.listed <= Len(attempt)
  BY <1>1, ConstantsAreNumbers DEF Poll, CallIsListed
<1> QED
  BY <1>1, <1>2, <1>3, <1>4, <1>5

LEMMA ReadLogKeeps ==
  ASSUME IInv, ReadLog, Rest
  PROVE  IInv'
<1> DEFINE status == GuestStatus(Turn)
<1> DEFINE call == [poll EXCEPT !.todo = @ \ {Turn}, !.found[Turn] = status]
<1>1. /\ Requesting /\ cache' = Remembered(Turn, status) /\ poll' = Onward(call, cache')
      /\ UNCHANGED <<attempt, quiet, loop, inbox, core, troubles>>
  BY DEF ReadLog, Rest
<1>2. /\ Turn \in poll.todo /\ Turn \in LatestParents(poll.listed) /\ Turn \in Attempts
      /\ Turn \in 1..MaxAttempts /\ Turn \in 1..poll.listed
  BY <1>1, TurnIsNext
<1>3. /\ poll \in Poll /\ poll.pc = "reading" /\ CallIsTrue(poll) /\ CallIsListed(poll)
      /\ BackupTypeOK
  BY <1>1, BackupTyped DEF IInv, TypeOK, Requesting, CallIsTrue
<1>4. /\ ListedEnded(Turn) => attempt[Turn].ended
      /\ poll.listed = Len(attempt) /\ poll.ended = Idle => ListedEnded(Turn) = attempt[Turn].ended
  BY <1>2, <1>3, EndsAreKnown DEF IInv, CallIsListed
<1>5. /\ status \in Statuses /\ (ListedEnded(Turn) => status = FinalStatus(Turn))
      /\ (ListedEnded(Turn) = attempt[Turn].ended => status = StatusNow(Turn))
  BY <1>2, <1>3, GuestStatusIs
<1> HIDE DEF status
<1>6. cache' \in Seq(Entry) /\ Len(cache') <= LogCache /\ CacheIsTrue(cache')
  BY <1>1, <1>2, <1>3, <1>4, <1>5, RememberedKeeps DEF IInv
<1>7. /\ call.pc = "reading" /\ call.listed = poll.listed /\ call.ended = poll.ended
      /\ call.todo = poll.todo \ {Turn} /\ call.unread = poll.unread
      /\ call.found = [poll.found EXCEPT ![Turn] = status]
      /\ call \in Poll
  BY <1>2, <1>3, <1>5 DEF Poll
<1> HIDE DEF call
<1>8. Seen(call) = Seen(poll) \cup {Turn}
  BY <1>2, <1>3, <1>7 DEF Seen, CallIsListed
<1>9. CallIsTrue(call)
  <2>1. DOMAIN poll.found = 1..MaxAttempts
    BY <1>3 DEF Poll
  <2>2. /\ call.found[Turn] = status
        /\ \A i \in 1..MaxAttempts : i # Turn => call.found[i] = poll.found[i]
    BY <1>2, <1>7, <2>1
  <2>3. CallIsListed(call)
    BY <1>3, <1>7, <1>8, <2>2 DEF CallIsListed
  <2>4. CallIsCurrent(call)
    <3> SUFFICES ASSUME quiet > 0, NEW i \in Seen(call) PROVE call.found[i] = StatusNow(i)
      BY <1>3, <1>7 DEF CallIsTrue, CallIsCurrent
    <3>1. CASE i = Turn
      BY <1>3, <1>4, <1>5, <2>2, <3>1 DEF CallIsTrue, CallIsCurrent
    <3>2. CASE i # Turn
      <4>1. i \in Seen(poll)
        BY <1>8, <3>2
      <4>2. i \in 1..poll.listed /\ poll.listed \in 0..MaxAttempts
        BY <1>3, <4>1, LatestParentsListed DEF Seen, Poll
      <4>3. i \in 1..MaxAttempts
        BY <4>2, ConstantsAreNumbers
      <4> QED
        BY <1>3, <2>2, <3>2, <4>1, <4>3 DEF CallIsTrue, CallIsCurrent
    <3> QED
      BY <3>1, <3>2
  <2> QED
    BY <2>3, <2>4 DEF CallIsTrue
<1>10. poll' \in Poll /\ poll'.pc = "reading" /\ CallIsTrue(poll')
  BY <1>1, <1>3, <1>6, <1>7, <1>9, OnwardKeeps
<1>11. TypeOK'
  BY <1>1, <1>3, <1>6, <1>10, CallMoves DEF IInv, TypeOK
<1> QED
  BY <1>1, <1>6, <1>10, <1>11, CallMoves DEF IInv

LEMMA LogUnreadableKeeps ==
  ASSUME IInv, LogUnreadable, Rest
  PROVE  IInv'
<1> DEFINE call == [poll EXCEPT !.todo = @ \ {Turn}, !.unread = @ \cup {Turn}]
<1>1. /\ Requesting /\ poll' = Onward(call, cache)
      /\ UNCHANGED <<attempt, quiet, cache, loop, inbox, core, troubles>>
  BY DEF LogUnreadable, Rest
<1>2. Turn \in poll.todo /\ Turn \in 1..MaxAttempts
  BY <1>1, TurnIsNext
<1>3. /\ poll \in Poll /\ poll.pc = "reading" /\ CallIsTrue(poll) /\ CallIsListed(poll)
      /\ BackupTypeOK /\ cache \in Seq(Entry) /\ Len(cache) <= LogCache
  BY <1>1, BackupTyped DEF IInv, TypeOK, Requesting, CallIsTrue, BackupTypeOK
<1>4. /\ call.pc = "reading" /\ call.listed = poll.listed /\ call.ended = poll.ended
      /\ call.todo = poll.todo \ {Turn} /\ call.unread = poll.unread \cup {Turn}
      /\ call.found = poll.found /\ call \in Poll
  BY <1>2, <1>3 DEF Poll
<1> HIDE DEF call
<1>5. Seen(call) = Seen(poll)
  BY <1>2, <1>4 DEF Seen
<1>6. CallIsTrue(call)
  BY <1>3, <1>4, <1>5 DEF CallIsTrue, CallIsListed, CallIsCurrent
<1>7. poll' \in Poll /\ poll'.pc = "reading" /\ CallIsTrue(poll')
  BY <1>1, <1>3, <1>4, <1>6, OnwardKeeps DEF IInv
<1>8. TypeOK'
  BY <1>1, <1>3, <1>7, CallMoves DEF IInv, TypeOK
<1> QED
  BY <1>1, <1>3, <1>7, <1>8, CallMoves DEF IInv

-----------------------------------------------------------------------------
(* The end of a call and its verdict.                                      *)

LEMMA NoPollTyped == NoPoll \in Poll /\ NoPoll.pc = "idle"
BY ConstantsAreNumbers DEF NoPoll, Poll, Statuses

LoopType == [pc : {"waiting", "collecting", "answer", "down"},
             wait : 0..(2 * (Interval + MaxBackoff)), failures : 0..Enough]

LEMMA RescheduleKeeps ==
  ASSUME TypeOK, NEW success \in BOOLEAN, Reschedule(success)
  PROVE  loop' \in LoopType /\ loop'.pc = "waiting"
<1> DEFINE failures == IF success THEN 0 ELSE Smaller(loop.failures + 1, Enough)
<1>1. PICK wait \in Waits(success, failures) :
        loop' = [pc |-> "waiting", wait |-> wait, failures |-> failures]
  BY DEF Reschedule
<1>2. failures \in 0..Enough
  BY EnoughType DEF TypeOK, Smaller
<1>3. wait \in 0..(2 * (Interval + MaxBackoff))
  BY <1>1, <1>2, WaitsType
<1> HIDE DEF failures
<1> QED
  BY <1>1, <1>2, <1>3 DEF LoopType

\* A verdict that is reported while the node has been quiet for a tick is true.
LEMMA ConclusionIsTrue ==
  ASSUME IInv, Concluded, NEW verdict \in Verdicts, MayConclude(verdict), quiet > 0
  PROVE  Truthful(verdict, PassedOver(verdict))
<1>1. /\ poll \in Poll /\ poll.pc = "reading" /\ CallIsListed(poll) /\ poll.todo = {}
      /\ poll.listed = Len(attempt) /\ poll.ended = Idle
      /\ \A i \in Seen(poll) : poll.found[i] = StatusNow(i)
      /\ BackupTypeOK
  BY BackupTyped DEF IInv, TypeOK, Concluded, CallIsTrue, CallIsCurrent
<1>2. /\ Attempts = 1..poll.listed /\ poll.listed \in Nat /\ poll.listed <= MaxAttempts
      /\ \A i \in Attempts : attempt[i] \in Attempt /\ i \in 1..MaxAttempts
  BY <1>1, BackupTyped
<1>3. Matches \subseteq Attempts /\ Matches \in SUBSET (0..MaxAttempts)
  BY <1>2, ConstantsAreNumbers DEF Matches
<1>4. ASSUME NEW i \in Attempts
      PROVE  ListedEnded(i) = attempt[i].ended
  BY <1>1, <1>2, EndsAreKnown DEF IInv, CallIsListed
<1>5. ASSUME NEW i \in Attempts
      PROVE  /\ StatusOf(i) = "OK" => Succeeded(i)
             /\ Succeeded(i) /\ attempt[i].ended => StatusOf(i) = "OK" \/ StatusOf(i) = "none"
             /\ StatusOf(i) \notin {"none", "RUNNING", "OK"} => ~Succeeded(i) \/ ~attempt[i].ended
             /\ Failed(i) \/ Succeeded(i) => StatusOf(i) # "none" \/ i \in poll.unread
                             \/ i \in Parents(poll.listed) \ LatestParents(poll.listed)
             /\ Succeeded(i) => StatusOf(i) \in {"OK", "none", "unknown"}
  <2>1. attempt[i].guest \in Phases /\ attempt[i].ended \in BOOLEAN /\ attempt[i].kind \in Kinds
    BY <1>2 DEF Attempt
  <2>2. CASE attempt[i].kind = "direct"
    BY <1>4, <2>1, <2>2 DEF StatusOf, DirectStatus, Succeeded, Failed, Phases
  <2>3. CASE attempt[i].kind = "parent"
    <3>1. StatusOf(i) = poll.found[i] /\ i \in Parents(poll.listed) /\ i \in 1..MaxAttempts
      BY <1>2, <2>3 DEF StatusOf, Parents
    <3>2. CASE i \in Seen(poll)
      BY <1>1, <2>1, <3>1, <3>2 DEF StatusNow, FinalStatus, Succeeded, Failed, Phases
    <3>3. CASE i \notin Seen(poll)
      BY <1>1, <3>1, <3>3 DEF CallIsListed, Seen
    <3> QED
      BY <3>2, <3>3
  <2> QED
    BY <2>1, <2>2, <2>3 DEF Kinds
<1>6. CASE verdict \in {"healthy", "failed"}
  <2>1. Matches # {}
    BY <1>6 DEF MayConclude
  <2> DEFINE k == Max(Matches)
  <2>2. k \in Matches /\ \A i \in Matches : i <= k
    BY <1>3, <2>1, Greatest, ConstantsAreNumbers
  <2>3. PassedOver(verdict) = {i \in poll.unread \cup (Parents(poll.listed)
                                       \ LatestParents(poll.listed)) : i > k}
    BY <1>6 DEF PassedOver
  <2>4. MayConclude(verdict) = CASE StatusOf(k) = "RUNNING" -> verdict = "running"
                                 [] StatusOf(k) \notin {"RUNNING", "OK"} -> verdict = "failed"
                                 [] OTHER -> verdict \in {"healthy", "stale"}
    BY <2>1 DEF MayConclude
  <2> HIDE DEF k
  <2>5. k \in Attempts /\ StatusOf(k) # "none"
    BY <1>3, <2>2 DEF Matches
  <2>6. /\ verdict = "healthy" => StatusOf(k) = "OK"
        /\ verdict = "failed" => StatusOf(k) \notin {"RUNNING", "OK"}
    BY <2>4
  <2>7. ASSUME NEW j \in Attempts, j > k, Failed(j) \/ Succeeded(j)
        PROVE  j \in PassedOver(verdict)
    <3>1. j \notin Matches
      BY <1>2, <2>2, <2>5, <2>7
    <3>2. StatusOf(j) = "none"
      BY <1>2, <3>1 DEF Matches
    <3> QED
      BY <1>5, <2>3, <2>7, <3>2
  <2> QED
    BY <1>5, <2>5, <2>6, <2>7 DEF Truthful
<1>7. CASE verdict \notin {"healthy", "failed"}
  BY <1>7 DEF Truthful
<1> QED
  BY <1>6, <1>7

\* The end of a call hands a batch over that is true, or starts to wait.
LEMMA SubmitKeeps ==
  ASSUME IInv, NEW verdict \in Verdicts, NEW passedOver \in SUBSET (1..MaxAttempts),
         Submit(verdict, passedOver), quiet > 0 => Truthful(verdict, passedOver),
         UNCHANGED <<attempt, quiet, cache, core, troubles>>
  PROVE  IInv'
<1> DEFINE batch == [verdict |-> verdict, passedOver |-> passedOver, age |-> 0]
<1>1. poll' = NoPoll /\ poll' \in Poll /\ poll'.pc = "idle"
  BY NoPollTyped DEF Submit
<1>2. batch \in Batch /\ BatchTrue(batch)
  BY ConstantsAreNumbers DEF Batch, Ages, BatchTrue
<1>3. /\ inbox \in Seq(Batch) /\ DOMAIN inbox = 1..Len(inbox) /\ Len(inbox) \in Nat
      /\ Len(inbox) <= MaxRequests /\ loop \in LoopType
  BY AgesTyped DEF IInv, TypeOK, LoopType
<1> HIDE DEF batch
<1>4. /\ inbox' \in Seq(Batch) /\ Len(inbox') <= MaxRequests
      /\ \A k \in DOMAIN inbox' : BatchTrue(inbox'[k])
      /\ loop' \in LoopType /\ loop'.pc # "collecting"
  <2>1. CASE Len(inbox) < MaxRequests /\ inbox' = Append(inbox, batch)
             /\ loop' = [loop EXCEPT !.pc = "answer"]
    <3>1. /\ inbox' \in Seq(Batch) /\ Len(inbox') = Len(inbox) + 1
          /\ \A k \in DOMAIN inbox' : \/ k \in DOMAIN inbox /\ inbox'[k] = inbox[k]
                                      \/ inbox'[k] = batch
      BY <1>2, <1>3, <2>1
    <3>2. \A k \in DOMAIN inbox' : BatchTrue(inbox'[k])
      BY <1>2, <3>1 DEF IInv
    <3>3. loop' \in LoopType /\ loop'.pc = "answer"
      BY <1>3, <2>1 DEF LoopType
    <3> QED
      BY <1>3, <2>1, <3>1, <3>2, <3>3, ConstantsAreNumbers
  <2>2. CASE Reschedule(FALSE) /\ UNCHANGED inbox
    BY <1>3, <2>2, RescheduleKeeps DEF IInv
  <2> QED
    BY <2>1, <2>2 DEF Submit, batch
<1>5. BackupTypeOK /\ cache \in Seq(Entry) /\ Len(cache) <= LogCache
  BY BackupTyped DEF IInv, TypeOK, BackupTypeOK
<1>6. BackupTypeOK' /\ OneAtATime'
  BY <1>1, <1>5 DEF IInv, BackupTypeOK, Poll, OneAtATime, Attempts
<1>7. TypeOK'
  BY <1>1, <1>4, <1>6 DEF IInv, TypeOK, LoopType, Batch
<1>8. CacheIsTrue(cache)'
  BY CacheStillTrue DEF IInv
<1>9. (\A k \in DOMAIN inbox : BatchTrue(inbox[k]))' /\ BatchTrue(core)'
  BY <1>4, BatchesStillTrue DEF IInv
<1> QED
  BY <1>1, <1>6, <1>7, <1>8, <1>9 DEF IInv

LEMMA EndOfCallKeeps ==
  ASSUME IInv, ListFails \/ Conclude \/ Expire
  PROVE  IInv'
<1>1. CASE ListFails \/ Expire
  <2>1. Submit("unavailable", {}) /\ UNCHANGED <<attempt, quiet, cache, core, troubles>>
    BY <1>1 DEF ListFails, Expire
  <2>2. Truthful("unavailable", {}) /\ "unavailable" \in Verdicts
    BY DEF Truthful, Verdicts
  <2> QED
    BY <2>1, <2>2, SubmitKeeps
<1>2. CASE Conclude
  <2>1. PICK verdict \in Verdicts :
          /\ Concluded /\ MayConclude(verdict) /\ Submit(verdict, PassedOver(verdict))
          /\ UNCHANGED <<attempt, quiet, cache, core, troubles>>
    BY <1>2 DEF Conclude
  <2>2. PassedOver(verdict) \in SUBSET (1..MaxAttempts)
    <3>1. poll \in Poll
      BY BackupTyped DEF IInv, TypeOK
    <3>2. Parents(poll.listed) \subseteq 1..MaxAttempts /\ poll.unread \subseteq 1..MaxAttempts
      BY <3>1, ConstantsAreNumbers DEF Poll, Parents
    <3> QED
      BY <3>2 DEF PassedOver
  <2> QED
    BY <2>1, <2>2, ConclusionIsTrue, SubmitKeeps
<1> QED
  BY <1>1, <1>2

-----------------------------------------------------------------------------
(* The answer, the core and the restarts.                                  *)

\* What the steps of the loop and of the core leave to the provider stays as it is.
LEMMA ProviderStays ==
  ASSUME IInv, UNCHANGED <<attempt, quiet, cache, poll>>
  PROVE  /\ BackupTypeOK' /\ OneAtATime' /\ CacheIsTrue(cache)'
         /\ (poll.pc = "reading" => CallIsTrue(poll))'
<1>1. BackupTypeOK' /\ OneAtATime'
  BY DEF IInv, TypeOK, BackupTypeOK, OneAtATime, Attempts
<1>2. CacheIsTrue(cache)' /\ (poll.pc = "reading" => CallIsTrue(poll))'
  BY CacheStillTrue, CallStillTrue DEF IInv
<1> QED
  BY <1>1, <1>2

Core == [up : BOOLEAN, age : Ages,
         verdict : Verdicts \cup {Unknown}, passedOver : SUBSET (1..MaxAttempts)]

\* The part of the invariant that such a step has to care for.
LEMMA CoreSteps ==
  ASSUME IInv, UNCHANGED <<attempt, quiet, cache, poll>>,
         loop' \in LoopType, (loop'.pc = "collecting") = (loop.pc = "collecting"),
         inbox' \in Seq(Batch), Len(inbox') <= MaxRequests,
         \A k \in DOMAIN inbox' : BatchTrue(inbox'[k]),
         core' \in Core, BatchTrue(core'), troubles' \in 0..MaxTroubles
  PROVE  IInv'
<1>1. /\ BackupTypeOK' /\ OneAtATime' /\ CacheIsTrue(cache)'
      /\ (poll.pc = "reading" => CallIsTrue(poll))'
  BY ProviderStays
<1>2. TypeOK'
  BY <1>1 DEF IInv, TypeOK, LoopType, Batch, Core
<1>3. (\A k \in DOMAIN inbox : BatchTrue(inbox[k]))' /\ BatchTrue(core)'
  BY BatchesStillTrue
<1> QED
  BY <1>1, <1>2, <1>3 DEF IInv

LEMMA RestTyped ==
  ASSUME IInv
  PROVE  /\ loop \in LoopType /\ core \in Core /\ inbox \in Seq(Batch)
         /\ Len(inbox) \in Nat /\ Len(inbox) <= MaxRequests /\ DOMAIN inbox = 1..Len(inbox)
         /\ troubles \in 0..MaxTroubles /\ MaxTroubles \in Nat
         /\ \A k \in DOMAIN inbox : BatchTrue(inbox[k]) /\ inbox[k] \in Batch
         /\ BatchTrue(core)
BY AgesTyped, ConstantsAreNumbers DEF IInv, TypeOK, LoopType, Core, Batch

\* Troubles are counted up to their bound.
LEMMA TroublesCounted ==
  ASSUME IInv, Troubled \/ UNCHANGED troubles
  PROVE  troubles' \in 0..MaxTroubles
BY RestTyped DEF Troubled

LEMMA GiveUpKeeps ==
  ASSUME IInv, GiveUp
  PROVE  IInv'
<1>1. /\ loop.pc = "answer" /\ Reschedule(FALSE)
      /\ Troubled \/ UNCHANGED troubles
      /\ UNCHANGED <<attempt, quiet, cache, poll, inbox, core>>
  BY DEF GiveUp
<1>2. loop' \in LoopType /\ loop'.pc = "waiting"
  BY <1>1, RescheduleKeeps DEF IInv
<1> QED
  BY <1>1, <1>2, RestTyped, TroublesCounted, CoreSteps

\* The answer to the oldest request leaves the others, in their order.
LEMMA AnswerKeeps ==
  ASSUME IInv, inbox # <<>>, NEW success \in BOOLEAN, Answer(success),
         inbox' = Tail(inbox)
  PROVE  /\ loop' \in LoopType /\ (loop'.pc = "collecting") = (loop.pc = "collecting")
         /\ inbox' \in Seq(Batch) /\ Len(inbox') <= MaxRequests
         /\ \A k \in DOMAIN inbox' : BatchTrue(inbox'[k])
<1>1. loop' \in LoopType /\ (loop'.pc = "collecting") = (loop.pc = "collecting")
  <2>1. CASE loop.pc = "answer" /\ Reschedule(success)
    BY <2>1, RescheduleKeeps DEF IInv
  <2>2. CASE UNCHANGED loop
    BY <2>2, RestTyped
  <2> QED
    BY <2>1, <2>2 DEF Answer
<1>2. /\ inbox' \in Seq(Batch) /\ Len(inbox') = Len(inbox) - 1 /\ Len(inbox) > 0
      /\ \A k \in 1..(Len(inbox) - 1) : inbox'[k] = inbox[k + 1]
  BY RestTyped
<1>3. \A k \in DOMAIN inbox' : BatchTrue(inbox'[k])
  <2> SUFFICES ASSUME NEW k \in DOMAIN inbox' PROVE BatchTrue(inbox'[k])
    OBVIOUS
  <2>1. k \in 1..(Len(inbox) - 1) /\ Len(inbox) \in Nat
    BY <1>2, RestTyped
  <2>2. k + 1 \in DOMAIN inbox /\ inbox'[k] = inbox[k + 1]
    BY <1>2, <2>1, RestTyped
  <2> QED
    BY <2>2, RestTyped
<1> QED
  BY <1>1, <1>2, <1>3, RestTyped, ConstantsAreNumbers

\* What the core records is what it was told, and as true.
LEMMA IngestKeeps ==
  ASSUME IInv, Ingest
  PROVE  IInv'
<1> DEFINE request == inbox[1]
<1>1. /\ inbox # <<>> /\ core' = Recorded(Head(inbox)) /\ Answer(Trusted(Head(inbox)))
      /\ inbox' = Tail(inbox) /\ UNCHANGED <<attempt, quiet, cache, poll, troubles>>
  BY DEF Ingest
<1>2. /\ request \in Batch /\ BatchTrue(request) /\ Head(inbox) = request
      /\ Trusted(Head(inbox)) \in BOOLEAN
  BY <1>1, RestTyped DEF Trusted
<1> HIDE DEF request
<1>3. /\ core' \in Core /\ core'.age = request.age /\ core'.verdict = request.verdict
      /\ core'.passedOver = request.passedOver
  BY <1>1, <1>2, RestTyped DEF Recorded, Core, Batch
<1>4. BatchTrue(core')
  BY <1>2, <1>3 DEF BatchTrue
<1> QED
  BY <1>1, <1>2, <1>3, <1>4, AnswerKeeps, RestTyped, CoreSteps

LEMMA IngestFailsKeeps ==
  ASSUME IInv, IngestFails
  PROVE  IInv'
<1>1. /\ inbox # <<>> /\ Answer(FALSE) /\ inbox' = Tail(inbox) /\ Troubled
      /\ UNCHANGED <<attempt, quiet, cache, poll, core>>
  BY DEF IngestFails
<1> QED
  BY <1>1, AnswerKeeps, RestTyped, TroublesCounted, CoreSteps

LEMMA CoreRestartKeeps ==
  ASSUME IInv, CoreCrash \/ CoreStart
  PROVE  IInv'
<1>1. /\ \E up \in BOOLEAN : core' = [core EXCEPT !.up = up]
      /\ inbox' = <<>> \/ UNCHANGED inbox
      /\ Troubled \/ UNCHANGED troubles
      /\ UNCHANGED <<attempt, quiet, cache, poll, loop>>
  BY DEF CoreCrash, CoreStart
<1>2. /\ core' \in Core /\ core'.age = core.age /\ core'.verdict = core.verdict
      /\ core'.passedOver = core.passedOver
  BY <1>1, RestTyped DEF Core
<1>3. BatchTrue(core')
  BY <1>2, RestTyped DEF BatchTrue
<1>4. /\ inbox' \in Seq(Batch) /\ Len(inbox') <= MaxRequests
      /\ \A k \in DOMAIN inbox' : BatchTrue(inbox'[k])
  <2>1. CASE inbox' = <<>>
    BY <2>1, ConstantsAreNumbers
  <2>2. CASE UNCHANGED inbox
    BY <2>2, RestTyped
  <2> QED
    BY <1>1, <2>1, <2>2
<1> QED
  BY <1>1, <1>2, <1>3, <1>4, RestTyped, TroublesCounted, CoreSteps

\* The collector forgets its call and its cache.
LEMMA CollectorCrashKeeps ==
  ASSUME IInv, CollectorCrash
  PROVE  IInv'
<1>1. /\ cache' = <<>> /\ poll' = NoPoll /\ Troubled
      /\ loop' = [pc |-> "down", wait |-> 0, failures |-> 0]
      /\ UNCHANGED <<attempt, quiet, inbox, core>>
  BY DEF CollectorCrash
<1>2. cache' \in Seq(Entry) /\ Len(cache') <= LogCache /\ CacheIsTrue(cache')
  BY <1>1, ConstantsAreNumbers DEF CacheIsTrue
<1>3. poll' \in Poll /\ poll'.pc = "idle"
  BY <1>1, NoPollTyped
<1>4. loop' \in LoopType /\ loop'.pc = "down"
  BY <1>1, EnoughType, ConstantsAreNumbers DEF LoopType
<1>5. /\ BackupTypeOK' /\ OneAtATime' /\ CacheIsTrue(cache)'
      /\ (poll.pc = "reading" => CallIsTrue(poll))'
      /\ (\A k \in DOMAIN inbox : BatchTrue(inbox[k]))' /\ BatchTrue(core)'
  BY <1>1, <1>2, <1>3, CallMoves
<1>6. troubles' \in 0..MaxTroubles
  BY <1>1, TroublesCounted
<1>7. TypeOK'
  BY <1>1, <1>3, <1>4, <1>5, <1>6 DEF IInv, TypeOK, LoopType
<1> QED
  BY <1>5, <1>7 DEF IInv

LEMMA CollectorStartKeeps ==
  ASSUME IInv, CollectorStart
  PROVE  IInv'
<1>1. /\ loop.pc = "down" /\ loop' = [loop EXCEPT !.pc = "waiting"]
      /\ UNCHANGED <<attempt, quiet, cache, poll, inbox, core, troubles>>
  BY DEF CollectorStart
<1>2. loop' \in LoopType /\ loop'.pc = "waiting"
  BY <1>1, RestTyped DEF LoopType
<1> QED
  BY <1>1, <1>2, RestTyped, CoreSteps

-----------------------------------------------------------------------------
(* Time.                                                                   *)

LEMMA OlderIs ==
  ASSUME NEW age \in Nat, NEW cap \in Nat, age <= cap
  PROVE  /\ Older(age, cap) \in 0..cap /\ Older(age, cap) <= age + 1
         /\ Older(age, cap) < cap => Older(age, cap) = age + 1
         /\ age < cap => Older(age, cap) = age + 1
BY DEF Older, Smaller

\* A batch gets older as the node gets quieter: what it says is true for as long.
LEMMA AgedIsTrue ==
  ASSUME TypeOK, UNCHANGED attempt, quiet' = Older(quiet, QuietCap),
         NEW batch, batch \in Batch \/ batch \in Core, BatchTrue(batch),
         NEW later, later = Aged(batch)
  PROVE  /\ later.age \in Ages
         /\ later.verdict = batch.verdict /\ later.passedOver = batch.passedOver
         /\ later.age <= StaleAfter /\ quiet' > later.age
              => Truthful(later.verdict, later.passedOver)
<1>1. batch.age \in Ages /\ Ages = 0..(StaleAfter + 1) /\ StaleAfter \in Nat
  BY ConstantsAreNumbers DEF Batch, Core, Ages
<1>2. later.verdict = batch.verdict /\ later.passedOver = batch.passedOver
  BY DEF Aged, Batch, Core
<1>3. later.age = IF batch.verdict \in {Unknown, "unavailable"} THEN batch.age
                  ELSE Older(batch.age, StaleAfter + 1)
  BY DEF Aged, Batch, Core
<1>4. /\ Older(batch.age, StaleAfter + 1) \in Ages
      /\ Older(batch.age, StaleAfter + 1) <= StaleAfter
           => Older(batch.age, StaleAfter + 1) = batch.age + 1
  <2>1. batch.age \in Nat /\ StaleAfter + 1 \in Nat /\ batch.age <= StaleAfter + 1
    BY <1>1
  <2>2. Older(batch.age, StaleAfter + 1) \in 0..(StaleAfter + 1)
    BY <2>1, OlderIs
  <2>3. Older(batch.age, StaleAfter + 1) < StaleAfter + 1
           => Older(batch.age, StaleAfter + 1) = batch.age + 1
    BY <2>1, OlderIs
  <2> HIDE DEF Older
  <2> QED
    BY <1>1, <2>2, <2>3
<1>5. quiet' <= quiet + 1 /\ quiet \in Nat
  BY OlderIs, ConstantsAreNumbers DEF TypeOK, BackupTypeOK
<1>6. ASSUME later.age <= StaleAfter, quiet' > later.age
      PROVE  Truthful(later.verdict, later.passedOver)
  <2>1. CASE batch.verdict \in {Unknown, "unavailable"}
    BY <1>2, <2>1 DEF Truthful, Unknown
  <2>2. CASE batch.verdict \notin {Unknown, "unavailable"}
    <3>1. later.age = batch.age + 1
      BY <1>3, <1>4, <1>6, <2>2
    <3>2. quiet' \in Nat
      BY OlderIs, ConstantsAreNumbers DEF TypeOK, BackupTypeOK
    <3>3. batch.age <= StaleAfter /\ quiet > batch.age
      BY <1>1, <1>5, <1>6, <3>1, <3>2
    <3>4. Truthful(batch.verdict, batch.passedOver)
      BY <3>3 DEF BatchTrue
    <3> QED
      BY <1>2, <3>4
  <2> QED
    BY <2>1, <2>2
<1> QED
  BY <1>1, <1>2, <1>3, <1>4, <1>6

\* No call is under way in a tick.
LEMMA TickKeeps ==
  ASSUME IInv, Tick
  PROVE  IInv'
<1>1. /\ loop.pc = "waiting" => loop.wait > 0
      /\ loop.pc \in {"waiting", "down"} /\ quiet' = Older(quiet, QuietCap)
      /\ loop' = [loop EXCEPT !.wait = IF loop.pc = "waiting" THEN loop.wait - 1 ELSE loop.wait]
      /\ inbox' = [k \in DOMAIN inbox |-> Aged(inbox[k])]
      /\ core' = Aged(core) /\ UNCHANGED <<attempt, cache, poll, troubles>>
  BY DEF Tick
<1>2. loop' \in LoopType /\ loop'.pc = loop.pc
  <2> DEFINE wait == IF loop.pc = "waiting" THEN loop.wait - 1 ELSE loop.wait
  <2> DEFINE top == 2 * (Interval + MaxBackoff)
  <2>1. loop.wait \in 0..top /\ top \in Nat /\ loop \in LoopType
    BY RestTyped, ConstantsAreNumbers DEF LoopType
  <2>2. wait \in 0..top
    <3> HIDE DEF top
    <3> QED
      BY <1>1, <2>1
  <2>3. loop' = [loop EXCEPT !.wait = wait]
    BY <1>1
  <2> HIDE DEF wait
  <2> QED
    BY <2>1, <2>2, <2>3 DEF LoopType
<1>3. poll.pc # "reading" /\ (loop'.pc = "collecting") = (loop.pc = "collecting")
  BY <1>1, <1>2 DEF IInv, TypeOK
<1>4. /\ inbox' \in Seq(Batch) /\ Len(inbox') = Len(inbox)
      /\ (\A k \in DOMAIN inbox : BatchTrue(inbox[k]))'
  <2>1. DOMAIN inbox' = 1..Len(inbox) /\ Len(inbox) \in Nat
    BY <1>1, RestTyped
  <2>2. ASSUME NEW k \in 1..Len(inbox)
        PROVE  inbox'[k] \in Batch /\ BatchTrue(inbox[k])'
    <3>1. inbox[k] \in Batch /\ BatchTrue(inbox[k]) /\ inbox'[k] = Aged(inbox[k])
      BY <1>1, <2>2, RestTyped
    <3>2. inbox'[k] \in Batch
      BY <1>1, <3>1, AgedIsTrue DEF IInv, Batch, Aged
    <3>3. /\ inbox'[k].age <= StaleAfter /\ quiet' > inbox'[k].age
              => Truthful(inbox'[k].verdict, inbox'[k].passedOver)
      BY <1>1, <3>1, AgedIsTrue DEF IInv
    <3> QED
      BY <1>1, <3>2, <3>3 DEF BatchTrue, Truthful, Succeeded, Failed, Attempts
  <2>3. inbox' \in Seq(Batch)
    BY <1>1, <2>1, <2>2
  <2>4. Len(inbox') = Len(inbox)
    BY <2>1, <2>3
  <2> QED
    BY <2>1, <2>2, <2>3, <2>4
<1>5. core' \in Core /\ BatchTrue(core)'
  <2>1. core \in Core /\ BatchTrue(core)
    BY RestTyped
  <2>2. /\ core'.age \in Ages
        /\ core'.age <= StaleAfter /\ quiet' > core'.age
             => Truthful(core'.verdict, core'.passedOver)
    BY <1>1, <2>1, AgedIsTrue DEF IInv
  <2>3. core' \in Core
    BY <1>1, <2>1, <2>2 DEF Aged, Core
  <2> QED
    BY <1>1, <2>2, <2>3 DEF BatchTrue, Truthful, Succeeded, Failed, Attempts
<1>6. BackupTypeOK'
  <2>1. quiet' \in 0..QuietCap
    BY <1>1, OlderIs, ConstantsAreNumbers DEF IInv, TypeOK, BackupTypeOK
  <2> QED
    BY <1>1, <2>1 DEF IInv, TypeOK, BackupTypeOK
<1>7. TypeOK'
  BY <1>1, <1>2, <1>3, <1>4, <1>5, <1>6, RestTyped DEF IInv, TypeOK, LoopType, Core, Batch
<1>8. OneAtATime' /\ CacheIsTrue(cache)'
  BY <1>1, CacheStillTrue DEF IInv, OneAtATime, Attempts
<1> QED
  BY <1>1, <1>3, <1>4, <1>5, <1>7, <1>8 DEF IInv

-----------------------------------------------------------------------------
(* The invariant holds.                                                    *)

LEMMA InitHolds == Init => IInv
<1> SUFFICES ASSUME Init PROVE IInv
  OBVIOUS
<1>1. /\ attempt = <<>> /\ quiet = 0 /\ cache = <<>> /\ poll = NoPoll
      /\ loop = [pc |-> "waiting", wait |-> 0, failures |-> 0] /\ inbox = <<>>
      /\ core = [up |-> TRUE, verdict |-> Unknown, passedOver |-> {}, age |-> 0]
      /\ troubles = 0
  BY DEF Init, BackupInit
<1>2. BackupTypeOK
  BY <1>1, NoPollTyped, ConstantsAreNumbers DEF BackupTypeOK, Poll
<1>3. TypeOK
  BY <1>1, <1>2, NoPollTyped, EnoughType, ConstantsAreNumbers DEF TypeOK, Ages
<1>4. OneAtATime /\ CacheIsTrue(cache) /\ BatchTrue(core)
  BY <1>1 DEF OneAtATime, Attempts, CacheIsTrue, BatchTrue
<1> QED
  BY <1>1, <1>3, <1>4, NoPollTyped DEF IInv

LEMMA NextKeeps == IInv /\ [Next]_vars => IInv'
<1> SUFFICES ASSUME IInv, [Next]_vars PROVE IInv'
  OBVIOUS
<1>1. CASE Node /\ Rest
  BY <1>1, NodeKeeps DEF Rest
<1>2. CASE ReadLog /\ Rest
  BY <1>2, ReadLogKeeps DEF Rest
<1>3. CASE LogUnreadable /\ Rest
  BY <1>3, LogUnreadableKeeps DEF Rest
<1>4. CASE BeginPoll
  BY <1>4, BeginPollKeeps
<1>5. CASE ListFails \/ Conclude \/ Expire
  BY <1>5, EndOfCallKeeps
<1>6. CASE GiveUp
  BY <1>6, GiveUpKeeps
<1>7. CASE Ingest \/ IngestFails
  BY <1>7, IngestKeeps, IngestFailsKeeps
<1>8. CASE CoreCrash \/ CoreStart
  BY <1>8, CoreRestartKeeps
<1>9. CASE CollectorCrash \/ CollectorStart
  BY <1>9, CollectorCrashKeeps, CollectorStartKeeps
<1>10. CASE Tick
  BY <1>10, TickKeeps
<1>11. CASE UNCHANGED vars
  BY <1>11, RestTyped, CoreSteps DEF vars
<1> QED
  BY <1>1, <1>2, <1>3, <1>4, <1>5, <1>6, <1>7, <1>8, <1>9, <1>10, <1>11
  DEF Next, Reading, Rest

LEMMA InvariantHolds == Spec => []IInv
BY InitHolds, NextKeeps, PTL DEF Spec

\* Every variable keeps its type, and a call runs exactly while its loop waits for it.
THEOREM TypeCorrect == Spec => []TypeOK
<1>1. IInv => TypeOK
  BY DEF IInv
<1> QED
  BY <1>1, InvariantHolds, PTL

LEMMA ShownIsTrue ==
  ASSUME IInv, Fresh, quiet > StaleAfter
  PROVE  Truthful(core.verdict, core.passedOver)
<1>1. core.age \in Nat /\ StaleAfter \in Nat /\ quiet \in Nat
  BY AgesTyped, ConstantsAreNumbers DEF IInv, TypeOK, BackupTypeOK
<1>2. core.age <= StaleAfter
  BY <1>1 DEF Fresh, ProviderStatus
<1> QED
  BY <1>1, <1>2 DEF IInv, BatchTrue

\* A failed backup does not hide behind a green overview: what the console shows as
\* healthy and fresh of a quiet node is true, but for the logs that were passed over.
THEOREM FailuresAreShown == Spec => []FailureNotHidden
<1>1. IInv => FailureNotHidden
  BY ShownIsTrue DEF FailureNotHidden, Truthful
<1> QED
  BY <1>1, InvariantHolds, PTL

\* Nor does an alarm outlive its reason, in the same sense.
THEOREM AlarmsHaveReason == Spec => []SuccessNotHidden
<1>1. IInv => SuccessNotHidden
  BY ShownIsTrue DEF SuccessNotHidden, Truthful
<1> QED
  BY <1>1, InvariantHolds, PTL
=============================================================================
