------------------------------ MODULE Collector ------------------------------
(***************************************************************************)
(* The provider loop of the collector, the core that records its batches,  *)
(* and what the console is shown of them; the provider is the backup check *)
(* of BackupCheck.                                                         *)
(*                                                                         *)
(* A loop collects, submits and waits: for the polling interval after a    *)
(* success, for a growing backoff after a failure of the provider or of    *)
(* the core.  A request to the core may be abandoned by the collector and  *)
(* recorded all the same; requests are recorded in the order they arrive.  *)
(* Time passes in ticks, fractions of the polling interval that a call of  *)
(* the provider (8 s at most) and of the core (10 s) does not reach.       *)
(***************************************************************************)
EXTENDS BackupCheck

CONSTANTS
  Interval,         \* backup_seconds
  MaxBackoff,       \* max_backoff_seconds
  JitterPercent,    \* jitter_ratio
  MaxRequests,      \* bound: requests waiting in the core
  MaxTroubles,      \* bound: crashes of the two processes, requests that fail or are abandoned
  LongOutages       \* bound: whether a process may stay down for a tick and longer

ASSUME CollectorAssumption ==
  /\ {Interval, MaxBackoff, MaxRequests} \subseteq Nat \ {0}
  /\ JitterPercent \in 0..50
  /\ MaxTroubles \in Nat /\ LongOutages \in BOOLEAN
  /\ QuietCap > 3 * Interval

VARIABLES
  loop,       \* _provider_loop: where it is, its wait and its failures
  inbox,      \* ingest_batch requests the core has accepted, in order
  core,       \* whether it runs; the rows of provider_state and check_state
  troubles    \* how much of MaxTroubles is spent

vars == <<attempt, quiet, cache, poll, loop, inbox, core, troubles>>

StaleAfter == 3 * Interval
Ages == 0..(StaleAfter + 1)
Unknown == "none"

\* Neither process has run before.
Init ==
  /\ BackupInit
  /\ loop = [pc |-> "waiting", wait |-> 0, failures |-> 0]
  /\ inbox = <<>>
  /\ core = [up |-> TRUE, verdict |-> Unknown, passedOver |-> {}, age |-> 0]
  /\ troubles = 0

-----------------------------------------------------------------------------
(* The loop.                                                               *)

Smaller(a, b) == IF a < b THEN a ELSE b

\* The failures from which on the backoff is the same.
Enough == CHOOSE n \in 0..6 :
            /\ n = 6 \/ Interval * 2 ^ n >= MaxBackoff
            /\ \A k \in 0..(n - 1) : Interval * 2 ^ k < MaxBackoff

\* How long the loop may wait, after jitter.
Waits(success, failures) ==
  LET backoff == Smaller(MaxBackoff, Interval * 2 ^ Smaller(failures, 6))
      base == IF success THEN Interval ELSE backoff
      jitter == (base * JitterPercent) \div 100
  IN  (base - jitter)..(base + jitter)

Reschedule(success) ==
  LET failures == IF success THEN 0 ELSE Smaller(loop.failures + 1, Enough)
  IN  \E wait \in Waits(success, failures) :
        loop' = [pc |-> "waiting", wait |-> wait, failures |-> failures]

\* The call is over and its batch goes to the core, if that can be reached.
Submit(verdict, passedOver) ==
  /\ poll' = NoPoll
  /\ \/ /\ core.up
        /\ Len(inbox) < MaxRequests
        /\ inbox' = Append(inbox, [verdict |-> verdict, passedOver |-> passedOver,
                                   age |-> 0])
        /\ loop' = [loop EXCEPT !.pc = "answer"]
     \/ /\ ~core.up
        /\ Reschedule(FALSE)
        /\ UNCHANGED inbox

Troubled == /\ troubles < MaxTroubles
            /\ troubles' = troubles + 1

Due == loop.pc = "waiting" /\ loop.wait = 0

BeginPoll ==
  /\ Due
  /\ ListTasks
  /\ loop' = [loop EXCEPT !.pc = "collecting"]
  /\ UNCHANGED <<inbox, core, troubles>>

\* The task list cannot be read: the check is reported unavailable.
ListFails ==
  /\ Due
  /\ Submit("unavailable", {})
  /\ UNCHANGED <<attempt, quiet, cache, core, troubles>>

Conclude ==
  /\ Concluded
  /\ \E verdict \in Verdicts : MayConclude(verdict) /\ Submit(verdict, PassedOver(verdict))
  /\ UNCHANGED <<attempt, quiet, cache, core, troubles>>

\* The deadline of the provider passes: every check of it is reported unavailable.
Expire ==
  /\ poll.pc = "reading"
  /\ Submit("unavailable", {})
  /\ UNCHANGED <<attempt, quiet, cache, core, troubles>>

\* The answer does not come: the core has died, or it takes too long and will
\* record the batch later.
GiveUp ==
  /\ loop.pc = "answer"
  /\ \/ inbox = <<>> /\ UNCHANGED troubles
     \/ inbox # <<>> /\ Troubled
  /\ Reschedule(FALSE)
  /\ UNCHANGED <<attempt, quiet, cache, poll, inbox, core>>

-----------------------------------------------------------------------------
(* The core.                                                               *)

\* The loop hears of the oldest request only if it still waits for it.
Answer(success) ==
  IF loop.pc = "answer" /\ Len(inbox) = 1 THEN Reschedule(success) ELSE UNCHANGED loop

Trusted(request) == request.verdict # "unavailable"

\* provider_state and check_state after a batch, both written in one transaction.
\* While the last batch was trusted, age is that of last_success_at.
Recorded(request) ==
  [core EXCEPT !.verdict = request.verdict, !.passedOver = request.passedOver,
               !.age = request.age]

Ingest ==
  /\ core.up /\ inbox # <<>>
  /\ core' = Recorded(Head(inbox))
  /\ Answer(Trusted(Head(inbox)))
  /\ inbox' = Tail(inbox)
  /\ UNCHANGED <<attempt, quiet, cache, poll, troubles>>

\* The request fails in the core and leaves nothing behind.
IngestFails ==
  /\ core.up /\ inbox # <<>>
  /\ Troubled
  /\ Answer(FALSE)
  /\ inbox' = Tail(inbox)
  /\ UNCHANGED <<attempt, quiet, cache, poll, core>>

CoreCrash ==
  /\ core.up
  /\ Troubled
  /\ core' = [core EXCEPT !.up = FALSE]
  /\ inbox' = <<>>
  /\ UNCHANGED <<attempt, quiet, cache, poll, loop>>

CoreStart ==
  /\ ~core.up
  /\ core' = [core EXCEPT !.up = TRUE]
  /\ UNCHANGED <<attempt, quiet, cache, poll, loop, inbox, troubles>>

CollectorCrash ==
  /\ loop.pc # "down"
  /\ Troubled
  /\ cache' = <<>>
  /\ poll' = NoPoll
  /\ loop' = [pc |-> "down", wait |-> 0, failures |-> 0]
  /\ UNCHANGED <<attempt, quiet, inbox, core>>

CollectorStart ==
  /\ loop.pc = "down"
  /\ loop' = [loop EXCEPT !.pc = "waiting"]
  /\ UNCHANGED <<attempt, quiet, cache, poll, inbox, core, troubles>>

-----------------------------------------------------------------------------
(* Time.                                                                   *)

Older(age, cap) == Smaller(age + 1, cap)

\* The age of what was not trusted shows nowhere and is not counted.
Aged(batch) == [batch EXCEPT !.age = IF batch.verdict \in {Unknown, "unavailable"} THEN @
                                     ELSE Older(@, StaleAfter + 1)]

\* A loop that is due begins, and a call ends, before the next tick; systemd has a
\* process back in seconds, unless it was stopped for longer.
Tick ==
  /\ loop.pc = "waiting" => loop.wait > 0
  /\ loop.pc \in {"waiting", "down"}
  /\ LongOutages \/ (core.up /\ loop.pc # "down")
  /\ quiet' = Older(quiet, QuietCap)
  /\ loop' = [loop EXCEPT !.wait = IF loop.pc = "waiting" THEN @ - 1 ELSE @]
  /\ inbox' = [k \in DOMAIN inbox |-> Aged(inbox[k])]
  /\ core' = Aged(core)
  /\ UNCHANGED <<attempt, cache, poll, troubles>>

Node == \/ \E kind \in Kinds : StartAttempt(kind)
        \/ \E phase \in Phases : WorkOnGuest(phase)
        \/ EndAttempt
Reading == ReadLog \/ LogUnreadable

Next ==
  \/ (Node \/ Reading) /\ UNCHANGED <<loop, inbox, core, troubles>>
  \/ BeginPoll \/ ListFails \/ Conclude \/ Expire
  \/ GiveUp
  \/ Ingest \/ IngestFails \/ CoreCrash \/ CoreStart
  \/ CollectorCrash \/ CollectorStart
  \/ Tick

Rest == UNCHANGED <<loop, inbox, core, troubles>>

Spec == Init /\ [][Next]_vars

ReadLogOf(i) == Requesting /\ Turn = i /\ ReadLog /\ Rest

\* Both processes run whenever they can, time passes, and systemd restarts
\* them.  The node may be slow or silent for long, but not for ever: lists and
\* every log are read and calls reach their end, again and again.
Fairness ==
  /\ WF_vars(Tick) /\ WF_vars(GiveUp \/ CollectorStart) /\ WF_vars(Ingest \/ CoreStart)
  /\ SF_vars(BeginPoll) /\ SF_vars(Conclude)
  /\ \A i \in 1..MaxAttempts : SF_vars(ReadLogOf(i))

FairSpec == Spec /\ Fairness

-----------------------------------------------------------------------------
(* What the console shows: _provider_views and bootstrap.                  *)

\* An attempt later than the last success makes the provider failed.
ProviderStatus ==
  IF core.verdict = "unavailable" THEN "failed"
  ELSE IF core.verdict = Unknown \/ core.age > StaleAfter THEN "stale" ELSE "healthy"

\* The overview also counts as stale when the collector's heartbeat is old.
Fresh == ProviderStatus = "healthy"

-----------------------------------------------------------------------------
(* What should hold.                                                       *)

\* Every variable keeps its type; a call is running exactly while its loop waits
\* for it, and waits, queues and counters stay within their limits.
TypeOK ==
  /\ BackupTypeOK
  /\ loop \in [pc : {"waiting", "collecting", "answer", "down"},
               wait : 0..(2 * (Interval + MaxBackoff)), failures : 0..Enough]
  /\ inbox \in Seq([verdict : Verdicts, passedOver : SUBSET (1..MaxAttempts),
                    age : Ages])
  /\ Len(inbox) <= MaxRequests
  /\ core \in [up : BOOLEAN, age : Ages,
               verdict : Verdicts \cup {Unknown}, passedOver : SUBSET (1..MaxAttempts)]
  /\ (poll.pc = "reading") = (loop.pc = "collecting")
  /\ troubles \in 0..MaxTroubles

\* A failed backup does not hide behind a green overview: if the console shows
\* the check healthy and its telemetry fresh, and the node has been quiet for longer
\* than three intervals, then the last that failed was followed
\* by one that succeeded - through slow logs, restarts and lost requests.  Excepted are
\* the attempts whose log this verdict could not read, or did not look for as enough
\* others are younger: those are passed over, and an older success stands for them.
FailureNotHidden ==
  (Fresh /\ core.verdict = "healthy" /\ quiet > StaleAfter) =>
     \E k \in Attempts :
        /\ Succeeded(k)
        /\ \A j \in Attempts : j > k /\ Failed(j) => j \in core.passedOver

\* Nor does an alarm outlive its reason: if the console shows the check failed
\* and its telemetry fresh, and the node has been quiet for that long, then some
\* attempt has failed or is under way, and those after it that did were passed over.
SuccessNotHidden ==
  (Fresh /\ core.verdict = "failed" /\ quiet > StaleAfter) =>
     \E j \in Attempts :
        /\ ~Succeeded(j) \/ ~attempt[j].ended
        /\ \A k \in Attempts : k > j /\ Succeeded(k) => k \in core.passedOver

LatestFailed == attempt # <<>> /\ Failed(Len(attempt))

\* Again and again the console shows fresh telemetry in which the last attempt, if
\* it failed, is reported as failed: however the processes fail, and even if no
\* call is ever fast enough to read every log before the deadline, since each
\* call leaves what it has read to the next one.
RightAgain == []<>(Fresh /\ (LatestFailed => core.verdict = "failed"))
=============================================================================
