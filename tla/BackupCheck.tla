----------------------------- MODULE BackupCheck -----------------------------
(***************************************************************************)
(* ProxmoxProvider.collect_backups for the backup check of one guest, and  *)
(* the node whose task history it reads.                                   *)
(*                                                                         *)
(* A guest is backed up by a task of its own ("direct") or as one of the   *)
(* guests of a scheduled task ("parent"), whose log alone tells how that   *)
(* guest fared.  The provider lists the tasks, then reads the logs of the  *)
(* latest parents one request at a time, while the node goes on working;   *)
(* it remembers what it derived from the log of a parent that has ended.   *)
(* Logs are taken to fit into the 1000 lines the provider asks for.        *)
(*                                                                         *)
(* The node runs one backup at a time, so attempts are ordered by their    *)
(* position.  Whether the latest success is too old is left open.          *)
(***************************************************************************)
EXTENDS Naturals, Sequences, SequencesExt, FiniteSetsExt

CONSTANTS
  MaxAttempts,           \* bound: attempts the node makes
  QuietCap,              \* bound: up to where quiet is counted
  ParentLogs,            \* _MAX_BACKUP_PARENT_LOGS
  LogCache               \* _MAX_BACKUP_LOG_CACHE

ASSUME BackupAssumption ==
  /\ {MaxAttempts, QuietCap, ParentLogs, LogCache} \subseteq Nat \ {0}

VARIABLES
  attempt,    \* the backups the node has made of the guest, oldest first
  quiet,      \* the ticks since the node last got on with them
  cache,      \* _backup_guest_task_cache, in the order of insertion
  poll        \* the running call of collect_backups

Kinds == {"direct", "parent"}
Phases == {"absent", "started", "finished", "failed"}
Statuses == {"none", "OK", "ERROR", "RUNNING", "unknown"}
Verdicts == {"unavailable", "running", "failed", "stale", "healthy"}

Attempts == DOMAIN attempt

NoPoll == [pc |-> "idle", listed |-> 0, ended |-> FALSE, todo |-> {},
           found |-> [i \in 1..MaxAttempts |-> "none"], unread |-> {}]

BackupInit == /\ attempt = <<>>
              /\ quiet = 0
              /\ cache = <<>>
              /\ poll = NoPoll

-----------------------------------------------------------------------------
(* The node.                                                               *)

Idle == \A i \in Attempts : attempt[i].ended

StartAttempt(kind) ==
  /\ Idle
  /\ Len(attempt) < MaxAttempts
  /\ attempt' = Append(attempt, [kind |-> kind, ended |-> FALSE,
                                 guest |-> IF kind = "direct" THEN "started" ELSE "absent"])
  /\ quiet' = 0
  /\ UNCHANGED <<cache, poll>>

\* The task takes up the guest, or is done with it.
WorkOnGuest(phase) ==
  /\ ~Idle
  /\ \/ Last(attempt).guest = "absent" /\ phase = "started"
     \/ Last(attempt).guest = "started" /\ phase \in {"finished", "failed"}
  /\ attempt' = [attempt EXCEPT ![Len(attempt)].guest = phase]
  /\ quiet' = 0
  /\ UNCHANGED <<cache, poll>>

\* The task ends, also without having reached the guest or finished with it.
EndAttempt ==
  /\ ~Idle
  /\ quiet' = 0
  /\ attempt' = [attempt EXCEPT ![Len(attempt)].ended = TRUE]
  /\ UNCHANGED <<cache, poll>>

-----------------------------------------------------------------------------
(* The call.                                                               *)

\* Whether the task list of this call has attempt i as ended.
ListedEnded(i) == i < poll.listed \/ poll.ended

\* _guest_task_from_log, of the log as it is when it is read.
GuestStatus(i) ==
  CASE attempt[i].guest = "absent" -> "none"
    [] attempt[i].guest = "finished" -> "OK"
    [] attempt[i].guest = "failed" -> "ERROR"
    [] attempt[i].guest = "started" -> IF ListedEnded(i) THEN "ERROR" ELSE "RUNNING"

\* The status in the list of a task of the guest's own; a running task has none.
DirectStatus(i) == IF ~ListedEnded(i) THEN "unknown"
                   ELSE IF attempt[i].guest = "finished" THEN "OK" ELSE "ERROR"

\* The tasks of a list whose logs tell how the guest fared.
Parents(n) == {i \in 1..n : attempt[i].kind = "parent"}

\* Those whose logs are looked at, the latest ones.
LatestParents(n) ==
  {i \in Parents(n) : Cardinality({j \in Parents(n) : j > i}) < ParentLogs}

\* The loop over the parents, latest first, goes on to the next log that has to
\* be requested: call is the call so far and entries the cache.
Onward(call, entries) ==
  LET status(i) == {entries[k].status : k \in {k \in DOMAIN entries : entries[k].task = i}}
      known == {i \in call.todo : \A j \in call.todo : j >= i => status(j) # {}}
  IN  [call EXCEPT !.todo = @ \ known,
                   !.found = [i \in DOMAIN @ |-> IF i \in known
                                                 THEN CHOOSE st \in status(i) : TRUE
                                                 ELSE @[i]]]

ListTasks ==
  /\ poll.pc = "idle"
  /\ poll' = Onward([NoPoll EXCEPT !.pc = "reading", !.listed = Len(attempt),
                                   !.ended = Idle, !.todo = LatestParents(Len(attempt))],
                    cache)
  /\ UNCHANGED <<attempt, quiet, cache>>

\* Faulty variants of Remembered: a running parent too, or nothing at all.
Remembered_Running(i, status) ==
  Append(IF Len(cache) >= LogCache THEN Tail(cache) ELSE cache,
         [task |-> i, status |-> status])
Remembered_Never(i, status) == cache

\* The cache after the log of i was read.
Remembered(i, status) ==
  IF ~ListedEnded(i) THEN cache
  ELSE Append(IF Len(cache) >= LogCache THEN Tail(cache) ELSE cache,
              [task |-> i, status |-> status])

\* The parent whose turn it is, the latest first.
Turn == Max(poll.todo)

Requesting == poll.pc = "reading" /\ poll.todo # {}

ReadLog ==
  /\ Requesting
  /\ cache' = Remembered(Turn, GuestStatus(Turn))
  /\ poll' = Onward([poll EXCEPT !.todo = @ \ {Turn}, !.found[Turn] = GuestStatus(Turn)],
                    cache')
  /\ UNCHANGED <<attempt, quiet>>

\* A log that cannot be read is passed over.
LogUnreadable ==
  /\ Requesting
  /\ poll' = Onward([poll EXCEPT !.todo = @ \ {Turn}, !.unread = @ \cup {Turn}], cache)
  /\ UNCHANGED <<attempt, quiet, cache>>

StatusOf(i) == IF attempt[i].kind = "direct" THEN DirectStatus(i) ELSE poll.found[i]

\* Faulty variant of Matches: successes only.
Matches_Successes == {i \in 1..poll.listed : StatusOf(i) = "OK"}

Matches == {i \in 1..poll.listed : StatusOf(i) # "none"}

\* What the check may report once all logs are through.
MayConclude(verdict) ==
  IF Matches = {} THEN verdict = "stale"
  ELSE CASE StatusOf(Max(Matches)) = "RUNNING" -> verdict = "running"
         [] StatusOf(Max(Matches)) \notin {"RUNNING", "OK"} -> verdict = "failed"
         [] OTHER -> verdict \in {"healthy", "stale"}

\* The logs that could have changed it: unread, or further back than the code looks.
PassedOver(verdict) ==
  LET unseen == poll.unread \cup (Parents(poll.listed) \ LatestParents(poll.listed))
  IN  IF verdict \in {"healthy", "failed"} THEN {i \in unseen : i > Max(Matches)} ELSE {}

Concluded == poll.pc = "reading" /\ poll.todo = {}

BackupTypeOK ==
  /\ attempt \in Seq([kind : Kinds, guest : Phases, ended : BOOLEAN])
  /\ quiet \in 0..QuietCap
  /\ Len(attempt) <= MaxAttempts
  /\ cache \in Seq([task : 1..MaxAttempts, status : Statuses])
  /\ Len(cache) <= LogCache
  /\ poll \in [pc : {"idle", "reading"}, listed : 0..MaxAttempts, ended : BOOLEAN,
               todo : SUBSET (1..MaxAttempts), found : [1..MaxAttempts -> Statuses],
               unread : SUBSET (1..MaxAttempts)]

-----------------------------------------------------------------------------
(* How the guest really fared.                                             *)

Succeeded(i) == attempt[i].guest = "finished"
Failed(i) == /\ attempt[i].ended
             /\ attempt[i].guest \in {"started", "failed"}
=============================================================================
