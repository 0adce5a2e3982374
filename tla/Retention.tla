----------------------------- MODULE Retention -----------------------------
(***************************************************************************)
(* What the database keeps and for how long: the core's maintenance loop   *)
(* rolls samples up into hours and deletes what has reached its retention, *)
(* in one transaction; a chart reads the samples and the hours that are    *)
(* left.                                                                   *)
(*                                                                         *)
(* The model follows one asset and the incidents with one root and type,   *)
(* each of which names the one before it.  Time passes in ticks, several   *)
(* to the hour; a cleanup is never put off once it is due.                 *)
(***************************************************************************)
EXTENDS Naturals, FiniteSets, FiniteSetsExt

CONSTANTS
  HourLength,     \* ticks in an hour, the size of a rollup and the pause between cleanups
  SampleAge,      \* retention_sample_days
  RollupAge,      \* retention_rollup_days
  IncidentAge,    \* retention_incident_days
  Alerted,        \* the incidents that queue an alert
  MaxTime,        \* bound: the last tick
  MaxSamples,     \* bound: samples
  MaxIncidents,   \* bound: incidents
  MaxRestarts     \* bound: restarts of the core

ASSUME RetentionAssumption ==
  /\ HourLength \in Nat \ {0}
  /\ {SampleAge, RollupAge, IncidentAge} \subseteq Nat
  /\ Alerted \subseteq 1..MaxIncidents
  /\ HourLength <= MaxTime
  /\ {MaxTime, MaxSamples, MaxIncidents, MaxRestarts} \subseteq Nat

VARIABLES
  now,
  samples,      \* rows of samples
  rollups,      \* rows of hourly_rollups
  incidents,    \* rows of incidents
  alerts,       \* rows of notification_outbox
  loop,         \* the maintenance task: when its next cleanup is due, or that it has ended
  restarts,     \* how much of MaxRestarts is spent
  recorded,     \* history: all samples there were
  overwritten   \* history: hours whose rollup replaced another one

rows == <<samples, rollups, incidents, alerts>>
vars == <<now, rows, loop, restarts, recorded, overwritten>>

Hour(at) == at \div HourLength

-----------------------------------------------------------------------------
(* Rows that are written.                                                  *)

\* record_provider_batch stores every report of a check.
Record(healthy) ==
  LET sample == [at |-> now, healthy |-> healthy] IN
  /\ Cardinality(recorded) < MaxSamples
  /\ sample \notin recorded
  /\ samples' = samples \cup {sample}
  /\ recorded' = recorded \cup {sample}
  /\ UNCHANGED <<now, rollups, incidents, alerts, loop, restarts, overwritten>>

NoIncident == 0

\* previous_incident: the youngest one that has ended.
Previous == Max({NoIncident} \cup {i.id : i \in incidents})

\* create_incident, with its outbox row; the active one before it has ended.
Open ==
  LET id == Previous + 1 IN
  /\ id <= MaxIncidents
  /\ \A i \in incidents : i.state # "active"
  /\ incidents' = incidents \cup
       {[id |-> id, previous |-> Previous, state |-> "active", since |-> now]}
  /\ alerts' = alerts \cup {[incident |-> alerted, created |-> now, settled |-> FALSE] :
                           alerted \in {id} \cap Alerted}
  /\ UNCHANGED <<now, samples, rollups, loop, restarts, recorded, overwritten>>

\* set_incident_state and close_incident: each notes its own time.
End(i, from, to) ==
  /\ i.state = from
  /\ incidents' = (incidents \ {i}) \cup {[i EXCEPT !.state = to, !.since = now]}
  /\ UNCHANGED <<now, samples, rollups, alerts, loop, restarts, recorded, overwritten>>

\* mark_notification or record_notification_heartbeat ends the life of a row.
Settle(alert) ==
  /\ ~alert.settled
  /\ alerts' = (alerts \ {alert}) \cup {[alert EXCEPT !.settled = TRUE]}
  /\ UNCHANGED <<now, samples, rollups, incidents, loop, restarts, recorded, overwritten>>

-----------------------------------------------------------------------------
(* cleanup.                                                                *)

Expired(since, age) == since + age < now

\* Faulty variant of OldSamples: only hours that are over.
OldSamples_LastHourLeft == {s \in samples : Expired(s.at, SampleAge + HourLength)}

OldSamples == {s \in samples : Expired(s.at, SampleAge)}

\* The hours of samples that are old enough.
RolledUp ==
  {[hour |-> h,
    count |-> Cardinality({s \in OldSamples : Hour(s.at) = h}),
    healthy |-> Cardinality({s \in OldSamples : Hour(s.at) = h /\ s.healthy})] :
     h \in {Hour(s.at) : s \in OldSamples}}

\* ON CONFLICT: the rollup of the same hour is overwritten.
Replaced == {r \in rollups : \E new \in RolledUp : new.hour = r.hour}

\* Faulty variant of OldIncidents: also those that never ended.
OldIncidents_AnyState == {i \in incidents : Expired(i.since, IncidentAge)}

OldIncidents ==
  {i \in incidents : i.state # "active" /\ Expired(i.since, IncidentAge)}

\* Rows of the outbox that may go.
Deleted == {a \in alerts : a.settled /\ Expired(a.created, IncidentAge)}

\* Faulty variant of Blocked: the foreign keys are not enforced.
Blocked_Never == FALSE

\* A row that stays names one that would go: previous_incident_id is a foreign key
\* without an action, and the statement fails.
Blocked ==
  \E i \in incidents \ OldIncidents : \E gone \in OldIncidents : i.previous = gone.id

\* An outbox row whose incident is gone no longer names it.
Detached(alert) ==
  IF \E i \in OldIncidents : i.id = alert.incident
  THEN [alert EXCEPT !.incident = NoIncident] ELSE alert

CleanupDue == loop.running /\ now >= loop.due

\* The transaction commits and the loop sleeps for an hour.
Cleanup ==
  /\ CleanupDue
  /\ ~Blocked
  /\ rollups' = {r \in (rollups \ Replaced) \cup RolledUp :
                   ~Expired(r.hour * HourLength, RollupAge)}
  /\ samples' = samples \ OldSamples
  /\ alerts' = {Detached(a) : a \in alerts \ Deleted}
  /\ incidents' = incidents \ OldIncidents
  /\ loop' = [loop EXCEPT !.due = now + HourLength]
  /\ overwritten' = overwritten \cup {r.hour : r \in Replaced}
  /\ UNCHANGED <<now, restarts, recorded>>

\* The foreign key refuses it: the transaction is rolled back.  Nothing handles the
\* error, so the task ends, while the core goes on.
CleanupFails ==
  /\ CleanupDue
  /\ Blocked
  /\ loop' = [loop EXCEPT !.running = FALSE]
  /\ UNCHANGED <<now, rows, restarts, recorded, overwritten>>

\* serve_forever starts the loop, and the loop cleans up at once.
Restart ==
  /\ restarts < MaxRestarts
  /\ restarts' = restarts + 1
  /\ loop' = [running |-> TRUE, due |-> now]
  /\ UNCHANGED <<now, rows, recorded, overwritten>>

Tick ==
  /\ now < MaxTime
  /\ ~CleanupDue
  /\ now' = now + 1
  /\ UNCHANGED <<rows, loop, restarts, recorded, overwritten>>

-----------------------------------------------------------------------------
(* What a chart shows of an hour (_rpc_metrics, 30d and 180d).             *)

\* Faulty variant of Shown: rollups that still have samples are left out.
Shown_RollupsFirst(h) ==
  LET rolled == {r.healthy = r.count : r \in {r \in rollups : r.hour = h}}
  IN  IF rolled # {} THEN rolled
      ELSE {s.healthy : s \in {s \in samples : Hour(s.at) = h}}

\* The samples of the hour and its rollup, which counts as healthy if all of it was.
Shown(h) ==
  {s.healthy : s \in {s \in samples : Hour(s.at) = h}} \cup
  {r.healthy = r.count : r \in {r \in rollups : r.hour = h}}

-----------------------------------------------------------------------------
Init ==
  /\ now \in 0..(HourLength - 1)
  /\ samples = {} /\ rollups = {} /\ incidents = {} /\ alerts = {}
  /\ loop = [running |-> TRUE, due |-> now]
  /\ restarts = 0
  /\ recorded = {} /\ overwritten = {}

Next ==
  \/ \E healthy \in BOOLEAN : Record(healthy)
  \/ Open
  \/ \E i \in incidents : End(i, "active", "resolved") \/ End(i, "resolved", "closed")
  \/ \E a \in alerts : Settle(a)
  \/ Cleanup \/ CleanupFails \/ Restart \/ Tick

Spec == Init /\ [][Next]_vars

-----------------------------------------------------------------------------
(* What should hold.                                                       *)

Sample == [at : Nat, healthy : BOOLEAN]
Rollup == [hour : Nat, count : Nat, healthy : Nat]
Incident == [id : Nat \ {NoIncident}, previous : Nat,
             state : {"active", "resolved", "closed"}, since : Nat]
Alert == [incident : Nat, created : Nat, settled : BOOLEAN]

\* Every variable keeps its type; an hour has one rollup, of which no more was
\* healthy than there was.
TypeOK ==
  /\ now \in 0..MaxTime
  /\ samples \subseteq recorded /\ recorded \subseteq Sample
  /\ rollups \subseteq Rollup
  /\ \A r, other \in rollups : r.healthy <= r.count /\ (r.hour = other.hour => r = other)
  /\ incidents \subseteq Incident
  /\ alerts \subseteq Alert
  /\ loop \in [running : BOOLEAN, due : Nat]
  /\ restarts \in 0..MaxRestarts
  /\ overwritten \subseteq Nat

\* The foreign keys of the schema hold: an incident names an incident that is
\* there, so the history that a responder follows has no hole.
HistoryHasNoHoles ==
  \A i \in incidents : i.previous # NoIncident => \E p \in incidents : p.id = i.previous

\* A fault never fades from the chart while the retention of rollups lasts: an hour
\* with an unhealthy sample is shown, and not as healthy, wherever its samples are
\* by now (cleanup, _rpc_metrics).  Excepted is an hour whose rollup replaced the
\* rollup of its earlier part: a cleanup within the hour cuts it in two.
FaultsStayVisible ==
  \A s \in recorded :
    \/ s.healthy \/ Hour(s.at) \in overwritten
    \/ Expired(Hour(s.at) * HourLength, RollupAge)
    \/ FALSE \in Shown(Hour(s.at))

\* Nothing leaves before its time, which for an incident counts from its last
\* change and never comes while it is active, nor for an alert that is pending.
NothingLeavesEarly ==
  [][/\ \A s \in samples \ samples' : Expired(s.at, SampleAge)
     /\ \A i \in incidents : (\A j \in incidents' : j.id # i.id)
          => i.state # "active" /\ Expired(i.since, IncidentAge)
     /\ \A a \in alerts : ~a.settled => \E b \in alerts' : b.created = a.created]_vars

\* The storage lifecycle that the architecture promises: samples are kept for the
\* time that is configured, and not for longer than the hour until the next cleanup.
SamplesAreDeleted == \A s \in samples : now <= s.at + SampleAge + HourLength

\* As long as the loop runs, the promise is kept, also after a restart that follows
\* a failed cleanup (serve_forever cleans up first).
KeptWhileRunning == loop.running /\ ~CleanupDue => SamplesAreDeleted
=============================================================================
