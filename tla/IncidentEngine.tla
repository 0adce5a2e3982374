--------------------------- MODULE IncidentEngine ---------------------------
(***************************************************************************)
(* The core process turning provider batches into incidents: the health    *)
(* part of Database.record_provider_batch, and IncidentEngine.process_batch*)
(* with the database calls it makes.                                       *)
(*                                                                         *)
(* Every accepted ingest_batch request runs as an asyncio task of its own  *)
(* and all tasks share one SQLite connection.  Database._transaction       *)
(* serialises the write transactions; a task may be suspended at every     *)
(* await, and the reads it bases its writes on take no lock.  They see     *)
(* what an open transaction has written: a transaction that commits is one *)
(* action, as nobody else writes meanwhile, and one that fails is visible  *)
(* from the action that writes to the one that rolls it back.  What one    *)
(* transaction writes becomes visible as a whole.  Reads of several        *)
(* statements that have the same outcomes as one (active_incidents_        *)
(* containing and its get_incident) are one action.                        *)
(*                                                                         *)
(* Time is abstract: whether an observation is late, whether an ancestor's *)
(* last observation lies in the correlation window, and whether a resource *)
(* warning is old enough are choices of the environment.  Counters are     *)
(* kept up to the largest value that the code compares them with.          *)
(***************************************************************************)
EXTENDS Topology, Sequences, SequencesExt

CONSTANTS
  Handlers,              \* the ingest_batch requests that can be in flight
  Providers, Checks,
  CheckAsset,            \* the asset of every check
  CheckProvider,         \* the provider that observes every check
  CheckPosition,         \* the rank of the check ids
  Observations,          \* the observations providers can report
  FailureObservations, RecoveryObservations,   \* ThresholdConfig
  Windowed,              \* assets that maintenance windows can cover
  LateObservations,      \* whether an observation can be late
  AbandonedRequests,     \* whether the collector's deadline for a request can pass
                         \* while the core still works on it
  MaxDisruptions,        \* bound: checks turning unhealthy, core crashes and
                         \* transactions that fail
  NoAsset, NoProvider

Health == {"healthy", "degraded", "unknown", "down"}
IncidentTypes == {"monitoring_unavailable", "asset_down", "resource_pressure",
                  "backup_failed", "backup_stale", "http_failed",
                  "certificate_expiring"}
Severities == {"warning", "critical"}
NoCondition == "none"
Observation == [health : Health, condition : IncidentTypes \cup {NoCondition},
                source : {"https", "tls", "backup", "other"},
                pressure : BOOLEAN, critical : BOOLEAN]

ASSUME EngineAssumption ==
  /\ IsFiniteSet(Checks)
  /\ CheckAsset \in [Checks -> Assets]
  /\ CheckProvider \in [Checks -> Providers]
  /\ CheckPosition \in [Checks -> Nat]
  /\ \A c, d \in Checks : CheckPosition[c] = CheckPosition[d] => c = d
  /\ Observations \subseteq Observation
  /\ FailureObservations \in Nat \ {0}
  /\ RecoveryObservations \in Nat \ {0}
  /\ Windowed \subseteq Assets
  /\ LateObservations \in BOOLEAN
  /\ AbandonedRequests \in BOOLEAN
  /\ MaxDisruptions \in Nat
  /\ NoAsset \notin Assets
  /\ NoProvider \notin Providers

VARIABLES
  check,        \* check_state: the health and failures of every check
  asset,        \* asset_state: the aggregate of every asset's checks
  incident,     \* the incidents in the order they were committed
  maintained,   \* assets inside an active maintenance window
  task,         \* where each ingest_batch request has got to
  saved,        \* what the rollback restores while a failing transaction is open
  disruptions   \* how much of MaxDisruptions is spent

vars == <<check, asset, incident, maintained, task, saved, disruptions>>

-----------------------------------------------------------------------------
(* What the engine reads in an observation.                                *)

HealthRank(h) == CASE h = "healthy" -> 0 [] h = "degraded" -> 1
                   [] h = "unknown" -> 2 [] h = "down" -> 3

Severity(o) == IF o.health = "down" \/ o.critical THEN "critical" ELSE "warning"

Condition(o) ==
  CASE o.condition # NoCondition -> o.condition
    [] o.condition = NoCondition /\ o.health = "unknown" -> "monitoring_unavailable"
    [] OTHER -> CASE o.source = "https"  -> "http_failed"
                  [] o.source = "tls"    -> "certificate_expiring"
                  [] o.source = "backup" -> "backup_stale"
                  [] OTHER -> IF o.pressure THEN "resource_pressure"
                                            ELSE "asset_down"

\* _observation_rank: check c of the batch outranks check d.
Outranks(batch, c, d) ==
  LET key(x) == 2 * HealthRank(batch[x].health) + (IF batch[x].critical THEN 1 ELSE 0)
  IN  \/ key(c) > key(d)
      \/ key(c) = key(d) /\ CheckPosition[c] > CheckPosition[d]

BatchAssets(batch) == {CheckAsset[c] : c \in DOMAIN batch}

\* representatives: every asset of the batch with its highest ranked observation.
IsRepresentatives(reps, batch) ==
  \A a \in BatchAssets(batch) :
    LET own == {c \in DOMAIN batch : CheckAsset[c] = a}
    IN  \E c \in own : /\ reps[a] = batch[c]
                      /\ \A d \in own \ {c} : Outranks(batch, c, d)

\* A resource warning that is not critical waits for its age.
MayBeTooYoung(o) == Condition(o) = "resource_pressure" /\ Severity(o) # "critical"

-----------------------------------------------------------------------------
(* The part of record_provider_batch that decides health.                  *)

Upto(bound, n) == IF n < bound THEN n ELSE bound

\* Successes are compared with 1 and with RecoveryObservations.
SuccessCap == IF RecoveryObservations < 2 THEN 2 ELSE RecoveryObservations

ChecksOf(a) == {c \in Checks : CheckAsset[c] = a}

\* check_state after the fresh observations of the batch.
CheckAfter(batch, late) ==
  [c \in Checks |->
     IF c \notin DOMAIN batch \ late THEN check[c]
     ELSE [health   |-> batch[c].health,
           failures |-> IF batch[c].health = "healthy" THEN 0
                        ELSE Upto(FailureObservations, check[c].failures + 1)]]

\* The worst health among the checks of a that have been observed.
WorstHealth(state, a) ==
  LET seen == {state[c].health : c \in ChecksOf(a)} \ {"unobserved"}
  IN  CHOOSE h \in seen : \A g \in seen : HealthRank(g) <= HealthRank(h)

\* asset_state after a batch: each asset it touches counts the batch once.
AssetAfter(batch, state) ==
  [a \in Assets |->
     IF a \notin BatchAssets(batch) THEN asset[a]
     ELSE LET worst == WorstHealth(state, a)
          IN  [health    |-> worst,
               failures  |-> IF worst = "healthy" THEN 0
                             ELSE Upto(FailureObservations, asset[a].failures + 1),
               successes |-> IF worst # "healthy" THEN 0
                             ELSE Upto(SuccessCap, asset[a].successes + 1)]]

-----------------------------------------------------------------------------
(* The incidents table: the rows that can be read.  An id is never used    *)
(* again, so an incident whose creation is rolled back keeps its place, in *)
(* the state "undone": no query returns it, and no row can refer to it.    *)

Active(i) == incident[i].state \in {"open", "recovering"}

\* Faulty variants of ActiveRooted: the root, or the state, is not looked at.
ActiveRooted_AnyRoot(r) == {i \in DOMAIN incident : Active(i)}
ActiveRooted_Resolved(r) == {i \in DOMAIN incident : incident[i].root = r}

ActiveRooted(r) == {i \in DOMAIN incident : Active(i) /\ incident[i].root = r}

\* Faulty variant of ActiveContaining: incidents already recovering are not listed.
ActiveContaining_OpenOnly(a) ==
  {i \in DOMAIN incident : incident[i].state = "open" /\ a \in incident[i].assets}

ActiveContaining(a) == {i \in DOMAIN incident : Active(i) /\ a \in incident[i].assets}

\* incident_assets_healthy
AssetsHealthy(i) ==
  \A a \in incident[i].assets : /\ asset[a].health = "healthy"
                                /\ asset[a].successes >= RecoveryObservations

\* An alert is queued unless the root is under maintenance.
Alerted(alerts, root, kind) ==
  IF root \in maintained THEN alerts ELSE Append(alerts, kind)

\* Faulty variant of SetIncidentState: a resolved incident can be moved again.
SetIncidentState_FromResolved(i, s) ==
  incident' = [incident EXCEPT ![i] =
    [incident[i] EXCEPT !.state = s,
                        !.alerts = IF s = "resolved" THEN Alerted(@, incident[i].root, s)
                                                     ELSE @]]

\* set_incident_state: the incident i moves to state s where that is allowed.
SetIncidentState(i, s) ==
  IF incident[i].state \in {"resolved", "undone", s}
  THEN UNCHANGED incident
  ELSE incident' = [incident EXCEPT ![i] =
         [incident[i] EXCEPT !.state = s,
                             !.alerts = IF s = "resolved" THEN Alerted(@, incident[i].root, s)
                                                          ELSE @]]

\* Faulty variant of Escalates: no look at the state.
Escalates_Resolved(i, o) == incident[i].severity = "warning" /\ Severity(o) = "critical"

\* escalate_incident raises the severity of an active incident only.
Escalates(i, o) == /\ Active(i)
                   /\ incident[i].severity = "warning"
                   /\ Severity(o) = "critical"

\* An asset whose unhealthy reports have reached the threshold.
Confirmed(a) == /\ asset[a].health # "healthy"
                /\ asset[a].failures >= FailureObservations

-----------------------------------------------------------------------------
(* The tasks.                                                              *)

NoBatch == [x \in {} |-> x]

IdleTask == [pc |-> "idle", from |-> NoProvider, todo |-> {}, reps |-> NoBatch,
             subject |-> NoAsset, walk |-> {}, root |-> NoAsset, inc |-> 0,
             first |-> FALSE, pending |-> {}, opened |-> {}]

\* The asset under reconciliation and its observation.
Subject(h) == task[h].subject
Seen(h) == task[h].reps[Subject(h)]

\* The observation that decides the incident's type.
RootObservation(h) ==
  IF task[h].root \in DOMAIN task[h].reps THEN task[h].reps[task[h].root] ELSE Seen(h)

\* The task of h goes on as t.
Become(h, t) == task' = [task EXCEPT ![h] = t]

Goto(h, step) == Become(h, [task[h] EXCEPT !.pc = step])

\* Reconciliation of an asset is over: on to the rest of the batch, if any.
NextSubject(h) ==
  IF task[h].todo = {} THEN IdleTask
  ELSE [IdleTask EXCEPT !.pc = "state", !.from = task[h].from,
                        !.todo = task[h].todo, !.reps = task[h].reps]

\* Recovery of one incident is decided: the next one of the list, if any.
NextPending(h, i) ==
  IF task[h].pending = {i} THEN NextSubject(h)
  ELSE [task[h] EXCEPT !.pc = "recover", !.inc = 0,
                       !.pending = @ \ {i}, !.opened = @ \ {i}]

\* The rows that have been committed.
Committed == IF saved = <<>> THEN incident ELSE saved[1].incident

\* A write transaction, under the lock.  It commits and the task of h goes on
\* as t, or it fails after it has written, and its rows can be read until the
\* exception rolls them back and ends the batch (RollBack).
Writes(h, t, spent) ==
  /\ saved = <<>>
  /\ \/ /\ Become(h, t)
        /\ saved' = <<>>
        /\ disruptions' = spent
     \/ /\ spent < MaxDisruptions
        /\ Become(h, [IdleTask EXCEPT
             !.pc = "failing", !.from = IF task[h].pc = "idle" THEN t.from ELSE task[h].from])
        /\ saved' = <<[check |-> check, asset |-> asset, incident |-> incident]>>
        /\ disruptions' = spent + 1

\* What an open transaction has written is gone.
Restore ==
  IF saved = <<>> THEN UNCHANGED <<check, asset, incident, saved>>
  ELSE /\ check' = saved[1].check
       /\ asset' = saved[1].asset
       /\ incident' = [i \in DOMAIN incident |->
            IF i \in DOMAIN saved[1].incident THEN saved[1].incident[i]
            ELSE [incident[i] EXCEPT !.state = "undone", !.assets = {}, !.alerts = <<>>]]
       /\ saved' = <<>>

\* What provider p reports in one run: one observation per check.
Batches(p) == [{c \in Checks : CheckProvider[c] = p} -> Observations]

\* The loop of a provider waits for the answer to its last batch, up to a deadline.
MaySubmit(p) == AbandonedRequests \/ \A h \in Handlers : task[h].from # p

TurningUnhealthy(batch, late) ==
  {c \in DOMAIN batch \ late : /\ batch[c].health # "healthy"
                               /\ check[c].failures = 0}

\* record_provider_batch; its task goes on to reconcile.
Ingest(h, p, batch, late) ==
  LET spent == disruptions + Cardinality(TurningUnhealthy(batch, late))
  IN  /\ task[h].pc = "idle"
      /\ MaySubmit(p)
      /\ DOMAIN batch # {}
      /\ \A c \in late : check[c].health # "unobserved"
      /\ spent <= MaxDisruptions
      /\ check' = CheckAfter(batch, late)
      /\ asset' = AssetAfter(batch, CheckAfter(batch, late))
      /\ \E reps \in [BatchAssets(batch) -> Observations] :
           /\ IsRepresentatives(reps, batch)
           /\ Writes(h, [IdleTask EXCEPT !.pc = "state", !.from = p,
                                        !.todo = DOMAIN reps, !.reps = reps], spent)
      /\ UNCHANGED <<incident, maintained>>

\* _reconcile takes the next asset of the batch and reads its aggregated state.
ReadState(h, a) ==
  LET st == asset[a]
      rest == task[h].todo \ {a}
      enter(step) == [task[h] EXCEPT !.pc = step, !.todo = rest, !.subject = a]
  IN  /\ task[h].pc = "state"
      /\ ReconciledFirst(a, task[h].todo)
      /\ \/ /\ st.health = "healthy"
            /\ Become(h, [enter("containing") EXCEPT !.first = (st.successes = 1)])
         \/ /\ st.health # "healthy"
            /\ ~Confirmed(a) \/ MayBeTooYoung(task[h].reps[a])
            /\ Become(h, IF rest = {} THEN IdleTask ELSE [task[h] EXCEPT !.todo = rest])
         \/ /\ Confirmed(a)
            /\ Become(h, enter("maintenance"))
      /\ UNCHANGED <<check, asset, incident, maintained, saved, disruptions>>

CheckMaintenance(h) ==
  LET a == Subject(h)
  IN  /\ task[h].pc = "maintenance"
      /\ IF a \in maintained
         THEN Become(h, NextSubject(h))
         ELSE Become(h, [task[h] EXCEPT !.pc = IF Ancestors(a) = {} THEN "find"
                                                                    ELSE "correlate",
                                        !.walk = Ancestors(a), !.root = a])
      /\ UNCHANGED <<check, asset, incident, maintained, saved, disruptions>>

\* _correlation_root reads the state of one more ancestor; one that is
\* confirmed is passed over when its last observation is outside the window.
Correlate(h, x) ==
  LET left == task[h].walk \ {x}
  IN  /\ task[h].pc = "correlate"
      /\ ExaminedFirst(Subject(h), x, task[h].walk)
      /\ \/ /\ Confirmed(x)
            /\ Become(h, [task[h] EXCEPT !.pc = "find", !.walk = {}, !.root = x])
         \/ Become(h, [task[h] EXCEPT !.pc = IF left = {} THEN "find" ELSE "correlate",
                                      !.walk = left])
      /\ UNCHANGED <<check, asset, incident, maintained, saved, disruptions>>

\* find_active_root_incident.  Concurrent tasks can commit incidents of one
\* root in any order of their opening times, so any of them may be the earliest.
\* One that is not committed may be gone before get_incident reads it.
FindActive(h) ==
  LET found == ActiveRooted(task[h].root)
  IN  /\ task[h].pc = "find"
      /\ \/ /\ found = {} \/ found \ DOMAIN Committed # {}
            /\ Goto(h, "create")
         \/ \E i \in found :
              Become(h, [task[h] EXCEPT !.inc = i,
                           !.pc = IF incident[i].state = "recovering"
                                  THEN "reopen" ELSE "attach"])
      /\ UNCHANGED <<check, asset, incident, maintained, saved, disruptions>>

NewIncident(h) ==
  LET r == task[h].root
  IN  [root |-> r, type |-> Condition(RootObservation(h)),
       severity |-> Severity(Seen(h)), state |-> "open",
       assets |-> {r, Subject(h)}, alerts |-> Alerted(<<>>, r, "opened")]

\* The unique index on the fingerprint of active incidents refuses the row.
FingerprintTaken(new) ==
  \E i \in ActiveRooted(new.root) : incident[i].type = new.type

CreateIncident(h) ==
  LET new == NewIncident(h)
  IN  /\ task[h].pc = "create"
      /\ ~FingerprintTaken(new)
      /\ incident' = Append(incident, new)
      /\ Writes(h, [task[h] EXCEPT !.pc = "attach", !.inc = Len(incident) + 1], disruptions)
      /\ UNCHANGED <<check, asset, maintained>>

\* The IntegrityError leaves process_batch: the rest of the batch is dropped.
CreateRefused(h) ==
  /\ task[h].pc = "create"
  /\ saved = <<>>
  /\ FingerprintTaken(NewIncident(h))
  /\ Become(h, IdleTask)
  /\ UNCHANGED <<check, asset, incident, maintained, saved, disruptions>>

Reopen(h) ==
  /\ task[h].pc = "reopen"
  /\ SetIncidentState(task[h].inc, "open")
  /\ Writes(h, [task[h] EXCEPT !.pc = "attach"], disruptions)
  /\ UNCHANGED <<check, asset, maintained>>

\* attach_asset inserts the member whatever the state of the incident.
AttachAsset(h) ==
  /\ task[h].pc = "attach"
  /\ incident[task[h].inc].state # "undone"
  /\ incident' = [incident EXCEPT ![task[h].inc] =
                    [incident[task[h].inc] EXCEPT !.assets = @ \cup {Subject(h)}]]
  /\ Writes(h, [task[h] EXCEPT !.pc = "escalate"], disruptions)
  /\ UNCHANGED <<check, asset, maintained>>

\* The incident was read before it was rolled back: the foreign key refuses the
\* member, and the IntegrityError drops the rest of the batch.
AttachRefused(h) ==
  /\ task[h].pc = "attach"
  /\ saved = <<>>
  /\ incident[task[h].inc].state = "undone"
  /\ Become(h, IdleTask)
  /\ UNCHANGED <<check, asset, incident, maintained, saved, disruptions>>

EscalateIncident(h) ==
  LET i == task[h].inc
  IN  /\ task[h].pc = "escalate"
      /\ IF Escalates(i, Seen(h))
         THEN incident' = [incident EXCEPT ![i] =
                [incident[i] EXCEPT !.severity = "critical",
                                    !.alerts = Alerted(@, incident[i].root, "escalated")]]
         ELSE UNCHANGED incident
      /\ Writes(h, NextSubject(h), disruptions)
      /\ UNCHANGED <<check, asset, maintained>>

\* _handle_recovery lists the active incidents of the subject.
ListContaining(h) ==
  LET found == ActiveContaining(Subject(h))
  IN  /\ task[h].pc = "containing"
      /\ IF found = {}
         THEN Become(h, NextSubject(h))
         ELSE Become(h, [task[h] EXCEPT !.pc = "recover", !.pending = found,
                           !.opened = IF task[h].first
                                      THEN {i \in found : incident[i].state = "open"}
                                      ELSE {}])
      /\ UNCHANGED <<check, asset, incident, maintained, saved, disruptions>>

\* The listed incidents are handled one after the other.
Current(h, i) == task[h].pc = "recover" /\ task[h].inc \in {0, i}

\* The first success of the asset moves an incident listed as open to recovering.
MarkRecovering(h, i) ==
  /\ Current(h, i)
  /\ i \in task[h].opened
  /\ SetIncidentState(i, "recovering")
  /\ Writes(h, [task[h] EXCEPT !.opened = @ \ {i}, !.inc = i], disruptions)
  /\ UNCHANGED <<check, asset, maintained>>

VerifyRecovery(h, i) ==
  /\ Current(h, i)
  /\ i \in task[h].pending \ task[h].opened
  /\ IF AssetsHealthy(i)
     THEN Become(h, [task[h] EXCEPT !.pc = "resolve", !.inc = i])
     ELSE Become(h, NextPending(h, i))
  /\ UNCHANGED <<check, asset, incident, maintained, saved, disruptions>>

Resolve(h) ==
  /\ task[h].pc = "resolve"
  /\ SetIncidentState(task[h].inc, "resolved")
  /\ Writes(h, NextPending(h, task[h].inc), disruptions)
  /\ UNCHANGED <<check, asset, maintained>>

\* The failed transaction of h is rolled back; the rest of its batch is dropped.
RollBack(h) ==
  /\ task[h].pc = "failing"
  /\ Restore
  /\ Become(h, IdleTask)
  /\ UNCHANGED <<maintained, disruptions>>

\* Windows open and close as time passes, are created and are cancelled.
ToggleMaintenance(a) ==
  /\ maintained' = IF a \in maintained THEN maintained \ {a} ELSE maintained \cup {a}
  /\ UNCHANGED <<check, asset, incident, task, saved, disruptions>>

\* The core process stops and starts again: what was committed survives, tasks do not.
Crash ==
  /\ \E h \in Handlers : task[h].pc # "idle"
  /\ disruptions < MaxDisruptions
  /\ disruptions' = disruptions + 1
  /\ task' = [h \in Handlers |-> IdleTask]
  /\ Restore
  /\ UNCHANGED maintained

-----------------------------------------------------------------------------
Init ==
  /\ check = [c \in Checks |-> [health |-> "unobserved", failures |-> 0]]
  /\ asset = [a \in Assets |-> [health |-> "unknown", failures |-> 0, successes |-> 0]]
  /\ incident = <<>>
  /\ maintained = {}
  /\ task = [h \in Handlers |-> IdleTask]
  /\ saved = <<>>
  /\ disruptions = 0

\* One step of the task that reconciles the batch h has brought.
TaskStep(h) ==
  \/ \E a \in task[h].todo : ReadState(h, a)
  \/ CheckMaintenance(h)
  \/ \E x \in task[h].walk : Correlate(h, x)
  \/ FindActive(h)
  \/ CreateIncident(h)
  \/ CreateRefused(h)
  \/ Reopen(h)
  \/ AttachAsset(h)
  \/ AttachRefused(h)
  \/ EscalateIncident(h)
  \/ ListContaining(h)
  \/ \E i \in task[h].pending : MarkRecovering(h, i) \/ VerifyRecovery(h, i)
  \/ Resolve(h)
  \/ RollBack(h)

Late(batch) == IF LateObservations THEN SUBSET DOMAIN batch ELSE {{}}

Next ==
  \/ \E h \in Handlers, p \in Providers : \E batch \in Batches(p) :
       \E late \in Late(batch) : Ingest(h, p, batch, late)
  \/ \E h \in Handlers : TaskStep(h)
  \/ \E a \in Windowed : ToggleMaintenance(a)
  \/ Crash

Spec == Init /\ [][Next]_vars

(***************************************************************************)
(* The event loop runs every task that is ready, and each provider is      *)
(* polled for ever by a loop of its own: it either keeps reporting its     *)
(* checks healthy or keeps reporting something else.  A warning that is    *)
(* reported for ever does not stay too young for ever.                     *)
(***************************************************************************)
IngestFrom(p) ==
  \E h \in Handlers : \E batch \in Batches(p) : Ingest(h, p, batch, {})

Ageing == IF \E o \in Observations : MayBeTooYoung(o) THEN Assets ELSE {}

OldEnough(a) ==
  \E h \in Handlers : ReadState(h, a) /\ task'[h].pc = "maintenance"

Fairness ==
  /\ \A h \in Handlers : WF_vars(TaskStep(h))
  /\ \A p \in Providers : SF_vars(IngestFrom(p))
  /\ \A a \in Ageing : SF_vars(OldEnough(a))

FairSpec == Spec /\ Fairness

-----------------------------------------------------------------------------
(* Properties.                                                             *)

IncidentStates == {"open", "recovering", "resolved", "undone"}

Incident == [root : Assets, type : IncidentTypes, severity : Severities,
             state : IncidentStates, assets : SUBSET Assets,
             alerts : Seq({"opened", "escalated", "resolved"})]

Task == [pc : {"idle", "state", "maintenance", "correlate", "find", "create", "reopen",
               "attach", "escalate", "containing", "recover", "resolve", "failing"},
         from : Providers \cup {NoProvider}, todo : SUBSET Assets,
         reps : UNION {[S -> Observations] : S \in SUBSET Assets},
         subject : Assets \cup {NoAsset}, walk : SUBSET Assets,
         root : Assets \cup {NoAsset}, inc : 0..Len(incident),
         first : BOOLEAN,
         pending : SUBSET DOMAIN incident, opened : SUBSET DOMAIN incident]

CheckState == [Checks -> [health : Health \cup {"unobserved"},
                          failures : 0..FailureObservations]]

AssetState == [Assets -> [health : Health, failures : 0..FailureObservations,
                          successes : 0..SuccessCap]]

(* Every variable holds values of its type.  A suspended task refers to     *)
(* incidents that were written, committed or not, and a transaction is open *)
(* exactly while a task has one to roll back.                               *)
TypeOK ==
  /\ check \in CheckState
  /\ asset \in AssetState
  /\ incident \in Seq(Incident)
  /\ maintained \subseteq Windowed
  /\ task \in [Handlers -> Task]
  /\ \/ saved = <<>>
     \/ saved \in {<<s>> : s \in [check : CheckState, asset : AssetState,
                                  incident : Seq(Incident)]}
  /\ saved # <<>> <=> \E h \in Handlers : task[h].pc = "failing"
  /\ disruptions \in 0..MaxDisruptions

(* Correlation never mixes unrelated faults, however the tasks interleave:  *)
(* every asset of an incident is its root or depends on its root, through   *)
(* any number of dependencies (_correlation_root, attach_asset).            *)
AssetsDependOnRoot ==
  \A i \in DOMAIN incident : \A a \in incident[i].assets :
    a = incident[i].root \/ incident[i].root \in Ancestors(a)

(* Two active incidents never share a fingerprint, even when two tasks both *)
(* found none before either created one (create_incident).                  *)
OneActivePerFingerprint ==
  \A i, j \in DOMAIN incident :
    /\ Active(i) /\ Active(j)
    /\ incident[i].root = incident[j].root
    /\ incident[i].type = incident[j].type
    => i = j

(* The alerts queued for one incident tell a story in order: at most one of *)
(* each kind, the recovery last, and none of a recovery that did not happen *)
(* (the notify arguments of create_incident, escalate_incident and          *)
(* set_incident_state).                                                     *)
AlertsTellOneStory ==
  \A i \in DOMAIN incident :
    LET alerts == incident[i].alerts
    IN  /\ \A m, n \in DOMAIN alerts : alerts[m] = alerts[n] => m = n
        /\ \A n \in DOMAIN alerts :
             /\ alerts[n] = "opened" => n = 1
             /\ alerts[n] = "resolved" => /\ n = Len(alerts)
                                          /\ incident[i].state = "resolved"
             /\ alerts[n] = "escalated" => incident[i].severity = "critical"

(* Whatever two tasks do to one incident, and whatever is rolled back: of   *)
(* what was committed, its root and type are final, its severity never      *)
(* drops, its members never leave and its queued alerts are never           *)
(* withdrawn.  A resolved incident is immutable (ARCHITECTURE,              *)
(* "Deterministic incident flow", 6), but for a member attached by a task   *)
(* that had found it active before another one resolved it.                 *)
HistoryOnlyGrows ==
  [][\A i \in DOMAIN Committed :
       LET old == Committed[i]
           new == Committed'[i]
       IN  /\ i \in DOMAIN Committed'
           /\ new.root = old.root /\ new.type = old.type
           /\ old.severity = "critical" => new.severity = "critical"
           /\ old.assets \subseteq new.assets
           /\ IsPrefix(old.alerts, new.alerts)
           /\ old.state = "resolved" =>
                [new EXCEPT !.assets = old.assets] = old
    ]_vars

(* A root has one active incident that later signals join (ARCHITECTURE,    *)
(* "Deterministic incident flow", 5).  False of the code: two tasks can     *)
(* both find none before either creates one, and only a second incident of  *)
(* the same type is refused.                                                *)
OneActivePerRoot ==
  \A i, j \in DOMAIN incident :
    Active(i) /\ Active(j) /\ incident[i].root = incident[j].root => i = j

(* No incident outlives its fault, whatever interrupted its recovery: once  *)
(* every asset stays recovered, no incident stays active.                   *)
RecoveredAssetsResolve ==
  <>[](\A a \in Assets : asset[a].successes >= RecoveryObservations)
    => <>[](\A i \in DOMAIN incident : ~Active(i))

(* No confirmed fault is lost, whatever was in flight when it was confirmed:*)
(* an asset that stays confirmed unhealthy outside maintenance is in the    *)
(* end a member of an active incident for good.                             *)
ConfirmedFaultIsTracked ==
  \A a \in Assets :
    <>[](/\ asset[a].health # "healthy"
         /\ asset[a].failures >= FailureObservations
         /\ a \notin maintained)
      => <>[](ActiveContaining(a) # {})
=============================================================================
