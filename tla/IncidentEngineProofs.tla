------------------------ MODULE IncidentEngineProofs ------------------------
(***************************************************************************)
(* What holds of the incident engine for every topology, every set of      *)
(* checks and any number of batches in flight.                             *)
(***************************************************************************)
EXTENDS IncidentEngine, SequenceTheorems, FiniteSetTheorems, TLAPS

-----------------------------------------------------------------------------
(* The operators the engine is built from.                                 *)

(* Severity and condition of an observation are those of an incident        *)
(* (IncidentEngine._severity, _condition).                                  *)
LEMMA ObservationKinds ==
  ASSUME NEW o \in Observation
  PROVE  /\ Severity(o) \in Severities
         /\ Condition(o) \in IncidentTypes
<1>1. Severity(o) \in Severities
  BY DEF Severity, Severities
<1>2. Condition(o) \in IncidentTypes
  <2>1. CASE o.condition # NoCondition
    BY <2>1 DEF Condition, Observation
  <2>2. CASE o.condition = NoCondition /\ o.health = "unknown"
    BY <2>2 DEF Condition, IncidentTypes
  <2>3. CASE o.condition = NoCondition /\ o.health # "unknown"
    BY <2>3 DEF Condition, IncidentTypes, Observation
  <2>4. QED
    BY <2>1, <2>2, <2>3
<1>3. QED
  BY <1>1, <1>2

(* An asset with an observed check has a worst health (record_provider_batch)*)
LEMMA WorstHealthExists ==
  ASSUME NEW state, NEW a,
         state \in [Checks -> [health : Health \cup {"unobserved"},
                               failures : 0..FailureObservations]],
         \E c \in ChecksOf(a) : state[c].health # "unobserved"
  PROVE  WorstHealth(state, a) \in Health
<1> DEFINE seen == {state[c].health : c \in ChecksOf(a)} \ {"unobserved"}
           worst(h) == h \in seen /\ \A g \in seen : HealthRank(g) <= HealthRank(h)
<1>1. seen \subseteq Health /\ seen # {}
  BY DEF ChecksOf
<1>2. \A g \in Health :
         /\ HealthRank(g) <= HealthRank("down")
         /\ g # "down" => HealthRank(g) <= HealthRank("unknown")
         /\ g \notin {"down", "unknown"} => HealthRank(g) <= HealthRank("degraded")
         /\ g = "healthy" => HealthRank(g) <= HealthRank("healthy")
  BY DEF Health, HealthRank
<1>3. \E h \in seen : worst(h)
  <2>1. CASE "down" \in seen
    <3>1. worst("down")
      BY <2>1, <1>1, <1>2
    <3>2. QED
      BY <2>1, <3>1
  <2>2. CASE "down" \notin seen /\ "unknown" \in seen
    <3>1. worst("unknown")
      BY <2>2, <1>1, <1>2
    <3>2. QED
      BY <2>2, <3>1
  <2>3. CASE "down" \notin seen /\ "unknown" \notin seen /\ "degraded" \in seen
    <3>1. worst("degraded")
      BY <2>3, <1>1, <1>2
    <3>2. QED
      BY <2>3, <3>1
  <2>4. CASE seen = {"healthy"}
    BY <2>4, <1>2 DEF Health
  <2>5. QED
    BY <2>1, <2>2, <2>3, <2>4, <1>1 DEF Health
<1>4. QED
  BY <1>1, <1>3 DEF WorstHealth

-----------------------------------------------------------------------------
(* The strengthening that makes the invariants inductive: a suspended task  *)
(* works on an asset of its batch, has found its root among that asset and  *)
(* its ancestors, and holds an incident of that root.                       *)
TaskFits(t, incidents) ==
  /\ t.todo \subseteq DOMAIN t.reps
  /\ t.opened \subseteq t.pending
  /\ t.pc \notin {"idle", "state", "failing"} => t.subject \in DOMAIN t.reps
  /\ t.pc = "correlate" => t.walk \subseteq Ancestors(t.subject)
  /\ t.pc \in {"correlate", "find", "create", "reopen", "attach", "escalate"}
       => t.root \in {t.subject} \cup Ancestors(t.subject)
  /\ t.pc \in {"reopen", "attach", "escalate"}
       => t.inc # 0 /\ incidents[t.inc].root = t.root
  /\ t.pc = "resolve" => t.inc # 0

(* The rows to restore are those that can be read, before what the open     *)
(* transaction wrote; one task has it to roll back.                         *)
SavedFits ==
  /\ saved # <<>> =>
       /\ Len(saved[1].incident) <= Len(incident)
       /\ \A i \in DOMAIN saved[1].incident : saved[1].incident[i].root = incident[i].root
  /\ \A g, h \in Handlers : task[g].pc = "failing" /\ task[h].pc = "failing" => g = h

TasksFit == \A h \in Handlers : TaskFits(task[h], incident)

TaskInv == TasksFit /\ SavedFits

USE EngineAssumption, TopologyAssumption

\* The rows a transaction saves.
Rows == [check : CheckState, asset : AssetState, incident : Seq(Incident)]

LEMMA IdleTaskFits ==
  IdleTask \in Task /\ TaskFits(IdleTask, incident) /\ IdleTask.pc = "idle"
<1>1. NoBatch \in UNION {[S -> Observations] : S \in SUBSET Assets}
  <2>1. NoBatch \in [{} -> Observations]
    BY DEF NoBatch
  <2>2. QED
    BY <2>1
<1>2. QED
  BY <1>1 DEF IdleTask, Task, TaskFits

LEMMA InitType == Init => TypeOK /\ TaskInv
<1> SUFFICES ASSUME Init PROVE TypeOK /\ TaskInv
  OBVIOUS
<1>1. check \in CheckState /\ asset \in AssetState
  BY DEF Init, CheckState, AssetState, Health, SuccessCap
<1>2. \A h \in Handlers : task[h] = IdleTask /\ task[h].pc # "failing"
  BY IdleTaskFits DEF Init
<1>3. TasksFit /\ SavedFits
  BY <1>2, IdleTaskFits DEF Init, TasksFit, SavedFits
<1>4. incident \in Seq(Incident) /\ task \in [Handlers -> Task]
  BY IdleTaskFits DEF Init
<1>5. QED
  BY <1>1, <1>2, <1>3, <1>4 DEF Init, TypeOK, TaskInv

(* Committed incidents keep their place and their root.                     *)
IncidentsKept ==
  /\ incident' \in Seq(Incident)
  /\ Len(incident) <= Len(incident')
  /\ \A i \in DOMAIN incident : incident'[i].root = incident[i].root

(* What a task knows of the incidents stays true when others commit.        *)
LEMMA FitsKept ==
  ASSUME TypeOK, IncidentsKept, NEW u \in Task, TaskFits(u, incident)
  PROVE  u \in Task' /\ TaskFits(u, incident')
<1>1. DOMAIN incident = 1..Len(incident) /\ DOMAIN incident' = 1..Len(incident')
  BY DEF TypeOK, IncidentsKept
<1>2. Len(incident) \in Nat /\ Len(incident') \in Nat
  BY DEF TypeOK, IncidentsKept
<1>3. /\ DOMAIN incident \subseteq DOMAIN incident'
      /\ 0..Len(incident) \subseteq 0..Len(incident')
  BY <1>1, <1>2 DEF IncidentsKept
<1>4. u \in Task'
  BY <1>3 DEF Task
<1>5. TaskFits(u, incident')
  <2>1. u.inc # 0 => u.inc \in DOMAIN incident
    BY <1>1, <1>2 DEF Task
  <2>2. QED
    BY <2>1 DEF TaskFits, IncidentsKept
<1>6. QED
  BY <1>4, <1>5

LEMMA TaskKeeps ==
  ASSUME TypeOK, TasksFit, NEW h \in Handlers, NEW t,
         IncidentsKept, t \in Task', TaskFits(t, incident'), Become(h, t)
  PROVE  /\ task' \in [Handlers -> Task'] /\ TasksFit'
         /\ \A g \in Handlers : task'[g] = IF g = h THEN t ELSE task[g]
<1>1. \A g \in Handlers : task'[g] = IF g = h THEN t ELSE task[g]
  BY DEF Become, TypeOK
<1>2. \A g \in Handlers : task[g] \in Task /\ TaskFits(task[g], incident)
  BY DEF TypeOK, TasksFit
<1>3. \A g \in Handlers : task'[g] \in Task' /\ TaskFits(task'[g], incident')
  <2> SUFFICES ASSUME NEW g \in Handlers
               PROVE  task'[g] \in Task' /\ TaskFits(task'[g], incident')
    OBVIOUS
  <2>1. CASE g = h
    BY <2>1, <1>1
  <2>2. CASE g # h
    BY <2>2, <1>1, <1>2, FitsKept
  <2>3. QED
    BY <2>1, <2>2
<1>4. QED
  BY <1>1, <1>3 DEF Become, TypeOK, TasksFit

-----------------------------------------------------------------------------
(* Steps of a task that leave the incidents alone.                          *)

LEMMA AncestorsAreAssets == \A a : Ancestors(a) \subseteq Assets
BY DEF Ancestors

(* Leaving an asset for the rest of the batch (_reconcile returns).         *)
LEMMA NextSubjectFits ==
  ASSUME TypeOK, TasksFit, NEW h \in Handlers
  PROVE  /\ NextSubject(h) \in Task /\ TaskFits(NextSubject(h), incident)
         /\ NextSubject(h).pc # "failing"
<1> DEFINE t == [IdleTask EXCEPT !.pc = "state", !.from = task[h].from,
                                  !.todo = task[h].todo, !.reps = task[h].reps]
<1>1. task[h] \in Task /\ TaskFits(task[h], incident)
  BY DEF TypeOK, TasksFit
<1>2. t \in Task
  BY <1>1, IdleTaskFits DEF Task
<1>3. TaskFits(t, incident) /\ t.pc # "failing"
  BY <1>1, IdleTaskFits DEF TaskFits, Task, IdleTask
<1>4. QED
  BY <1>2, <1>3, IdleTaskFits DEF NextSubject

LEMMA NextPendingFits ==
  ASSUME TypeOK, TasksFit, NEW h \in Handlers, NEW i,
         task[h].pc \in {"recover", "resolve"}
  PROVE  /\ NextPending(h, i) \in Task /\ TaskFits(NextPending(h, i), incident)
         /\ NextPending(h, i).pc # "failing"
<1> DEFINE t == [task[h] EXCEPT !.pc = "recover", !.inc = 0,
                                 !.pending = @ \ {i}, !.opened = @ \ {i}]
<1>1. task[h] \in Task /\ TaskFits(task[h], incident)
  BY DEF TypeOK, TasksFit
<1>2. CASE task[h].pending = {i}
  BY <1>2, NextSubjectFits DEF NextPending
<1>3. CASE task[h].pending # {i}
  <2> 0 \in 0..Len(incident)
    BY DEF TypeOK
  <2>1. t \in Task /\ t.pc # "failing"
    BY <1>1 DEF Task
  <2>2. TaskFits(t, incident)
    BY <1>1 DEF TaskFits, Task
  <2>3. QED
    BY <1>3, <2>1, <2>2 DEF NextPending
<1>4. QED
  BY <1>2, <1>3

\* The task of h, which has nothing to roll back, goes on.
Goes(h) == \E t \in Task : /\ TaskFits(t, incident) /\ t.pc # "failing"
                          /\ task[h].pc # "failing" /\ Become(h, t)

LEMMA ReadingFits ==
  ASSUME TypeOK, TasksFit, NEW h \in Handlers,
         \/ \E a \in task[h].todo : ReadState(h, a)
         \/ CheckMaintenance(h)
         \/ \E x \in task[h].walk : Correlate(h, x)
         \/ FindActive(h)
         \/ CreateRefused(h)
         \/ AttachRefused(h)
         \/ ListContaining(h)
         \/ \E i \in task[h].pending : VerifyRecovery(h, i)
  PROVE  Goes(h)
<1> USE DEF Goes
<1>1. task[h] \in Task /\ TaskFits(task[h], incident)
  BY DEF TypeOK, TasksFit
<1>0. task[h].pc # "failing"
  BY DEF ReadState, CheckMaintenance, Correlate, FindActive, CreateRefused, AttachRefused,
         ListContaining, VerifyRecovery, Current
<1>2. ASSUME NEW a \in task[h].todo, ReadState(h, a)
      PROVE  Goes(h)
  <2> DEFINE rest == task[h].todo \ {a}
             enter(step) == [task[h] EXCEPT !.pc = step, !.todo = rest, !.subject = a]
             contain == [enter("containing") EXCEPT !.first = (asset[a].successes = 1)]
             skip == [task[h] EXCEPT !.todo = rest]
  <2>1. \/ Become(h, contain) \/ Become(h, enter("maintenance"))
        \/ Become(h, IdleTask) \/ Become(h, skip)
    BY <1>2 DEF ReadState
  <2>2. contain \in Task /\ TaskFits(contain, incident) /\ contain.pc # "failing"
    BY <1>1 DEF Task, TaskFits
  <2>3. enter("maintenance") \in Task /\ TaskFits(enter("maintenance"), incident) /\ enter("maintenance").pc # "failing"
    BY <1>1 DEF Task, TaskFits
  <2>4. skip \in Task /\ TaskFits(skip, incident) /\ skip.pc # "failing"
    BY <1>1, <1>2 DEF Task, TaskFits, ReadState
  <2>5. QED
    BY <1>0, <2>1, <2>2, <2>3, <2>4, IdleTaskFits
<1>3. ASSUME CheckMaintenance(h)
      PROVE  Goes(h)
  <2> DEFINE t == [task[h] EXCEPT !.pc = IF Ancestors(Subject(h)) = {} THEN "find"
                                                                      ELSE "correlate",
                                  !.walk = Ancestors(Subject(h)), !.root = Subject(h)]
  <2>1. Become(h, NextSubject(h)) \/ Become(h, t)
    BY <1>3 DEF CheckMaintenance
  <2>2. Subject(h) \in Assets
    BY <1>1, <1>3 DEF CheckMaintenance, Subject, TaskFits, Task
  <2>3. t \in Task /\ TaskFits(t, incident) /\ t.pc # "failing"
    BY <1>1, <1>3, <2>2, AncestorsAreAssets DEF Task, TaskFits, Subject, CheckMaintenance
  <2>4. QED
    BY <1>0, <2>1, <2>3, NextSubjectFits
<1>4. ASSUME NEW x \in task[h].walk, Correlate(h, x)
      PROVE  Goes(h)
  <2> DEFINE left == task[h].walk \ {x}
             found == [task[h] EXCEPT !.pc = "find", !.walk = {}, !.root = x]
             on == [task[h] EXCEPT !.pc = IF left = {} THEN "find" ELSE "correlate",
                                   !.walk = left]
  <2>1. Become(h, found) \/ Become(h, on)
    BY <1>4 DEF Correlate
  <2>2. found \in Task /\ TaskFits(found, incident) /\ found.pc # "failing"
    BY <1>1, <1>4 DEF Task, TaskFits, Correlate
  <2>3. on \in Task /\ TaskFits(on, incident) /\ on.pc # "failing"
    BY <1>1, <1>4 DEF Task, TaskFits, Correlate
  <2>4. QED
    BY <1>0, <2>1, <2>2, <2>3
<1>5. ASSUME FindActive(h)
      PROVE  Goes(h)
  <2>1. CASE Goto(h, "create")
    <3> DEFINE t == [task[h] EXCEPT !.pc = "create"]
    <3>1. t \in Task /\ TaskFits(t, incident) /\ t.pc # "failing"
      BY <1>1, <1>5 DEF Task, TaskFits, FindActive
    <3>2. QED
      BY <1>0, <2>1, <3>1 DEF Goto
  <2>2. ASSUME NEW i \in ActiveRooted(task[h].root),
               Become(h, [task[h] EXCEPT !.inc = i,
                            !.pc = IF incident[i].state = "recovering"
                                   THEN "reopen" ELSE "attach"])
        PROVE  Goes(h)
    <3> DEFINE t == [task[h] EXCEPT !.inc = i,
                       !.pc = IF incident[i].state = "recovering"
                              THEN "reopen" ELSE "attach"]
    <3>1. incident[i].root = task[h].root
      BY <2>2 DEF ActiveRooted
    <3>2. i \in 0..Len(incident) /\ i # 0
      BY <2>2 DEF ActiveRooted, TypeOK
    <3>3. t \in Task /\ t.pc # "failing"
      <4>1. t.pc \in {"reopen", "attach"}
        BY <1>1 DEF Task
      <4>2. QED
        BY <1>1, <3>2, <4>1 DEF Task
    <3>4. TaskFits(t, incident)
      BY <1>1, <1>5, <3>1, <3>2 DEF Task, TaskFits, FindActive
    <3>5. QED
      BY <1>0, <2>2, <3>3, <3>4
  <2>3. QED
    BY <1>5, <2>1, <2>2 DEF FindActive
<1>6. ASSUME CreateRefused(h) \/ AttachRefused(h)
      PROVE  Goes(h)
  BY <1>0, <1>6, IdleTaskFits DEF CreateRefused, AttachRefused
<1>7. ASSUME ListContaining(h)
      PROVE  Goes(h)
  <2> DEFINE listed == ActiveContaining(Subject(h))
             t == [task[h] EXCEPT !.pc = "recover", !.pending = listed,
                     !.opened = IF task[h].first
                                THEN {i \in listed : incident[i].state = "open"}
                                ELSE {}]
  <2>1. Become(h, NextSubject(h)) \/ Become(h, t)
    BY <1>7 DEF ListContaining
  <2>2. listed \subseteq DOMAIN incident
    BY DEF ActiveContaining
  <2>3. t \in Task /\ TaskFits(t, incident) /\ t.pc # "failing"
    BY <1>1, <1>7, <2>2 DEF Task, TaskFits, ListContaining
  <2>4. QED
    BY <1>0, <2>1, <2>3, NextSubjectFits
<1>8. ASSUME NEW i \in task[h].pending, VerifyRecovery(h, i)
      PROVE  Goes(h)
  <2> DEFINE t == [task[h] EXCEPT !.pc = "resolve", !.inc = i]
  <2>1. Become(h, NextPending(h, i)) \/ Become(h, t)
    BY <1>8 DEF VerifyRecovery
  <2>2. i \in 0..Len(incident) /\ i # 0
    BY <1>1 DEF Task, TypeOK
  <2>3. t \in Task /\ TaskFits(t, incident) /\ t.pc # "failing"
    BY <1>1, <1>8, <2>2 DEF Task, TaskFits, VerifyRecovery, Current
  <2>4. task[h].pc = "recover"
    BY <1>8 DEF VerifyRecovery, Current
  <2>5. NextPending(h, i) \in Task /\ TaskFits(NextPending(h, i), incident)
        /\ NextPending(h, i).pc # "failing"
    BY <2>4, NextPendingFits
  <2>6. QED
    BY <1>0, <2>1, <2>3, <2>5
<1>9. QED
  BY <1>2, <1>3, <1>4, <1>5, <1>6, <1>7, <1>8

-----------------------------------------------------------------------------
(* Steps that write incidents.                                              *)

LEMMA UnchangedKeeps == TypeOK /\ UNCHANGED incident => IncidentsKept
BY DEF TypeOK, IncidentsKept

LEMMA RewriteKeeps ==
  ASSUME TypeOK, NEW i \in DOMAIN incident, NEW row \in Incident,
         row.root = incident[i].root, incident' = [incident EXCEPT ![i] = row]
  PROVE  IncidentsKept
<1>1. incident \in Seq(Incident) /\ i \in 1..Len(incident)
  BY DEF TypeOK
<1>2. /\ incident' \in Seq(Incident)
      /\ Len(incident') = Len(incident)
      /\ \A j \in 1..Len(incident) : incident'[j] = IF j = i THEN row ELSE incident[j]
  BY <1>1, ExceptSeq
<1>3. QED
  BY <1>1, <1>2 DEF IncidentsKept

LEMMA AlertedType ==
  ASSUME NEW K, NEW alerts \in Seq(K), NEW root, NEW kind \in K
  PROVE  Alerted(alerts, root, kind) \in Seq(K)
BY DEF Alerted

LEMMA SetStateKeeps ==
  ASSUME TypeOK, NEW i \in DOMAIN incident, NEW s \in IncidentStates,
         SetIncidentState(i, s)
  PROVE  IncidentsKept
<1> DEFINE row == [incident[i] EXCEPT
                     !.state = s,
                     !.alerts = IF s = "resolved" THEN Alerted(@, incident[i].root, s)
                                                  ELSE @]
<1>1. incident[i] \in Incident
  BY DEF TypeOK
<1>2. row \in Incident
  BY <1>1, AlertedType DEF Incident
<1>3. UNCHANGED incident \/ incident' = [incident EXCEPT ![i] = row]
  BY DEF SetIncidentState
<1>4. row.root = incident[i].root
  BY <1>1 DEF Incident
<1>5. QED
  BY <1>2, <1>3, <1>4, UnchangedKeeps, RewriteKeeps

\* A transaction of h writes incidents, and its task goes on if it commits.
Wrote(h) ==
  /\ IncidentsKept
  /\ task[h].pc # "failing"
  /\ \E t \in Task' : /\ TaskFits(t, incident') /\ t.pc # "failing"
                      /\ Writes(h, t, disruptions)

LEMMA WritingFits ==
  ASSUME TypeOK, TasksFit, NEW h \in Handlers,
         \/ CreateIncident(h)
         \/ Reopen(h)
         \/ AttachAsset(h)
         \/ EscalateIncident(h)
         \/ \E i \in task[h].pending : MarkRecovering(h, i)
         \/ Resolve(h)
  PROVE  Wrote(h)
<1> USE DEF Wrote
<1>1. task[h] \in Task /\ TaskFits(task[h], incident)
  BY DEF TypeOK, TasksFit
<1>2. Seen(h) \in Observation /\ Subject(h) \in Assets
      /\ (task[h].inc # 0 => task[h].inc \in DOMAIN incident)
  <2> SUFFICES task[h].pc \notin {"idle", "state", "failing"}
    BY <1>1 DEF Task, TypeOK, TaskFits, Seen, Subject
  <2>1. QED
    BY DEF CreateIncident, Reopen, AttachAsset, EscalateIncident, MarkRecovering,
           Current, Resolve
<1>3. \A i \in DOMAIN incident : incident[i] \in Incident
  BY DEF TypeOK
<1>4. ASSUME CreateIncident(h)
      PROVE  Wrote(h)
  <2> DEFINE new == NewIncident(h)
             t == [task[h] EXCEPT !.pc = "attach", !.inc = Len(incident) + 1]
  <2>1. task[h].root \in Assets
    BY <1>1, <1>2, <1>4, AncestorsAreAssets DEF CreateIncident, TaskFits, Subject
  <2>2. RootObservation(h) \in Observation
    BY <1>1, <1>2 DEF RootObservation, Task
  <2>3. new \in Incident
    <3> DEFINE Kinds == {"opened", "escalated", "resolved"}
    <3>1. Alerted(<<>>, task[h].root, "opened") \in Seq(Kinds)
      <4>1. <<>> \in Seq(Kinds) /\ "opened" \in Kinds
        OBVIOUS
      <4>2. QED
        BY <4>1, AlertedType
    <3>2. QED
      BY <2>1, <2>2, <3>1, <1>2, ObservationKinds
      DEF NewIncident, Incident, IncidentStates
  <2>4. incident' = Append(incident, new)
    BY <1>4 DEF CreateIncident
  <2>5. /\ incident' \in Seq(Incident)
        /\ Len(incident') = Len(incident) + 1
        /\ \A i \in DOMAIN incident : incident'[i] = incident[i]
        /\ incident'[Len(incident) + 1] = new
    BY <2>3, <2>4 DEF TypeOK
  <2>6. IncidentsKept
    BY <2>5 DEF TypeOK, IncidentsKept
  <2>7. task[h] \in Task' /\ TaskFits(task[h], incident')
    BY <1>1, <2>6, FitsKept
  <2>8. Len(incident) + 1 \in 0..Len(incident') /\ Len(incident) + 1 # 0
    BY <2>5 DEF TypeOK
  <2>9. t \in Task' /\ t.pc # "failing" /\ task[h].pc # "failing"
    BY <1>4, <2>7, <2>8 DEF Task, CreateIncident
  <2>10. new.root = task[h].root
    BY DEF NewIncident
  <2>11. TaskFits(t, incident')
    BY <1>4, <2>5, <2>7, <2>8, <2>10 DEF TaskFits, Task, CreateIncident
  <2>12. QED
    BY <1>4, <2>6, <2>9, <2>11 DEF CreateIncident
<1>5. ASSUME Reopen(h)
      PROVE  Wrote(h)
  <2> DEFINE t == [task[h] EXCEPT !.pc = "attach"]
  <2>1. IncidentsKept
    <3>1. task[h].inc \in DOMAIN incident /\ "open" \in IncidentStates
      BY <1>1, <1>2, <1>5 DEF Reopen, TaskFits, IncidentStates
    <3>2. QED
      BY <3>1, <1>5, SetStateKeeps DEF Reopen
  <2>2. t \in Task /\ TaskFits(t, incident) /\ t.pc # "failing" /\ task[h].pc # "failing"
    BY <1>1, <1>5 DEF Reopen, Task, TaskFits
  <2>3. QED
    BY <1>5, <2>1, <2>2, FitsKept DEF Reopen
<1>6. ASSUME AttachAsset(h)
      PROVE  Wrote(h)
  <2> DEFINE t == [task[h] EXCEPT !.pc = "escalate"]
             i == task[h].inc
             row == [incident[i] EXCEPT !.assets = @ \cup {Subject(h)}]
  <2>1. i \in DOMAIN incident
    BY <1>1, <1>2, <1>6 DEF AttachAsset, TaskFits
  <2>2. row \in Incident /\ row.root = incident[i].root
    BY <2>1, <1>2, <1>3 DEF Incident
  <2>3. IncidentsKept
    BY <1>6, <2>1, <2>2, RewriteKeeps DEF AttachAsset
  <2>4. t \in Task /\ TaskFits(t, incident) /\ t.pc # "failing" /\ task[h].pc # "failing"
    BY <1>1, <1>6 DEF AttachAsset, Task, TaskFits
  <2>5. QED
    BY <1>6, <2>3, <2>4, FitsKept DEF AttachAsset
<1>7. ASSUME EscalateIncident(h)
      PROVE  Wrote(h)
  <2> DEFINE i == task[h].inc
             row == [incident[i] EXCEPT !.severity = "critical",
                       !.alerts = Alerted(@, incident[i].root, "escalated")]
  <2>1. i \in DOMAIN incident
    BY <1>1, <1>2, <1>7 DEF EscalateIncident, TaskFits
  <2>2. row \in Incident /\ row.root = incident[i].root
    BY <2>1, <1>3, AlertedType DEF Incident, Severities
  <2>3. IncidentsKept
    BY <1>7, <2>1, <2>2, RewriteKeeps, UnchangedKeeps DEF EscalateIncident
  <2>4. QED
    BY <1>7, <2>3, NextSubjectFits, FitsKept DEF EscalateIncident
<1>8. ASSUME NEW i \in task[h].pending, MarkRecovering(h, i)
      PROVE  Wrote(h)
  <2> DEFINE t == [task[h] EXCEPT !.opened = @ \ {i}, !.inc = i]
  <2>1. i \in DOMAIN incident /\ i \in 0..Len(incident)
    BY <1>1 DEF Task, TypeOK
  <2>2. "recovering" \in IncidentStates
    BY DEF IncidentStates
  <2>3. IncidentsKept
    BY <1>8, <2>1, <2>2, SetStateKeeps DEF MarkRecovering
  <2>4. t \in Task /\ t.pc # "failing" /\ task[h].pc # "failing"
    BY <1>1, <1>8, <2>1 DEF Task, MarkRecovering, Current
  <2>5. TaskFits(t, incident)
    BY <1>1, <1>8 DEF MarkRecovering, Current, Task, TaskFits
  <2>6. QED
    BY <1>8, <2>3, <2>4, <2>5, FitsKept DEF MarkRecovering
<1>9. ASSUME Resolve(h)
      PROVE  Wrote(h)
  <2>1. IncidentsKept
    <3>1. task[h].inc \in DOMAIN incident /\ "resolved" \in IncidentStates
      BY <1>1, <1>2, <1>9 DEF Resolve, TaskFits, IncidentStates
    <3>2. QED
      BY <3>1, <1>9, SetStateKeeps DEF Resolve
  <2>2. QED
    BY <1>9, <2>1, NextPendingFits, FitsKept DEF Resolve
<1>10. QED
  BY <1>4, <1>5, <1>6, <1>7, <1>8, <1>9

LEMMA WritesKeep ==
  ASSUME TypeOK, TaskInv, NEW h \in Handlers, NEW t \in Task', NEW spent \in 0..MaxDisruptions,
         IncidentsKept, task[h].pc # "failing", TaskFits(t, incident'), t.pc # "failing",
         Writes(h, t, spent),
         check' \in CheckState, asset' \in AssetState, maintained' \subseteq Windowed
  PROVE  TypeOK' /\ TaskInv'
<1> DEFINE f == [IdleTask EXCEPT
                   !.pc = "failing",
                   !.from = IF task[h].pc = "idle" THEN t.from ELSE task[h].from]
<1>1. saved = <<>> /\ \A g \in Handlers : task[g].pc # "failing"
  BY DEF Writes, TypeOK
<1>2. incident' \in Seq(Incident)
  BY DEF IncidentsKept
<1>3. CASE Become(h, t) /\ saved' = <<>> /\ disruptions' = spent
  <2>1. /\ task' \in [Handlers -> Task'] /\ TasksFit'
        /\ \A g \in Handlers : task'[g] = IF g = h THEN t ELSE task[g]
    BY <1>3, TaskKeeps DEF TaskInv
  <2>2. \A g \in Handlers : task'[g].pc # "failing"
    BY <1>1, <2>1
  <2>3. SavedFits'
    BY <1>3, <2>2 DEF SavedFits
  <2>4. QED
    BY <1>2, <1>3, <2>1, <2>2, <2>3 DEF TypeOK, TaskInv
<1>4. CASE /\ spent < MaxDisruptions /\ Become(h, f) /\ disruptions' = spent + 1
           /\ saved' = <<[check |-> check, asset |-> asset, incident |-> incident]>>
  <2>1. f \in Task' /\ f.pc = "failing" /\ TaskFits(f, incident')
    <3>1. IdleTask \in Task' /\ TaskFits(IdleTask, incident')
      BY IdleTaskFits, FitsKept
    <3>2. task[h].from \in Providers \cup {NoProvider} /\ t.from \in Providers \cup {NoProvider}
      BY DEF TypeOK, Task
    <3>3. f \in Task' /\ f.pc = "failing"
      BY <3>1, <3>2 DEF Task
    <3>4. TaskFits(f, incident')
      BY <3>1 DEF TaskFits, IdleTask
    <3>5. QED
      BY <3>3, <3>4
  <2>2. /\ task' \in [Handlers -> Task'] /\ TasksFit'
        /\ \A g \in Handlers : task'[g] = IF g = h THEN f ELSE task[g]
    BY <1>4, <2>1, TaskKeeps DEF TaskInv
  <2>3. \A g \in Handlers : task'[g].pc = "failing" <=> g = h
    BY <1>1, <2>1, <2>2
  <2> DEFINE rows == [check |-> check, asset |-> asset, incident |-> incident]
  <2>4. saved' = <<rows>> /\ rows \in Rows
    BY <1>4 DEF Rows, TypeOK
  <2>5. saved' # <<>> /\ saved'[1].incident = incident
    BY <2>4
  <2>6. SavedFits'
    BY <2>3, <2>5 DEF SavedFits, IncidentsKept
  <2>7. disruptions' \in 0..MaxDisruptions
    BY <1>4
  <2>8. saved' \in {<<x>> : x \in Rows}
    BY <2>4
  <2> HIDE DEF rows, f
  <2>9. QED
    BY <1>2, <2>2, <2>3, <2>5, <2>6, <2>7, <2>8 DEF TypeOK, TaskInv, Rows
<1>5. QED
  BY <1>3, <1>4 DEF Writes

-----------------------------------------------------------------------------
(* A batch: counters stay below their caps, every asset it touches has a    *)
(* worst health, and the new task starts on the batch's own assets.         *)
LEMMA IngestKeeps ==
  ASSUME TypeOK, TaskInv, NEW h \in Handlers, NEW p \in Providers,
         NEW batch \in Batches(p), NEW late \in SUBSET DOMAIN batch,
         Ingest(h, p, batch, late)
  PROVE  TypeOK' /\ TaskInv'
<1> USE DEF CheckState, AssetState
<1> DEFINE Reading == [health : Health \cup {"unobserved"},
                       failures : 0..FailureObservations]
           spent == disruptions + Cardinality(TurningUnhealthy(batch, late))
           state == CheckAfter(batch, late)
<1>1. /\ DOMAIN batch \subseteq Checks
      /\ \A c \in DOMAIN batch : batch[c].health \in Health
  BY DEF Batches, Observation
<1>2. \A n \in 0..FailureObservations :
         Upto(FailureObservations, n + 1) \in 0..FailureObservations
  BY DEF Upto
<1>3. \A n \in 0..SuccessCap : Upto(SuccessCap, n + 1) \in 0..SuccessCap
  BY DEF Upto, SuccessCap
<1>4. state \in [Checks -> Reading]
  BY <1>1, <1>2 DEF CheckAfter, TypeOK
<1>5. BatchAssets(batch) \subseteq Assets
  BY <1>1 DEF BatchAssets
<1>6. \A a \in BatchAssets(batch) : WorstHealth(state, a) \in Health
  <2> SUFFICES ASSUME NEW a \in BatchAssets(batch)
               PROVE  \E c \in ChecksOf(a) : state[c].health # "unobserved"
    BY <1>4, WorstHealthExists
  <2>1. PICK c \in DOMAIN batch : CheckAsset[c] = a
    BY DEF BatchAssets
  <2>2. state[c].health # "unobserved"
    <3>1. CASE c \in late
      BY <3>1, <2>1, <1>1 DEF CheckAfter, Ingest
    <3>2. CASE c \notin late
      BY <3>2, <2>1, <1>1 DEF CheckAfter, Health
    <3>3. QED
      BY <3>1, <3>2
  <2>3. QED
    BY <1>1, <2>1, <2>2 DEF ChecksOf
<1>7. asset' \in [Assets -> [health : Health, failures : 0..FailureObservations,
                             successes : 0..SuccessCap]]
  <2>1. 0 \in 0..FailureObservations /\ 0 \in 0..SuccessCap
    BY DEF SuccessCap
  <2>2. \A a \in Assets : AssetAfter(batch, state)[a] \in
           [health : Health, failures : 0..FailureObservations, successes : 0..SuccessCap]
    BY <1>2, <1>3, <1>6, <2>1 DEF AssetAfter, TypeOK
  <2>3. QED
    BY <2>2 DEF Ingest, AssetAfter
<1>8. spent \in 0..MaxDisruptions
  <2>1. TurningUnhealthy(batch, late) \subseteq Checks
    BY <1>1 DEF TurningUnhealthy
  <2>2. Cardinality(TurningUnhealthy(batch, late)) \in Nat
    BY <2>1, FS_Subset, FS_CardinalityType
  <2>3. QED
    BY <2>2 DEF Ingest, TypeOK
<1>9. IncidentsKept
  BY UnchangedKeeps DEF Ingest
<1>10. \E t \in Task' : TaskFits(t, incident') /\ t.pc # "failing" /\ Writes(h, t, spent)
  <2>1. PICK reps \in [BatchAssets(batch) -> Observations] :
               Writes(h, [IdleTask EXCEPT !.pc = "state", !.from = p,
                                          !.todo = DOMAIN reps, !.reps = reps], spent)
    BY DEF Ingest
  <2> DEFINE t == [IdleTask EXCEPT !.pc = "state", !.from = p,
                                   !.todo = DOMAIN reps, !.reps = reps]
  <2>2. reps \in UNION {[S -> Observations] : S \in SUBSET Assets}
    BY <1>5, <2>1
  <2>3. t \in Task /\ t.pc # "failing"
    BY <1>5, <2>1, <2>2, IdleTaskFits DEF Task
  <2>4. TaskFits(t, incident)
    BY IdleTaskFits DEF TaskFits, IdleTask
  <2>5. QED
    BY <1>9, <2>1, <2>3, <2>4, FitsKept
<1>11. task[h].pc # "failing"
  BY DEF Ingest
<1>12. check' \in CheckState /\ asset' \in AssetState /\ maintained' \subseteq Windowed
  BY <1>4, <1>7 DEF Ingest, TypeOK
<1>13. QED
  BY <1>8, <1>9, <1>10, <1>11, <1>12, WritesKeep

(* What was read before a transaction that failed is put back.              *)
LEMMA RestoreKeeps ==
  ASSUME TypeOK, TaskInv, Restore
  PROVE  /\ IncidentsKept /\ saved' = <<>>
         /\ check' \in CheckState /\ asset' \in AssetState
<1>1. CASE saved = <<>>
  BY <1>1, UnchangedKeeps DEF Restore, TypeOK
<1>2. CASE saved # <<>>
  <2>1. PICK x \in Rows : saved = <<x>>
    BY <1>2 DEF TypeOK, Rows
  <2>2. saved[1] = x
    BY <2>1
  <2>3. /\ x.check \in CheckState /\ x.asset \in AssetState /\ x.incident \in Seq(Incident)
        /\ Len(x.incident) <= Len(incident)
        /\ \A i \in DOMAIN x.incident : x.incident[i].root = incident[i].root
    BY <1>2, <2>1, <2>2 DEF Rows, TaskInv, SavedFits
  <2> DEFINE gone(i) == [incident[i] EXCEPT !.state = "undone", !.assets = {}, !.alerts = <<>>]
             back(i) == IF i \in DOMAIN x.incident THEN x.incident[i] ELSE gone(i)
  <2>4. /\ check' = x.check /\ asset' = x.asset /\ saved' = <<>>
        /\ incident' = [i \in DOMAIN incident |-> back(i)]
    BY <1>2, <2>2 DEF Restore
  <2>5. \A i \in DOMAIN incident : back(i) \in Incident /\ back(i).root = incident[i].root
    <3> SUFFICES ASSUME NEW i \in DOMAIN incident
                 PROVE  back(i) \in Incident /\ back(i).root = incident[i].root
      OBVIOUS
    <3>1. incident[i] \in Incident
      BY DEF TypeOK
    <3>2. gone(i) \in Incident /\ gone(i).root = incident[i].root
      <4>1. /\ "undone" \in IncidentStates /\ {} \in SUBSET Assets
            /\ <<>> \in Seq({"opened", "escalated", "resolved"})
        BY DEF IncidentStates
      <4>2. QED
        BY <3>1, <4>1 DEF Incident
    <3>3. CASE i \in DOMAIN x.incident
      BY <2>3, <3>3
    <3>4. QED
      BY <3>2, <3>3
  <2>6. DOMAIN incident = 1..Len(incident) /\ Len(incident) \in Nat
    BY DEF TypeOK
  <2> HIDE DEF back
  <2>7. incident' \in Seq(Incident) /\ Len(incident') = Len(incident)
    <3>1. incident' \in [1..Len(incident) -> Incident]
      BY <2>4, <2>5, <2>6
    <3>2. QED
      BY <2>6, <3>1, SeqDef
  <2>8. QED
    BY <2>3, <2>4, <2>5, <2>6, <2>7 DEF IncidentsKept
<1>3. QED
  BY <1>1, <1>2

LEMMA RollBackKeeps ==
  ASSUME TypeOK, TaskInv, NEW h \in Handlers, RollBack(h)
  PROVE  TypeOK' /\ TaskInv'
<1>1. /\ IncidentsKept /\ saved' = <<>>
      /\ check' \in CheckState /\ asset' \in AssetState
  BY RestoreKeeps DEF RollBack
<1>2. IdleTask \in Task' /\ TaskFits(IdleTask, incident')
  BY <1>1, IdleTaskFits, FitsKept
<1>3. /\ task' \in [Handlers -> Task'] /\ TasksFit'
      /\ \A g \in Handlers : task'[g] = IF g = h THEN IdleTask ELSE task[g]
  BY <1>1, <1>2, TaskKeeps DEF RollBack, TaskInv
<1>4. \A g \in Handlers : task'[g].pc # "failing"
  BY <1>3, IdleTaskFits DEF RollBack, TaskInv, SavedFits
<1>5. SavedFits'
  BY <1>1, <1>4 DEF SavedFits
<1>6. maintained' \subseteq Windowed /\ disruptions' \in 0..MaxDisruptions
  BY DEF RollBack, TypeOK
<1>7. QED
  BY <1>1, <1>3, <1>4, <1>5, <1>6 DEF TypeOK, TaskInv, IncidentsKept

LEMMA CrashKeeps ==
  ASSUME TypeOK, TaskInv, Crash
  PROVE  TypeOK' /\ TaskInv'
<1>1. /\ IncidentsKept /\ saved' = <<>>
      /\ check' \in CheckState /\ asset' \in AssetState
  BY RestoreKeeps DEF Crash
<1>2. IdleTask \in Task' /\ TaskFits(IdleTask, incident') /\ IdleTask.pc = "idle"
  BY <1>1, IdleTaskFits, FitsKept
<1>3. task' \in [Handlers -> Task'] /\ TasksFit' /\ \A g \in Handlers : task'[g].pc = "idle"
  BY <1>2 DEF Crash, TasksFit
<1>4. SavedFits'
  BY <1>1, <1>3 DEF SavedFits
<1>5. maintained' \subseteq Windowed /\ disruptions' \in 0..MaxDisruptions
  BY DEF Crash, TypeOK
<1>6. QED
  BY <1>1, <1>3, <1>4, <1>5 DEF TypeOK, TaskInv, IncidentsKept

(* A task that only reads leaves all rows and what is to be rolled back.    *)
LEMMA ReadingKeeps ==
  ASSUME TypeOK, TaskInv, NEW h \in Handlers, Goes(h),
         UNCHANGED <<check, asset, incident, maintained, saved, disruptions>>
  PROVE  TypeOK' /\ TaskInv'
<1>1. PICK t \in Task : /\ TaskFits(t, incident) /\ t.pc # "failing"
                        /\ task[h].pc # "failing" /\ Become(h, t)
  BY DEF Goes
<1>2. IncidentsKept
  BY UnchangedKeeps
<1>3. t \in Task' /\ TaskFits(t, incident')
  BY <1>1, <1>2, FitsKept
<1>4. /\ task' \in [Handlers -> Task'] /\ TasksFit'
      /\ \A g \in Handlers : task'[g] = IF g = h THEN t ELSE task[g]
  BY <1>1, <1>2, <1>3, TaskKeeps DEF TaskInv
<1>5. \A g \in Handlers : task'[g].pc = "failing" <=> task[g].pc = "failing"
  BY <1>1, <1>4
<1>6. SavedFits'
  BY <1>5 DEF TaskInv, SavedFits
<1>7. QED
  BY <1>4, <1>5, <1>6 DEF TypeOK, TaskInv

LEMMA TaskStepKeeps ==
  ASSUME TypeOK, TaskInv, NEW h \in Handlers, TaskStep(h)
  PROVE  TypeOK' /\ TaskInv'
<1> USE DEF TaskInv
<1>1. CASE \/ CreateIncident(h)
           \/ Reopen(h)
           \/ AttachAsset(h)
           \/ EscalateIncident(h)
           \/ \E i \in task[h].pending : MarkRecovering(h, i)
           \/ Resolve(h)
  <2>1. UNCHANGED <<check, asset, maintained>>
    BY <1>1 DEF CreateIncident, Reopen, AttachAsset, EscalateIncident,
                MarkRecovering, Resolve
  <2>2. Wrote(h)
    BY <1>1, WritingFits
  <2>3. PICK t \in Task' : /\ TaskFits(t, incident') /\ t.pc # "failing"
                           /\ Writes(h, t, disruptions)
    BY <2>2 DEF Wrote
  <2>4. /\ check' \in CheckState /\ asset' \in AssetState /\ maintained' \subseteq Windowed
        /\ disruptions \in 0..MaxDisruptions
    BY <2>1 DEF TypeOK
  <2>5. QED
    BY <2>2, <2>3, <2>4, WritesKeep DEF Wrote
<1>2. CASE \/ \E a \in task[h].todo : ReadState(h, a)
           \/ CheckMaintenance(h)
           \/ \E x \in task[h].walk : Correlate(h, x)
           \/ FindActive(h)
           \/ CreateRefused(h)
           \/ AttachRefused(h)
           \/ ListContaining(h)
           \/ \E i \in task[h].pending : VerifyRecovery(h, i)
  <2>1. UNCHANGED <<check, asset, incident, maintained, saved, disruptions>>
    BY <1>2 DEF ReadState, CheckMaintenance, Correlate, FindActive, CreateRefused,
                AttachRefused, ListContaining, VerifyRecovery
  <2>2. Goes(h)
    BY <1>2, ReadingFits
  <2>3. QED
    BY <2>1, <2>2, ReadingKeeps
<1>3. CASE RollBack(h)
  BY <1>3, RollBackKeeps
<1>4. QED
  BY <1>1, <1>2, <1>3 DEF TaskStep

LEMMA StepKeeps == TypeOK /\ TaskInv /\ [Next]_vars => TypeOK' /\ TaskInv'
<1> SUFFICES ASSUME TypeOK, TaskInv, [Next]_vars
             PROVE  TypeOK' /\ TaskInv'
  OBVIOUS
<1>1. ASSUME NEW h \in Handlers, NEW p \in Providers, NEW batch \in Batches(p),
             NEW late \in Late(batch), Ingest(h, p, batch, late)
      PROVE  TypeOK' /\ TaskInv'
  <2>1. late \in SUBSET DOMAIN batch
    BY DEF Late
  <2>2. QED
    BY <1>1, <2>1, IngestKeeps
<1>2. ASSUME NEW h \in Handlers, TaskStep(h)
      PROVE  TypeOK' /\ TaskInv'
  BY <1>2, TaskStepKeeps
<1>3. ASSUME NEW a \in Windowed, ToggleMaintenance(a)
      PROVE  TypeOK' /\ TaskInv'
  BY <1>3 DEF ToggleMaintenance, TypeOK, TaskInv, TasksFit, SavedFits, Task
<1>4. CASE Crash
  BY <1>4, CrashKeeps
<1>5. CASE UNCHANGED vars
  BY <1>5 DEF vars, TypeOK, TaskInv, TasksFit, SavedFits, Task
<1>6. QED
  BY <1>1, <1>2, <1>3, <1>4, <1>5 DEF Next

-----------------------------------------------------------------------------
(* What a step can do to the incidents: open one, or rewrite one.           *)

\* An incident a task opens: the subject a and a root that a depends on.
Opens(new) ==
  /\ ~FingerprintTaken(new)
  /\ new.state = "open"
  /\ new.alerts \in {<<>>, <<"opened">>}
  /\ \E a \in Assets : /\ new.assets = {new.root, a}
                       /\ new.root \in {a} \cup Ancestors(a)

\* A member joins.
Joins(old, new) ==
  /\ \E a \in Assets : /\ new.assets = old.assets \cup {a}
                       /\ old.root \in {a} \cup Ancestors(a)
  /\ new.state = old.state /\ new.severity = old.severity /\ new.alerts = old.alerts

\* The state changes.
Moves(old, new) ==
  /\ old.state \notin {"resolved", "undone"}
  /\ new.assets = old.assets /\ new.severity = old.severity
  /\ \/ new.state \in {"open", "recovering"} /\ new.alerts = old.alerts
     \/ /\ new.state = "resolved"
        /\ new.alerts \in {old.alerts, Append(old.alerts, "resolved")}

\* The severity rises.
Rises(old, new) ==
  /\ old.state \in {"open", "recovering"} /\ new.state = old.state
  /\ old.severity = "warning" /\ new.severity = "critical"
  /\ new.assets = old.assets
  /\ new.alerts \in {old.alerts, Append(old.alerts, "escalated")}

\* The incident was never committed.
Tombstone(row) == row.state = "undone" /\ row.assets = {} /\ row.alerts = <<>>

Rewrites(old, new) ==
  /\ new.root = old.root /\ new.type = old.type
  /\ Joins(old, new) \/ Moves(old, new) \/ Rises(old, new)

IncidentsStep ==
  \/ UNCHANGED incident
  \/ \E new \in Incident : Opens(new) /\ incident' = Append(incident, new)
  \/ \E i \in DOMAIN incident : \E row \in Incident :
       Rewrites(incident[i], row) /\ incident' = [incident EXCEPT ![i] = row]

\* A transaction commits or fails, the open one is rolled back, or nothing is written.
RowsStep ==
  \/ UNCHANGED <<incident, saved>>
  \/ IncidentsStep /\ saved = <<>> /\ (saved' = <<>> \/ Committed' = incident)
  \/ saved # <<>> /\ Restore

LEMMA SetStateRewrites ==
  ASSUME TypeOK, NEW i \in DOMAIN incident, NEW s \in {"open", "recovering", "resolved"},
         SetIncidentState(i, s)
  PROVE  IncidentsStep
<1> DEFINE row == [incident[i] EXCEPT
                     !.state = s,
                     !.alerts = IF s = "resolved" THEN Alerted(@, incident[i].root, s)
                                                  ELSE @]
<1>1. incident[i] \in Incident
  BY DEF TypeOK
<1>2. CASE UNCHANGED incident
  BY <1>2 DEF IncidentsStep
<1>3. CASE incident' # incident
  <2>1. /\ incident[i].state \notin {"resolved", "undone"}
        /\ incident' = [incident EXCEPT ![i] = row]
    BY <1>3 DEF SetIncidentState
  <2>2. row \in Incident
    BY <1>1, AlertedType DEF Incident, IncidentStates
  <2>3. Rewrites(incident[i], row)
    BY <1>1, <2>1 DEF Rewrites, Moves, Alerted, Incident
  <2>4. QED
    BY <2>1, <2>2, <2>3 DEF IncidentsStep
<1>4. QED
  BY <1>2, <1>3

LEMMA TaskWrites ==
  ASSUME TypeOK, TaskInv, NEW h \in Handlers, TaskStep(h), ~UNCHANGED incident,
         ~RollBack(h)
  PROVE  IncidentsStep
<1>1. QED
  <2>1. task[h] \in Task /\ TaskFits(task[h], incident)
    BY DEF TypeOK, TaskInv, TasksFit
  <2>2. \A i \in DOMAIN incident : incident[i] \in Incident
    BY DEF TypeOK
  <2>3. \/ CreateIncident(h) \/ Reopen(h) \/ AttachAsset(h) \/ EscalateIncident(h)
        \/ \E i \in task[h].pending : MarkRecovering(h, i)
        \/ Resolve(h)
    BY DEF TaskStep, ReadState, CheckMaintenance, Correlate, FindActive,
           CreateRefused, AttachRefused, ListContaining, VerifyRecovery
  <2>4. /\ Subject(h) \in Assets
        /\ task[h].inc # 0 => task[h].inc \in DOMAIN incident
    <3>1. task[h].pc \notin {"idle", "state", "failing"}
      BY <2>3 DEF CreateIncident, Reopen, AttachAsset, EscalateIncident,
                  MarkRecovering, Current, Resolve
    <3>2. QED
      BY <2>1, <3>1 DEF Task, TypeOK, TaskFits, Subject
  <2>6. CASE CreateIncident(h)
    <3> DEFINE new == NewIncident(h)
    <3>1. incident' = Append(incident, new) /\ ~FingerprintTaken(new)
      BY <2>6 DEF CreateIncident
    <3>2. incident' \in Seq(Incident)
      BY <2>6, WritingFits DEF Wrote, IncidentsKept, TaskInv
    <3>3. new \in Incident
      <4>1. Len(incident') = Len(incident) + 1 /\ incident'[Len(incident) + 1] = new
        BY <3>1 DEF TypeOK
      <4>2. Len(incident) + 1 \in 1..Len(incident')
        BY <4>1 DEF TypeOK
      <4>3. QED
        BY <3>2, <4>1, <4>2
    <3>4. Opens(new)
      <4>1. task[h].root \in {Subject(h)} \cup Ancestors(Subject(h))
        BY <2>1, <2>6 DEF CreateIncident, TaskFits, Subject
      <4>2. new.alerts \in {<<>>, <<"opened">>}
        BY DEF NewIncident, Alerted
      <4>3. QED
        BY <2>4, <3>1, <4>1, <4>2 DEF Opens, NewIncident
    <3>5. QED
      BY <3>1, <3>3, <3>4 DEF IncidentsStep
  <2>7. CASE Reopen(h)
    <3>1. task[h].inc \in DOMAIN incident /\ SetIncidentState(task[h].inc, "open")
      BY <2>1, <2>4, <2>7 DEF Reopen, TaskFits
    <3>2. QED
      BY <3>1, SetStateRewrites
  <2>8. CASE AttachAsset(h)
    <3> DEFINE i == task[h].inc
               row == [incident[i] EXCEPT !.assets = @ \cup {Subject(h)}]
    <3>1. /\ i \in DOMAIN incident
          /\ incident[i].root \in {Subject(h)} \cup Ancestors(Subject(h))
      BY <2>1, <2>4, <2>8 DEF AttachAsset, TaskFits, Subject
    <3>2. row \in Incident /\ Rewrites(incident[i], row)
      BY <2>2, <2>4, <3>1 DEF Incident, Rewrites, Joins
    <3>3. QED
      BY <2>8, <3>1, <3>2 DEF AttachAsset, IncidentsStep
  <2>9. CASE EscalateIncident(h)
    <3> DEFINE i == task[h].inc
               row == [incident[i] EXCEPT !.severity = "critical",
                         !.alerts = Alerted(@, incident[i].root, "escalated")]
    <3>1. i \in DOMAIN incident
      BY <2>1, <2>4, <2>9 DEF EscalateIncident, TaskFits
    <3>2. /\ Active(i) /\ incident[i].severity = "warning"
          /\ incident' = [incident EXCEPT ![i] = row]
      BY <2>9 DEF EscalateIncident, Escalates
    <3>3. row \in Incident
      BY <2>2, <3>1, AlertedType DEF Incident, Severities
    <3>4. Rewrites(incident[i], row)
      BY <2>2, <3>1, <3>2 DEF Incident, Rewrites, Rises, Active, Alerted
    <3>5. QED
      BY <3>1, <3>2, <3>3, <3>4 DEF IncidentsStep
  <2>10. ASSUME NEW i \in task[h].pending, MarkRecovering(h, i)
         PROVE  IncidentsStep
    <3>1. i \in DOMAIN incident
      BY <2>1 DEF Task
    <3>2. QED
      BY <2>10, <3>1, SetStateRewrites DEF MarkRecovering
  <2>11. CASE Resolve(h)
    <3>1. task[h].inc \in DOMAIN incident /\ SetIncidentState(task[h].inc, "resolved")
      BY <2>1, <2>4, <2>11 DEF Resolve, TaskFits
    <3>2. QED
      BY <3>1, SetStateRewrites
  <2>12. QED
    BY <2>3, <2>6, <2>7, <2>8, <2>9, <2>10, <2>11

LEMMA NextWrites ==
  ASSUME TypeOK, TaskInv, [Next]_vars
  PROVE  RowsStep
<1>1. ASSUME NEW h \in Handlers, NEW t, NEW spent, Writes(h, t, spent), IncidentsStep
      PROVE  RowsStep
  BY <1>1 DEF Writes, RowsStep, Committed
<1>2. ASSUME NEW h \in Handlers, NEW p \in Providers, NEW batch \in Batches(p),
             NEW late \in Late(batch), Ingest(h, p, batch, late)
      PROVE  RowsStep
  BY <1>1, <1>2 DEF Ingest, IncidentsStep
<1>3. ASSUME NEW h \in Handlers, TaskStep(h)
      PROVE  RowsStep
  <2>1. CASE RollBack(h)
    <3>1. saved # <<>>
      BY <2>1 DEF RollBack, TypeOK
    <3>2. QED
      BY <2>1, <3>1 DEF RollBack, RowsStep
  <2>2. CASE ~RollBack(h)
    <3>1. IncidentsStep
      BY <1>3, <2>2, TaskWrites DEF IncidentsStep
    <3>2. CASE \E t : Writes(h, t, disruptions)
      BY <1>1, <3>1, <3>2
    <3>3. CASE UNCHANGED <<incident, saved>>
      BY <3>3 DEF RowsStep
    <3>4. QED
      BY <1>3, <2>2, <3>2, <3>3
      DEF TaskStep, ReadState, CheckMaintenance, Correlate, FindActive, CreateIncident,
          CreateRefused, Reopen, AttachAsset, AttachRefused, EscalateIncident,
          ListContaining, MarkRecovering, VerifyRecovery, Resolve
  <2>3. QED
    BY <2>1, <2>2
<1>4. CASE Crash
  BY <1>4 DEF Crash, RowsStep, Restore
<1>5. ASSUME NEW a \in Windowed, ToggleMaintenance(a)
      PROVE  RowsStep
  BY <1>5 DEF ToggleMaintenance, RowsStep
<1>6. CASE UNCHANGED vars
  BY <1>6 DEF vars, RowsStep
<1>7. QED
  BY <1>2, <1>3, <1>4, <1>5, <1>6 DEF Next

\* What a step does to the row at place j of rows, if that is in new.
Follows(rows, new) ==
  /\ DOMAIN rows \subseteq DOMAIN new
  /\ \A j \in DOMAIN rows : new[j] = rows[j] \/ Rewrites(rows[j], new[j])
  /\ \A j \in DOMAIN new \ DOMAIN rows : Opens(new[j]) \/ Tombstone(new[j])

\* The rows after a transaction: opened, rewritten or as they were.
LEMMA WrittenRows ==
  ASSUME TypeOK, IncidentsStep, incident' \in Seq(Incident)
  PROVE  /\ Follows(incident, incident')
         /\ \A j \in DOMAIN incident' \ DOMAIN incident :
              /\ Opens(incident'[j])
              /\ \A i \in DOMAIN incident : incident'[i] = incident[i]
              /\ DOMAIN incident' = DOMAIN incident \cup {j}
<1>1. incident \in Seq(Incident)
  BY DEF TypeOK
<1>2. CASE UNCHANGED incident
  BY <1>1, <1>2 DEF Follows
<1>3. ASSUME NEW new \in Incident, Opens(new), incident' = Append(incident, new)
      PROVE  /\ DOMAIN incident' = DOMAIN incident \cup {Len(incident) + 1}
             /\ \A i \in DOMAIN incident : incident'[i] = incident[i]
             /\ incident'[Len(incident) + 1] = new
             /\ Len(incident) + 1 \notin DOMAIN incident
  BY <1>1, <1>3
<1>4. ASSUME NEW i \in DOMAIN incident, NEW row \in Incident,
             Rewrites(incident[i], row), incident' = [incident EXCEPT ![i] = row]
      PROVE  /\ DOMAIN incident' = DOMAIN incident
             /\ \A j \in DOMAIN incident : incident'[j] = IF j = i THEN row ELSE incident[j]
  BY <1>1, <1>4, ExceptSeq
<1>5. CASE \E new \in Incident : Opens(new) /\ incident' = Append(incident, new)
  BY <1>3, <1>5 DEF Follows
<1>6. CASE \E i \in DOMAIN incident : \E row \in Incident :
             Rewrites(incident[i], row) /\ incident' = [incident EXCEPT ![i] = row]
  <2>1. PICK i \in DOMAIN incident, row \in Incident :
           Rewrites(incident[i], row) /\ incident' = [incident EXCEPT ![i] = row]
    BY <1>6
  <2>2. /\ DOMAIN incident' = DOMAIN incident
        /\ \A j \in DOMAIN incident : incident'[j] = IF j = i THEN row ELSE incident[j]
    BY <1>4, <2>1
  <2>3. QED
    BY <2>1, <2>2 DEF Follows
<1>7. QED
  BY <1>2, <1>5, <1>6 DEF IncidentsStep

\* After the rollback: the committed rows, and rows that never were.
LEMMA RestoredRows ==
  ASSUME TypeOK, TaskInv, saved # <<>>, Restore
  PROVE  /\ Committed' = incident'
         /\ DOMAIN Committed \subseteq DOMAIN incident'
         /\ \A j \in DOMAIN incident' : IF j \in DOMAIN Committed
                                        THEN incident'[j] = Committed[j]
                                        ELSE Tombstone(incident'[j])
<1>1. PICK x \in Rows : saved = <<x>>
  BY DEF TypeOK, Rows
<1>2. /\ Committed = x.incident /\ x.incident \in Seq(Incident)
      /\ Len(x.incident) <= Len(incident)
  BY <1>1 DEF Committed, Rows, TaskInv, SavedFits
<1>3. /\ saved' = <<>>
      /\ incident' = [i \in DOMAIN incident |->
           IF i \in DOMAIN x.incident THEN x.incident[i]
           ELSE [incident[i] EXCEPT !.state = "undone", !.assets = {}, !.alerts = <<>>]]
  BY <1>1 DEF Restore
<1>4. DOMAIN x.incident \subseteq DOMAIN incident
  BY <1>2 DEF TypeOK
<1>5. /\ Committed' = incident'
      /\ DOMAIN incident' = DOMAIN incident
  BY <1>3 DEF Committed
<1>6. ASSUME NEW j \in DOMAIN incident', j \in DOMAIN Committed
      PROVE  incident'[j] = Committed[j]
  BY <1>2, <1>3, <1>5, <1>6
<1>7. ASSUME NEW j \in DOMAIN incident', j \notin DOMAIN Committed
      PROVE  Tombstone(incident'[j])
  <2>1. incident[j] \in Incident
    BY <1>5 DEF TypeOK
  <2>2. incident'[j] = [incident[j] EXCEPT !.state = "undone", !.assets = {}, !.alerts = <<>>]
    BY <1>2, <1>3, <1>5, <1>7
  <2>3. QED
    BY <2>1, <2>2 DEF Tombstone, Incident
<1>8. QED
  BY <1>2, <1>4, <1>5, <1>6, <1>7

\* Of the committed rows, none is taken back.
LEMMA CommittedRows ==
  ASSUME TypeOK, TaskInv, [Next]_vars
  PROVE  /\ Committed \in Seq(Incident) /\ Committed' \in Seq(Incident)
         /\ Follows(Committed, Committed')
<1>1. Committed \in Seq(Incident)
  BY DEF TypeOK, Committed
<1>2. TypeOK' /\ TaskInv'
  BY StepKeeps
<1>3. Committed' \in Seq(Incident)
  BY <1>2 DEF TypeOK, Committed
<1>4. CASE UNCHANGED <<incident, saved>>
  BY <1>1, <1>3, <1>4 DEF Committed, Follows
<1>5. CASE IncidentsStep /\ saved = <<>> /\ (saved' = <<>> \/ Committed' = incident)
  <2>1. Follows(incident, incident')
    BY <1>2, <1>5, WrittenRows DEF TypeOK
  <2>2. Committed = incident /\ (Committed' = incident \/ Committed' = incident')
    BY <1>5 DEF Committed
  <2>3. Follows(incident, incident)
    BY DEF Follows
  <2>4. CASE Committed' = incident
    BY <1>1, <1>3, <2>2, <2>3, <2>4
  <2>5. CASE Committed' = incident'
    BY <1>1, <1>3, <2>1, <2>2, <2>5
  <2>6. QED
    BY <2>2, <2>4, <2>5
<1>6. CASE saved # <<>> /\ Restore
  <2>1. /\ Committed' = incident'
        /\ DOMAIN Committed \subseteq DOMAIN incident'
        /\ \A j \in DOMAIN incident' : IF j \in DOMAIN Committed
                                       THEN incident'[j] = Committed[j]
                                       ELSE Tombstone(incident'[j])
    BY <1>6, RestoredRows
  <2>2. DOMAIN Committed' = DOMAIN incident'
    BY <2>1
  <2>3. \A i \in DOMAIN Committed : i \in DOMAIN Committed' /\ Committed'[i] = Committed[i]
    BY <2>1, <2>2
  <2>4. \A i \in DOMAIN Committed' \ DOMAIN Committed : Tombstone(Committed'[i])
    BY <2>1, <2>2
  <2>5. QED
    BY <1>1, <1>3, <2>3, <2>4 DEF Follows
<1>7. QED
  BY <1>1, <1>3, <1>4, <1>5, <1>6, NextWrites DEF RowsStep

\* A row that can be read follows one that could be read, or a committed one.
LEMMA RowAfter ==
  ASSUME TypeOK, TaskInv, [Next]_vars, NEW j \in DOMAIN incident'
  PROVE  /\ incident'[j] \in Incident
         /\ \/ Tombstone(incident'[j])
            \/ Opens(incident'[j])
            \/ /\ j \in DOMAIN Committed /\ incident'[j] = Committed[j]
            \/ /\ j \in DOMAIN incident
               /\ incident'[j] = incident[j] \/ Rewrites(incident[j], incident'[j])
<1>1. TypeOK'
  BY StepKeeps
<1>2. incident'[j] \in Incident
  BY <1>1 DEF TypeOK
<1>3. CASE UNCHANGED <<incident, saved>>
  BY <1>2, <1>3
<1>4. CASE IncidentsStep
  BY <1>1, <1>2, <1>4, WrittenRows DEF TypeOK, Follows
<1>5. CASE saved # <<>> /\ Restore
  BY <1>2, <1>5, RestoredRows
<1>6. QED
  BY <1>3, <1>4, <1>5, NextWrites DEF RowsStep

-----------------------------------------------------------------------------
(* Theorems of the specification.                                           *)

LEMMA CorrectTypes == Spec => [](TypeOK /\ TaskInv)
BY InitType, StepKeeps, PTL DEF Spec

(* Every reachable state is well typed: a suspended reconciliation refers   *)
(* to incidents that were written, be it by a transaction that failed, and  *)
(* a transaction is open exactly while one task has it to roll back.        *)
THEOREM TypeCorrect == Spec => []TypeOK
BY CorrectTypes, PTL

(* For every dependency graph and any number of batches in flight, the      *)
(* members of an incident all depend on its root, also of one that is read  *)
(* before its transaction fails (_correlation_root, attach_asset).          *)
THEOREM CorrelationIsSound == Spec => []AssetsDependOnRoot
<1> DEFINE Sound(row) == \A a \in row.assets : a = row.root \/ row.root \in Ancestors(a)
           Inv == /\ \A i \in DOMAIN incident : Sound(incident[i])
                  /\ \A i \in DOMAIN Committed : Sound(Committed[i])
<1>1. Init => Inv
  BY DEF Init, Committed
<1>2. \A new : Opens(new) \/ Tombstone(new) => Sound(new)
  BY DEF Opens, Tombstone
<1>3. \A old, new : Sound(old) /\ Rewrites(old, new) => Sound(new)
  BY DEF Rewrites, Joins, Moves, Rises
<1> HIDE DEF Sound
<1>4. Inv /\ TypeOK /\ TaskInv /\ [Next]_vars => Inv'
  <2> SUFFICES ASSUME Inv, TypeOK, TaskInv, [Next]_vars
               PROVE  Inv'
    OBVIOUS
  <2>1. ASSUME NEW j \in DOMAIN incident'
        PROVE  Sound(incident'[j])
    BY <1>2, <1>3, RowAfter
  <2>2. ASSUME NEW j \in DOMAIN Committed'
        PROVE  Sound(Committed'[j])
    <3>1. CASE j \in DOMAIN Committed
      BY <1>3, <3>1, CommittedRows DEF Follows
    <3>2. CASE j \notin DOMAIN Committed
      BY <1>2, <3>2, CommittedRows DEF Follows
    <3>3. QED
      BY <3>1, <3>2
  <2>3. QED
    BY <2>1, <2>2
<1>5. Inv => AssetsDependOnRoot
  BY DEF AssetsDependOnRoot, Sound
<1> HIDE DEF Inv
<1>6. QED
  BY <1>1, <1>4, <1>5, CorrectTypes, PTL DEF Spec

(* Two active incidents never share root and type, although no lock is held *)
(* between looking for an active incident and creating one, and although a  *)
(* transaction that failed is undone: the unique index turns the second     *)
(* creation away (create_incident, migration 003).                          *)
THEOREM FingerprintsAreUnique == Spec => []OneActivePerFingerprint
<1> DEFINE Live(row) == row.state \in {"open", "recovering"}
           Unique(rows) == \A i, j \in DOMAIN rows :
                             /\ Live(rows[i]) /\ Live(rows[j])
                             /\ rows[i].root = rows[j].root /\ rows[i].type = rows[j].type
                             => i = j
           Inv == Unique(incident) /\ Unique(Committed)
<1>1. Init => Inv
  BY DEF Init, Committed
<1>2. ASSUME TypeOK, IncidentsStep, incident' \in Seq(Incident), Unique(incident)
      PROVE  Unique(incident')
  <2> SUFFICES ASSUME NEW i \in DOMAIN incident', NEW j \in DOMAIN incident',
                      Live(incident'[i]), Live(incident'[j]),
                      incident'[i].root = incident'[j].root,
                      incident'[i].type = incident'[j].type
               PROVE  i = j
    OBVIOUS
  <2>1. ASSUME NEW k \in DOMAIN incident, Live(incident'[k])
        PROVE  /\ Live(incident[k])
               /\ incident'[k].root = incident[k].root
               /\ incident'[k].type = incident[k].type
    <3>1. incident[k] \in Incident
      BY <1>2 DEF TypeOK
    <3>2. incident'[k] = incident[k] \/ Rewrites(incident[k], incident'[k])
      BY <1>2, <2>1, WrittenRows DEF Follows
    <3>3. QED
      BY <2>1, <3>1, <3>2 DEF Incident, IncidentStates, Rewrites, Joins, Moves, Rises
  <2>2. CASE i \in DOMAIN incident /\ j \in DOMAIN incident
    BY <1>2, <2>1, <2>2
  <2>3. ASSUME NEW new \in DOMAIN incident' \ DOMAIN incident, NEW k \in DOMAIN incident,
               Live(incident'[k])
        PROVE  ~ (/\ incident'[new].root = incident'[k].root
                  /\ incident'[new].type = incident'[k].type)
    <3>1. ~FingerprintTaken(incident'[new])
      BY <1>2, <2>3, WrittenRows DEF Opens
    <3>2. QED
      BY <2>1, <2>3, <3>1 DEF FingerprintTaken, ActiveRooted, Active
  <2>4. CASE i \notin DOMAIN incident /\ j \in DOMAIN incident
    BY <2>3, <2>4
  <2>5. CASE i \in DOMAIN incident /\ j \notin DOMAIN incident
    BY <2>3, <2>5
  <2>6. CASE i \notin DOMAIN incident /\ j \notin DOMAIN incident
    <3>1. DOMAIN incident' = DOMAIN incident \cup {i}
      BY <1>2, <2>6, WrittenRows
    <3>2. QED
      BY <2>6, <3>1
  <2>7. QED
    BY <2>2, <2>4, <2>5, <2>6
<1>3. ASSUME TypeOK, TaskInv, saved # <<>>, Restore, Unique(Committed)
      PROVE  Unique(incident') /\ Unique(Committed')
  <2>1. /\ Committed' = incident'
        /\ \A j \in DOMAIN incident' : Live(incident'[j]) =>
             j \in DOMAIN Committed /\ incident'[j] = Committed[j]
    BY <1>3, RestoredRows DEF Tombstone
  <2>2. QED
    BY <1>3, <2>1
<1>4. Inv /\ TypeOK /\ TaskInv /\ [Next]_vars => Inv'
  <2> SUFFICES ASSUME Inv, TypeOK, TaskInv, [Next]_vars
               PROVE  Inv'
    OBVIOUS
  <2>1. CASE UNCHANGED <<incident, saved>>
    BY <2>1 DEF Committed
  <2>2. CASE IncidentsStep /\ saved = <<>> /\ (saved' = <<>> \/ Committed' = incident)
    <3>1. incident' \in Seq(Incident)
      BY StepKeeps DEF TypeOK
    <3>2. Committed' \in {incident, incident'}
      BY <2>2 DEF Committed
    <3>3. Unique(incident')
      BY <1>2, <2>2, <3>1
    <3> HIDE DEF Unique
    <3>4. QED
      BY <3>2, <3>3
  <2>3. CASE saved # <<>> /\ Restore
    BY <1>3, <2>3
  <2>4. QED
    BY <2>1, <2>2, <2>3, NextWrites DEF RowsStep
<1>5. Inv => OneActivePerFingerprint
  BY DEF OneActivePerFingerprint, Active
<1> HIDE DEF Inv
<1>6. QED
  BY <1>1, <1>4, <1>5, CorrectTypes, PTL DEF Spec

(* The alerts of an incident are queued in order and once each, for every   *)
(* interleaving of reopening, escalation, recovery and maintenance windows  *)
(* (create_incident, escalate_incident, set_incident_state).                *)
THEOREM AlertsAreOrdered == Spec => []AlertsTellOneStory
<1> DEFINE Story(row) ==
      /\ \A m, n \in DOMAIN row.alerts : row.alerts[m] = row.alerts[n] => m = n
      /\ \A n \in DOMAIN row.alerts :
           /\ row.alerts[n] = "opened" => n = 1
           /\ row.alerts[n] = "resolved" => /\ n = Len(row.alerts)
                                            /\ row.state = "resolved"
           /\ row.alerts[n] = "escalated" => row.severity = "critical"
<1> DEFINE Inv == /\ \A i \in DOMAIN incident : Story(incident[i])
                  /\ \A i \in DOMAIN Committed : Story(Committed[i])
<1>1. Inv => AlertsTellOneStory
  BY DEF AlertsTellOneStory
<1>2. Init => Inv
  BY DEF Init, Committed
<1>3. ASSUME NEW old \in Incident, NEW new \in Incident, Story(old), Rewrites(old, new)
      PROVE  Story(new)
  <2>1. old.alerts \in Seq({"opened", "escalated", "resolved"})
    BY DEF Incident
  <2>2. CASE new.alerts = old.alerts
    BY <1>3, <2>1, <2>2 DEF Rewrites, Joins, Moves, Rises
  <2>3. ASSUME NEW kind \in {"escalated", "resolved"},
               new.alerts = Append(old.alerts, kind),
               \A n \in DOMAIN old.alerts : old.alerts[n] \notin {kind, "resolved"},
               kind = "escalated" \/ old.severity = "critical" => new.severity = "critical",
               kind = "resolved" => new.state = "resolved"
        PROVE  Story(new)
    <3>1. /\ DOMAIN new.alerts = DOMAIN old.alerts \cup {Len(old.alerts) + 1}
          /\ Len(new.alerts) = Len(old.alerts) + 1
          /\ new.alerts[Len(old.alerts) + 1] = kind
          /\ \A n \in DOMAIN old.alerts : new.alerts[n] = old.alerts[n]
      BY <2>1, <2>3, AppendProperties
    <3>2. QED
      BY <1>3, <2>1, <2>3, <3>1
  <2>4. CASE new.alerts = Append(old.alerts, "escalated") /\ Rises(old, new)
    BY <1>3, <2>3, <2>4 DEF Rises
  <2>5. CASE new.alerts = Append(old.alerts, "resolved") /\ Moves(old, new)
    BY <1>3, <2>1, <2>3, <2>5 DEF Moves
  <2>6. QED
    BY <1>3, <2>2, <2>4, <2>5 DEF Rewrites, Joins, Moves, Rises
<1>4. \A new : Opens(new) \/ Tombstone(new) => Story(new)
  BY DEF Opens, Tombstone
<1> HIDE DEF Story
<1>5. Inv /\ TypeOK /\ TaskInv /\ [Next]_vars => Inv'
  <2> SUFFICES ASSUME Inv, TypeOK, TaskInv, [Next]_vars
               PROVE  Inv'
    OBVIOUS
  <2>1. ASSUME NEW j \in DOMAIN incident'
        PROVE  Story(incident'[j])
    <3>1. \A i \in DOMAIN incident : incident[i] \in Incident
      BY DEF TypeOK
    <3>2. QED
      BY <1>3, <1>4, <3>1, RowAfter
  <2>2. ASSUME NEW j \in DOMAIN Committed'
        PROVE  Story(Committed'[j])
    <3>1. \A i \in DOMAIN Committed : Committed[i] \in Incident
      BY CommittedRows
    <3>2. Committed'[j] \in Incident
      BY CommittedRows
    <3>3. CASE j \in DOMAIN Committed
      BY <1>3, <3>1, <3>2, <3>3, CommittedRows DEF Follows
    <3>4. CASE j \notin DOMAIN Committed
      BY <1>4, <3>4, CommittedRows DEF Follows
    <3>5. QED
      BY <3>3, <3>4
  <2>3. QED
    BY <2>1, <2>2
<1> HIDE DEF Inv
<1>6. QED
  BY <1>1, <1>2, <1>5, CorrectTypes, PTL DEF Spec

(* No step withdraws what a committed incident records, be it a rollback:   *)
(* identity, members, severity, queued alerts and resolution only ever      *)
(* grow, and a resolved incident gets members at most (attach_asset,        *)
(* escalate_incident, set_incident_state, _transaction).                    *)
THEOREM HistoryIsKept == Spec => HistoryOnlyGrows
<1>1. ASSUME NEW old \in Incident, NEW new \in Incident,
             old = new \/ Rewrites(old, new)
      PROVE  /\ new.root = old.root /\ new.type = old.type
             /\ old.severity = "critical" => new.severity = "critical"
             /\ old.assets \subseteq new.assets
             /\ IsPrefix(old.alerts, new.alerts)
             /\ old.state = "resolved" => [new EXCEPT !.assets = old.assets] = old
  <2> DEFINE Kinds == {"opened", "escalated", "resolved"}
  <2>1. old.alerts \in Seq(Kinds) /\ new.alerts \in Seq(Kinds)
    BY DEF Incident
  <2>2. /\ Len(old.alerts) <= Len(new.alerts)
        /\ \A n \in 1..Len(old.alerts) : new.alerts[n] = old.alerts[n]
    <3>1. CASE new.alerts = old.alerts
      BY <2>1, <3>1
    <3>2. ASSUME NEW kind \in Kinds, new.alerts = Append(old.alerts, kind)
          PROVE  /\ Len(old.alerts) <= Len(new.alerts)
                 /\ \A n \in 1..Len(old.alerts) : new.alerts[n] = old.alerts[n]
      BY <2>1, <3>2, AppendProperties
    <3>3. QED
      BY <1>1, <3>1, <3>2 DEF Rewrites, Joins, Moves, Rises
  <2>3. IsPrefix(old.alerts, new.alerts)
    <3>1. Len(old.alerts) \in Nat
      BY <2>1
    <3>2. SubSeq(old.alerts, 1, Len(old.alerts)) = SubSeq(new.alerts, 1, Len(old.alerts))
      BY <2>1, <2>2, <3>1
    <3>3. QED
      BY <2>2, <3>2 DEF IsPrefix
  <2>4. ASSUME old.state = "resolved"
        PROVE  [new EXCEPT !.assets = old.assets] = old
    <3>1. /\ new.root = old.root /\ new.type = old.type /\ new.state = old.state
          /\ new.severity = old.severity /\ new.alerts = old.alerts
      BY <1>1, <2>4 DEF Rewrites, Joins, Moves, Rises
    <3>2. QED
      BY <3>1 DEF Incident
  <2>5. QED
    BY <1>1, <2>3, <2>4 DEF Rewrites, Joins, Moves, Rises
<1>2. TypeOK /\ TaskInv /\ [Next]_vars =>
        [\A i \in DOMAIN Committed :
           LET old == Committed[i]
               new == Committed'[i]
           IN  /\ i \in DOMAIN Committed'
               /\ new.root = old.root /\ new.type = old.type
               /\ old.severity = "critical" => new.severity = "critical"
               /\ old.assets \subseteq new.assets
               /\ IsPrefix(old.alerts, new.alerts)
               /\ old.state = "resolved" => [new EXCEPT !.assets = old.assets] = old
        ]_vars
  <2> SUFFICES ASSUME TypeOK, TaskInv, [Next]_vars, NEW i \in DOMAIN Committed
               PROVE  /\ i \in DOMAIN Committed'
                      /\ Committed'[i] \in Incident
                      /\ Committed[i] = Committed'[i] \/ Rewrites(Committed[i], Committed'[i])
                      /\ Committed[i] \in Incident
    BY <1>1
  <2>1. Follows(Committed, Committed') /\ Committed \in Seq(Incident) /\ Committed' \in Seq(Incident)
    BY CommittedRows
  <2>2. i \in DOMAIN Committed'
    BY <2>1 DEF Follows
  <2>3. QED
    BY <2>1, <2>2 DEF Follows
<1>3. QED
  BY <1>2, CorrectTypes, PTL DEF Spec, HistoryOnlyGrows
=============================================================================
