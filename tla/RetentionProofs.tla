--------------------------- MODULE RetentionProofs ---------------------------
(***************************************************************************)
(* Proofs of the properties of Retention, for any lengths, any number of   *)
(* samples, incidents and restarts, and any time.                          *)
(*                                                                         *)
(* Three invariants, each inductive over the types: the foreign keys hold  *)
(* (HistoryHasNoHoles), a fault is either still a sample or counted in the *)
(* rollup of its hour (FaultsKept), and a loop that runs sleeps no longer  *)
(* than the oldest sample may stay (SleepIsShort).                         *)
(***************************************************************************)
EXTENDS Retention, WellFoundedInduction, FiniteSetTheorems, TLAPS

-----------------------------------------------------------------------------
(* The youngest incident, and the hour of a time.                          *)

LEMMA Smallest ==
  ASSUME NEW T \in SUBSET Nat, T # {}
  PROVE  \E x \in T : \A y \in T : x <= y
<1> DEFINE R == OpToRel(<, Nat)
<1>1. IsWellFoundedOn(R, Nat)
  BY NatLessThanWellFounded
<1> HIDE DEF R
<1>2. \E x \in T : \A y \in T : <<y, x>> \notin R
  BY <1>1, WFMin
<1>3. \A x, y \in Nat : <<y, x>> \notin R => x <= y
  BY DEF R, OpToRel
<1> QED
  BY <1>2, <1>3

LEMMA Greatest ==
  ASSUME NEW bound \in Nat, NEW T \in SUBSET (0..bound), T # {}
  PROVE  Max(T) \in T /\ \A x \in T : x <= Max(T)
<1> DEFINE gaps == {gap \in Nat : \E x \in T : gap = bound - x}
<1>1. PICK least \in gaps : \A gap \in gaps : least <= gap
  <2>1. PICK x \in T : TRUE
    OBVIOUS
  <2>2. bound - x \in gaps
    BY <2>1
  <2> QED
    BY <2>2, Smallest
<1>2. PICK x \in T : least = bound - x
  OBVIOUS
<1>3. \A y \in T : x >= y
  <2> TAKE y \in T
  <2>1. bound - y \in gaps
    OBVIOUS
  <2> QED
    BY <1>1, <1>2, <2>1
<1> QED
  BY <1>3 DEF Max

LEMMA HourType == \A at \in Nat : Hour(at) \in Nat /\ Hour(at) * HourLength \in Nat
<1>1. \A at \in Nat : Hour(at) \in Nat
  BY RetentionAssumption DEF Hour
<1> QED
  BY <1>1, RetentionAssumption

-----------------------------------------------------------------------------
(* The inductive invariant.                                                *)

Finite == /\ IsFiniteSet(recorded)
          /\ \A i \in incidents : i.id \in 1..MaxIncidents

\* The hour is shown as one with a fault.
FaultShown(h) == \/ \E s \in samples : Hour(s.at) = h /\ ~s.healthy
                 \/ \E r \in rollups : r.hour = h /\ r.healthy # r.count

FaultsKept ==
  \A s \in recorded :
    \/ s.healthy \/ Hour(s.at) \in overwritten
    \/ Expired(Hour(s.at) * HourLength, RollupAge)
    \/ FaultShown(Hour(s.at))

SleepIsShort ==
  loop.running =>
    /\ loop.due \in now..(now + HourLength)
    /\ now < loop.due => \A s \in samples : loop.due <= s.at + SampleAge + HourLength

IInv == TypeOK /\ Finite /\ HistoryHasNoHoles /\ FaultsKept /\ SleepIsShort

LEMMA ConstantsAreNumbers ==
  /\ HourLength \in Nat \ {0} /\ HourLength <= MaxTime
  /\ SampleAge \in Nat /\ RollupAge \in Nat /\ IncidentAge \in Nat
  /\ MaxTime \in Nat /\ MaxSamples \in Nat /\ MaxIncidents \in Nat /\ MaxRestarts \in Nat
BY RetentionAssumption

LEMMA PreviousIsThere ==
  ASSUME IInv
  PROVE  /\ Previous \in 0..MaxIncidents
         /\ Previous # NoIncident => \E p \in incidents : p.id = Previous
<1> DEFINE ids == {NoIncident} \cup {i.id : i \in incidents}
<1>1. ids \in SUBSET (0..MaxIncidents) /\ ids # {}
  BY ConstantsAreNumbers DEF IInv, Finite, NoIncident
<1>2. Max(ids) \in ids
  BY <1>1, Greatest, ConstantsAreNumbers
<1> QED
  BY <1>1, <1>2 DEF Previous

-----------------------------------------------------------------------------
(* Rows that are written.                                                  *)

LEMMA RecordKeeps ==
  ASSUME IInv, NEW healthy \in BOOLEAN, Record(healthy)
  PROVE  IInv'
<1> DEFINE sample == [at |-> now, healthy |-> healthy]
<1>1. /\ sample \in Sample
      /\ samples' = samples \cup {sample} /\ recorded' = recorded \cup {sample}
      /\ UNCHANGED <<now, rollups, incidents, alerts, loop, restarts, overwritten>>
  BY ConstantsAreNumbers DEF Record, IInv, TypeOK, Sample
<1>2. TypeOK'
  BY <1>1 DEF IInv, TypeOK
<1>3. Finite' /\ HistoryHasNoHoles'
  BY <1>1, FS_AddElement DEF IInv, Finite, HistoryHasNoHoles
<1>4. FaultsKept'
  <2>1. \A h : FaultShown(h) => FaultShown(h)'
    BY <1>1 DEF FaultShown
  <2>2. ~healthy => FaultShown(Hour(sample.at))'
    BY <1>1 DEF FaultShown
  <2> QED
    BY <1>1, <2>1, <2>2 DEF IInv, FaultsKept, Expired
<1>5. SleepIsShort'
  <2>1. now \in Nat /\ loop.due \in Nat
    BY ConstantsAreNumbers DEF IInv, TypeOK
  <2>2. loop.running => loop.due <= sample.at + SampleAge + HourLength
    BY <2>1, ConstantsAreNumbers DEF IInv, SleepIsShort
  <2> QED
    BY <1>1, <2>2 DEF IInv, SleepIsShort
<1> QED
  BY <1>2, <1>3, <1>4, <1>5 DEF IInv

\* What the parts about samples and the loop depend on is unchanged.
LEMMA SamplesUntouched ==
  ASSUME IInv, UNCHANGED <<now, samples, rollups, loop, recorded, overwritten>>
  PROVE  FaultsKept' /\ SleepIsShort'
BY DEF IInv, FaultsKept, FaultShown, Expired, SleepIsShort

LEMMA OpenKeeps ==
  ASSUME IInv, Open
  PROVE  IInv'
<1> DEFINE id == Previous + 1
<1> DEFINE opened == [id |-> id, previous |-> Previous, state |-> "active", since |-> now]
<1> DEFINE queued == {[incident |-> alerted, created |-> now, settled |-> FALSE] :
                        alerted \in {id} \cap Alerted}
<1>1. /\ incidents' = incidents \cup {opened} /\ alerts' = alerts \cup queued
      /\ id <= MaxIncidents
      /\ UNCHANGED <<now, samples, rollups, loop, restarts, recorded, overwritten>>
  BY DEF Open
<1>2. Previous \in Nat /\ id \in 1..MaxIncidents /\ now \in Nat
  BY <1>1, PreviousIsThere, ConstantsAreNumbers DEF IInv, TypeOK
<1>3. opened \in Incident /\ queued \subseteq Alert
  <2>1. opened \in Incident
    BY <1>2, ConstantsAreNumbers DEF Incident, NoIncident
  <2>2. [incident |-> id, created |-> now, settled |-> FALSE] \in Alert
    BY <1>2, ConstantsAreNumbers DEF Alert
  <2> QED
    BY <2>1, <2>2
<1>4. TypeOK'
  BY <1>1, <1>3 DEF IInv, TypeOK
<1>5. Finite'
  BY <1>1, <1>2 DEF IInv, Finite
<1>6. HistoryHasNoHoles'
  <2>1. opened.previous # NoIncident => \E p \in incidents : p.id = opened.previous
    BY PreviousIsThere
  <2> QED
    BY <1>1, <2>1 DEF IInv, HistoryHasNoHoles
<1> QED
  BY <1>1, <1>4, <1>5, <1>6, SamplesUntouched DEF IInv

LEMMA EndKeeps ==
  ASSUME IInv, NEW i \in incidents, NEW from, NEW to \in {"resolved", "closed"},
         End(i, from, to)
  PROVE  IInv'
<1> DEFINE ended == [i EXCEPT !.state = to, !.since = now]
<1>1. /\ incidents' = (incidents \ {i}) \cup {ended}
      /\ UNCHANGED <<now, samples, rollups, alerts, loop, restarts, recorded, overwritten>>
  BY DEF End
<1>2. i \in Incident /\ now \in Nat
  BY ConstantsAreNumbers DEF IInv, TypeOK
<1>3. ended \in Incident /\ ended.id = i.id /\ ended.previous = i.previous
  BY <1>2 DEF Incident
<1>4. TypeOK'
  BY <1>1, <1>3 DEF IInv, TypeOK
<1>5. Finite'
  BY <1>1, <1>3 DEF IInv, Finite
<1>6. HistoryHasNoHoles'
  BY <1>1, <1>3 DEF IInv, HistoryHasNoHoles
<1> QED
  BY <1>1, <1>4, <1>5, <1>6, SamplesUntouched DEF IInv

LEMMA SettleKeeps ==
  ASSUME IInv, NEW alert \in alerts, Settle(alert)
  PROVE  IInv'
<1>1. /\ alerts' = (alerts \ {alert}) \cup {[alert EXCEPT !.settled = TRUE]}
      /\ UNCHANGED <<now, samples, rollups, incidents, loop, restarts, recorded, overwritten>>
  BY DEF Settle
<1>2. [alert EXCEPT !.settled = TRUE] \in Alert
  BY DEF IInv, TypeOK, Alert
<1>3. TypeOK'
  BY <1>1, <1>2 DEF IInv, TypeOK
<1>4. Finite' /\ HistoryHasNoHoles'
  BY <1>1 DEF IInv, Finite, HistoryHasNoHoles
<1> QED
  BY <1>1, <1>3, <1>4, SamplesUntouched DEF IInv

-----------------------------------------------------------------------------
(* cleanup.                                                                *)

\* The rollups that a cleanup writes: one per hour, with no more healthy samples than
\* samples, and with fewer if one of them was not healthy.
LEMMA RolledUpCounts ==
  ASSUME IInv
  PROVE  /\ RolledUp \subseteq Rollup
         /\ \A r \in RolledUp : r.healthy <= r.count
         /\ \A r, other \in RolledUp : r.hour = other.hour => r = other
         /\ \A s \in OldSamples : \E r \in RolledUp :
              r.hour = Hour(s.at) /\ (~s.healthy => r.healthy # r.count)
<1> DEFINE OfHour(h) == {s \in OldSamples : Hour(s.at) = h}
<1> DEFINE HealthyOf(h) == {s \in OldSamples : Hour(s.at) = h /\ s.healthy}
<1> DEFINE rollup(h) == [hour |-> h, count |-> Cardinality(OfHour(h)),
                         healthy |-> Cardinality(HealthyOf(h))]
<1>1. RolledUp = {rollup(h) : h \in {Hour(s.at) : s \in OldSamples}}
  BY DEF RolledUp
<1>2. ASSUME NEW h
      PROVE  /\ Cardinality(OfHour(h)) \in Nat /\ Cardinality(HealthyOf(h)) \in Nat
             /\ Cardinality(HealthyOf(h)) <= Cardinality(OfHour(h))
             /\ Cardinality(HealthyOf(h)) = Cardinality(OfHour(h))
                  => \A s \in OfHour(h) : s.healthy
  <2>1. OfHour(h) \in SUBSET recorded /\ HealthyOf(h) \in SUBSET OfHour(h)
    BY DEF OldSamples, IInv, TypeOK
  <2>2. IsFiniteSet(OfHour(h))
    BY <2>1, FS_Subset DEF IInv, Finite
  <2>3. /\ IsFiniteSet(HealthyOf(h))
        /\ Cardinality(HealthyOf(h)) <= Cardinality(OfHour(h))
        /\ Cardinality(OfHour(h)) = Cardinality(HealthyOf(h)) => OfHour(h) = HealthyOf(h)
    BY <2>1, <2>2, FS_Subset
  <2>4. Cardinality(OfHour(h)) \in Nat /\ Cardinality(HealthyOf(h)) \in Nat
    BY <2>2, <2>3, FS_CardinalityType
  <2> QED
    BY <2>3, <2>4
<1>3. \A s \in OldSamples : Hour(s.at) \in Nat
  BY HourType DEF OldSamples, IInv, TypeOK, Sample
<1> HIDE DEF OfHour, HealthyOf
<1>4. /\ RolledUp \subseteq Rollup
      /\ \A r \in RolledUp : r.healthy <= r.count
      /\ \A r, other \in RolledUp : r.hour = other.hour => r = other
  BY <1>1, <1>2, <1>3 DEF Rollup
<1>5. ASSUME NEW s \in OldSamples
      PROVE  \E r \in RolledUp : r.hour = Hour(s.at) /\ (~s.healthy => r.healthy # r.count)
  <2>1. rollup(Hour(s.at)) \in RolledUp
    BY <1>1
  <2>2. s \in OfHour(Hour(s.at))
    BY DEF OfHour
  <2>3. ~s.healthy => Cardinality(HealthyOf(Hour(s.at))) # Cardinality(OfHour(Hour(s.at)))
    BY <1>2, <2>2
  <2> QED
    BY <2>1, <2>3
<1> QED
  BY <1>4, <1>5

LEMMA CleanupKeeps ==
  ASSUME IInv, Cleanup
  PROVE  IInv'
<1>1. /\ rollups' \subseteq (rollups \ Replaced) \cup RolledUp
      /\ samples' = samples \ OldSamples
      /\ incidents' = incidents \ OldIncidents
      /\ alerts' = {Detached(a) : a \in alerts \ Deleted}
      /\ loop' = [loop EXCEPT !.due = now + HourLength]
      /\ overwritten' = overwritten \cup {r.hour : r \in Replaced}
      /\ UNCHANGED <<now, restarts, recorded>>
  BY DEF Cleanup
<1>2. TypeOK'
  <2>1. rollups' \subseteq Rollup
    BY <1>1, RolledUpCounts DEF IInv, TypeOK
  <2>2. \A r, other \in rollups' : r.healthy <= r.count /\ (r.hour = other.hour => r = other)
    BY <1>1, RolledUpCounts DEF IInv, TypeOK, Replaced
  <2>3. overwritten' \subseteq Nat
    BY <1>1 DEF IInv, TypeOK, Replaced, Rollup
  <2>4. alerts' \subseteq Alert
    BY <1>1 DEF IInv, TypeOK, Detached, Alert, NoIncident
  <2>5. loop' \in [running : BOOLEAN, due : Nat]
    BY <1>1, ConstantsAreNumbers DEF IInv, TypeOK
  <2> QED
    BY <1>1, <2>1, <2>2, <2>3, <2>4, <2>5 DEF IInv, TypeOK
<1>3. Finite'
  BY <1>1 DEF IInv, Finite
<1>4. HistoryHasNoHoles'
  BY <1>1 DEF IInv, HistoryHasNoHoles, Cleanup, Blocked
<1>5. FaultsKept'
  <2> SUFFICES ASSUME NEW s \in recorded, ~s.healthy, Hour(s.at) \notin overwritten',
                      ~Expired(Hour(s.at) * HourLength, RollupAge)
               PROVE  FaultShown(Hour(s.at))'
    BY <1>1 DEF FaultsKept, Expired
  <2>1. FaultShown(Hour(s.at))
    BY <1>1 DEF IInv, FaultsKept
  <2>2. \A r \in (rollups \ Replaced) \cup RolledUp : r.hour = Hour(s.at) => r \in rollups'
    BY DEF Cleanup
  <2>3. CASE \E t \in samples : Hour(t.at) = Hour(s.at) /\ ~t.healthy
    <3>1. PICK t \in samples : Hour(t.at) = Hour(s.at) /\ ~t.healthy
      BY <2>3
    <3>2. CASE t \in OldSamples
      BY <2>2, <3>1, <3>2, RolledUpCounts DEF FaultShown
    <3>3. CASE t \notin OldSamples
      BY <1>1, <3>1, <3>3 DEF FaultShown
    <3> QED
      BY <3>2, <3>3
  <2>4. CASE \E r \in rollups : r.hour = Hour(s.at) /\ r.healthy # r.count
    BY <1>1, <2>2, <2>4 DEF FaultShown
  <2> QED
    BY <2>1, <2>3, <2>4 DEF FaultShown
<1>6. SleepIsShort'
  <2>1. now \in Nat /\ \A s \in samples : s.at \in Nat
    BY ConstantsAreNumbers DEF IInv, TypeOK, Sample
  <2>2. \A s \in samples' : now <= s.at + SampleAge
    BY <1>1, <2>1, ConstantsAreNumbers DEF OldSamples, Expired
  <2>3. loop'.due = now + HourLength
    BY <1>1 DEF IInv, TypeOK
  <2> QED
    BY <1>1, <2>1, <2>2, <2>3, ConstantsAreNumbers DEF SleepIsShort
<1> QED
  BY <1>2, <1>3, <1>4, <1>5, <1>6 DEF IInv

LEMMA CleanupFailsKeeps ==
  ASSUME IInv, CleanupFails
  PROVE  IInv'
<1>1. /\ loop' = [loop EXCEPT !.running = FALSE]
      /\ UNCHANGED <<now, samples, rollups, incidents, alerts, restarts, recorded, overwritten>>
  BY DEF CleanupFails, rows
<1>2. TypeOK' /\ ~loop'.running
  BY <1>1 DEF IInv, TypeOK
<1>3. Finite' /\ HistoryHasNoHoles' /\ FaultsKept'
  BY <1>1 DEF IInv, Finite, HistoryHasNoHoles, FaultsKept, FaultShown, Expired
<1> QED
  BY <1>2, <1>3 DEF IInv, SleepIsShort

LEMMA RestartKeeps ==
  ASSUME IInv, Restart
  PROVE  IInv'
<1>1. /\ loop' = [running |-> TRUE, due |-> now] /\ restarts' = restarts + 1
      /\ restarts < MaxRestarts
      /\ UNCHANGED <<now, samples, rollups, incidents, alerts, recorded, overwritten>>
  BY DEF Restart, rows
<1>2. TypeOK'
  BY <1>1, ConstantsAreNumbers DEF IInv, TypeOK
<1>3. Finite' /\ HistoryHasNoHoles' /\ FaultsKept'
  BY <1>1 DEF IInv, Finite, HistoryHasNoHoles, FaultsKept, FaultShown, Expired
<1>4. SleepIsShort'
  BY <1>1, ConstantsAreNumbers DEF IInv, TypeOK, SleepIsShort
<1> QED
  BY <1>2, <1>3, <1>4 DEF IInv

LEMMA TickKeeps ==
  ASSUME IInv, Tick
  PROVE  IInv'
<1>1. /\ now < MaxTime /\ now' = now + 1 /\ ~CleanupDue
      /\ UNCHANGED <<samples, rollups, incidents, alerts, loop, restarts, recorded, overwritten>>
  BY DEF Tick, rows
<1>2. now \in Nat /\ now' \in 0..MaxTime /\ loop.due \in Nat
  BY <1>1, ConstantsAreNumbers DEF IInv, TypeOK
<1>3. TypeOK'
  BY <1>1, <1>2 DEF IInv, TypeOK
<1>4. Finite' /\ HistoryHasNoHoles'
  BY <1>1 DEF IInv, Finite, HistoryHasNoHoles
<1>5. FaultsKept'
  <2>1. \A since \in Nat : Expired(since, RollupAge) => Expired(since, RollupAge)'
    BY <1>1, <1>2, ConstantsAreNumbers DEF Expired
  <2>2. \A s \in recorded : Hour(s.at) * HourLength \in Nat
    BY HourType DEF IInv, TypeOK, Sample
  <2> QED
    BY <1>1, <2>1, <2>2 DEF IInv, FaultsKept, FaultShown
<1>6. SleepIsShort'
  BY <1>1, <1>2, ConstantsAreNumbers DEF IInv, SleepIsShort, CleanupDue
<1> QED
  BY <1>3, <1>4, <1>5, <1>6 DEF IInv

-----------------------------------------------------------------------------
(* The invariant and what follows from it.                                 *)

LEMMA InitHolds == Init => IInv
<1> SUFFICES ASSUME Init PROVE IInv
  OBVIOUS
<1>1. /\ now \in 0..MaxTime /\ now \in Nat
      /\ samples = {} /\ rollups = {} /\ incidents = {} /\ alerts = {}
      /\ loop = [running |-> TRUE, due |-> now] /\ restarts = 0
      /\ recorded = {} /\ overwritten = {}
  BY ConstantsAreNumbers DEF Init
<1>2. TypeOK
  BY <1>1, ConstantsAreNumbers DEF TypeOK
<1>3. Finite /\ HistoryHasNoHoles /\ FaultsKept
  BY <1>1, FS_EmptySet DEF Finite, HistoryHasNoHoles, FaultsKept
<1>4. SleepIsShort
  BY <1>1, ConstantsAreNumbers DEF SleepIsShort
<1> QED
  BY <1>2, <1>3, <1>4 DEF IInv

LEMMA NextKeeps == IInv /\ [Next]_vars => IInv'
<1> SUFFICES ASSUME IInv, [Next]_vars PROVE IInv'
  OBVIOUS
<1>1. CASE \E healthy \in BOOLEAN : Record(healthy)
  BY <1>1, RecordKeeps
<1>2. CASE \E i \in incidents : End(i, "active", "resolved") \/ End(i, "resolved", "closed")
  BY <1>2, EndKeeps
<1>3. CASE \E a \in alerts : Settle(a)
  BY <1>3, SettleKeeps
<1>4. CASE Open \/ Cleanup \/ CleanupFails \/ Restart \/ Tick
  BY <1>4, OpenKeeps, CleanupKeeps, CleanupFailsKeeps, RestartKeeps, TickKeeps
<1>5. CASE UNCHANGED vars
  BY <1>5 DEF vars, rows, IInv, TypeOK, Finite, HistoryHasNoHoles, FaultsKept, FaultShown,
     Expired, SleepIsShort
<1> QED
  BY <1>1, <1>2, <1>3, <1>4, <1>5 DEF Next

LEMMA InvariantHolds == Spec => []IInv
BY InitHolds, NextKeeps, PTL DEF Spec

\* Every variable keeps its type, and an hour has one rollup, of which no more was
\* healthy than there was.
THEOREM TypeCorrect == Spec => []TypeOK
<1>1. IInv => TypeOK
  BY DEF IInv
<1> QED
  BY <1>1, InvariantHolds, PTL

\* An incident names an incident that is there: cleanup deletes none that another
\* one names.
THEOREM ForeignKeysHold == Spec => []HistoryHasNoHoles
<1>1. IInv => HistoryHasNoHoles
  BY DEF IInv
<1> QED
  BY <1>1, InvariantHolds, PTL

\* A fault is shown on the chart as long as rollups are kept, but for an hour whose
\* rollup was overwritten.
THEOREM FaultsAreVisible == Spec => []FaultsStayVisible
<1>1. IInv => FaultsStayVisible
  <2>1. ASSUME IInv, NEW h, FaultShown(h)
        PROVE  FALSE \in Shown(h)
    <3>1. CASE \E s \in samples : Hour(s.at) = h /\ ~s.healthy
      <4>1. PICK s \in samples : Hour(s.at) = h /\ ~s.healthy
        BY <3>1
      <4>2. s.healthy = FALSE
        BY <2>1, <4>1 DEF IInv, TypeOK, Sample
      <4> QED
        BY <4>1, <4>2 DEF Shown
    <3>2. CASE \E r \in rollups : r.hour = h /\ r.healthy # r.count
      <4>1. PICK r \in rollups : r.hour = h /\ r.healthy # r.count
        BY <3>2
      <4>2. (r.healthy = r.count) = FALSE
        BY <4>1
      <4> QED
        BY <4>1, <4>2 DEF Shown
    <3> QED
      BY <2>1, <3>1, <3>2 DEF FaultShown
  <2> QED
    BY <2>1 DEF IInv, FaultsKept, FaultsStayVisible
<1> QED
  BY <1>1, InvariantHolds, PTL

\* While the maintenance loop runs, a sample is deleted at the latest an hour after
\* its retention.
THEOREM PromiseIsKept == Spec => []KeptWhileRunning
<1>1. IInv => KeptWhileRunning
  <2> SUFFICES ASSUME IInv, loop.running, ~CleanupDue, NEW s \in samples
               PROVE  now <= s.at + SampleAge + HourLength
    BY DEF KeptWhileRunning, SamplesAreDeleted
  <2>1. now \in Nat /\ loop.due \in Nat /\ s.at \in Nat
    BY ConstantsAreNumbers DEF IInv, TypeOK, Sample
  <2>2. now < loop.due
    BY <2>1 DEF CleanupDue
  <2>3. loop.due <= s.at + SampleAge + HourLength
    BY <2>2 DEF IInv, SleepIsShort
  <2> QED
    BY <2>1, <2>2, <2>3, ConstantsAreNumbers
<1> QED
  BY <1>1, InvariantHolds, PTL

\* A sample, an incident and an alert that is pending stay for their time: only a
\* cleanup deletes, and only what has ended and is old enough.
THEOREM NothingIsDeletedEarly == Spec => NothingLeavesEarly
<1> DEFINE Late ==
      /\ \A s \in samples \ samples' : Expired(s.at, SampleAge)
      /\ \A i \in incidents : (\A j \in incidents' : j.id # i.id)
           => i.state # "active" /\ Expired(i.since, IncidentAge)
      /\ \A a \in alerts : ~a.settled => \E b \in alerts' : b.created = a.created
<1>1. ASSUME IInv, Next PROVE Late
  <2>1. CASE \E healthy \in BOOLEAN : Record(healthy)
    BY <2>1 DEF Record
  <2>2. CASE Open
    BY <2>2 DEF Open
  <2>3. CASE \E i \in incidents : End(i, "active", "resolved") \/ End(i, "resolved", "closed")
    <3>1. PICK i \in incidents, to \in {"resolved", "closed"} :
            /\ incidents' = (incidents \ {i}) \cup {[i EXCEPT !.state = to, !.since = now]}
            /\ UNCHANGED <<samples, alerts>>
      BY <2>3 DEF End
    <3>2. [i EXCEPT !.state = to, !.since = now].id = i.id
      BY <1>1 DEF IInv, TypeOK, Incident
    <3> QED
      BY <3>1, <3>2
  <2>4. CASE \E a \in alerts : Settle(a)
    <3>1. PICK a \in alerts :
            /\ alerts' = (alerts \ {a}) \cup {[a EXCEPT !.settled = TRUE]}
            /\ UNCHANGED <<samples, incidents>>
      BY <2>4 DEF Settle
    <3>2. [a EXCEPT !.settled = TRUE].created = a.created
      BY <1>1 DEF IInv, TypeOK, Alert
    <3> QED
      BY <3>1, <3>2
  <2>5. CASE Cleanup
    <3>1. \A a \in alerts : Detached(a).created = a.created
      BY <1>1 DEF Detached, IInv, TypeOK, Alert
    <3>2. /\ samples' = samples \ OldSamples /\ incidents' = incidents \ OldIncidents
          /\ alerts' = {Detached(a) : a \in alerts \ Deleted}
      BY <2>5 DEF Cleanup
    <3> QED
      BY <3>1, <3>2 DEF OldSamples, OldIncidents, Deleted
  <2>6. CASE CleanupFails \/ Restart \/ Tick
    BY <2>6 DEF CleanupFails, Restart, Tick, rows
  <2> QED
    BY <1>1, <2>1, <2>2, <2>3, <2>4, <2>5, <2>6 DEF Next
<1>2. IInv /\ [Next]_vars => [Late]_vars
  BY <1>1
<1> QED
  BY <1>2, InvariantHolds, PTL DEF Spec, NothingLeavesEarly
=============================================================================
