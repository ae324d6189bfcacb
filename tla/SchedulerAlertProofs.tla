------------------------- MODULE SchedulerAlertProofs -------------------------
(***************************************************************************)
(* Proofs about baselines, alerts and the audit trail of the API process:  *)
(* each part of SchedulerInvariants is shown inductive given the earlier   *)
(* ones, and the properties follow.                                        *)
(***************************************************************************)
EXTENDS SchedulerProofs

-----------------------------------------------------------------------------
\* Runs and snapshots.

\* The variables RunInvAt(q) reads, at q.
SameRun(q) ==
    /\ pc'[q] = pc[q] /\ prev'[q] = prev[q] /\ cur'[q] = cur[q]
    /\ verdict'[q] = verdict[q] /\ live'[q] = live[q] /\ retired'[q] = retired[q]
    /\ fetched'[q] = fetched[q]

\* A step that leaves a profile's run and snapshots alone keeps its invariant.
LEMMA RunFrame ==
    ASSUME NEW q \in Profiles, RunInvAt(q), SameRun(q),
           proc' = proc \/ proc' = "up" \/ pc[q] \in Ended
    PROVE  RunInvAt(q)'
  BY DEF RunInvAt, LocalsInv, OrderInv, BaselineInv, Stored, SameRun

\* The job, and a DELETE, of one profile do not touch another.
LEMMA OtherRuns ==
    ASSUME TypeOK, NEW p \in Profiles, NEW q \in Profiles, q # p,
           Fire(p) \/ Run(p) \/ \E d \in Deleters : Delete(d, p)
    PROVE  SameRun(q) /\ proc' = proc
<1>1. CASE Fire(p) \/ Run(p)
  <2>1. CASE Fire(p) \/ FindOwnJob(p) \/ RemoveOwnJob(p) \/ ClearOwnSnapshots(p)
    BY <2>1 DEF TypeOK, SameRun, Fire, FindOwnJob, RemoveOwnJob, ClearOwnSnapshots,
       Deregister, dbVars
  <2>2. CASE LoadBaseline(p) \/ FetchFails(p)
    BY <2>2 DEF TypeOK, SameRun, LoadBaseline, FetchFails, dbVars
  <2>3. CASE FetchForecast(p)
    BY <2>3 DEF TypeOK, SameRun, FetchForecast, dbVars
  <2>4. CASE Deliver(p) \/ Acknowledge(p) \/ NotifyFails(p)
    BY <2>4 DEF TypeOK, SameRun, Deliver, Acknowledge, NotifyFails, dbVars
  <2>5. CASE StoreSnapshot(p) \/ WritePoll(p)
    BY <2>5 DEF TypeOK, SameRun, StoreSnapshot, WritePoll
  <2>. QED
    BY <1>1, <2>1, <2>2, <2>4, <2>5, <2>3 DEF Run
<1>2. CASE \E d \in Deleters : Delete(d, p)
  BY <1>2 DEF TypeOK, SameRun, Delete, DeleteFind, DeleteRemoveJob, DeleteClear,
     DeleteCommit, Deregister, dbVars, runVars
<1>. QED
  BY <1>1, <1>2

\* Retiring the live snapshots of p, by its own job or by a DELETE.
LEMMA DeregisterKeepsRunInv ==
    ASSUME TypeOK, NEW p \in Profiles, RunInvAt(p), Deregister(p),
           UNCHANGED <<prev, cur, verdict, fetched, proc>>,
           \/ pc' = pc
           \/ pc[p] = "clearing" /\ pc' = [pc EXCEPT ![p] = "idle"]
    PROVE  RunInvAt(p)'
<1>1. live'[p] = {} /\ retired'[p] = live[p] \union retired[p]
  BY DEF TypeOK, Deregister
<1>2. Stored(p)' = Stored(p)
  BY <1>1 DEF Stored
<1>. QED
  BY <1>1, <1>2 DEF TypeOK, RunInvAt, LocalsInv, OrderInv, BaselineInv, Ended, Deciding

LEMMA RunsInductive == Spec => []RunInv
<1>1. Init => RunInv
  <2> SUFFICES ASSUME Init, NEW p \in Profiles PROVE RunInvAt(p)
    BY DEF RunInv
  <2>1. /\ pc[p] = "idle" /\ prev[p] = NoSnap /\ cur[p] = NoSnap /\ verdict[p] = "none"
        /\ Stored(p) = {}
    BY DEF Init, Stored
  <2>. QED
    BY <2>1 DEF RunInvAt, LocalsInv, OrderInv, BaselineInv, Ended, Deciding
<1>2. TypeInv /\ RunInv /\ [Next]_vars => RunInv'
  <2> SUFFICES ASSUME TypeInv, RunInv, [Next]_vars PROVE RunInv'
    OBVIOUS
  <2> USE DEF RunInv, TypeInv
  <2>0. ASSUME NEW p \in Profiles, RunInvAt(p)',
               Fire(p) \/ Run(p) \/ \E d \in Deleters : Delete(d, p)
        PROVE  RunInv'
    BY <2>0, OtherRuns, RunFrame
  <2> HIDE DEF RunInv
  <2>1. ASSUME NEW p \in Profiles, Fire(p) \/ Run(p) PROVE RunInvAt(p)'
    <3> USE <2>1 DEF TypeOK
    <3>0. RunInvAt(p)
      BY DEF RunInv
    <3> DEFINE Parts == RunInvAt(p)'
    <3>1. CASE Fire(p) \/ FindOwnJob(p) \/ RemoveOwnJob(p)
      BY <3>0, <3>1 DEF RunInvAt, LocalsInv, OrderInv, BaselineInv, Stored, Ended,
         Deciding, Fire, FindOwnJob, RemoveOwnJob, dbVars
    <3>2. CASE ClearOwnSnapshots(p)
      <4>1. CASE Deregister(p) /\ pc' = [pc EXCEPT ![p] = "idle"]
        BY <3>0, <3>2, <4>1, DeregisterKeepsRunInv DEF ClearOwnSnapshots
      <4>2. CASE pc' = [pc EXCEPT ![p] = "raised"] /\ UNCHANGED <<live, retired>>
        BY <3>0, <3>2, <4>2 DEF ClearOwnSnapshots, RunInvAt, LocalsInv, OrderInv,
           BaselineInv, Stored, Ended, Deciding
      <4>. QED
        BY <3>2, <4>1, <4>2 DEF ClearOwnSnapshots
    <3>3. CASE LoadBaseline(p)
      BY <3>0, <3>3 DEF LoadBaseline, LatestSnapshots, RunInvAt, LocalsInv, OrderInv,
         BaselineInv, Stored, Ended, Deciding, NoSnap, dbVars
    <3>4. CASE FetchForecast(p)
      <4>1. PICK f \in Forecasts : cur' = [cur EXCEPT ![p] = [id |-> fetched[p] + 1, fc |-> f]]
        BY <3>4 DEF FetchForecast
      <4>2. /\ cur'[p] \in Snapshot /\ cur'[p].id = fetched[p] + 1 /\ cur'[p] # NoSnap
            /\ fetched'[p] = fetched[p] + 1 /\ fetched[p] \in Nat
        <5>1. cur'[p] = [id |-> fetched[p] + 1, fc |-> f]
          BY <4>1
        <5>2. fetched[p] \in Nat /\ fetched[p] + 1 \in 1..MaxFetches
          BY <3>4, SchedulerAssumption DEF FetchForecast
        <5>3. fetched'[p] = fetched[p] + 1
          BY <3>4 DEF FetchForecast
        <5>. QED
          BY <5>1, <5>2, <5>3 DEF Snapshot, NoSnap
      <4>3. /\ pc[p] = "fetching" /\ proc' = proc /\ prev' = prev
            /\ live' = live /\ retired' = retired
            /\ pc'[p] \in {"alerting", "storing"}
            /\ pc'[p] = "alerting" =>
                  verdict' = verdict /\ <<prev[p].fc, cur'[p].fc>> \in Significant
        BY <3>4, <4>1 DEF FetchForecast, dbVars
      <4>4. \A s \in Stored(p) : s.id \in Nat /\ s.id <= fetched[p]
        BY <3>0 DEF RunInvAt, OrderInv, Stored, Snapshot
      <4>5. LocalsInv(p)'
        BY <3>0, <4>2, <4>3 DEF RunInvAt, LocalsInv, Ended, Deciding
      <4>6. OrderInv(p)' /\ BaselineInv(p)'
        BY <3>0, <4>2, <4>3, <4>4 DEF RunInvAt, OrderInv, BaselineInv, Stored, Deciding
      <4>. QED
        BY <4>5, <4>6 DEF RunInvAt
    <3>5. CASE FetchFails(p)
      BY <3>0, <3>5 DEF FetchFails, RunInvAt, LocalsInv, OrderInv, BaselineInv,
         Stored, Ended, Deciding, dbVars
    <3>6. CASE Deliver(p) \/ Acknowledge(p) \/ NotifyFails(p)
      BY <3>0, <3>6 DEF Deliver, Acknowledge, NotifyFails, RunInvAt, LocalsInv, OrderInv,
         BaselineInv, Stored, Ended, Deciding, dbVars
    <3>7. CASE StoreSnapshot(p)
      BY <3>0, <3>7 DEF StoreSnapshot, RunInvAt, LocalsInv, OrderInv, BaselineInv,
         Stored, Ended, Deciding, RunTyped, NoSnap, Snapshot
    <3>8. CASE WritePoll(p)
      BY <3>0, <3>8 DEF WritePoll, RunInvAt, LocalsInv, OrderInv, BaselineInv,
         Stored, Ended, Deciding
    <3>. QED
      BY <3>1, <3>2, <3>3, <3>4, <3>5, <3>6, <3>7, <3>8 DEF Run
  <2>2. ASSUME NEW d \in Deleters, NEW p \in Profiles, Delete(d, p) PROVE RunInvAt(p)'
    <3>1. CASE Deregister(p) /\ (DeleteClear(d, p) \/ DeleteCommit(d, p))
      BY <3>1, DeregisterKeepsRunInv DEF RunInv, DeleteClear, DeleteCommit, runVars
    <3>2. CASE SameRun(p) /\ proc' = proc
      BY <3>2, RunFrame DEF RunInv
    <3>. QED
      BY <2>2, <3>1, <3>2 DEF Delete, DeleteFind, DeleteRemoveJob, DeleteClear,
         DeleteCommit, SameRun, dbVars, runVars
  <2>3. ASSUME NEW p \in Profiles,
               Post(p) \/ PatchChat(p) \/ EventPasses(p) \/ CorruptRow(p)
        PROVE  RunInv'
    <3>1. \A q \in Profiles : SameRun(q) /\ proc' = proc
      BY <2>3 DEF SameRun, Post, PostSave, PostRegister, PostCommit, PatchChat,
         EventPasses, CorruptRow, dbVars, runVars
    <3>. QED
      BY <3>1, RunFrame DEF RunInv
  <2>4. CASE Crash \/ Shutdown
    <3> SUFFICES ASSUME NEW p \in Profiles PROVE RunInvAt(p)'
      BY DEF RunInv
    <3>1. /\ pc'[p] = "idle" /\ prev'[p] = NoSnap /\ cur'[p] = NoSnap
          /\ verdict'[p] = "none" /\ fetched' = fetched
          /\ live' = live /\ retired' = retired
      BY <2>4 DEF Crash, Shutdown, LoseMemory, dbVars
    <3>. QED
      BY <3>1 DEF RunInv, RunInvAt, LocalsInv, OrderInv, BaselineInv, Stored, Ended,
         Deciding
  <2>5. CASE Startup \/ StartupAborts
    <3>1. \A q \in Profiles : SameRun(q) /\ pc[q] \in Ended
      BY <2>5 DEF Startup, StartupAborts, SameRun, RunInv, RunInvAt, LocalsInv, dbVars,
         runVars
    <3>. QED
      BY <3>1, RunFrame DEF RunInv
  <2>6. CASE UNCHANGED vars
    BY <2>6, RunFrame DEF RunInv, SameRun, vars, dbVars, runVars
  <2>. QED
    BY <2>0, <2>1, <2>2, <2>3, <2>4, <2>5, <2>6 DEF Next, Process
<1>3. QED
  BY <1>1, <1>2, TypeInductive, PTL DEF Spec

\* The baseline a run alerts against is the newest live snapshot, however long
\* the run waited for the forecast, the LLM and Telegram since it read it.
THEOREM AlertsUseNewestBaseline == Spec => []BaselineIsNewest
<1>1. RunInv => BaselineIsNewest
  BY DEF RunInv, RunInvAt, BaselineInv, BaselineIsNewest, Deciding
<1>. QED
  BY <1>1, RunsInductive, PTL

-----------------------------------------------------------------------------
\* Alerts.

\* The variables AlertInvAt(q) reads, at q.
SameAlerts(q) == SameRun(q) /\ row'[q] = row[q] /\ AlertsOf(q)' = AlertsOf(q)

LEMMA AlertFrame ==
    ASSUME NEW q \in Profiles, AlertInvAt(q), SameAlerts(q)
    PROVE  AlertInvAt(q)'
  BY DEF AlertInvAt, FloorInv, LateInv, PairInv, Stored, Deleted, SameAlerts, SameRun

\* An alert is recorded for the profile whose run delivers it.
LEMMA OtherAlerts ==
    ASSUME TypeOK, NEW p \in Profiles, NEW q \in Profiles, q # p,
           Fire(p) \/ Run(p) \/ \E d \in Deleters : Delete(d, p)
    PROVE  SameAlerts(q)
<1>1. SameRun(q)
  BY OtherRuns
<1>2. CASE Fire(p) \/ Run(p)
  <2>1. row' = row
    BY <1>2 DEF Fire, Run, FindOwnJob, RemoveOwnJob, ClearOwnSnapshots, LoadBaseline,
       FetchForecast, FetchFails, Deliver, Acknowledge, NotifyFails, StoreSnapshot,
       WritePoll, dbVars
  <2>2. Deliver(p) => AlertsOf(q)' = AlertsOf(q)
    BY DEF Deliver, AlertsOf
  <2>3. sent' = sent => AlertsOf(q)' = AlertsOf(q)
    BY DEF AlertsOf
  <2>4. Deliver(p) \/ sent' = sent
    BY <1>2 DEF Fire, Run, FindOwnJob, RemoveOwnJob, ClearOwnSnapshots, LoadBaseline,
       FetchForecast, FetchFails, Acknowledge, NotifyFails, StoreSnapshot, WritePoll
  <2>. QED
    BY <1>1, <2>1, <2>2, <2>3, <2>4 DEF SameAlerts
<1>3. CASE \E d \in Deleters : Delete(d, p)
  BY <1>1, <1>3 DEF TypeOK, SameAlerts, AlertsOf, Delete, DeleteFind, DeleteRemoveJob,
     DeleteClear, DeleteCommit, dbVars
<1>. QED
  BY <1>2, <1>3

\* What the types say of an alert of p.
LEMMA AlertTyped ==
    ASSUME TypeOK, NEW p \in Profiles, NEW a \in AlertsOf(p)
    PROVE  a \in sent /\ a.profile = p /\ a.cur \in Snapshot /\ a.prev \in Snapshot
           /\ a.cur.id \in Nat /\ a.prev.id \in Nat /\ a.late \in BOOLEAN
  BY SchedulerAssumption DEF TypeOK, AlertsOf, Delivery, Snapshot

\* Retiring snapshots keeps what is stored and leaves no baseline to compare with.
LEMMA DeregisterKeepsAlertInv ==
    ASSUME TypeOK, NEW p \in Profiles, AlertInvAt(p), Deregister(p),
           row' = row \/ row'[p] = "inactive",
           UNCHANGED <<prev, fetched, sent>>,
           pc' = pc \/ pc'[p] \in Ended
    PROVE  AlertInvAt(p)'
<1>1. live'[p] = {} /\ Stored(p)' = Stored(p) /\ AlertsOf(p)' = AlertsOf(p)
  BY DEF TypeOK, Deregister, Stored, AlertsOf
<1>2. pc'[p] = pc[p] \/ pc'[p] \in Ended
  OBVIOUS
<1>. QED
  BY <1>1, <1>2 DEF AlertInvAt, FloorInv, LateInv, PairInv, Deleted, Ended, Deciding

LEMMA AlertsInductive == Spec => []AlertInv
<1>1. Init => AlertInv
  BY DEF Init, AlertInv, AlertInvAt, AlertsOf
<1>2. TypeInv /\ RequestInv /\ RunInv /\ AlertInv /\ [Next]_vars => AlertInv'
  <2> SUFFICES ASSUME TypeInv, RequestInv, RunInv, AlertInv, [Next]_vars
               PROVE  AlertInv'
    OBVIOUS
  <2> USE DEF TypeInv
  <2>0. ASSUME NEW p \in Profiles, AlertInvAt(p)',
               Fire(p) \/ Run(p) \/ \E d \in Deleters : Delete(d, p)
        PROVE  AlertInv'
    BY <2>0, OtherAlerts, AlertFrame DEF AlertInv
  <2>1. ASSUME NEW p \in Profiles, Fire(p) \/ Run(p) PROVE AlertInvAt(p)'
    <3> USE <2>1 DEF TypeOK
    <3>0. AlertInvAt(p) /\ RunInvAt(p)
      BY DEF AlertInv, RunInv
    <3>a. \A a \in AlertsOf(p) : a.cur \in Snapshot /\ a.cur.id \in Nat /\ a.prev.id \in Nat
      BY AlertTyped
    \* Steps that keep the snapshots and the alerts, and end no wait.
    <3>1. ASSUME UNCHANGED <<live, retired, row, fetched, sent, prev>>,
                 pc'[p] \in {"fetching"} \union Deciding => pc[p] \in {"fetching"} \union Deciding,
                 pc'[p] \in {"started", "fetching", "alerting"} =>
                    pc[p] \in {"started", "fetching", "alerting"} \/ ~Deleted(p)
          PROVE  AlertInvAt(p)'
      BY <3>0, <3>1 DEF AlertInvAt, FloorInv, LateInv, PairInv, Stored, AlertsOf, Deleted
    <3>2. CASE Fire(p)
      BY <3>1, <3>2 DEF Fire, RequestInv, dbVars, Deciding
    <3>3. CASE FindOwnJob(p) \/ RemoveOwnJob(p)
      BY <3>1, <3>3 DEF FindOwnJob, RemoveOwnJob, dbVars, Deciding
    <3>4. CASE ClearOwnSnapshots(p)
      <4>1. CASE Deregister(p) /\ pc' = [pc EXCEPT ![p] = "idle"]
        BY <3>0, <3>4, <4>1, DeregisterKeepsAlertInv DEF ClearOwnSnapshots, Ended
      <4>2. CASE pc' = [pc EXCEPT ![p] = "raised"] /\ UNCHANGED <<live, retired>>
        BY <3>1, <3>4, <4>2 DEF ClearOwnSnapshots, Deciding
      <4>. QED
        BY <3>4, <4>1, <4>2 DEF ClearOwnSnapshots
    <3>5. CASE LoadBaseline(p)
      <4>1. CASE pc' = [pc EXCEPT ![p] = "raising"] /\ UNCHANGED prev
        BY <3>1, <3>5, <4>1 DEF LoadBaseline, dbVars, Deciding
      <4>2. CASE /\ pc' = [pc EXCEPT ![p] = "fetching"]
                 /\ \/ live[p] = {} /\ prev'[p] = NoSnap
                    \/ prev'[p] \in live[p] /\ \A s \in live[p] : s.id <= prev'[p].id
        <5>1. \A s \in live[p] : s.id \in Nat
          BY DEF Snapshot
        <5>2. /\ Stored(p)' = Stored(p) /\ AlertsOf(p)' = AlertsOf(p)
              /\ live' = live /\ fetched' = fetched /\ row' = row
              /\ pc[p] = "started" /\ pc'[p] = "fetching"
          BY <3>5, <4>2 DEF LoadBaseline, dbVars, Stored, AlertsOf
        <5>. QED
          BY <3>0, <3>a, <4>2, <5>1, <5>2
             DEF AlertInvAt, FloorInv, LateInv, PairInv, Deleted, Deciding
      <4>. QED
        BY <3>5, <4>1, <4>2 DEF LoadBaseline, LatestSnapshots
    <3>6. CASE FetchForecast(p)
      <4>1. /\ Stored(p)' = Stored(p) /\ AlertsOf(p)' = AlertsOf(p)
            /\ live' = live /\ row' = row /\ prev' = prev
            /\ fetched'[p] = fetched[p] + 1 /\ fetched[p] \in Nat
            /\ pc[p] = "fetching" /\ pc'[p] \in {"alerting", "storing"}
        BY <3>6 DEF FetchForecast, dbVars, Stored, AlertsOf
      <4>. QED
        BY <3>0, <3>a, <4>1 DEF AlertInvAt, FloorInv, LateInv, PairInv, Deleted, Deciding
    <3>7. CASE FetchFails(p) \/ Acknowledge(p) \/ NotifyFails(p)
      BY <3>1, <3>7 DEF FetchFails, Acknowledge, NotifyFails, dbVars, Deciding
    <3>8. CASE Deliver(p)
      <4>0. PICK new : new = [profile |-> p, prev |-> prev[p], cur |-> cur[p],
                              chat |-> arg[p], late |-> row[p] = "inactive"]
        OBVIOUS
      <4>1. /\ AlertsOf(p)' = AlertsOf(p) \union {new}
            /\ Stored(p)' = Stored(p) /\ live' = live /\ row' = row /\ prev' = prev
            /\ fetched' = fetched
            /\ pc[p] = "alerting" /\ pc'[p] = "acking"
        BY <3>8, <4>0 DEF Deliver, dbVars, Stored, AlertsOf
      <4>2. /\ new.cur = cur[p] /\ new.prev = prev[p]
            /\ cur[p] \in Snapshot /\ prev[p] \in Snapshot
            /\ cur[p].id = fetched[p] /\ fetched[p] \in Nat
            /\ cur[p] \notin Stored(p) /\ prev[p] # NoSnap
        BY <3>0, <4>0, <4>1 DEF RunTyped, Deciding, RunInvAt, LocalsInv, OrderInv, Snapshot, NoSnap
      <4>3. \A a \in AlertsOf(p) : ~a.late
        BY <3>0, <4>1 DEF AlertInvAt, LateInv
      <4>late. new.late => row[p] = "inactive"
        BY <4>0
      <4>4. ASSUME NEW a \in AlertsOf(p)
            PROVE  /\ a.cur.id <= fetched[p] /\ FloorInv(p, a)' /\ LateInv(p, a)'
                   /\ PairInv(p, a, new)' /\ PairInv(p, new, a)'
                   /\ \A b \in AlertsOf(p) : PairInv(p, a, b)'
        BY <3>0, <3>a, <4>1, <4>2, <4>3, <4>4
           DEF AlertInvAt, FloorInv, LateInv, PairInv, Deleted, Deciding
      <4>5. new.cur.id <= fetched[p] /\ FloorInv(p, new)' /\ LateInv(p, new)' /\ PairInv(p, new, new)'
        <5>1. new.cur.id <= fetched[p] /\ FloorInv(p, new)' /\ PairInv(p, new, new)'
          BY <4>1, <4>2 DEF FloorInv, PairInv
        <5>2. LateInv(p, new)'
          BY <4>1, <4>late DEF LateInv, Deleted
        <5>. QED
          BY <5>1, <5>2
      <4>. QED
        BY <4>1, <4>4, <4>5 DEF AlertInvAt
    <3>9. CASE StoreSnapshot(p)
      <4>1. CASE live' = live
        BY <3>1, <3>9, <4>1 DEF StoreSnapshot, Deciding
      <4>2. CASE live' = [live EXCEPT ![p] = @ \union {cur[p]}] /\ pc' = [pc EXCEPT ![p] = "writing"]
        <5>1. /\ AlertsOf(p)' = AlertsOf(p) /\ Stored(p)' = Stored(p) \union {cur[p]}
              /\ live'[p] = live[p] \union {cur[p]} /\ row' = row /\ fetched' = fetched
              /\ pc[p] = "storing" /\ pc'[p] = "writing"
          BY <3>9, <4>2 DEF StoreSnapshot, Stored, AlertsOf
        <5>2. cur[p] \in Snapshot /\ cur[p].id = fetched[p] /\ fetched[p] \in Nat
          BY <3>0, <5>1 DEF RunTyped, RunInvAt, LocalsInv, Snapshot, NoSnap
        <5>. QED
          BY <3>0, <3>a, <5>1, <5>2 DEF AlertInvAt, FloorInv, LateInv, PairInv, Deleted, Deciding
      <4>. QED
        BY <3>9, <4>1, <4>2 DEF StoreSnapshot
    <3>10. CASE WritePoll(p)
      BY <3>0, <3>10 DEF WritePoll, AlertInvAt, FloorInv, LateInv, PairInv, Stored, AlertsOf,
         Deleted, Deciding
    <3>. QED
      BY <3>2, <3>3, <3>4, <3>5, <3>6, <3>7, <3>8, <3>9, <3>10 DEF Run
  <2>2. ASSUME NEW d \in Deleters, NEW p \in Profiles, Delete(d, p) PROVE AlertInvAt(p)'
    <3>0. AlertInvAt(p)
      BY DEF AlertInv
    <3>1. CASE Deregister(p) /\ (DeleteClear(d, p) \/ DeleteCommit(d, p))
      BY <3>0, <3>1, DeregisterKeepsAlertInv DEF DeleteClear, DeleteCommit, runVars, TypeOK
    <3>2. CASE SameAlerts(p)
      BY <3>0, <3>2, AlertFrame
    <3>. QED
      BY <2>2, <3>1, <3>2 DEF Delete, DeleteFind, DeleteRemoveJob, DeleteClear,
         DeleteCommit, SameAlerts, SameRun, AlertsOf, dbVars, runVars
  <2>3. ASSUME NEW p \in Profiles,
               Post(p) \/ PatchChat(p) \/ EventPasses(p) \/ CorruptRow(p)
        PROVE  AlertInv'
    <3> SUFFICES ASSUME NEW q \in Profiles PROVE AlertInvAt(q)'
      BY DEF AlertInv
    <3>0. AlertInvAt(q)
      BY DEF AlertInv
    <3>1. CASE PostCommit(p)
      <4>1. SameRun(q) /\ AlertsOf(q)' = AlertsOf(q)
        BY <3>1 DEF PostCommit, SameRun, AlertsOf, runVars
      <4>2. row'[q] = row[q] \/ ~Deleted(q)
        BY <3>1 DEF PostCommit, RequestInv, Deleted, TypeOK
      <4>. QED
        BY <3>0, <4>1, <4>2 DEF SameRun, AlertInvAt, FloorInv, LateInv, PairInv, Stored, Deleted
    <3>2. CASE SameAlerts(q)
      BY <3>0, <3>2, AlertFrame
    <3>. QED
      BY <2>3, <3>1, <3>2 DEF SameAlerts, SameRun, AlertsOf, Post, PostSave, PostRegister,
         PatchChat, EventPasses, CorruptRow, dbVars, runVars
  <2>4. CASE Process
    <3> SUFFICES ASSUME NEW p \in Profiles PROVE AlertInvAt(p)'
      BY DEF AlertInv
    <3>0. AlertInvAt(p)
      BY DEF AlertInv
    <3>1. CASE Startup \/ StartupAborts
      BY <3>0, <3>1, AlertFrame DEF Startup, StartupAborts, SameAlerts, SameRun, AlertsOf,
         dbVars, runVars
    <3>2. CASE Crash \/ Shutdown
      <4>1. /\ pc'[p] = "idle" /\ Stored(p)' = Stored(p) /\ AlertsOf(p)' = AlertsOf(p)
            /\ live' = live /\ row' = row /\ fetched' = fetched
        BY <3>2 DEF Crash, Shutdown, LoseMemory, Stored, AlertsOf, dbVars
      <4>. QED
        BY <3>0, <4>1 DEF AlertInvAt, FloorInv, LateInv, PairInv, Deleted, Deciding
    <3>. QED
      BY <2>4, <3>1, <3>2 DEF Process
  <2>5. CASE UNCHANGED vars
    BY <2>5, AlertFrame DEF AlertInv, SameAlerts, SameRun, AlertsOf, vars, dbVars, runVars
  <2>. QED
    BY <2>0, <2>1, <2>2, <2>3, <2>4, <2>5 DEF Next
<1>3. QED
  BY <1>1, <1>2, TypeInductive, RequestsInductive, RunsInductive, PTL DEF Spec

\* A move that was alerted and whose snapshot was saved is never alerted again.
THEOREM NoAlertRepeated == Spec => []NoRepeatedAlert
<1>1. TypeOK /\ AlertInv => NoRepeatedAlert
  BY DEF TypeOK, AlertInv, AlertInvAt, PairInv, AlertsOf, NoRepeatedAlert, Delivery
<1>. QED
  BY <1>1, TypeCorrect, AlertsInductive, PTL

\* A committed DELETE is followed by the alert of the run in flight at most.
THEOREM OneLateAlert == Spec => []AtMostOneLateAlert
<1>1. TypeOK /\ AlertInv => AtMostOneLateAlert
  BY DEF TypeOK, AlertInv, AlertInvAt, PairInv, AlertsOf, AtMostOneLateAlert, Delivery
<1>. QED
  BY <1>1, TypeCorrect, AlertsInductive, PTL
=============================================================================
