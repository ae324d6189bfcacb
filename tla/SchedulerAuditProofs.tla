------------------------- MODULE SchedulerAuditProofs -------------------------
(***************************************************************************)
(* Proofs that the PollRun rows of the API process tell the truth and      *)
(* account for every significant move between two stored snapshots.        *)
(***************************************************************************)
EXTENDS SchedulerAlertProofs

\* The variables AuditInvAt(q) reads, at q.
SameAudit(q) == SameAlerts(q) /\ polls'[q] = polls[q]

LEMMA AuditFrame ==
    ASSUME NEW q \in Profiles, AuditInvAt(q), SameAudit(q)
    PROVE  AuditInvAt(q)'
  BY DEF AuditInvAt, VerdictInv, SuccessorInv, PollInv, RowTruthful, MoveAccounted,
     Alerted, Adjacent, Stored, SameAudit, SameAlerts, SameRun

LEMMA OtherAudits ==
    ASSUME TypeOK, NEW p \in Profiles, NEW q \in Profiles, q # p,
           Fire(p) \/ Run(p) \/ \E d \in Deleters : Delete(d, p)
    PROVE  SameAudit(q)
<1>1. SameAlerts(q)
  BY OtherAlerts
<1>2. CASE Fire(p) \/ Run(p)
  BY <1>1, <1>2 DEF TypeOK, SameAudit, Fire, Run, FindOwnJob, RemoveOwnJob,
     ClearOwnSnapshots, LoadBaseline, FetchForecast, FetchFails, Deliver, Acknowledge,
     NotifyFails, StoreSnapshot, WritePoll, dbVars
<1>3. CASE \E d \in Deleters : Delete(d, p)
  BY <1>1, <1>3 DEF SameAudit, Delete, DeleteFind, DeleteRemoveJob, DeleteClear,
     DeleteCommit, dbVars
<1>. QED
  BY <1>2, <1>3

\* Retiring the live snapshots leaves no move to account for.
LEMMA DeregisterKeepsAudit ==
    ASSUME TypeOK, NEW p \in Profiles, AuditInvAt(p), Deregister(p),
           UNCHANGED <<prev, cur, verdict, fetched, sent, polls>>,
           pc'[p] = pc[p] \/ pc'[p] \in Ended
    PROVE  AuditInvAt(p)'
<1>1. live'[p] = {} /\ Stored(p)' = Stored(p) /\ AlertsOf(p)' = AlertsOf(p)
  BY DEF TypeOK, Deregister, Stored, AlertsOf
<1>. QED
  BY <1>1 DEF AuditInvAt, VerdictInv, SuccessorInv, PollInv, RowTruthful, MoveAccounted,
     Alerted, Ended

\* The default row of a run that was cut short claims nothing: its snapshot, if
\* it had one, is not stored.
LEMMA DefaultRowHolds ==
    ASSUME TypeInv, NEW p \in Profiles, RunInvAt(p), pc[p] # "writing"
    PROVE  RowTruthful(p, DefaultRow(cur[p].id)) /\ MoveAccounted(p, DefaultRow(cur[p].id))
<1>1. \A s \in Stored(p) : s.id # cur[p].id
  BY DEF TypeInv, TypeOK, RunInvAt, OrderInv, Stored, Snapshot, NoSnap
<1>. QED
  BY <1>1 DEF RowTruthful, MoveAccounted, DefaultRow, Stored

\* The row of a run that was not: its verdict is what happened to its move.
LEMMA OutcomeRowHolds ==
    ASSUME TypeInv, NEW p \in Profiles, RunInvAt(p), AuditInvAt(p), pc[p] = "writing"
    PROVE  /\ RowTruthful(p, OutcomeRow(cur[p].id, verdict[p]))
           /\ MoveAccounted(p, OutcomeRow(cur[p].id, verdict[p]))
<1> DEFINE r == OutcomeRow(cur[p].id, verdict[p])
<1>1. verdict[p] \in {"first", "quiet", "alert", "error"}
  BY DEF TypeInv, TypeOK, AuditInvAt, VerdictInv, Verdicts
<1>2. RowTruthful(p, r)
  BY <1>1 DEF AuditInvAt, VerdictInv, Alerted, RowTruthful, OutcomeRow
<1>3. ASSUME NEW s \in live[p], NEW t \in live[p], Adjacent(p, s, t),
             <<s.fc, t.fc>> \in Significant, t.id = cur[p].id
      PROVE  r.status = "error" \/ (r.alert /\ \E a \in AlertsOf(p) : a.prev = s /\ a.cur = t)
  <2>1. s \in Snapshot /\ t \in Snapshot /\ s.id \in Nat /\ t.id \in Nat
    BY SchedulerAssumption DEF TypeInv, TypeOK, Snapshot
  <2>2. cur[p] # NoSnap
    BY <1>3, <2>1 DEF Snapshot, NoSnap
  <2>3. t = cur[p]
    BY <1>3, <2>2 DEF AuditInvAt, SuccessorInv, RunInvAt, OrderInv, Stored
  <2>4. prev[p] \in live[p] /\ s.id <= prev[p].id /\ prev[p].id < t.id
    BY <1>3, <2>1, <2>2, <2>3 DEF AuditInvAt, SuccessorInv, Adjacent
  <2>5. prev[p].id \in Nat
    BY <2>4, SchedulerAssumption DEF TypeInv, TypeOK, Snapshot
  <2>6. prev[p].id <= s.id
    BY <1>3, <2>1, <2>4, <2>5 DEF Adjacent
  <2>7. prev[p] = s
    BY <2>1, <2>4, <2>5, <2>6 DEF RunInvAt, OrderInv, Stored
  <2>8. prev[p] # NoSnap
    BY <2>1, <2>7 DEF Snapshot, NoSnap
  <2>9. verdict[p] = "error" \/ (verdict[p] = "alert" /\ Alerted(p))
    BY <1>1, <1>3, <2>3, <2>7, <2>8 DEF AuditInvAt, VerdictInv
  <2>. QED
    BY <2>3, <2>7, <2>9 DEF OutcomeRow, Alerted
<1>. QED
  BY <1>2, <1>3 DEF MoveAccounted, OutcomeRow

-----------------------------------------------------------------------------
\* Saving the snapshot of a run keeps the audit of the rows there are, and
\* places the snapshot next to the run's baseline.
LEMMA StoreKeepsAudit ==
    ASSUME TypeInv, NEW p \in Profiles, RunInvAt(p), AuditInvAt(p), pc[p] = "storing",
           live' = [live EXCEPT ![p] = @ \union {cur[p]}],
           pc' = [pc EXCEPT ![p] = "writing"],
           UNCHANGED <<retired, prev, cur, verdict, fetched, sent, polls>>
    PROVE  AuditInvAt(p)'
<1>1. /\ live'[p] = live[p] \union {cur[p]} /\ Stored(p)' = Stored(p) \union {cur[p]}
      /\ AlertsOf(p)' = AlertsOf(p) /\ pc'[p] = "writing"
  BY DEF TypeInv, TypeOK, Stored, AlertsOf
<1>2. cur[p] \in Snapshot /\ cur[p] # NoSnap /\ cur[p].id \in Nat
  BY SchedulerAssumption DEF TypeInv, RunTyped, Snapshot, NoSnap
<1>3. \A s \in Stored(p) : s.id \in Nat /\ s.id < cur[p].id
  BY <1>2, SchedulerAssumption DEF TypeInv, TypeOK, RunInvAt, OrderInv, Stored, Snapshot
<1>4. prev[p].id < cur[p].id
  <2>1. CASE prev[p] = NoSnap
    BY <1>2, <2>1 DEF Snapshot, NoSnap
  <2>2. CASE prev[p] \in Stored(p)
    BY <1>3, <2>2
  <2>. QED
    BY <2>1, <2>2 DEF RunInvAt, BaselineInv
<1>5. SuccessorInv(p)'
  BY <1>1, <1>4 DEF RunInvAt, BaselineInv, SuccessorInv
<1>6. VerdictInv(p)' /\ PollInv(p)'
  BY <1>1 DEF AuditInvAt, VerdictInv, PollInv, Alerted
<1>7. ASSUME NEW r \in polls[p] PROVE RowTruthful(p, r)' /\ MoveAccounted(p, r)'
  <2>1. r.snap # cur[p].id
    BY <1>2 DEF AuditInvAt, PollInv
  <2>2. RowTruthful(p, r)'
    BY <1>1, <2>1 DEF AuditInvAt, RowTruthful
  <2>3. ASSUME NEW s \in live'[p], NEW t \in live'[p], Adjacent(p, s, t)', r.snap = t.id
        PROVE  s \in live[p] /\ t \in live[p] /\ Adjacent(p, s, t)
    <3>1. t \in live[p]
      BY <1>1, <2>1, <2>3
    <3>2. s # cur[p]
      BY <1>2, <1>3, <2>3, <3>1 DEF Adjacent, Stored
    <3>. QED
      BY <1>1, <2>3, <3>1, <3>2 DEF Adjacent
  <2>. QED
    BY <1>1, <2>2, <2>3 DEF AuditInvAt, MoveAccounted
<1>. QED
  BY <1>5, <1>6, <1>7 DEF AuditInvAt

\* Writing the row of a run that is over.
LEMMA RowKeepsAudit ==
    ASSUME TypeInv, NEW p \in Profiles, RunInvAt(p), AuditInvAt(p), NEW row0,
           RowTruthful(p, row0), MoveAccounted(p, row0), row0.snap = cur[p].id,
           polls'[p] = polls[p] \/ polls'[p] = polls[p] \union {row0},
           UNCHANGED <<live, retired, fetched, sent>>,
           pc'[p] \in Ended, cur'[p] = NoSnap, verdict'[p] = "none"
    PROVE  AuditInvAt(p)'
<1>1. Stored(p)' = Stored(p) /\ AlertsOf(p)' = AlertsOf(p)
  BY DEF Stored, AlertsOf
<1>2. VerdictInv(p)' /\ SuccessorInv(p)'
  BY DEF VerdictInv, SuccessorInv, Ended
<1>3. cur[p].id <= fetched[p]
  BY SchedulerAssumption DEF TypeInv, TypeOK, RunInvAt, LocalsInv, Snapshot, NoSnap
<1>4. PollInv(p)'
  BY <1>3 DEF AuditInvAt, PollInv
<1>5. \A r \in polls'[p] : RowTruthful(p, r)' /\ MoveAccounted(p, r)'
  BY <1>1 DEF AuditInvAt, RowTruthful, MoveAccounted, Adjacent
<1>. QED
  BY <1>2, <1>4, <1>5 DEF AuditInvAt

LEMMA AuditsInductive == Spec => []AuditInv
<1>1. Init => AuditInv
  BY DEF Init, AuditInv, AuditInvAt, VerdictInv, SuccessorInv, PollInv
<1>2. TypeInv /\ RunInv /\ AlertInv /\ AuditInv /\ [Next]_vars => AuditInv'
  <2> SUFFICES ASSUME TypeInv, RunInv, AlertInv, AuditInv, [Next]_vars
               PROVE  AuditInv'
    OBVIOUS
  <2>t. TypeOK
    BY DEF TypeInv
  <2>0. ASSUME NEW p \in Profiles, AuditInvAt(p)',
               Fire(p) \/ Run(p) \/ \E d \in Deleters : Delete(d, p)
        PROVE  AuditInv'
    BY <2>0, <2>t, OtherAudits, AuditFrame DEF AuditInv
  <2>1. ASSUME NEW p \in Profiles, Fire(p) \/ Run(p) PROVE AuditInvAt(p)'
    <3> USE <2>t, <2>1 DEF TypeOK
    <3>0. AuditInvAt(p) /\ RunInvAt(p) /\ AlertInvAt(p)
      BY DEF AuditInv, AlertInv, RunInv
    \* Steps that write no row, store nothing and deliver nothing.
    <3>1. ASSUME UNCHANGED <<live, retired, sent, polls>>, fetched[p] <= fetched'[p],
                 VerdictInv(p)', SuccessorInv(p)', PollInv(p)'
          PROVE  AuditInvAt(p)'
      BY <3>0, <3>1 DEF AuditInvAt, RowTruthful, MoveAccounted, Adjacent, Stored, AlertsOf
    <3>2. CASE Fire(p) \/ FindOwnJob(p) \/ RemoveOwnJob(p) \/ LoadBaseline(p)
      <4>1. /\ UNCHANGED <<live, retired, sent, polls, fetched, cur, verdict>>
            /\ cur[p] = NoSnap /\ verdict[p] = "none"
            /\ pc'[p] \in {"started", "removing", "clearing", "raised", "fetching", "raising"}
        BY <3>0, <3>2 DEF Fire, FindOwnJob, RemoveOwnJob, LoadBaseline, RunInvAt, LocalsInv, dbVars
      <4>2. VerdictInv(p)' /\ SuccessorInv(p)' /\ PollInv(p)'
        BY <3>0, <4>1 DEF AuditInvAt, VerdictInv, SuccessorInv, PollInv
      <4>. QED
        BY <3>1, <4>1, <4>2
    <3>3. CASE ClearOwnSnapshots(p)
      <4>1. CASE Deregister(p) /\ pc' = [pc EXCEPT ![p] = "idle"]
        BY <3>0, <3>3, <4>1, DeregisterKeepsAudit DEF ClearOwnSnapshots, Ended
      <4>2. CASE pc' = [pc EXCEPT ![p] = "raised"] /\ UNCHANGED <<live, retired>>
        <5>1. VerdictInv(p)' /\ SuccessorInv(p)' /\ PollInv(p)'
          BY <3>0, <3>3, <4>2 DEF ClearOwnSnapshots, AuditInvAt, VerdictInv, SuccessorInv,
             PollInv, RunInvAt, LocalsInv
        <5>. QED
          BY <3>1, <3>3, <4>2, <5>1 DEF ClearOwnSnapshots
      <4>. QED
        BY <3>3, <4>1, <4>2 DEF ClearOwnSnapshots
    <3>4. CASE FetchForecast(p)
      <4>1. PICK f \in Forecasts : cur' = [cur EXCEPT ![p] = [id |-> fetched[p] + 1, fc |-> f]]
        BY <3>4 DEF FetchForecast
      <4>2. /\ cur'[p] = [id |-> fetched[p] + 1, fc |-> f]
            /\ fetched[p] \in Nat /\ fetched'[p] = fetched[p] + 1
            /\ UNCHANGED <<live, retired, sent, polls, prev>> /\ pc[p] = "fetching"
        BY <3>4, <4>1 DEF FetchForecast, dbVars
      <4>3. \/ pc'[p] = "storing" /\ verdict'[p] = "first" /\ prev[p] = NoSnap
            \/ pc'[p] = "storing" /\ verdict'[p] = "quiet" /\ <<prev[p].fc, f>> \notin Significant
            \/ pc'[p] = "alerting" /\ verdict'[p] = "none"
        BY <3>0, <3>4, <4>1 DEF FetchForecast, RunInvAt, LocalsInv
      <4>4. \A a \in AlertsOf(p) : a.cur.id # cur'[p].id
        BY <3>0, <4>2, AlertTyped DEF AlertInvAt
      <4>5. AlertsOf(p)' = AlertsOf(p)
        BY <4>2 DEF AlertsOf
      <4>6. VerdictInv(p)'
        BY <4>2, <4>3, <4>4, <4>5 DEF VerdictInv
      <4>7. \A r \in polls[p] : r.snap \in Nat
        BY SchedulerAssumption DEF PollRow
      <4>8. PollInv(p)'
        BY <3>0, <4>2, <4>7 DEF AuditInvAt, PollInv
      <4>. QED
        BY <3>1, <4>2, <4>3, <4>6, <4>8 DEF SuccessorInv
    <3>5. CASE FetchFails(p) \/ Acknowledge(p) \/ NotifyFails(p)
      <4>1. /\ UNCHANGED <<live, retired, sent, polls, fetched, prev, cur>>
            /\ \/ pc'[p] = "storing" /\ verdict'[p] = "error"
               \/ pc'[p] = "writing" /\ verdict'[p] = "error" /\ cur[p] = NoSnap
               \/ pc'[p] = "storing" /\ verdict'[p] = "alert" /\ pc[p] = "acking"
        BY <3>0, <3>5 DEF FetchFails, Acknowledge, NotifyFails, RunInvAt, LocalsInv, dbVars
      <4>2. VerdictInv(p)' /\ SuccessorInv(p)' /\ PollInv(p)'
        BY <3>0, <4>1 DEF AuditInvAt, VerdictInv, SuccessorInv, PollInv, Alerted, AlertsOf
      <4>. QED
        BY <3>1, <4>1, <4>2
    <3>6. CASE Deliver(p)
      <4>0. PICK new : new = [profile |-> p, prev |-> prev[p], cur |-> cur[p],
                              chat |-> arg[p], late |-> row[p] = "inactive"]
        OBVIOUS
      <4>1. /\ UNCHANGED <<live, retired, polls, fetched, prev, cur, verdict>>
            /\ AlertsOf(p)' = AlertsOf(p) \union {new}
            /\ pc[p] = "alerting" /\ pc'[p] = "acking"
            /\ new.prev = prev[p] /\ new.cur = cur[p]
        BY <3>6, <4>0 DEF Deliver, dbVars, AlertsOf
      <4>2. verdict[p] = "none" /\ cur[p] # NoSnap
        BY <3>0, <4>1 DEF RunInvAt, LocalsInv, TypeInv, RunTyped, Deciding, Snapshot, NoSnap
      <4>3. VerdictInv(p)' /\ SuccessorInv(p)' /\ PollInv(p)'
        BY <3>0, <4>1, <4>2 DEF AuditInvAt, VerdictInv, SuccessorInv, PollInv, Alerted
      <4>4. ASSUME NEW r \in polls[p] PROVE RowTruthful(p, r)' /\ MoveAccounted(p, r)'
        <5>1. r.snap # cur[p].id
          BY <3>0, <4>2 DEF AuditInvAt, PollInv
        <5>. QED
          BY <3>0, <4>1, <5>1 DEF AuditInvAt, RowTruthful, MoveAccounted, Adjacent, Stored
      <4>. QED
        BY <4>1, <4>3, <4>4 DEF AuditInvAt
    <3>7. CASE StoreSnapshot(p)
      <4>1. CASE pc' = [pc EXCEPT ![p] = "raising"] /\ UNCHANGED live
        <5>1. /\ UNCHANGED <<live, retired, sent, polls, fetched, prev, cur, verdict>>
              /\ pc'[p] = "raising"
          BY <3>7, <4>1 DEF StoreSnapshot
        <5>2. VerdictInv(p)' /\ SuccessorInv(p)' /\ PollInv(p)'
          BY <3>0, <5>1 DEF AuditInvAt, VerdictInv, SuccessorInv, PollInv, Alerted, AlertsOf
        <5>. QED
          BY <3>1, <5>1, <5>2
      <4>2. CASE /\ live' = [live EXCEPT ![p] = @ \union {cur[p]}]
                 /\ pc' = [pc EXCEPT ![p] = "writing"]
        BY <3>0, <3>7, <4>2, StoreKeepsAudit DEF StoreSnapshot
      <4>. QED
        BY <3>7, <4>1, <4>2 DEF StoreSnapshot
    <3>8. CASE WritePoll(p)
      <4>1. /\ UNCHANGED <<live, retired, fetched, sent>> /\ pc'[p] \in Ended
            /\ cur'[p] = NoSnap /\ verdict'[p] = "none"
            /\ pc[p] \in {"writing", "raising"}
        BY <3>8 DEF WritePoll, Ended
      <4>2. CASE pc[p] = "raising"
        <5>1. polls'[p] = polls[p] \/ polls'[p] = polls[p] \union {DefaultRow(cur[p].id)}
          BY <3>8, <4>2 DEF WritePoll
        <5>. QED
          BY <3>0, <4>1, <4>2, <5>1, DefaultRowHolds, RowKeepsAudit DEF DefaultRow
      <4>3. CASE pc[p] = "writing"
        <5>1. \/ polls'[p] = polls[p]
              \/ polls'[p] = polls[p] \union {OutcomeRow(cur[p].id, verdict[p])}
          BY <3>8, <4>3 DEF WritePoll
        <5>2. OutcomeRow(cur[p].id, verdict[p]).snap = cur[p].id
          BY DEF OutcomeRow
        <5>. QED
          BY <3>0, <4>1, <4>3, <5>1, <5>2, OutcomeRowHolds, RowKeepsAudit
      <4>. QED
        BY <4>1, <4>2, <4>3
    <3>. QED
      BY <3>2, <3>3, <3>4, <3>5, <3>6, <3>7, <3>8 DEF Run
  <2>2. ASSUME NEW d \in Deleters, NEW p \in Profiles, Delete(d, p) PROVE AuditInvAt(p)'
    <3>0. AuditInvAt(p)
      BY DEF AuditInv
    <3>1. CASE Deregister(p) /\ (DeleteClear(d, p) \/ DeleteCommit(d, p))
      BY <2>t, <3>0, <3>1, DeregisterKeepsAudit DEF DeleteClear, DeleteCommit, runVars
    <3>2. ASSUME UNCHANGED <<live, retired, runVars, fetched, sent, polls>>
          PROVE  AuditInvAt(p)'
      BY <3>0, <3>2 DEF AuditInvAt, VerdictInv, SuccessorInv, PollInv, RowTruthful,
         MoveAccounted, Alerted, Adjacent, Stored, AlertsOf, runVars
    <3>. QED
      BY <2>2, <3>1, <3>2 DEF Delete, DeleteFind, DeleteRemoveJob, DeleteClear,
         DeleteCommit, dbVars
  <2>3. ASSUME UNCHANGED <<live, retired, runVars, fetched, sent, polls>>
        PROVE  AuditInv'
    BY <2>3 DEF AuditInv, AuditInvAt, VerdictInv, SuccessorInv, PollInv, RowTruthful,
       MoveAccounted, Alerted, Adjacent, Stored, AlertsOf, runVars
  <2>4. ASSUME NEW p \in Profiles,
               Post(p) \/ PatchChat(p) \/ EventPasses(p) \/ CorruptRow(p)
        PROVE  AuditInv'
    BY <2>3, <2>4 DEF Post, PostSave, PostRegister, PostCommit, PatchChat, EventPasses,
       CorruptRow, dbVars
  <2>5. CASE Startup \/ StartupAborts \/ UNCHANGED vars
    BY <2>3, <2>5 DEF Startup, StartupAborts, vars, dbVars
  <2>6. CASE Crash \/ Shutdown
    <3> SUFFICES ASSUME NEW p \in Profiles PROVE AuditInvAt(p)'
      BY DEF AuditInv
    <3>0. AuditInvAt(p) /\ RunInvAt(p)
      BY DEF AuditInv, RunInv
    <3>1. /\ UNCHANGED <<live, retired, fetched, sent>> /\ pc'[p] \in Ended
          /\ cur'[p] = NoSnap /\ verdict'[p] = "none"
      BY <2>6 DEF Crash, Shutdown, LoseMemory, dbVars, Ended
    <3>2. CASE pc[p] # "writing"
      <4>1. polls'[p] = polls[p] \/ polls'[p] = polls[p] \union {DefaultRow(cur[p].id)}
        BY <2>6 DEF Crash, Shutdown, dbVars
      <4>. QED
        BY <3>0, <3>1, <3>2, <4>1, DefaultRowHolds, RowKeepsAudit DEF DefaultRow
    <3>3. CASE pc[p] = "writing"
      <4>1. polls'[p] = polls[p]
        BY <2>6, <3>3 DEF Crash, Shutdown, dbVars, Awaiting
      <4>2. OutcomeRow(cur[p].id, verdict[p]).snap = cur[p].id
        BY DEF OutcomeRow
      <4>. QED
        BY <3>0, <3>1, <3>3, <4>1, <4>2, OutcomeRowHolds, RowKeepsAudit
    <3>. QED
      BY <3>2, <3>3
  <2>. QED
    BY <2>0, <2>1, <2>2, <2>4, <2>5, <2>6 DEF Next, Process
<1>3. QED
  BY <1>1, <1>2, TypeInductive, RunsInductive, AlertsInductive, PTL DEF Spec

\* A PollRun says alert_sent only when Telegram accepted the alert of its run,
\* and an alerted run is "skipped" only when its snapshot was lost.
THEOREM AuditTrailTruthful == Spec => []AuditTruthful
<1>1. AuditInv => AuditTruthful
  BY DEF AuditInv, AuditInvAt, AuditTruthful
<1>. QED
  BY <1>1, AuditsInductive, PTL

\* No significant move between two successive baselines is dropped in silence.
THEOREM MovesAccounted == Spec => []SignificantMoveAccounted
<1>1. AuditInv => SignificantMoveAccounted
  BY DEF AuditInv, AuditInvAt, SignificantMoveAccounted
<1>. QED
  BY <1>1, AuditsInductive, PTL
=============================================================================
