------------------------- MODULE SchedulerInvariants -------------------------
(***************************************************************************)
(* The inductive invariants behind the safety properties of               *)
(* SchedulerProperties, one named part per idea.  The proof modules show   *)
(* each part inductive given the ones before it.                           *)
(***************************************************************************)
EXTENDS SchedulerProperties

Deciding == {"alerting", "acking"}

\* A run that can alert has its two snapshots; one that stores has the current.
RunTyped ==
    \A p \in Profiles :
        /\ pc[p] \in Deciding => prev[p] \in Snapshot
        /\ pc[p] \in Deciding \union {"storing"} => cur[p] \in Snapshot

TypeInv == TypeOK /\ RunTyped

-----------------------------------------------------------------------------
\* Rows, jobs and requests.
RequestInv ==
    \A p \in Profiles :
        /\ row[p] # "absent" <=> post[p] = "done"
        /\ proc # "up" => post[p] \notin {"saved", "scheduled"}
        /\ Deleted(p) => jobs[p] = NoJob
        /\ \A d \in Deleters :
              /\ del[d][p] # "idle" => proc = "up" /\ row[p] # "absent"
              /\ del[d][p] \in {"clearing", "committing"} => jobs[p] = NoJob

\* DbSchedulerConsistent with the requests that are in progress: a job may await
\* the commit of its POST, and an active row without a job the commit of a
\* DELETE; a run removes the job of a past event only.
AgreementInv ==
    \A p \in Profiles :
        /\ pc[p] = "removing" => ~IsActive(p)
        /\ (proc = "up" /\ p \notin torn) =>
              /\ jobs[p] # NoJob => row[p] = "active" \/ post[p] = "scheduled"
              /\ (post[p] = "scheduled" /\ IsActive(p)) => jobs[p] # NoJob
              /\ (row[p] = "active" /\ IsActive(p)) =>
                    \/ jobs[p] # NoJob
                    \/ \E d \in Deleters : del[d][p] \in {"clearing", "committing"}

\* Whoever holds a chat got it from the row, or before the row had one.
ChatInv ==
    /\ \A p \in Profiles : /\ jobs[p] \in {NoJob, NoChat, rowChat[p]}
                           /\ arg[p] \in {NoChat, rowChat[p]}
    /\ AlertsStayPrivate

-----------------------------------------------------------------------------
\* Runs and snapshots.

\* What the local variables of a run hold at each point of it.
LocalsInv(p) ==
    /\ proc # "up" => pc[p] \in Ended
    /\ pc[p] \in Ended \union {"started", "removing", "clearing"}
          => prev[p] = NoSnap /\ cur[p] = NoSnap /\ verdict[p] = "none"
    /\ pc[p] = "fetching" => cur[p] = NoSnap
    /\ pc[p] \in {"fetching"} \union Deciding => verdict[p] = "none"
    /\ pc[p] \in Deciding => <<prev[p].fc, cur[p].fc>> \in Significant
    /\ cur[p] # NoSnap => cur[p] \in Snapshot /\ cur[p].id = fetched[p]

\* Snapshots are numbered in the order they were fetched, and the one a run
\* has not saved is newer than all that are stored.
OrderInv(p) ==
    /\ \A s \in Stored(p) : s.id <= fetched[p]
    /\ (cur[p] # NoSnap /\ pc[p] # "writing") => \A s \in Stored(p) : s.id < cur[p].id
    /\ \A s, t \in Stored(p) : s.id = t.id => s = t

\* Until it has stored its snapshot, a run's baseline is the newest live
\* snapshot, or all have been retired.
BaselineInv(p) ==
    pc[p] \in {"fetching", "storing"} \union Deciding =>
        /\ prev[p] = NoSnap \/ prev[p] \in Stored(p)
        /\ \A s \in live[p] : s.id <= prev[p].id
        /\ live[p] = {} \/ prev[p] \in live[p]

RunInvAt(p) == LocalsInv(p) /\ OrderInv(p) /\ BaselineInv(p)

RunInv == \A p \in Profiles : RunInvAt(p)

-----------------------------------------------------------------------------
\* Alerts.

\* An alerted snapshot that is stored bounds every later baseline from below.
FloorInv(p, a) ==
    a.cur \in Stored(p) =>
        /\ live[p] = {} \/ \E s \in live[p] : a.cur.id <= s.id
        /\ pc[p] \in {"fetching"} \union Deciding =>
              prev[p] = NoSnap \/ a.cur.id <= prev[p].id

\* After an alert that left late no run of its profile can alert again.
LateInv(p, a) ==
    a.late => Deleted(p) /\ pc[p] \notin {"started", "fetching", "alerting"}

\* NoRepeatedAlert and AtMostOneLateAlert, for two alerts of p.
PairInv(p, a, b) ==
    /\ (a.cur.id < b.cur.id /\ a.cur \in Stored(p)) => a.cur.id <= b.prev.id
    /\ (a.late /\ b.late) => a = b

AlertInvAt(p) ==
    \A a \in AlertsOf(p) : /\ a.cur.id <= fetched[p]
                           /\ FloorInv(p, a)
                           /\ LateInv(p, a)
                           /\ \A b \in AlertsOf(p) : PairInv(p, a, b)

AlertInv == \A p \in Profiles : AlertInvAt(p)

-----------------------------------------------------------------------------
\* Verdicts and the audit trail.

VerdictInv(p) ==
    /\ pc[p] = "acking" => Alerted(p)
    /\ pc[p] \in {"storing", "writing"} => verdict[p] # "none"
    /\ verdict[p] = "first" => prev[p] = NoSnap
    /\ verdict[p] = "quiet" => <<prev[p].fc, cur[p].fc>> \notin Significant
    /\ verdict[p] = "alert" => Alerted(p)
    /\ (verdict[p] \in {"first", "quiet"} \/ pc[p] = "alerting")
          => \A a \in AlertsOf(p) : a.cur.id # cur[p].id

\* A saved snapshot follows its run's baseline, unless that was retired.
SuccessorInv(p) ==
    (pc[p] = "writing" /\ cur[p] # NoSnap) =>
        /\ cur[p] \in Stored(p) /\ prev[p].id < cur[p].id
        /\ \A s \in live[p] : s = cur[p] \/ s.id <= prev[p].id
        /\ live[p] \subseteq {cur[p]} \/ prev[p] \in live[p]

\* No PollRun tells of a run that is still in flight.
PollInv(p) ==
    \A r \in polls[p] : /\ r.snap <= fetched[p]
                        /\ cur[p] # NoSnap => r.snap # cur[p].id

AuditInvAt(p) ==
    /\ VerdictInv(p) /\ SuccessorInv(p) /\ PollInv(p)
    /\ \A r \in polls[p] : RowTruthful(p, r) /\ MoveAccounted(p, r)

AuditInv == \A p \in Profiles : AuditInvAt(p)
=============================================================================
