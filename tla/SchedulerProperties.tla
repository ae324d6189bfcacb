------------------------- MODULE SchedulerProperties -------------------------
(***************************************************************************)
(* What the API process of module Scheduler promises, whatever the order   *)
(* in which jobs, requests, crashes and restarts interleave.               *)
(***************************************************************************)
EXTENDS Scheduler

\* Every variable stays in its range.
TypeOK ==
    /\ row       \in [Profiles -> {"absent", "active", "inactive"}]
    /\ rowChat   \in [Profiles -> ChatOrNone]
    /\ corrupt   \subseteq Profiles
    /\ live      \in [Profiles -> SUBSET Snapshot]
    /\ retired   \in [Profiles -> SUBSET Snapshot]
    /\ polls     \in [Profiles -> SUBSET PollRow]
    /\ proc      \in {"down", "up", "aborted"}
    /\ jobs      \in [Profiles -> ChatOrNone \union {NoJob}]
    /\ pc        \in [Profiles -> RunPc]
    /\ arg       \in [Profiles -> ChatOrNone]
    /\ prev      \in [Profiles -> Snapshot \union {NoSnap}]
    /\ cur       \in [Profiles -> Snapshot \union {NoSnap}]
    /\ verdict   \in [Profiles -> Verdicts]
    /\ post      \in [Profiles -> PostPc]
    /\ del       \in [Deleters -> [Profiles -> DelPc]]
    /\ torn      \subseteq Profiles
    /\ expired   \subseteq Profiles
    /\ fetched   \in [Profiles -> 0..MaxFetches]
    /\ sent      \subseteq Delivery
    /\ faults    \in 0..MaxFaults

-----------------------------------------------------------------------------
\* Baselines and alerts.

Stored(p) == live[p] \union retired[p]

AlertsOf(p) == {a \in sent : a.profile = p}

\* The baseline a run is about to alert against is still the newest live
\* snapshot of its profile, unless a DELETE retired the snapshots during the
\* run.  The run read it before awaiting the forecast, the LLM and Telegram
\* (jobs.py:172), and uses it afterwards.
BaselineIsNewest ==
    \A p \in Profiles : pc[p] \in {"alerting", "acking", "storing"} =>
        \A s \in live[p] : s.id <= prev[p].id

\* A move of the forecast that was alerted and whose snapshot was saved is
\* never part of a later alert: baselines never go back, over restarts,
\* deletions and failed saves.  Only an alert whose snapshot was lost (a crash
\* or a failed save after Telegram accepted the alert) may be repeated.
NoRepeatedAlert ==
    \A a, b \in sent :
        (a.profile = b.profile /\ a.cur.id < b.cur.id /\ a.cur \in Stored(a.profile))
            => a.cur.id <= b.prev.id

\* s and t follow each other in the baselines of p.
Adjacent(p, s, t) ==
    /\ s.id < t.id
    /\ \A u \in live[p] : u.id <= s.id \/ t.id <= u.id

\* A significant move between two successive baselines is never dropped in
\* silence: whatever PollRun the run left, it tells of an alert that Telegram
\* accepted or of an error.
MoveAccounted(p, r) ==
    \A s, t \in live[p] :
        (Adjacent(p, s, t) /\ <<s.fc, t.fc>> \in Significant /\ r.snap = t.id) =>
            \/ r.status = "error"
            \/ r.alert /\ \E a \in AlertsOf(p) : a.prev = s /\ a.cur = t

SignificantMoveAccounted ==
    \A p \in Profiles : \A r \in polls[p] : MoveAccounted(p, r)

\* PollRun rows, the audit trail of /health and the dashboard, tell the truth:
\* alert_sent is set only if Telegram accepted an alert of that run, and a run
\* whose alert was accepted is called "skipped" only if its snapshot was lost.
RowTruthful(p, r) ==
    /\ r.alert => \E a \in AlertsOf(p) : a.cur.id = r.snap
    /\ (r.status = "skipped" /\ \E a \in AlertsOf(p) : a.cur.id = r.snap)
          => \A s \in Stored(p) : s.id # r.snap

AuditTruthful == \A p \in Profiles : \A r \in polls[p] : RowTruthful(p, r)

-----------------------------------------------------------------------------
\* Runs of the agent.

\* Telegram accepted the alert of the run in flight.
Alerted(p) == \E a \in AlertsOf(p) : a.prev = prev[p] /\ a.cur = cur[p]

RunPhase(p) ==
    IF pc[p] \in Awaiting THEN pc[p]
    ELSE IF pc[p] \in {"storing", "writing", "raising"} /\ verdict[p] # "none"
         THEN "done" ELSE "idle"

CrossingPairs ==
    {m \in Snapshot \X Snapshot : <<m[1].fc, m[2].fc>> \in Significant}

RunOf(p) == INSTANCE AgentRun WITH
    Snapshots  <- Snapshot,
    NoSnapshot <- NoSnap,
    Crossing   <- CrossingPairs,
    phase      <- RunPhase(p),
    prev       <- prev[p],
    cur        <- cur[p],
    verdict    <- verdict[p],
    accepted   <- Alerted(p)

RunsBegin == \A p \in Profiles : RunOf(p)!Init
RunsStep  == \A p \in Profiles : [RunOf(p)!Next]_(RunOf(p)!vars)

\* Each job uses the agent as AgentRun, which the agent graph implements,
\* promises: through crashes, shutdowns, failing saves and deletions a run
\* sends at most one alert, for a significant move, and its verdict is true.
RunsFollowContract == RunsBegin /\ [][RunsStep]_vars

-----------------------------------------------------------------------------
\* Rows and jobs.

Deleted(p) == row[p] = "inactive"

\* A profile whose DELETE was committed never runs again: no job start, no
\* restart and no late registration brings it back.
QuietAfterDelete ==
    [][\A p \in Profiles : (Deleted(p) /\ pc[p] \in Ended) => pc'[p] \in Ended]_vars

\* At most one alert leaves after the commit of a DELETE: that of the run
\* which was in flight.
AtMostOneLateAlert ==
    \A a, b \in sent : (a.profile = b.profile /\ a.late /\ b.late) => a = b

\* No request is working on p.
Settled(p) == /\ post[p] \notin {"saved", "scheduled"}
              /\ \A d \in Deleters : del[d][p] = "idle"

\* While the process is up and no request is in progress, APScheduler and the
\* database agree on what is monitored: a job has an active row, and an active
\* row whose event has not passed has a job.  The handlers change the scheduler
\* before the commit, so a request whose commit or clearing failed may leave the
\* profile torn; a DELETE that succeeds, or a restart, mends it.
DbSchedulerConsistent ==
    proc = "up" => \A p \in Profiles \ torn : Settled(p) =>
        /\ jobs[p] # NoJob => row[p] = "active"
        /\ (row[p] = "active" /\ IsActive(p)) => jobs[p] # NoJob

\* No alert is for a user who did not ask for it: it goes to the chat in the row
\* of its profile, or to the default chat.  The run took the chat from the job,
\* which took it from the row at its registration, one of them before the patch
\* and another one after a restart (_job_for_profile, register_profile, lifespan).
AlertsStayPrivate == \A a \in sent : a.chat \in {NoChat, rowChat[a.profile]}

-----------------------------------------------------------------------------
\* Progress.

Monitored(p) == row[p] = "active" /\ IsActive(p)

\* A monitored profile that no failed DELETE tore is polled for ever: over
\* restarts, failing fetches, saves and notifications its job starts again and
\* again.
PollingContinues ==
    \A p \in Profiles : []<>(pc[p] \notin Ended \/ ~Monitored(p) \/ p \in torn)

\* The job of a profile whose event has passed removes itself.
ExpiredJobRemoved ==
    \A p \in Profiles : ~IsActive(p) ~> jobs[p] = NoJob

-----------------------------------------------------------------------------
\* What documentation and comments say, and the code does not do.

\* telegram_bot.py:923: patching the row "ensures notify_node routes future
\* alerts to the correct user".  The running job keeps the profile object it
\* was registered with (jobs.py:294).
AlertsReachPatchedChat ==
    [][\A p \in Profiles : (pc[p] = "alerting" /\ pc'[p] = "acking"
                                /\ rowChat[p] # NoChat)
            => arg[p] = rowChat[p]]_vars

\* main.py:32: "a single bad row (e.g. corrupt data field) does not abort the
\* entire startup sequence".
StartupSurvivesBadRow == proc # "aborted"
=============================================================================
