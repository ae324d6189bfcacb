------------------------------ MODULE Scheduler ------------------------------
(***************************************************************************)
(* The API process: the polling jobs of skygent/scheduler/jobs.py, the     *)
(* POST and DELETE handlers of skygent/api/routes.py, the start-up and     *)
(* shutdown of skygent/api/main.py, and the SQLite tables they share       *)
(* (skygent/api/database.py).                                              *)
(*                                                                         *)
(* Jobs are coroutines on the event loop and handlers are plain functions  *)
(* run in worker threads, so a handler's steps interleave with a job's.    *)
(* One action is one database transaction, one call into APScheduler or    *)
(* one awaited call of the agent.  The agent graph itself is abstracted to *)
(* the awaits that take time (module AgentGraph has the detail): it        *)
(* fetches, decides, delivers.                                             *)
(***************************************************************************)
EXTENDS Integers

CONSTANTS
    Profiles,      \* profile ids: each is posted at most once (ids are UUIDs)
    Chats,         \* chats of bot users
    Forecasts,     \* forecast contents a fetch can return
    Significant,   \* pairs <<previous, current>> that cross a threshold
    Deleters,      \* worker threads that may be serving a DELETE
    FaultKinds,    \* the faults that may occur in this instance
    MaxFetches,    \* bound: successful fetches per profile
    MaxFaults,     \* bound: faults, crashes and shutdowns together
    NoChat, NoJob, NoForecast

ASSUME SchedulerAssumption ==
    /\ Significant \subseteq Forecasts \X Forecasts
    /\ MaxFetches \in Nat
    /\ MaxFaults \in Nat
    /\ NoJob \notin Chats \union {NoChat}
    /\ NoChat \notin Chats

VARIABLES
    \* Tables.
    row,        \* ProfileRow: "absent", "active" or "inactive"
    rowChat,    \* telegram_chat_id inside ProfileRow.data
    corrupt,    \* profiles whose ProfileRow.data does not parse
    live,       \* SnapshotRow with deregistered_at NULL, per profile
    retired,    \* SnapshotRow with deregistered_at set, per profile
    polls,      \* PollRun, per profile
    \* The process.
    proc,       \* "down", "up" or "aborted" (start-up raised)
    jobs,       \* APScheduler's job per profile: the chat in its argument
    \* The run in flight of each profile's job (max_instances = 1).
    pc,         \* where the coroutine is
    arg,        \* the chat of the profile object the run was started with
    prev,       \* previous_snapshot
    cur,        \* current_snapshot
    verdict,    \* how the agent ended
    \* HTTP requests.
    post,       \* progress of POST /profiles for each profile
    del,        \* progress of DELETE /profiles/{p} on each worker thread
    torn,       \* history: profiles a failed request of this process left with
                \* the scheduler changed and the row not (no code reads it)
    \* The world.
    expired,    \* profiles whose event_datetime has passed
    fetched,    \* number of snapshots fetched, the source of fetched_at
    sent,       \* messages Telegram accepted
    faults      \* faults so far

dbVars   == <<row, rowChat, corrupt, live, retired, polls>>
runVars  == <<pc, arg, prev, cur, verdict>>
httpVars == <<post, del, torn>>
vars == <<dbVars, proc, jobs, runVars, httpVars, expired, fetched, sent, faults>>

-----------------------------------------------------------------------------
\* Data.

Snapshot == [id : 1..MaxFetches, fc : Forecasts]
NoSnap   == [id |-> 0, fc |-> NoForecast]

ChatOrNone == Chats \union {NoChat}

PollRow == [snap    : 0..MaxFetches,   \* id of the run's snapshot (not a column)
            status  : {"ok", "skipped", "error"},
            changes : {"null", "zero", "count"},
            alert   : BOOLEAN]

Delivery == [profile : Profiles, prev : Snapshot, cur : Snapshot,
             chat : ChatOrNone, late : BOOLEAN]

\* Where a run can be.  In the first three no coroutine is in flight.
Ended    == {"idle", "raised"}
Awaiting == {"fetching", "alerting", "acking"}
RunPc    == Ended \union Awaiting
               \union {"started", "removing", "clearing", "storing",
                       "writing", "raising"}

PostPc == {"none", "saved", "scheduled", "done", "failed"}
DelPc  == {"idle", "removing", "clearing", "committing"}

Verdicts == {"none", "first", "quiet", "alert", "error"}

\* Mutations of LatestSnapshots: no ORDER BY, and ORDER BY fetched_at ASC.
UnorderedSnapshots(S) == S
EarliestSnapshots(S) == {s \in S : \A t \in S : s.id <= t.id}

\* fetched_at DESC LIMIT 1 over the rows with deregistered_at NULL.
LatestSnapshots(S) == {s \in S : \A t \in S : t.id <= s.id}

IsActive(p) == p \notin expired

\* Mutation of DefaultRow: changes_detected has no default.
DefaultRowUnset(id) == [snap |-> id, status |-> "skipped", changes |-> "unset",
                        alert |-> FALSE]

\* Mutation of OutcomeRow: state["error"] is not looked at.
OutcomeRowIgnoresError(id, v) ==
    [snap    |-> id,
     status  |-> IF v = "alert" THEN "ok" ELSE "skipped",
     changes |-> IF v = "first" THEN "zero" ELSE "count",
     alert   |-> v = "alert"]

\* The row a run leaves: its outcome, or the defaults when it raised.
DefaultRow(id) == [snap |-> id, status |-> "skipped", changes |-> "null",
                   alert |-> FALSE]
OutcomeRow(id, v) ==
    [snap    |-> id,
     status  |-> IF v = "error" THEN "error"
                 ELSE IF v = "alert" THEN "ok" ELSE "skipped",
     changes |-> IF v = "error" THEN "null"
                 ELSE IF v = "first" THEN "zero" ELSE "count",
     alert   |-> v = "alert"]

Fault(kind) == /\ kind \in FaultKinds
               /\ faults < MaxFaults
               /\ faults' = faults + 1

-----------------------------------------------------------------------------
Init ==
    /\ row       = [p \in Profiles |-> "absent"]
    /\ rowChat   = [p \in Profiles |-> NoChat]
    /\ corrupt   = {}
    /\ live      = [p \in Profiles |-> {}]
    /\ retired   = [p \in Profiles |-> {}]
    /\ polls     = [p \in Profiles |-> {}]
    /\ proc      = "up"
    /\ jobs      = [p \in Profiles |-> NoJob]
    /\ pc        = [p \in Profiles |-> "idle"]
    /\ arg       = [p \in Profiles |-> NoChat]
    /\ prev      = [p \in Profiles |-> NoSnap]
    /\ cur       = [p \in Profiles |-> NoSnap]
    /\ verdict   = [p \in Profiles |-> "none"]
    /\ post      = [p \in Profiles |-> "none"]
    /\ del       = [d \in Deleters |-> [p \in Profiles |-> "idle"]]
    /\ torn      = {}
    /\ expired   = {}
    /\ fetched   = [p \in Profiles |-> 0]
    /\ sent      = {}
    /\ faults    = 0

-----------------------------------------------------------------------------
\* The job of one profile: _job_for_profile.

\* APScheduler finds the job due and starts its coroutine, unless the
\* previous instance is still running (max_instances).
Fire(p) ==
    /\ proc = "up"
    /\ jobs[p] # NoJob
    /\ pc[p] \in Ended
    /\ pc' = [pc EXCEPT ![p] = "started"]
    /\ arg' = [arg EXCEPT ![p] = jobs[p]]
    /\ UNCHANGED <<dbVars, proc, jobs, prev, cur, verdict, httpVars, expired,
                   fetched, sent, faults>>

\* Mutation of FindOwnJob: the job is not removed.
FindOwnJobKeeps(p) ==
    /\ pc[p] = "started"
    /\ ~IsActive(p)
    /\ pc' = [pc EXCEPT ![p] = "clearing"]
    /\ UNCHANGED <<dbVars, proc, jobs, arg, prev, cur, verdict, httpVars, expired,
                   fetched, sent, faults>>

\* The event has passed: look the job up, to remove it.
FindOwnJob(p) ==
    /\ pc[p] = "started"
    /\ ~IsActive(p)
    /\ pc' = [pc EXCEPT ![p] = IF jobs[p] = NoJob THEN "clearing" ELSE "removing"]
    /\ UNCHANGED <<dbVars, proc, jobs, arg, prev, cur, verdict, httpVars, expired,
                   fetched, sent, faults>>

\* remove_job raises JobLookupError when a DELETE removed the job meanwhile.
RemoveOwnJob(p) ==
    /\ pc[p] = "removing"
    /\ jobs' = [jobs EXCEPT ![p] = NoJob]
    /\ pc' = [pc EXCEPT ![p] = IF jobs[p] = NoJob THEN "raised" ELSE "clearing"]
    /\ UNCHANGED <<dbVars, proc, arg, prev, cur, verdict, httpVars, expired,
                   fetched, sent, faults>>

\* Marking a profile's live snapshots as deregistered.
Deregister(p) ==
    /\ retired' = [retired EXCEPT ![p] = @ \union live[p]]
    /\ live' = [live EXCEPT ![p] = {}]

\* Clear the snapshots and return, before the try block: no PollRun.
ClearOwnSnapshots(p) ==
    /\ pc[p] = "clearing"
    /\ \/ /\ Deregister(p)
          /\ pc' = [pc EXCEPT ![p] = "idle"]
          /\ UNCHANGED faults
       \/ /\ Fault("clear")
          /\ pc' = [pc EXCEPT ![p] = "raised"]
          /\ UNCHANGED <<live, retired>>
    /\ UNCHANGED <<row, rowChat, corrupt, polls, proc, jobs, arg,
                   prev, cur, verdict, httpVars, expired, fetched, sent>>

\* _snapshot_store.get: the newest live snapshot, or None on a first run.
LoadBaseline(p) ==
    /\ pc[p] = "started"
    /\ IsActive(p)
    /\ \/ /\ \/ /\ live[p] = {}
                /\ prev' = [prev EXCEPT ![p] = NoSnap]
             \/ \E s \in LatestSnapshots(live[p]) :
                    prev' = [prev EXCEPT ![p] = s]
          /\ pc' = [pc EXCEPT ![p] = "fetching"]
          /\ UNCHANGED faults
       \/ /\ Fault("load")
          /\ pc' = [pc EXCEPT ![p] = "raising"]
          /\ UNCHANGED prev
    /\ UNCHANGED <<dbVars, proc, jobs, arg, cur, verdict, httpVars, expired,
                   fetched, sent>>

\* The forecast arrives and is compared with the baseline.
FetchForecast(p) ==
    /\ pc[p] = "fetching"
    /\ fetched[p] < MaxFetches
    /\ fetched' = [fetched EXCEPT ![p] = @ + 1]
    /\ \E f \in Forecasts :
          /\ cur' = [cur EXCEPT ![p] = [id |-> fetched[p] + 1, fc |-> f]]
          /\ \/ /\ prev[p] = NoSnap
                /\ verdict' = [verdict EXCEPT ![p] = "first"]
                /\ pc' = [pc EXCEPT ![p] = "storing"]
             \/ /\ prev[p] # NoSnap
                /\ <<prev[p].fc, f>> \notin Significant
                /\ verdict' = [verdict EXCEPT ![p] = "quiet"]
                /\ pc' = [pc EXCEPT ![p] = "storing"]
             \/ /\ prev[p] # NoSnap
                /\ <<prev[p].fc, f>> \in Significant
                /\ verdict' = verdict
                /\ pc' = [pc EXCEPT ![p] = "alerting"]
    /\ UNCHANGED <<dbVars, proc, jobs, arg, prev, httpVars, expired, sent, faults>>

\* All fetch attempts failed: the run ends with an error and no snapshot.
FetchFails(p) ==
    /\ pc[p] = "fetching"
    /\ verdict' = [verdict EXCEPT ![p] = "error"]
    /\ pc' = [pc EXCEPT ![p] = "writing"]
    /\ UNCHANGED <<dbVars, proc, jobs, arg, prev, cur, httpVars, expired,
                   fetched, sent, faults>>

\* Telegram accepts the alert; the answer is still on its way.
Deliver(p) ==
    /\ pc[p] = "alerting"
    /\ sent' = sent \union {[profile |-> p, prev |-> prev[p], cur |-> cur[p],
                             chat |-> arg[p], late |-> row[p] = "inactive"]}
    /\ pc' = [pc EXCEPT ![p] = "acking"]
    /\ UNCHANGED <<dbVars, proc, jobs, arg, prev, cur, verdict, httpVars, expired,
                   fetched, faults>>

\* The answer arrives: notify_node sets alert.sent.
Acknowledge(p) ==
    /\ pc[p] = "acking"
    /\ verdict' = [verdict EXCEPT ![p] = "alert"]
    /\ pc' = [pc EXCEPT ![p] = "storing"]
    /\ UNCHANGED <<dbVars, proc, jobs, arg, prev, cur, httpVars, expired,
                   fetched, sent, faults>>

\* Mutation of NotifyFails: the exception is swallowed and alert.sent set.
NotifyFailsSwallowed(p) ==
    /\ pc[p] \in {"alerting", "acking"}
    /\ verdict' = [verdict EXCEPT ![p] = "alert"]
    /\ pc' = [pc EXCEPT ![p] = "storing"]
    /\ UNCHANGED <<dbVars, proc, jobs, arg, prev, cur, httpVars, expired,
                   fetched, sent, faults>>

\* Mutation of NotifyFails: the alert is tried again.
NotifyFailsRetries(p) ==
    /\ pc[p] \in {"alerting", "acking"}
    /\ pc' = [pc EXCEPT ![p] = "alerting"]
    /\ UNCHANGED <<dbVars, proc, jobs, arg, prev, cur, verdict, httpVars, expired,
                   fetched, sent, faults>>

\* The request fails before Telegram accepts it, or its answer is lost: in
\* both cases notify_node returns an error.
NotifyFails(p) ==
    /\ pc[p] \in {"alerting", "acking"}
    /\ verdict' = [verdict EXCEPT ![p] = "error"]
    /\ pc' = [pc EXCEPT ![p] = "storing"]
    /\ UNCHANGED <<dbVars, proc, jobs, arg, prev, cur, httpVars, expired,
                   fetched, sent, faults>>

\* _snapshot_store.set, whatever the verdict.
StoreSnapshot(p) ==
    /\ pc[p] = "storing"
    /\ \/ /\ live' = [live EXCEPT ![p] = @ \union {cur[p]}]
          /\ pc' = [pc EXCEPT ![p] = "writing"]
          /\ UNCHANGED faults
       \/ /\ Fault("save")
          /\ pc' = [pc EXCEPT ![p] = "raising"]
          /\ UNCHANGED live
    /\ UNCHANGED <<row, rowChat, corrupt, retired, polls, proc, jobs,
                   arg, prev, cur, verdict, httpVars, expired, fetched, sent>>

\* The finally block: write the PollRun, swallowing a database error, then
\* return or let the exception go on to APScheduler.
WritePoll(p) ==
    /\ pc[p] \in {"writing", "raising"}
    /\ \/ /\ polls' = [polls EXCEPT ![p] = @ \union
                {IF pc[p] = "raising" THEN DefaultRow(cur[p].id)
                 ELSE OutcomeRow(cur[p].id, verdict[p])}]
          /\ UNCHANGED faults
       \/ /\ Fault("poll")
          /\ UNCHANGED polls
    /\ pc' = [pc EXCEPT ![p] = IF pc[p] = "raising" THEN "raised" ELSE "idle"]
    /\ arg' = [arg EXCEPT ![p] = NoChat]
    /\ prev' = [prev EXCEPT ![p] = NoSnap]
    /\ cur' = [cur EXCEPT ![p] = NoSnap]
    /\ verdict' = [verdict EXCEPT ![p] = "none"]
    /\ UNCHANGED <<row, rowChat, corrupt, live, retired, proc, jobs,
                   httpVars, expired, fetched, sent>>

-----------------------------------------------------------------------------
\* POST /profiles: create_profile.

\* The event is in the future: build the profile and merge its row into the
\* session.  Nothing is written until the session commits.
PostSave(p) ==
    /\ proc = "up"
    /\ post[p] = "none"
    /\ IsActive(p)
    /\ post' = [post EXCEPT ![p] = "saved"]
    /\ UNCHANGED <<dbVars, proc, jobs, runVars, del, torn, expired, fetched, sent,
                   faults>>

\* register_profile: the profile has no chat yet.  When the event passed in
\* between, the handler answers 422 and the session rolls back.
PostRegister(p) ==
    /\ post[p] = "saved"
    /\ \/ /\ IsActive(p)
          /\ jobs' = [jobs EXCEPT ![p] = NoChat]
          /\ post' = [post EXCEPT ![p] = "scheduled"]
       \/ /\ ~IsActive(p)
          /\ post' = [post EXCEPT ![p] = "failed"]
          /\ UNCHANGED jobs
    /\ UNCHANGED <<dbVars, proc, runVars, del, torn, expired, fetched, sent, faults>>

\* get_session commits after the handler; a failing commit leaves the job of a
\* profile that has no row.
PostCommit(p) ==
    /\ post[p] = "scheduled"
    /\ \/ /\ row' = [row EXCEPT ![p] = "active"]
          /\ post' = [post EXCEPT ![p] = "done"]
          /\ UNCHANGED <<torn, faults>>
       \/ /\ Fault("commit")
          /\ post' = [post EXCEPT ![p] = "failed"]
          /\ torn' = torn \union {p}
          /\ UNCHANGED row
    /\ UNCHANGED <<rowChat, corrupt, live, retired, polls, proc, jobs,
                   runVars, del, expired, fetched, sent>>

\* Mutation of PatchChat: a later conversation may patch the row as well.
PatchChatAgain(p) ==
    /\ row[p] # "absent"
    /\ p \notin corrupt
    /\ \E c \in Chats : rowChat' = [rowChat EXCEPT ![p] = c]
    /\ UNCHANGED <<row, corrupt, live, retired, polls, proc, jobs,
                   runVars, httpVars, expired, fetched, sent, faults>>

\* The bot writes the user's chat into the row once the POST has answered.
PatchChat(p) ==
    /\ row[p] # "absent"
    /\ rowChat[p] = NoChat
    /\ p \notin corrupt
    /\ \E c \in Chats : rowChat' = [rowChat EXCEPT ![p] = c]
    /\ UNCHANGED <<row, corrupt, live, retired, polls, proc, jobs,
                   runVars, httpVars, expired, fetched, sent, faults>>

-----------------------------------------------------------------------------
\* DELETE /profiles/{p}: delete_profile on worker thread d.

\* Mutation of DeleteFind: the handler goes straight to the snapshots.
DeleteFindKeepsJob(d, p) ==
    /\ proc = "up"
    /\ del[d][p] = "idle"
    /\ row[p] # "absent"
    /\ p \notin corrupt
    /\ del' = [del EXCEPT ![d][p] = "clearing"]
    /\ UNCHANGED <<dbVars, proc, jobs, runVars, post, torn, expired, fetched, sent,
                   faults>>

\* The row exists and parses (404 and 500 otherwise, changing nothing);
\* deregister_profile looks the job up.
DeleteFind(d, p) ==
    /\ proc = "up"
    /\ del[d][p] = "idle"
    /\ row[p] # "absent"
    /\ p \notin corrupt
    /\ del' = [del EXCEPT ![d][p] =
                  IF jobs[p] = NoJob THEN "clearing" ELSE "removing"]
    /\ UNCHANGED <<dbVars, proc, jobs, runVars, post, torn, expired, fetched, sent,
                   faults>>

\* remove_job, or JobLookupError and a 500 when the job is gone already.
DeleteRemoveJob(d, p) ==
    /\ del[d][p] = "removing"
    /\ jobs' = [jobs EXCEPT ![p] = NoJob]
    /\ del' = [del EXCEPT ![d][p] = IF jobs[p] = NoJob THEN "idle" ELSE "clearing"]
    /\ UNCHANGED <<dbVars, proc, runVars, post, torn, expired, fetched, sent, faults>>

\* _snapshot_store.clear commits in a session of its own.
DeleteClear(d, p) ==
    /\ del[d][p] = "clearing"
    /\ \/ /\ Deregister(p)
          /\ del' = [del EXCEPT ![d][p] = "committing"]
          /\ UNCHANGED <<torn, faults>>
       \/ /\ Fault("clear")
          /\ del' = [del EXCEPT ![d][p] = "idle"]
          /\ torn' = torn \union {p}
          /\ UNCHANGED <<live, retired>>
    /\ UNCHANGED <<row, rowChat, corrupt, polls, proc, jobs, runVars,
                   post, expired, fetched, sent>>

\* is_active = False and deregister_snapshots again, in the request's session.
\* A failing commit leaves an active row without a job, until another DELETE or
\* a restart.
DeleteCommit(d, p) ==
    /\ del[d][p] = "committing"
    /\ del' = [del EXCEPT ![d][p] = "idle"]
    /\ \/ /\ row' = [row EXCEPT ![p] = "inactive"]
          /\ Deregister(p)
          /\ torn' = torn \ {p}
          /\ UNCHANGED faults
       \/ /\ Fault("commit")
          /\ torn' = torn \union {p}
          /\ UNCHANGED <<row, live, retired>>
    /\ UNCHANGED <<rowChat, corrupt, polls, proc, jobs, runVars, post,
                   expired, fetched, sent>>

-----------------------------------------------------------------------------
\* The process and the world.

\* What is lost with the process: the job store, the runs, the requests.
LoseMemory ==
    /\ proc' = "down"
    /\ jobs' = [p \in Profiles |-> NoJob]
    /\ pc' = [p \in Profiles |-> "idle"]
    /\ arg' = [p \in Profiles |-> NoChat]
    /\ prev' = [p \in Profiles |-> NoSnap]
    /\ cur' = [p \in Profiles |-> NoSnap]
    /\ verdict' = [p \in Profiles |-> "none"]
    /\ post' = [p \in Profiles |->
                  IF post[p] \in {"saved", "scheduled"} THEN "failed" ELSE post[p]]
    /\ del' = [d \in Deleters |-> [p \in Profiles |-> "idle"]]
    /\ torn' = {}

Crash ==
    /\ proc = "up"
    /\ Fault("crash")
    /\ LoseMemory
    /\ UNCHANGED <<dbVars, expired, fetched, sent>>

\* The server stops once its requests are answered.  shutdown(wait=True)
\* cannot wait on the event loop: APScheduler cancels the coroutines that
\* are at an await, and their finally blocks write the default PollRun.
Shutdown ==
    /\ proc = "up"
    /\ \A p \in Profiles : /\ pc[p] \in Ended \union Awaiting \union {"started"}
                           /\ post[p] \notin {"saved", "scheduled"}
                           /\ \A d \in Deleters : del[d][p] = "idle"
    /\ Fault("shutdown")
    /\ polls' = [p \in Profiles |-> IF pc[p] \in Awaiting
                                      THEN polls[p] \union {DefaultRow(cur[p].id)}
                                      ELSE polls[p]]
    /\ LoseMemory
    /\ UNCHANGED <<row, rowChat, corrupt, live, retired, expired,
                   fetched, sent>>

\* Mutation of Listed: no filter on is_active.
ListedWithDeleted == {p \in Profiles : row[p] # "absent" /\ IsActive(p)}

\* list_profiles(active_only=True): the rows whose data start-up parses.
Listed == {p \in Profiles : row[p] = "active" /\ IsActive(p)}

\* Mutation of Startup: no re-registration.
StartupForgets ==
    /\ proc = "down"
    /\ Listed \intersect corrupt = {}
    /\ proc' = "up"
    /\ UNCHANGED <<dbVars, jobs, runVars, httpVars, expired, fetched, sent, faults>>

\* lifespan registers every listed profile again, with the chat now in its row.
Startup ==
    /\ proc = "down"
    /\ Listed \intersect corrupt = {}
    /\ proc' = "up"
    /\ jobs' = [p \in Profiles |-> IF p \in Listed THEN rowChat[p] ELSE NoJob]
    /\ UNCHANGED <<dbVars, runVars, httpVars, expired, fetched, sent, faults>>

\* One listed row that does not parse makes list_profiles raise, outside the
\* per-profile try block: start-up is aborted.
StartupAborts ==
    /\ proc = "down"
    /\ Listed \intersect corrupt # {}
    /\ proc' = "aborted"
    /\ UNCHANGED <<dbVars, jobs, runVars, httpVars, expired, fetched, sent, faults>>

EventPasses(p) ==
    /\ IsActive(p)
    /\ expired' = expired \union {p}
    /\ UNCHANGED <<dbVars, proc, jobs, runVars, httpVars, fetched, sent, faults>>

CorruptRow(p) ==
    /\ row[p] # "absent"
    /\ p \notin corrupt
    /\ Fault("corrupt")
    /\ corrupt' = corrupt \union {p}
    /\ UNCHANGED <<row, rowChat, live, retired, polls, proc, jobs,
                   runVars, httpVars, expired, fetched, sent>>

-----------------------------------------------------------------------------
Run(p) ==
    \/ FindOwnJob(p) \/ RemoveOwnJob(p) \/ ClearOwnSnapshots(p)
    \/ LoadBaseline(p) \/ FetchForecast(p) \/ FetchFails(p)
    \/ Deliver(p) \/ Acknowledge(p) \/ NotifyFails(p)
    \/ StoreSnapshot(p) \/ WritePoll(p)

Post(p) == PostSave(p) \/ PostRegister(p) \/ PostCommit(p)

Delete(d, p) == \/ DeleteFind(d, p) \/ DeleteRemoveJob(d, p)
                \/ DeleteClear(d, p) \/ DeleteCommit(d, p)

Process == Crash \/ Shutdown \/ Startup \/ StartupAborts

Next ==
    \/ \E p \in Profiles : \/ Fire(p) \/ Run(p) \/ Post(p) \/ PatchChat(p)
                           \/ EventPasses(p) \/ CorruptRow(p)
                           \/ \E d \in Deleters : Delete(d, p)
    \/ Process

Spec == Init /\ [][Next]_vars

\* Every run ends (its awaits have timeouts), the interval trigger fires again,
\* a request that began is served, and a supervisor restarts the process.
\* Posting, deleting, patching, faults and the passing of time are not fair.
Fairness ==
    /\ \A p \in Profiles : WF_vars(Fire(p)) /\ WF_vars(Run(p))
                           /\ WF_vars(PostRegister(p) \/ PostCommit(p))
    /\ \A p \in Profiles, d \in Deleters :
          WF_vars(DeleteRemoveJob(d, p) \/ DeleteClear(d, p) \/ DeleteCommit(d, p))
    /\ WF_vars(Startup)

FairSpec == Spec /\ Fairness
=============================================================================
