# Skygent in TLA+

Skygent watches the weather forecast of future events. Every profile is polled
by a job; when the forecast moves significantly between two polls, an agent
writes a narrative and sends it over Telegram. This directory holds a TLA+
model of the program, the TLC runs that check it on small instances, and
proofs, checked by TLAPS, that its main safety properties hold for every
instance. Paths below are relative to `src/skygent/`.

## 1. The system

| Component | State it keeps | Operations |
|---|---|---|
| Scheduler jobs, `scheduler/jobs.py` | APScheduler's in-memory job store; per run: the profile object, baseline, final agent state | `_job_for_profile`, `register_profile`, `deregister_profile`, `start`, `shutdown` |
| Profile API, `api/routes.py` | none of its own; a database session per request | `POST /profiles`, `DELETE /profiles/{id}`, read-only `GET`s |
| Life cycle, `api/main.py` | none | `lifespan`: inject the database store, start, re-register, shut down |
| Persistence, `api/database.py` | `ProfileRow`, `SnapshotRow`, `AlertRow`, `PollRun`, `ConversationStateRow` in SQLite | save, load latest, deregister, list, commit or roll back |
| Agent graph, `agent/graph.py`, `nodes.py`, `state.py` | `AgentState`, fresh in each run | five nodes, four conditional edges, two retry policies |
| Engine, `core/diff.py`, `core/significance.py` | none: pure | `compare`, `is_significant`, `build_alert` |
| Models, `core/models.py` | values only | validation, `is_active` |
| Open-Meteo client, `integrations/openmeteo.py` | none | one request for the dates from today to the event, the event's row and the horizon, or `OpenMeteoError` |
| Telegram sender, `integrations/telegram.py` | none | `send_alert`, or `TelegramError` |
| Telegram bot, `integrations/telegram_bot.py`, `bot.py` | conversation step per chat; `getUpdates` offset | conversation, `POST` to the API, patch of `telegram_chat_id` in the row |
| Launcher, `launcher.py`; dashboard, `../ui/app.py` | none | start both processes; HTTP client |

How they interact. Jobs are coroutines on the event loop of the API process.
Request handlers are plain functions that run in worker threads, so a handler's
steps interleave with every `await` *and* every statement of a job. Both write
the same tables, in transactions of their own: `DBSnapshotStore` opens a
session per call, while a handler's session commits after the handler returned.
The bot is another process (or thread): a client of the API that also writes into
`ProfileRow.data`. It is one thread that asks Telegram for a batch of updates
and dispatches them one by one. The
job store is lost with the process and rebuilt from `ProfileRow` at start-up.

What makes it hard:

- state read before an `await` and used after it (the baseline, `jobs.py:172`),
  and state captured at registration (`args=[profile]`, `jobs.py:294`);
- look-up then removal of a job by several threads (`jobs.py:251`);
- several commits per operation, each of which can fail or be cut off by a
  crash (`POST`: job, then commit; `DELETE`: job, snapshots, then commit; a
  run: deliver, then snapshot, then `PollRun`);
- an answer of Telegram that is lost after the message was accepted;
- shutdown, which cannot wait for coroutines on the loop it runs on;
- retry loops and a blank or failing LLM between a decision and its delivery;
- thresholds at their boundary, in both directions, with gaps in the data, and moves
  that stay below them poll after poll;
- time: a first run at once and then an interval, a forecast window counted in dates
  here and in hours there, two readings of the clock around midnight, a
  column without time zone that start-up filters by;
- a `getUpdates` offset that lives in memory, so that updates are delivered again
  after a crash, and keyboards that stay on the screen, so that a button can be
  pressed twice or answer a later question;
- a registration in three steps (`POST`, patch, clear), in two processes, each of
  which can fail, and a conversation that expires between two reads of its row.

What correct means, per component. *Scheduler*: alerts are about moves from the
newest baseline and are not repeated; a deleted profile goes quiet; jobs and rows
agree; polling goes on for ever. *Audit trail*: `PollRun` tells the truth about
alerts and no significant move disappears. *Agent*: the decision is the one the
thresholds define, the LLM is asked about nothing else, a run ends and reports
what really happened. *Engine*: gaps never trigger, boundaries do, direction is
irrelevant. *Bot*: no update is lost, whatever raises or crashes; one conversation
makes one profile, unless the bot could not learn or record that it did; a profile
gets its chat; the questions keep their order. *Time*: a profile is scheduled until
its event and not much longer, has a fresh forecast as soon as there can be one, and
the confidence in it grows as the event comes nearer. *What the user knows*: no news
is told twice, and what is not told is less than a threshold per poll.

## 2. Modules

| Module | Role |
|---|---|
| `Scheduler` | the API process: jobs, requests, life cycle, tables |
| `SchedulerProperties` | its properties, and the instance of `AgentRun` per job |
| `SchedulerInvariants` | the inductive invariants behind them |
| `MCScheduler` | instances for TLC |
| `AgentRun` | abstract specification: what one run of the agent promises its caller |
| `Forecast` | the pure engine: diff and significance |
| `AgentGraph` | the LangGraph agent, node by node, over `Forecast` |
| `AgentProperties` | its properties and its refinement mapping to `AgentRun` |
| `MCAgent` | instance for TLC |
| `Lifetime` | one profile in time: interval trigger, forecast window, horizon, restarts, welcome |
| `LifetimeProperties` | its properties, and the invariants behind them |
| `MCLifetime` | instances for TLC |
| `Monitor` | abstract specification: what the monitoring of one profile promises its user over all polls |
| `Polling` | composition: poll after poll of `AgentGraph` over the snapshot store, with its properties and its refinement mapping to `Monitor` |
| `MCPolling` | instance for TLC |
| `ConversationSteps` | the steps and fields of the bot's conversation |
| `Conversation` | abstract specification: the conversation of one chat |
| `Bot` | the polling loop and the handlers of the Telegram bot |
| `BotProperties` | its properties, the refinement mapping to `Conversation` per chat, and the inductive invariant |
| `MCBot` | instances for TLC |
| `SchedulerProofs`, `SchedulerAlertProofs`, `SchedulerAuditProofs`, `SchedulerContractProofs`, `AgentProofs`, `PollingProofs`, `LifetimeProofs`, `BotProofs` | theorems |

`AgentRun` is the seam. `AgentGraph` implements it (`GraphImplementsRun`), and
every job of `Scheduler`, which abstracts the graph to its slow awaits, follows it
(`RunsFollowContract`). So the scheduler's view of the agent is not an
assumption made up for the model: the detailed graph and the abstract job meet in
one specification.

`Polling` goes the other way and puts the whole graph, with its values, between two
accesses of the store: what a user knows after many polls depends on the values, and
on nothing that interleaves with them. It implements `Monitor` (`PollingMeetsMonitor`),
which knows neither nodes nor retries: a forecast that crosses a threshold is told once or
given up for good, no other one is told, and a message that left no snapshot is the only one
whose news can come again. `Lifetime` replaces the scheduler's "the event
has passed" by a clock, and keeps runs and restarts coarse.

### Scheduler

An action is one database transaction, one call into APScheduler, or one
awaited call. `pc[p]` is where the coroutine of profile `p` is:

    started -> fetching -> alerting -> acking -> storing -> writing -> idle
       |          (LoadBaseline reads the baseline, jobs.py:172)
       +-> removing -> clearing -> idle          when the event has passed
    raising -> raised                            an exception of the store

| Code | Actions |
|---|---|
| APScheduler's interval trigger, `max_instances=1` | `Fire` |
| `_job_for_profile`, expired branch (161-168), `_remove_job` | `FindOwnJob`, `RemoveOwnJob` (may meet `JobLookupError`), `ClearOwnSnapshots` |
| `_snapshot_store.get` (172) | `LoadBaseline` |
| `run_agent` (180) | `FetchForecast`, `FetchFails`, `Deliver`, `Acknowledge`, `NotifyFails` |
| `_snapshot_store.set` (193), outcome (195-222), `finally` (224-240) | `StoreSnapshot`, `WritePoll` |
| `create_profile`, `register_profile`, commit in `get_session` | `PostSave`, `PostRegister`, `PostCommit` |
| `delete_profile`, `deregister_profile`, commit | `DeleteFind`, `DeleteRemoveJob`, `DeleteClear`, `DeleteCommit`, on each of `Deleters` threads |
| `_patch_telegram_chat_id` of the bot | `PatchChat` |
| `lifespan` | `Startup`, `StartupAborts`, `Shutdown`; `Crash` from outside |
| time and storage | `EventPasses`, `CorruptRow` |

Details a reader may look for:

- `fetched_at` is taken before the request and runs of one profile never
  overlap, so snapshots are numbered in the order of the fetches.
- A job that APScheduler removes while its coroutine runs does not stop the
  coroutine. A second job of the same profile cannot exist: ids are UUIDs and no
  endpoint registers an existing profile again, except start-up.
- `Shutdown` writes a default `PollRun` for each coroutine that is at an await:
  APScheduler's asyncio executor cancels it, `CancelledError` is not an
  `Exception`, and the `finally` block runs.
- `PollRun.snap` is not a column; it is the snapshot of the row's run, for the
  properties to refer to.
- `torn` is history: the profiles that a failed request of this process has left with
  the scheduler changed and the row not (a failed commit, or a failed clearing of
  snapshots). A DELETE that succeeds mends it, and so does a restart, which rebuilds
  the jobs from the rows.
- There is no table of alerts: nothing under `skygent/` calls `save_alert`.

### Agent

`node` is the LangGraph node that runs, `attempt` the attempt of its retry loop,
and the other variables are the fields of `AgentState`. LangGraph merges what a
node returns into the state, so what a node does not mention stays: each action
says which fields it returns. A run ends with `END`; `Return` is the caller
receiving the final state. Delivery is two steps, because Telegram can
accept a message and the answer can be lost (`acking`).

The early returns of nodes for a missing snapshot or alert are not enabled
actions: `NodesHaveInputs` checks that no run gets there. `build_alert` runs
outside the `try` of its node and cannot raise, since a snapshot's
`horizon_days` is validated to be at least 0. The notification channel is always
`telegram`, as no endpoint sets another one.

`TriggerLabels` is the list of triggers in the message (`format_alert_message`), which is
not taken from what the evaluator returned.

`Forecast` keeps native-unit values as integers. What a property needs of a
float is comparison with a threshold; rounding of sums is not modelled.

### Polling

`Poll` starts the graph with the newest stored snapshot, `Inside` is a step of the
graph, `Finish` is what the job does with the final state (`jobs.py:190-193`: a
snapshot that was fetched is stored whatever came of the run), and `RunLost` is a run that
ends with its process, or whose snapshot cannot be stored: nothing is left of it but the
message it may have sent. `told` is what the user knows: the forecast of the last
accepted message, or the first one. A variable that a later snapshot does not report
is `Missing` in `told` from then on (`Masked`), since the next comparison skips it.
`quiet` counts the polls since, `astray` says that the chain was broken by a message
that was lost, or that was sent in a run that left no snapshot.

Under the mapping to `Monitor` the mail in flight is the current snapshot of a run whose
message was accepted. `Deliver` of the graph is `Send`; a `Finish` is `First`, `Silent`,
`Record` or `GiveUp`, and `RunLost` is `Forget` when a message had gone out and stutters
otherwise.

### Lifetime

Time is in hours of UTC, dates are numbered from the hour 0. `event` is an instant and
`offset` what its representation carries: the target date is the date on the *event's*
clock (`openmeteo.py:261`), and so is the column that start-up filters by, since SQLite's
`DateTime` keeps the wall clock only.

| Code | Actions |
|---|---|
| `create_profile`, `register_profile` (first run immediate) | `CreateProfile` |
| interval trigger, `_job_for_profile` | `BeginRun`, `ExpireJob`, `Due` |
| `fetch_forecast`, `_build_params`, each with a reading of the clock | `ReadClock`, `BuildParams` |
| `_extract_target_row`, `_compute_horizon_days`, store | `Store`, or `NoRow` when the target is outside of the request |
| any other end of a run; a further attempt | `RunFails`, `Retry` |
| `handle_confirm` after the registration | `Explain`, `WelcomeForecast` |
| `lifespan`, `list_profiles`; stop or crash | `Startup`, `Listed`; `GoDown` |
| the clock | `Tick`: not past a due job that can start, nor past the end of a run |

Open-Meteo is taken to answer with all dates of the request, as the client relies on.
`trouble` is history: a request failed or the process was down since the last snapshot.

### Bot

`updates` is everything Telegram has been sent, and its index is the `update_id`;
`acked` is what Telegram may forget. `pc` is what the loop's one thread is at:

    polling -> routing -> (handling ->) polling, or the next update of the batch
                             |
                             +-> posting -> patching -> clearing -> polling

| Code | Actions |
|---|---|
| `get_updates`, batch and offset of `run_bot` | `GetUpdates`, `GetUpdatesFails`; `Finish` ends each dispatch |
| `dispatch` | `CancelCommand`, `StartCommand`, `NoMessage`, `NoHandler` (hints and `/forecast`), `Route` |
| `_load_state`, `_save_state`, `_clear_state` | `Load`, `Save`, `Clear`: parts of the actions that call them |
| `handle_idle` ... `handle_ask_duration` | `HandleIdle` ... `HandleAskDuration` |
| `handle_confirm`, up to the answer of the `POST` | `ConfirmNo`, `ConfirmOther`, `PostRaises`, `PostRefused`, `PostCreates`, `PostUnanswered` |
| `_patch_telegram_chat_id`, `_clear_state` | `PatchChat`, `PatchGivesUp`, `ClearRegistered` |
| the `except` around `dispatch` | `Raise`, at any `pc` of a dispatch |
| outside | `Crash` (with the restart), `UserSends`, `RowExpires` |

- The bot is the only writer of a conversation's row, so a handler's load and save
  are one step. `dispatch` loads the row in a step of its own: the row can expire
  before the handler loads it again.
- A message that is the last thing a handler does changes nothing if it fails and
  is left out. A message whose failure cuts a handler short (the welcome of
  `handle_idle` before the save, "registering" before the `POST`) is a `Raise`.
- What the user types is a kind of input (`text`, `location`, `sticker`, ...); that a
  text is no date or no time is the handler's choice to refuse it. A field is
  `missing`, `given`, or `foreign`, when a button of another question wrote it.
- Chats start with any row that an earlier process may have left, one with a step that
  this version does not know included, and with all keyboards still on the screen.
- `talk`, `talks`, `done`, `forgotten`, `unpatched` and `restarts` are history, for
  the properties to refer to.

## 3. Runs

| Run | Question | Bounds |
|---|---|---|
| `scheduler` | all safety properties of the process, and the contract of its runs | 1 profile, 2 DELETE threads, 3 fetches, 2 faults of any of 8 kinds |
| `progress` | do jobs and rows agree between requests, whom do alerts go to, are profiles polled for ever, do expired jobs go? | 1 profile, 2 chats, 1 thread, 2 fetches, 2 faults out of crashes, shutdowns and failing loads, saves, poll rows, clearings and commits |
| `agent` | all properties of the graph, a bound on its steps, its end, and refinement | 2 numeric variables (one with a threshold), 3 values, 4 codes of 4 ranks, gaps in each, 3 attempts |
| `bot` | all properties of the bot: its queue, its registrations, the abstract conversation, a bound on a batch, and that every update is dispatched | 1 chat at any of 10 rows, 2 updates of any of 12 kinds, 2 faults of any of 4 kinds |
| `lifetime` | all properties of the time from the registration to the event | events at hours 18, 78 and 96, offsets of -6, 0 and 6 hours, intervals of 6 and 24 hours, a window of 3 dates, confidence limits of 1 and 2 days, steps of 6 hours, runs of at most 6 |
| `polling` | what the user knows after many polls, whether anything is told twice, and refinement | 1 variable with 4 values and a threshold of 2, 3 codes of 3 ranks, gaps in each, 2 attempts, 3 silent polls in a row |
| `unlisted`, `wrong_triggers`, `unchosen_registration`, `stale_chat`, `corrupt_startup`, `blank_narrative` | a statement of the documentation that the code does not keep | the least that shows it |

Why the bounds are enough. Profiles do not share state but the process itself, so
one profile suffices.
Two threads are what it takes to meet `JobLookupError`, and more threads than two
DELETEs at the same point add nothing. Three fetches make two successive
comparisons, with a first run before or between them; two faults allow a crash in
the middle of the recovery from another fault. Chats share nothing but the queue,
and one chat fills the queue as well as two do. Two updates make a batch of two, a
redelivery and a double tap, and since they meet a chat at every step of a
conversation, every handler is met by every input twice.

`lifetime` scales the constants of the code down, not the cases: a window of 3 dates
instead of 16 and confidence limits of 1 and 2 days instead of 3 and 7 keep their order,
and leave events inside the window, at its edge and beyond it at the registration. Four
steps to the day and runs of up to 6 hours put a midnight between any two readings of the
clock, a poll or a restart before and after each midnight, and events at a midnight, in a
day, and on the day of registration. In `polling` a threshold of 2 over 4 values is
the least with a drift that crosses it in silence (1 and 1) and one that crosses it twice.

Every theorem of section 5
removes these bounds for its property.

`CHECK_DEADLOCK FALSE` is set for the `Scheduler` runs and for `polling`: the system
does stop, when every event has passed and been cleaned up, when start-up is
aborted, or when the bound on fetches or on silent polls is spent. The others check
deadlock; `lifetime` never stops, since a process can always stop and start.

Properties of `scheduler`: `BaselineIsNewest` (the baseline read before the awaits is
still the newest one after them), `NoRepeatedAlert` (a repeat needs a lost
snapshot), `SignificantMoveAccounted` and `AuditTruthful` (rows and alerts, both
directions), `AtMostOneLateAlert` and `QuietAfterDelete` (what DELETE
guarantees although it does not wait for a run), `RunsFollowContract`.

Properties of `bot`: `NoUpdateLost` and `RepeatedOnlyAfterCrash` (both sides of the
offset: not too early, not too late), `DuplicatesOnlyOfForgotten` (the reasons why one
conversation can make two profiles: a `POST` answered too late, an exception
or a crash before the row was cleared), `RoutedUnlessLost` (no profile stays
without its chat for any other reason), `RegisteredAtConfirm` (a conversation that made a
profile stays at its confirmation or ends, and one that a stale button spoiled never
makes one), `FollowsConversation` (stale
buttons, redelivered updates and expiry never skip a question or register without
what the API requires), `UpdatesDispatched` (liveness: neither an update that raises
nor a crash keeps later ones waiting), `BatchIsBounded` (each step of the loop, whatever
fails in it, is one of at most five that an update of the batch takes).

Properties of `agent`: `NodesHaveInputs`, `LlmOnlyWhenMoved` (no call of the LLM for a
forecast that did not move), `EndIsTruthful` (without an error, a message was accepted
exactly if the forecast moved; with one, there is no snapshot or the forecast had moved),
`RunIsBounded` (each step of a run, a failing one included, leaves fewer, and there are
two retry loops and the nodes once each at most), `RunEnds`, `GraphImplementsRun`.

Properties of `progress`: `DbSchedulerConsistent` (outside of requests, exactly the active
rows with an event ahead have jobs, but for profiles that are `torn`), `AlertsStayPrivate`
(an alert goes to the chat in its profile's row or to the default chat, which is what is left
of the promise that `stale_chat` refutes), and the liveness of polling and of the removal
of expired jobs.

Properties of `lifetime`: `AheadIsScheduled` (wherever restarts fall and whatever the offset;
*ahead* means that the wall clock of the event, which start-up filters by, is ahead as well:
for an offset that is not negative this adds nothing), `JobOutlivesEventBriefly`,
`FreshWhileMonitored` (a forecast less than one interval old, from the first poll in the
window as long as the event is ahead), `TargetStaysReachable` (no midnight puts the event's date
out of the request), `ConfidenceNeverDrops`, and `ExplainedOnlyBeyondWindow` (the hours the
bot counts and the dates of the request agree where the user is told that there is no
forecast yet).

Properties of `polling`: `SilentDriftBounded`, which says how far slow drift can go, and
where there is no bound (after a gap or a lost message), and `NoRepeatedNews` (an alert whose
answer was lost is an error of its run, and still moves the baseline), and
`PollingMeetsMonitor` (the composition implements `Monitor`).

### What the documentation says and the code does not do

Each of these is a run that ends in a counterexample.

1. `stale_chat`: the bot patches the chat into the row, which
   `telegram_bot.py:923` says makes alerts reach the user; the job keeps the
   object it was registered with, until a restart.
2. `corrupt_startup`: `main.py:32` says a bad row does not abort start-up;
   `list_profiles` parses all rows before the loop that isolates errors.
3. `unlisted`: `main.py:141` says start-up re-registers all active profiles;
   `list_profiles` compares the UTC clock with a column that has lost the offset, so a
   restart in the last hours before an event that was posted with a western offset
   leaves it without a job. The bot and the dashboard send UTC; the API takes any offset.
4. `wrong_triggers`: `telegram.py:113` says that an alert about the weather code alone has
   no changes, and `routes.py:166` that the list has the variables that crossed their
   threshold; the diff has all variables that were compared.
5. `blank_narrative`: `docs/architecture.md:193` says an LLM failure never
   suppresses an alert; a blank answer does.
6. `unchosen_registration`: `telegram_bot.py:958` says the profile is registered or
   cancelled "based on user choice"; `handle_confirm` registers for every button but No,
   so a second tap on a duration, which is the next update, confirms. An update
   that a crash has delivered again does the same.

Smaller differences, seen while reading and not worth a run. Of persistence and jobs:
`routes.py:38` says `jobs.py` calls `save_alert`, and nothing does; `routes.py:231` says
database and scheduler are always consistent, and a commit that fails after the
registration leaves a job without a row (`DbSchedulerConsistent` is about the profiles that
are not `torn`); `routes.py:273` says re-registration starts a fresh
baseline, and a run in flight during the DELETE saves a live snapshot after it;
`docs/architecture.md:135` says jobs are persisted to a job store in SQLite, and
they are in memory, rebuilt at start-up; `changes_detected` is 0 after a first run
(`jobs.py:218`) where `database.py:204` says None; the expired branch writes no
`PollRun` (`jobs.py:161-168` is before the `try`) where `database.py:201` says every
run does; "jobs never raise" (`jobs.py:26`) does not cover exceptions of the store;
the scheduler does not look at `error` to decide about a retry, as a note in
`nodes.py` has it; `handle_ask_context` stores whatever button was pressed
(`telegram_bot.py:854`), also one of another question, where `telegram_bot.py:36-39`
says buttons eliminate "an entire class of parsing errors": the API then refuses the
profile whenever the user confirms; `bot.py:19-22` says the offset prevents
re-processing, which holds for one life of the process; `docs/design.md:37` says the
LLM is called exactly once, and the retry policy allows three calls; `handle_ask_time`
stores a time that has passed, and the API refuses the profile later. Of time: what is
at most 16 days ahead can be the first date outside of the window, so the "doomed fetch" that
`telegram_bot.py:1010` wants to avoid is still made; `openmeteo.py:261` takes the date on the
event's own clock and looks for it among UTC days, where `openmeteo.py:52-53` describes the
UTC date; `models.py:267` allows for an event without time zone, and `routes.py:203`
raises on one. Of the dashboard: `page_poll_history` (`../ui/app.py`) reads attributes of the
dictionaries that `get_recent_poll_runs` returns.

## 4. Fairness

`Scheduler!FairSpec`: weak fairness of `Fire(p)` (an interval trigger fires again
once the previous run ended), of the steps of a run (every await has a timeout and
retries are bounded), of the rest of a request once it has begun, and of `Startup`
(the process is restarted after it went down: `docs/architecture.md:168` is about
what has to survive "across restarts"). No fairness for users (`PostSave`,
`DeleteFind`), the bot, time, or faults. A fetch may fail for ever:
`PollingContinues` does not need it to succeed.

`AgentGraph!FairSpec`: weak fairness of the steps of a run, not of starting one.

`Bot!FairSpec`: weak fairness of `Loop`, the loop's own steps without the failures
of its calls. `run_bot` loops for ever, every exception is caught, every call has a
timeout, and a process that ended is started again. Faults are bounded by
`MaxFaults`, users send what they like.

`Lifetime` and `Polling` have safety properties only and assume no fairness. That a job
starts when it is due and a run ends in time is in `Tick`: the clock does not pass them.

## 5. Proofs

All theorems are about the specification without fairness, for any sets of profiles,
chats, threads, forecasts and faults and any bounds, under `SchedulerAssumption`,
`ForecastAssumption`, `AgentAssumption`, `PollingAssumption`, `LifetimeAssumption` and
`BotAssumption` (typing of constants;
`None`, `NoJob` and the like differ from values; thresholds are positive). TLC
evaluates these assumptions in the runs.

| Theorem | Property |
|---|---|
| `TypeCorrect` | `TypeOK` of the scheduler |
| `SchedulerAgrees` | `DbSchedulerConsistent`, under all faults |
| `AlertsArePrivate` | `AlertsStayPrivate` |
| `DeletedStaysQuiet` | `QuietAfterDelete` |
| `AlertsUseNewestBaseline` | `BaselineIsNewest` |
| `NoAlertRepeated` | `NoRepeatedAlert` |
| `OneLateAlert` | `AtMostOneLateAlert` |
| `AuditTrailTruthful` | `AuditTruthful` |
| `MovesAccounted` | `SignificantMoveAccounted` |
| `JobsFollowContract` | `RunsFollowContract`: every job's run implements `AgentRun` |
| `SignificanceSymmetric` | significance does not depend on the direction of a move |
| `AgentTypeCorrect`, `NodesFindTheirInputs`, `LlmOnlyForMoves`, `RunsEndTruthfully` | the safety properties of the agent |
| `RunsAreBounded` | `RunIsBounded`: the graph ends within `2 * MaxAttempts + 5` steps |
| `GraphMeetsContract` | `GraphImplementsRun`: the graph implements `AgentRun` |
| `BotTypeCorrect`, `UpdatesNotLost`, `RepeatsNeedCrash`, `DuplicatesExplained`, `UnroutedExplained`, `RegisteredStaysAtConfirm` | the safety properties of the bot |
| `LifetimeTyped`, `JobEndsBriefly`, `ConfidenceGrows`, `ExplanationIsTrue` | `TypeOK`, `JobOutlivesEventBriefly`, `ConfidenceNeverDrops`, `ExplainedOnlyBeyondWindow` |
| `AheadStaysScheduled`, `TargetReachable`, `MonitoredIsFresh` | `AheadIsScheduled`, `TargetStaysReachable`, `FreshWhileMonitored`, for all offsets |
| `ActiveStaysScheduled` | `ActiveIsScheduled`, what `main.py:141` says, for every event whose offset is not negative |
| `PollingTyped`, `DriftIsBounded`, `NewsIsNotRepeated` | `PollTypeOK`, `SilentDriftBounded`, `NoRepeatedNews` |
| `PollsMonitor` | `PollingMeetsMonitor`: polls over the store implement `Monitor` |
| `BatchesEnd` | `BatchIsBounded`: the dispatch of a batch comes to its end |
| `BotFollowsConversation` | `FollowsConversation`: each chat's conversation implements `Conversation` |

The argument for the scheduler is a chain of invariants, each inductive given the
ones before it (`SchedulerInvariants`):

1. `TypeInv`, with `RunTyped`: a run that alerts holds two snapshots.
2. `RequestInv`: while a DELETE is past the removal of the job there is no job, and a
   deleted profile has none. It gives `QuietAfterDelete`.
3. `AgreementInv`: jobs and active rows agree but for the requests that are between a job
   and their commit. It needs `RequestInv`, and that a run removes the job of a past
   event only. No fault is excluded: a profile is `torn` from the failed commit or
   clearing on, and the two ways out of it, a later DELETE and a restart, are the only
   steps that need an argument.
4. `ChatInv`: job, run and alert hold the chat of the row, or none. It is inductive given
   `TypeInv` alone, since a row is patched once: the bot patches the profile that its own
   `POST` has just made, and ids are fresh (`TalkInv` below).
5. `RunInv`: `LocalsInv` (what a run's variables hold at each `pc`), `OrderInv`
   (an unsaved snapshot is newer than all stored ones), `BaselineInv` (the
   baseline is the newest live snapshot, or all have been retired). The last part is
   what survives a DELETE in the middle of a run, and it needs `OrderInv`: the
   only snapshot saved meanwhile would be the run's own.
6. `AlertInv`: `FloorInv` (an alerted, stored snapshot bounds later baselines from
   below), `LateInv` (after a late alert no run of the profile can alert),
   `PairInv` (the two properties about pairs of alerts).
7. `AuditInv`: `VerdictInv`, `SuccessorInv` (a saved snapshot follows its baseline)
   and `PollInv` (no row tells of a run in flight).

For the agent, `AgentInv` says what each node finds in the state (`NodeInv`); the
lemma `SignificantIsMoved` shows that `is_significant`, with its sets of deltas and
triggers, is the predicate `Moved` that a user would write down.

Termination is proved as far as it can be without fairness: by measures. `StepsLeft` counts
the nodes up to the end of the graph and the attempts that its two retry loops still
allow, and every step of a run takes one away at least (`RunsAreBounded`). `LeftOfBatch` counts
five steps for every update behind the one in hand and what that one still takes; it is 0
exactly between two batches, and every step of the loop lowers it (`BatchesEnd`).
That the steps are taken is fairness, and left to TLC.

For the polls, `PollInv` adds two parts to `AgentInv`: `RunInv` (a run's baseline is what is
stored, and a message was sent only about a move) and `HistoryInv` (what is left of
`told` was reported by every snapshot since). The step that counts is that of a silent
`Finish`: `EndIsTruthful` gives that the move was not significant, and the triangle
inequality adds one threshold less one to the bound. The refinement of `Monitor` goes
through the same three cases of a `Finish`: `EndIsTruthful` says that a run without an
error sent exactly if the forecast moved, and that one which failed after its fetch had a
move to tell, which is `GiveUp`. Of the steps inside a run only the acceptance of a message
changes what `Monitor` sees (`InsideSends`).

For the time, `LifetimeInv` has `ClocksInOrder` (the readings of a run are in order, and
`today` is of a date between `fetched_at` and now), `SnapInv` (a stored snapshot was
taken when the window had reached the target date, so every later window reaches it
too) and `JobInv` (the next run is at most one interval away). `FreshInv` says that the
run which began one interval before the next one has left its snapshot. It needs that the
target date is not before today, which holds as long as the event is ahead on its own wall
clock too (`TargetAhead`): this is the condition `Ahead`, and start-up needs the same one.
`HorizonIsDistance` turns the hours and days
of `_compute_horizon_days` into one distance, from which it follows that it shrinks as time passes.

For the bot, `BotInv` has four parts besides the types. `QueueInv` relates offset, batch and
confirmation to what has been dispatched, exactly so as long as there was no crash.
`HandlerInv` says that what a handler holds is what its chat's row says, or that the row
is gone: between `dispatch` and the end of a registration nobody else moves the
conversation on, although it may expire. `TalkInv` makes ids and conversations fresh
and says that a conversation that still goes on has no registration the bot
remembers but the one in hand, which is what keeps a second one from being made.
`RouteInv` says that a registration is past the patch only if it was patched or given
up. The refinement needs `HandlerInv` (the step a handler acts on is the
step of the row) and the freshness of ids (a registration adds one profile).
`RegisteredAtConfirm` is inductive given `BotInv`: answers are saved before the
confirmation only, and a conversation begun anew is a new one.

Model-checked only: liveness (`PollingContinues`, `ExpiredJobRemoved`, `RunEnds`,
`UpdatesDispatched`), which the proof system does not reach under fairness.

## 6. Not modelled

- The answers to `/forecast`: they read, and change nothing but the screen. The callback
  data `cancel`, which no keyboard sends.
- Parsing of numbers in Open-Meteo answers, the wording of messages but for their list of
  triggers, prompts, languages, logging, and the read-only endpoints: no property
  is about them.
- Daylight saving: an event carries a fixed offset, as its ISO form does.
- Validation of fields: it precedes every state change and rejects the request.
- SQLite's locking: a transaction is one step, and a lock that is not obtained in time is
  the fault of that transaction.
- Launcher and dashboard: no state of their own.

## 7. Possible extensions

The plan this directory followed is done: `Scheduler`, then `AgentRun`, `Forecast` and
`AgentGraph`, then `Conversation` and `Bot`, then `Polling` and `Lifetime`. What could be
added:

1. The composition of bot, API and jobs from a tap on the button to an alert in that
   chat. The seams are in place (`PatchChat` of `Scheduler` is the bot's, `Create` of
   `Bot` is the API's, `AgentRun` is the graph's); `stale_chat` is what such a
   composition is known to violate.
2. Daylight saving and local dates, once the program asks for hourly forecasts.
