------------------------------- MODULE Lifetime -------------------------------
(***************************************************************************)
(* One profile in time, from its POST to its event: the interval trigger   *)
(* of scheduler/jobs.py, the forecast window, target row and horizon of    *)
(* integrations/openmeteo.py, the restarts of api/main.py with the time    *)
(* filter of api/database.py, and what the bot tells the user after the    *)
(* registration (telegram_bot.py).                                         *)
(*                                                                         *)
(* Time is UTC, in hours.  Module Scheduler has the interleavings of runs, *)
(* requests and transactions with time as "the event has passed"; here     *)
(* they are coarse and time is a clock, read more than once by a run.      *)
(***************************************************************************)
EXTENDS Integers

CONSTANTS
    Events,          \* instants at which the event may be
    Offsets,         \* UTC offsets event_datetime may carry
    Intervals,       \* check_interval_hours
    FORECAST_DAYS,   \* of openmeteo.py, and 16 in handle_confirm
    HighDays,        \* CONFIDENCE_THRESHOLDS
    MediumDays,
    Steps,           \* how far the clock may move in one step
    MaxRun,          \* how long a run may take
    MaxTime,         \* bound: the last instant
    NoTime, NoSnap

ASSUME LifetimeAssumption ==
    /\ Events \subseteq Nat
    /\ Offsets \subseteq Int
    /\ Intervals \subseteq 1..24
    /\ FORECAST_DAYS \in Nat \ {0}
    /\ HighDays \in Nat /\ MediumDays \in Nat /\ HighDays <= MediumDays
    /\ Steps \subseteq Nat \ {0}
    /\ MaxRun \in Nat /\ MaxTime \in Nat
    /\ NoTime \notin Int
    /\ NoSnap \notin [at : Nat, horizon : Nat]

VARIABLES
    now,
    \* The profile.
    event,      \* event_datetime, as an instant
    offset,     \* its UTC offset
    interval,   \* check_interval_hours
    posted,     \* when the POST registered it (monitoring_start), or NoTime
    \* The API process.
    up,
    nextRun,    \* next_run_time of the job, or NoTime when there is no job
    \* The run in flight.
    pc,         \* "idle", "fetching", "dated" or "requested"
    begun,      \* when the run began
    fetchedAt,  \* fetched_at of fetch_forecast
    today,      \* today of _build_params
    \* The database and the chat.
    snap,       \* the newest live snapshot, or NoSnap
    welcome,    \* what the bot told the user after the registration
    \* History.
    trouble     \* a request failed or the process went down after snap

profile == <<event, offset, interval>>
run     == <<pc, begun, fetchedAt, today>>
vars    == <<now, profile, posted, up, nextRun, run, snap, welcome, trouble>>

-----------------------------------------------------------------------------
\* Dates are numbered from that of instant 0.
Date(t)  == t \div 24
Later(a, b) == IF a >= b THEN a ELSE b

\* event_datetime.date(): the date on the clock of the event's time zone.
Target == Date(event + offset)

\* ProfileRow.event_datetime: SQLite keeps the wall clock and drops the offset.
Column == event + offset

IsActive == now < event

\* max_date of a request made on a given day.
LastDate(day) == day + FORECAST_DAYS - 1

\* Open-Meteo answers with the dates from today to end_date (or with an error,
\* when that is before today); the target's row is looked up in them.
RowFound(day) == day <= Target /\ Target <= LastDate(day)

\* Mutation of Horizon: the part of the day that has gone is added.
HorizonAddsFraction(t) == Later(0, 24 * (Target - Date(t)) + (t % 24))

\* Mutation of Horizon: it is not kept from going below zero.
HorizonUnclamped(t) == 24 * (Target - Date(t)) - (t % 24)

\* _compute_horizon_days, in hours: to the start of the target date.
Horizon(t) == Later(0, 24 * (Target - Date(t)) - (t % 24))

\* horizon_to_confidence, as a rank: low, medium, high.
Confidence(horizon) ==
    IF horizon <= 24 * HighDays THEN 2 ELSE IF horizon <= 24 * MediumDays THEN 1 ELSE 0

-----------------------------------------------------------------------------
Init ==
    /\ now = 0
    /\ event \in Events
    /\ offset \in Offsets
    /\ interval \in Intervals
    /\ posted = NoTime
    /\ up = TRUE
    /\ nextRun = NoTime
    /\ pc = "idle"
    /\ begun = 0
    /\ fetchedAt = 0
    /\ today = 0
    /\ snap = NoSnap
    /\ welcome = "none"
    /\ trouble = FALSE

\* Mutation of CreateProfile: no next_run_time, so that the job first runs when
\* the interval has passed.
CreateProfileWaits ==
    /\ up
    /\ posted = NoTime
    /\ IsActive
    /\ posted' = now
    /\ nextRun' = now + interval
    /\ welcome' \in IF offset = 0 THEN {"none", "pending"} ELSE {"none"}
    /\ UNCHANGED <<now, profile, up, run, snap, trouble>>

\* POST /profiles, for a future event; the job's first run is immediate.  The
\* bot (which always sends UTC) goes on to tell the user what is known.
CreateProfile ==
    /\ up
    /\ posted = NoTime
    /\ IsActive
    /\ posted' = now
    /\ nextRun' = now
    /\ welcome' \in IF offset = 0 THEN {"none", "pending"} ELSE {"none"}
    /\ UNCHANGED <<now, profile, up, run, snap, trouble>>

\* Mutation of Explain: the last day of the window is taken to be outside.
ExplainTooSoon ==
    /\ welcome = "pending"
    /\ event - now > 24 * (FORECAST_DAYS - 2)
    /\ welcome' = "explained"
    /\ UNCHANGED <<now, profile, posted, up, nextRun, run, snap, trouble>>

\* handle_confirm: the event is too far away, and the user is told so.
Explain ==
    /\ welcome = "pending"
    /\ event - now > 24 * FORECAST_DAYS
    /\ welcome' = "explained"
    /\ UNCHANGED <<now, profile, posted, up, nextRun, run, snap, trouble>>

\* Otherwise the bot fetches a forecast for the user, or says that it could not.
\* It stores nothing.
WelcomeForecast ==
    /\ welcome = "pending"
    /\ event - now <= 24 * FORECAST_DAYS
    /\ \/ RowFound(Date(now)) /\ welcome' = "forecast"
       \/ welcome' = "fallback"
    /\ UNCHANGED <<now, profile, posted, up, nextRun, run, snap, trouble>>

-----------------------------------------------------------------------------
\* The job.

Due == up /\ nextRun # NoTime /\ nextRun <= now

BeginRun ==
    /\ Due
    /\ pc = "idle"
    /\ IsActive
    /\ nextRun' = nextRun + interval
    /\ pc' = "fetching"
    /\ begun' = now
    /\ UNCHANGED <<now, profile, posted, up, fetchedAt, today, snap, welcome, trouble>>

\* Mutation of ExpireJob: the job goes on.
ExpireJobKeeps ==
    /\ Due
    /\ pc = "idle"
    /\ ~IsActive
    /\ nextRun' = nextRun + interval
    /\ snap' = NoSnap
    /\ UNCHANGED <<now, profile, posted, up, run, welcome, trouble>>

\* The event has passed: the job removes itself and its snapshots.
ExpireJob ==
    /\ Due
    /\ pc = "idle"
    /\ ~IsActive
    /\ nextRun' = NoTime
    /\ snap' = NoSnap
    /\ UNCHANGED <<now, profile, posted, up, run, welcome, trouble>>

\* fetch_forecast reads the clock for fetched_at ...
ReadClock ==
    /\ pc = "fetching"
    /\ fetchedAt' = now
    /\ pc' = "dated"
    /\ UNCHANGED <<now, profile, posted, up, nextRun, begun, today, snap, welcome, trouble>>

\* Mutation of BuildParams: the request starts with tomorrow.
BuildParamsTomorrow ==
    /\ pc = "dated"
    /\ today' = Date(now) + 1
    /\ pc' = "requested"
    /\ UNCHANGED <<now, profile, posted, up, nextRun, begun, fetchedAt, snap, welcome, trouble>>

\* ... and _build_params reads it again for the first date of the request.
BuildParams ==
    /\ pc = "dated"
    /\ today' = Date(now)
    /\ pc' = "requested"
    /\ UNCHANGED <<now, profile, posted, up, nextRun, begun, fetchedAt, snap, welcome, trouble>>

\* The run's variables are gone with it.
RunEnds == pc' = "idle" /\ begun' = 0 /\ fetchedAt' = 0 /\ today' = 0

\* The row is there: the run goes on to its end and the snapshot is stored.
Store ==
    /\ pc = "requested"
    /\ RowFound(today)
    /\ snap' = [at |-> fetchedAt, horizon |-> Horizon(fetchedAt)]
    /\ trouble' = FALSE
    /\ RunEnds
    /\ UNCHANGED <<now, profile, posted, up, nextRun, welcome>>

\* It is not: OpenMeteoError, and a PollRun with an error.
NoRow ==
    /\ pc = "requested"
    /\ ~RowFound(today)
    /\ RunEnds
    /\ UNCHANGED <<now, profile, posted, up, nextRun, snap, welcome, trouble>>

\* Any other failure that ends the run without a snapshot.
RunFails ==
    /\ pc # "idle"
    /\ trouble' = TRUE
    /\ RunEnds
    /\ UNCHANGED <<now, profile, posted, up, nextRun, snap, welcome>>

\* A failed attempt is tried again, and reads the clock again.  The attempts
\* are counted in module AgentGraph.
Retry ==
    /\ pc = "requested"
    /\ pc' = "fetching"
    /\ UNCHANGED <<now, profile, posted, up, nextRun, begun, fetchedAt, today, snap, welcome, trouble>>

-----------------------------------------------------------------------------
\* The process and the clock.

\* The process stops or crashes: the job and the run are gone.
GoDown ==
    /\ up
    /\ up' = FALSE
    /\ nextRun' = NoTime
    /\ trouble' = TRUE
    /\ RunEnds
    /\ UNCHANGED <<now, profile, posted, snap, welcome>>

\* Mutation of Listed: whole days are compared.
ListedByDate == posted # NoTime /\ Date(Column) > Date(now)

\* The time filter of list_profiles, on the column.
Listed == posted # NoTime /\ Column > now

\* lifespan registers a listed profile that is active; its job runs at once.
Startup ==
    /\ ~up
    /\ up' = TRUE
    /\ nextRun' = IF Listed /\ IsActive THEN now ELSE NoTime
    /\ UNCHANGED <<now, profile, posted, run, snap, welcome, trouble>>

\* Time passes.  APScheduler starts a job when it is due, and a run is over
\* within MaxRun.
Tick ==
    \E d \in Steps :
        /\ now + d <= MaxTime
        /\ up /\ nextRun # NoTime => now + d <= nextRun
        /\ pc # "idle" => now + d <= begun + MaxRun
        /\ now' = now + d
        /\ UNCHANGED <<profile, posted, up, nextRun, run, snap, welcome, trouble>>

Run  == BeginRun \/ ReadClock \/ BuildParams \/ Store \/ NoRow \/ RunFails \/ Retry
Chat == Explain \/ WelcomeForecast

Next == CreateProfile \/ Chat \/ Run \/ ExpireJob \/ GoDown \/ Startup \/ Tick

Spec == Init /\ [][Next]_vars
=============================================================================
