-------------------------- MODULE LifetimeProperties --------------------------
(***************************************************************************)
(* What a user who registered an event may expect of the time until then,  *)
(* at whatever hours the registration, the event, the polls, midnight and  *)
(* the restarts fall; and the invariant behind it.                         *)
(***************************************************************************)
EXTENDS Lifetime

Snapshot == [at : Nat, horizon : Nat]

\* Every variable stays in its range.
TypeOK ==
    /\ now \in Nat
    /\ event \in Nat /\ offset \in Offsets /\ interval \in Intervals
    /\ posted \in Nat \union {NoTime}
    /\ up \in BOOLEAN
    /\ nextRun \in Nat \union {NoTime}
    /\ pc \in {"idle", "fetching", "dated", "requested"}
    /\ begun \in Nat /\ fetchedAt \in Nat /\ today \in Nat
    /\ snap \in Snapshot \union {NoSnap}
    /\ welcome \in {"none", "pending", "explained", "forecast", "fallback"}
    /\ trouble \in BOOLEAN

Registered == posted # NoTime

-----------------------------------------------------------------------------
\* The event is ahead, and so is the wall clock in the column that start-up
\* filters by.  For an offset that is not negative (the bot and the dashboard
\* send no other) this is IsActive; for one west of UTC it ends before the event.
Ahead == IsActive /\ Column > now

\* While the process is up, a registered profile has a job as long as its event
\* is ahead, wherever the restarts fall and whatever offset the event carries.
AheadIsScheduled == (up /\ Registered /\ Ahead) => nextRun # NoTime

\* The same up to the event itself, which is what main.py:141 says of start-up:
\* it is to "re-register all active profiles from DB".  The column and the event
\* have to agree on which profiles these are.
ActiveIsScheduled == (up /\ Registered /\ IsActive) => nextRun # NoTime

\* A job is gone less than one interval after its event (jobs.py:152: "remove
\* expired profiles rather than running forever").
JobOutlivesEventBriefly == nextRun # NoTime => nextRun < event + interval

\* The first instant at which a request reaches the target date.
WindowOpens == 24 * (Target - (FORECAST_DAYS - 1))

\* A poll has been due since the window opened, or since the registration.
PollWasDue == posted >= WindowOpens \/ now >= WindowOpens + interval - 1

\* Between two runs of a monitored profile, unless a request failed or the
\* process was down since, there is a forecast less than one interval old, as
\* soon as Open-Meteo can have one, and as long as the event is ahead.
FreshWhileMonitored ==
    (up /\ Registered /\ Ahead /\ pc = "idle" /\ ~Due /\ ~trouble /\ PollWasDue)
        => snap # NoSnap /\ now - snap.at < interval

\* Once there has been a forecast, later requests reach the event's date, as
\* long as the event is ahead: the window does not move away from it, and no
\* midnight between two readings of the clock puts it behind.
TargetStaysReachable ==
    (pc = "requested" /\ snap # NoSnap /\ Ahead) => RowFound(today)

\* Successive forecasts of one event are never labelled with less confidence.
ConfidenceNeverDrops ==
    [][(snap # NoSnap /\ snap' # NoSnap)
            => Confidence(snap'.horizon) >= Confidence(snap.horizon)]_vars

\* The bot tells a user that there is no forecast yet only if there is none:
\* the distance to the event in hours, which the bot looks at, and the dates of
\* the request agree in this direction.
ExplainedOnlyBeyondWindow ==
    [][welcome' = "explained" => (welcome = "explained" \/ ~RowFound(Date(now)))]_vars

-----------------------------------------------------------------------------
\* Why these hold.

\* The readings of the clock are in order, and what is stored came from them.
ClocksInOrder ==
    /\ pc # "idle" => Registered /\ begun <= now
    /\ pc \in {"dated", "requested"} => begun <= fetchedAt /\ fetchedAt <= now
    /\ pc = "requested" => Date(fetchedAt) <= today /\ today <= Date(now)
    /\ Registered => posted <= now /\ posted < event
    /\ welcome = "pending" => offset = 0

\* A snapshot was taken when the window had reached the target date.
SnapInv ==
    snap # NoSnap =>
        /\ Registered
        /\ snap.at <= now /\ snap.horizon = Horizon(snap.at)
        /\ Target <= LastDate(Date(now))
        /\ pc \in {"dated", "requested"} => snap.at <= fetchedAt
        /\ pc = "requested" => Target <= LastDate(today)

\* The job's next run is at most one interval away, and its last one at least
\* one interval after the registration unless it has not run yet.
JobInv ==
    /\ nextRun # NoTime =>
          /\ up /\ Registered
          /\ now <= nextRun /\ nextRun < event + interval
          /\ now < nextRun => posted <= nextRun - interval
    /\ up \/ (nextRun = NoTime /\ pc = "idle")
    /\ pc # "idle" => nextRun # NoTime /\ nextRun = begun + interval

\* The run that began at nextRun - interval has left a snapshot of that time.
FreshInv ==
    (/\ pc = "idle" /\ nextRun # NoTime /\ now < nextRun /\ ~trouble /\ Ahead
     /\ nextRun - interval >= WindowOpens)
        => snap # NoSnap /\ snap.at >= nextRun - interval

LifetimeInv == TypeOK /\ ClocksInOrder /\ SnapInv /\ JobInv
=============================================================================
