---------------------------- MODULE LifetimeProofs ----------------------------
(***************************************************************************)
(* The properties of LifetimeProperties, for every event, interval, length *)
(* of the forecast window, speed of the clock and offset of the event.     *)
(***************************************************************************)
EXTENDS LifetimeProperties, TLAPS

-----------------------------------------------------------------------------
\* Dates and distances.

\* A date is the day that an instant falls on.
LEMMA DateFloor ==
    ASSUME NEW t \in Int
    PROVE  /\ Date(t) \in Int
           /\ 24 * Date(t) <= t /\ t < 24 * Date(t) + 24
           /\ t % 24 = t - 24 * Date(t)
  BY DEF Date

\* Dates follow instants.
LEMMA DateMonotone ==
    ASSUME NEW s \in Int, NEW t \in Int, s <= t
    PROVE  Date(s) <= Date(t)
<1>1. Date(s) \in Int /\ 24 * Date(s) <= s
  BY DateFloor
<1>2. Date(t) \in Int /\ t < 24 * Date(t) + 24
  BY DateFloor
<1> QED
  BY <1>1, <1>2

\* The date does not go back.
LEMMA DatePasses ==
    ASSUME now \in Nat, now' \in Nat, now <= now'
    PROVE  Date(now) <= Date(now)' /\ Date(now) \in Int /\ Date(now)' \in Int
<1>1. \A s, t \in Nat : s <= t => s \div 24 <= t \div 24
  OBVIOUS
<1>2. \A s \in Nat : s \div 24 \in Int
  OBVIOUS
<1> QED
  BY <1>1, <1>2 DEF Date

\* The date of an instant in time is a natural number.
LEMMA DateOfNat ==
    ASSUME NEW t \in Nat
    PROVE  Date(t) \in Nat
  BY DateFloor

LEMMA TargetInt ==
    ASSUME event \in Nat, offset \in Int
    PROVE  Target \in Int
<1>1. event + offset \in Int
  OBVIOUS
<1> QED
  BY <1>1, DateFloor DEF Target

\* The horizon of a reading is its distance to the start of the target date.
LEMMA HorizonIsDistance ==
    ASSUME NEW t \in Int, event \in Nat, offset \in Int
    PROVE  Horizon(t) = Later(0, 24 * Target - t)
<1>1. Target \in Int
  BY TargetInt
<1>2. Date(t) \in Int /\ t % 24 = t - 24 * Date(t)
  BY DateFloor
<1>3. \A a, b \in Int : 24 * (a - b) - (t - 24 * b) = 24 * a - t
  OBVIOUS
<1>4. 24 * (Target - Date(t)) - (t - 24 * Date(t)) = 24 * Target - t
  BY <1>1, <1>2, <1>3
<1> QED
  BY <1>2, <1>4 DEF Horizon

LEMMA HorizonNat ==
    ASSUME NEW t \in Int, event \in Nat, offset \in Int
    PROVE  Horizon(t) \in Nat
  BY HorizonIsDistance, TargetInt DEF Later

\* A later reading has no longer horizon, and no less confidence.
LEMMA HorizonShrinks ==
    ASSUME NEW s \in Int, NEW t \in Int, s <= t, event \in Nat, offset \in Int
    PROVE  Confidence(Horizon(t)) >= Confidence(Horizon(s))
<1>1. Horizon(s) = Later(0, 24 * Target - s) /\ Horizon(t) = Later(0, 24 * Target - t)
  BY HorizonIsDistance
<1>2. Horizon(s) \in Nat /\ Horizon(t) \in Nat
  BY HorizonNat
<1>3. Horizon(t) <= Horizon(s)
  BY <1>1, TargetInt DEF Later
<1> QED
  BY <1>2, <1>3, LifetimeAssumption DEF Confidence

-----------------------------------------------------------------------------
\* Type correctness.

LEMMA TypeInductive ==
    /\ Init => TypeOK
    /\ TypeOK /\ [Next]_vars => TypeOK'
<1>1. Init => TypeOK
  <2> SUFFICES ASSUME Init PROVE TypeOK
    OBVIOUS
  <2>1. up \in BOOLEAN /\ trouble \in BOOLEAN
    BY Zenon DEF Init
  <2>2. now \in Nat /\ event \in Nat /\ begun \in Nat /\ fetchedAt \in Nat /\ today \in Nat
    BY LifetimeAssumption DEF Init
  <2>3. /\ offset \in Offsets /\ interval \in Intervals
        /\ posted \in Nat \union {NoTime} /\ nextRun \in Nat \union {NoTime}
        /\ snap \in Snapshot \union {NoSnap}
    BY DEF Init
  <2>4. /\ pc \in {"idle", "fetching", "dated", "requested"}
        /\ welcome \in {"none", "pending", "explained", "forecast", "fallback"}
    BY DEF Init
  <2> QED
    BY <2>1, <2>2, <2>3, <2>4 DEF TypeOK
<1>2. TypeOK /\ [Next]_vars => TypeOK'
  <2> SUFFICES ASSUME TypeOK, [Next]_vars PROVE TypeOK'
    OBVIOUS
  <2> USE DEF TypeOK
  <2>0. interval \in Nat /\ interval >= 1 /\ offset \in Int
    BY LifetimeAssumption
  <2>1. CASE CreateProfile
    BY <2>1 DEF CreateProfile, profile, run
  <2>2. CASE Explain
    BY <2>2 DEF Explain, profile, run
  <2>3. CASE WelcomeForecast
    BY <2>3 DEF WelcomeForecast, profile, run
  <2>4. CASE BeginRun
    <3>1. nextRun \in Nat
      BY <2>4, LifetimeAssumption DEF BeginRun, Due
    <3> QED
      BY <2>4, <2>0, <3>1 DEF BeginRun, profile
  <2>5. CASE ExpireJob
    BY <2>5 DEF ExpireJob, profile, run
  <2>6. CASE ReadClock
    BY <2>6 DEF ReadClock, profile
  <2>7. CASE BuildParams
    BY <2>7, DateOfNat DEF BuildParams, profile
  <2>8. CASE Store
    <3>1. Horizon(fetchedAt) \in Nat
      BY <2>0, HorizonNat
    <3> QED
      BY <2>8, <3>1 DEF Store, RunEnds, Snapshot, profile
  <2>9. CASE NoRow
    BY <2>9 DEF NoRow, RunEnds, profile
  <2>10. CASE RunFails
    BY <2>10 DEF RunFails, RunEnds, profile
  <2>11. CASE Retry
    BY <2>11 DEF Retry, profile
  <2>12. CASE GoDown
    BY <2>12 DEF GoDown, RunEnds, profile
  <2>13. CASE Startup
    BY <2>13 DEF Startup, profile, run
  <2>14. CASE Tick
    BY <2>14, LifetimeAssumption DEF Tick, profile, run
  <2>15. CASE UNCHANGED vars
    BY <2>15 DEF vars, profile, run
  <2> QED
    BY <2>1, <2>2, <2>3, <2>4, <2>5, <2>6, <2>7, <2>8, <2>9, <2>10, <2>11, <2>12,
       <2>13, <2>14, <2>15 DEF Next, Run, Chat
<1> QED
  BY <1>1, <1>2

-----------------------------------------------------------------------------
\* Clocks, snapshots and the job: LifetimeInv is inductive.

LEMMA TypedFacts ==
    ASSUME TypeOK
    PROVE  /\ now \in Nat /\ event \in Nat /\ offset \in Int
           /\ interval \in Nat /\ interval >= 1
           /\ begun \in Nat /\ fetchedAt \in Nat /\ today \in Nat
           /\ nextRun # NoTime => nextRun \in Nat
           /\ Registered => posted \in Nat
           /\ snap # NoSnap => snap.at \in Nat
           /\ NoTime \notin Int
           /\ FORECAST_DAYS \in Nat /\ FORECAST_DAYS >= 1
           /\ Target \in Int
<1>1. /\ now \in Nat /\ event \in Nat /\ offset \in Int
      /\ interval \in Nat /\ interval >= 1
      /\ begun \in Nat /\ fetchedAt \in Nat /\ today \in Nat
  BY LifetimeAssumption DEF TypeOK
<1>2. /\ nextRun # NoTime => nextRun \in Nat
      /\ Registered => posted \in Nat
      /\ NoTime \notin Int
      /\ FORECAST_DAYS \in Nat /\ FORECAST_DAYS >= 1
  BY LifetimeAssumption DEF TypeOK, Registered
<1>3. snap # NoSnap => snap.at \in Nat
  BY DEF TypeOK, Snapshot
<1> QED
  BY <1>1, <1>2, <1>3, TargetInt

LEMMA ClocksInductive ==
    /\ Init => ClocksInOrder
    /\ TypeOK /\ ClocksInOrder /\ JobInv /\ [Next]_vars => ClocksInOrder'
<1>1. Init => ClocksInOrder
  BY DEF Init, ClocksInOrder, Registered
<1>2. TypeOK /\ ClocksInOrder /\ JobInv /\ [Next]_vars => ClocksInOrder'
  <2> SUFFICES ASSUME TypeOK, ClocksInOrder, JobInv, [Next]_vars PROVE ClocksInOrder'
    OBVIOUS
  <2>0. /\ now \in Nat /\ event \in Nat /\ begun \in Nat /\ fetchedAt \in Nat
        /\ today \in Nat /\ (Registered => posted \in Nat) /\ NoTime \notin Int
    BY TypedFacts
  <2> USE DEF ClocksInOrder, Registered, profile, run
  <2>1. CASE CreateProfile
    BY <2>0, <2>1 DEF CreateProfile, IsActive
  <2>2. CASE Chat
    BY <2>2 DEF Chat, Explain, WelcomeForecast
  <2>3. CASE BeginRun
    BY <2>3, <2>0 DEF BeginRun, Due, JobInv
  <2>4. CASE ExpireJob
    BY <2>4 DEF ExpireJob
  <2>5. CASE ReadClock
    BY <2>5, <2>0 DEF ReadClock
  <2>6. CASE BuildParams
    <3>1. fetchedAt <= now
      BY <2>6 DEF BuildParams
    <3>2. Date(fetchedAt) <= Date(now) /\ Date(now) \in Int
      BY <2>0, <3>1, DateMonotone, DateFloor
    <3>3. Date(fetchedAt)' = Date(fetchedAt) /\ Date(now)' = Date(now)
      BY <2>6 DEF BuildParams, Date
    <3> QED
      BY <2>6, <2>0, <3>2, <3>3 DEF BuildParams
  <2>7. CASE Store \/ NoRow \/ RunFails
    BY <2>7, <2>0 DEF Store, NoRow, RunFails, RunEnds
  <2>8. CASE Retry
    BY <2>8, <2>0 DEF Retry
  <2>9. CASE GoDown
    BY <2>9, <2>0 DEF GoDown, RunEnds
  <2>10. CASE Startup
    BY <2>10, <2>0 DEF Startup
  <2>11. CASE Tick
    <3>1. PICK d \in Steps : now' = now + d
      BY <2>11 DEF Tick
    <3>2. now <= now' /\ now' \in Nat
      BY <3>1, <2>0, LifetimeAssumption
    <3>3. Date(now) <= Date(now)' /\ Date(now) \in Int /\ Date(now)' \in Int
      BY <3>2, <2>0, DatePasses
    <3>4. Date(fetchedAt)' = Date(fetchedAt)
      BY <2>11 DEF Tick, Date
    <3> QED
      BY <2>11, <2>0, <3>2, <3>3, <3>4 DEF Tick
  <2>12. CASE UNCHANGED vars
    BY <2>12 DEF vars, Date
  <2> QED
    BY <2>1, <2>2, <2>3, <2>4, <2>5, <2>6, <2>7, <2>8, <2>9, <2>10, <2>11, <2>12 DEF Next, Run
<1> QED
  BY <1>1, <1>2

LEMMA JobInductive ==
    /\ Init => JobInv
    /\ TypeOK /\ ClocksInOrder /\ JobInv /\ [Next]_vars => JobInv'
<1>1. Init => JobInv
  BY DEF Init, JobInv
<1>2. TypeOK /\ ClocksInOrder /\ JobInv /\ [Next]_vars => JobInv'
  <2> SUFFICES ASSUME TypeOK, ClocksInOrder, JobInv, [Next]_vars PROVE JobInv'
    OBVIOUS
  <2>0. /\ now \in Nat /\ event \in Nat /\ begun \in Nat
        /\ interval \in Nat /\ interval >= 1
        /\ (nextRun # NoTime => nextRun \in Nat)
        /\ (Registered => posted \in Nat) /\ NoTime \notin Int
    BY TypedFacts
  <2> USE DEF JobInv, Registered, profile, run
  <2>1. CASE CreateProfile
    BY <2>0, <2>1 DEF CreateProfile, IsActive, ClocksInOrder
  <2>2. CASE Chat
    BY <2>2 DEF Chat, Explain, WelcomeForecast
  <2>3. CASE BeginRun
    BY <2>3, <2>0 DEF BeginRun, Due, IsActive, ClocksInOrder
  <2>4. CASE ExpireJob
    BY <2>4 DEF ExpireJob
  <2>5. CASE ReadClock \/ BuildParams \/ Retry
    BY <2>5, <2>0 DEF ReadClock, BuildParams, Retry
  <2>7. CASE Store \/ NoRow \/ RunFails
    BY <2>7, <2>0 DEF Store, NoRow, RunFails, RunEnds
  <2>9. CASE GoDown
    BY <2>9, <2>0 DEF GoDown, RunEnds
  <2>10. CASE Startup
    <3>1. ~up /\ up' /\ UNCHANGED <<now, event, interval, posted, pc, begun>>
      BY <2>10 DEF Startup
    <3>2. pc = "idle"
      BY <3>1, Zenon
    <3>3. CASE Listed /\ IsActive
      <4>1. nextRun' = now /\ Registered /\ now < event
        BY <2>10, <3>3 DEF Startup, Listed, IsActive
      <4> QED
        BY <2>0, <3>1, <3>2, <4>1
    <3>4. CASE ~(Listed /\ IsActive)
      <4>1. nextRun' = NoTime
        BY <2>10, <3>4 DEF Startup
      <4> QED
        BY <3>1, <3>2, <4>1
    <3> QED
      BY <3>3, <3>4
  <2>11. CASE Tick
    <3>1. now < now' /\ now' \in Nat /\ (nextRun # NoTime /\ up => now' <= nextRun)
      BY <2>11, <2>0, LifetimeAssumption DEF Tick
    <3> QED
      BY <2>11, <2>0, <3>1 DEF Tick
  <2>12. CASE UNCHANGED vars
    BY <2>12 DEF vars
  <2> QED
    BY <2>1, <2>2, <2>3, <2>4, <2>5, <2>7, <2>9, <2>10, <2>11, <2>12 DEF Next, Run
<1> QED
  BY <1>1, <1>2

LEMMA SnapInductive ==
    /\ Init => SnapInv
    /\ TypeOK /\ ClocksInOrder /\ SnapInv /\ [Next]_vars => SnapInv'
<1>1. Init => SnapInv
  BY DEF Init, SnapInv
<1>2. TypeOK /\ ClocksInOrder /\ SnapInv /\ [Next]_vars => SnapInv'
  <2> SUFFICES ASSUME TypeOK, ClocksInOrder, SnapInv, [Next]_vars PROVE SnapInv'
    OBVIOUS
  <2>0. /\ now \in Nat /\ fetchedAt \in Nat /\ today \in Nat
        /\ (snap # NoSnap => snap.at \in Nat) /\ Target \in Int
        /\ FORECAST_DAYS \in Nat
    BY TypedFacts
  <2>p. UNCHANGED profile
    BY DEF Next, Run, Chat, CreateProfile, Explain, WelcomeForecast, BeginRun, ExpireJob,
           ReadClock, BuildParams, Store, NoRow, RunFails, Retry, GoDown, Startup, Tick, vars
  <2>t. Target' = Target
    BY <2>p DEF Target, profile, Date
  <2>h. snap' = snap => Horizon(snap.at)' = Horizon(snap.at)
    BY <2>t DEF Horizon, Date, Later
  <2>d. \A x, y \in Int : x <= y => LastDate(x) <= LastDate(y)
    BY <2>0 DEF LastDate
  <2>l. now' = now => LastDate(Date(now))' = LastDate(Date(now))
    BY DEF LastDate, Date
  <2>m. today' = today => LastDate(today)' = LastDate(today)
    BY DEF LastDate
  <2> USE DEF SnapInv, Registered, run
  <2>1. CASE CreateProfile
    BY <2>1 DEF CreateProfile
  <2>2. CASE Chat
    BY <2>2, <2>t, <2>h, <2>l, <2>m DEF Chat, Explain, WelcomeForecast
  <2>3. CASE BeginRun
    BY <2>3, <2>t, <2>h, <2>l DEF BeginRun
  <2>4. CASE ExpireJob
    BY <2>4 DEF ExpireJob
  <2>5. CASE ReadClock
    BY <2>5, <2>t, <2>h, <2>l DEF ReadClock
  <2>6. CASE BuildParams
    <3>1. LastDate(today)' = LastDate(Date(now))
      BY <2>6 DEF BuildParams, LastDate
    <3> QED
      BY <2>6, <2>t, <2>h, <2>l, <3>1 DEF BuildParams
  <2>7. CASE Store
    <3>1. snap' = [at |-> fetchedAt, horizon |-> Horizon(fetchedAt)]
      BY <2>7 DEF Store
    <3>2. snap'.horizon = Horizon(snap.at)'
      BY <3>1, <2>7, <2>t DEF Store, Horizon, Date, Later
    <3>3. Target <= LastDate(Date(now))
      <4>1. today <= Date(now) /\ Target <= LastDate(today)
        BY <2>7 DEF Store, RowFound, ClocksInOrder
      <4>2. Date(now) \in Int /\ LastDate(today) \in Int /\ LastDate(Date(now)) \in Int
        BY <2>0, DateFloor DEF LastDate
      <4> QED
        BY <4>1, <4>2, <2>0, <2>d
    <3>4. Registered' /\ fetchedAt <= now' /\ pc' = "idle" /\ now' = now
      BY <2>7 DEF Store, RunEnds, ClocksInOrder
    <3> QED
      BY <3>1, <3>2, <3>3, <3>4, <2>t, <2>l
  <2>8. CASE NoRow \/ RunFails
    BY <2>8, <2>t, <2>h, <2>l DEF NoRow, RunFails, RunEnds
  <2>9. CASE Retry
    BY <2>9, <2>t, <2>h, <2>l DEF Retry
  <2>10. CASE GoDown
    BY <2>10, <2>t, <2>h, <2>l DEF GoDown, RunEnds
  <2>11. CASE Startup
    BY <2>11, <2>t, <2>h, <2>l, <2>m DEF Startup
  <2>12. CASE Tick
    <3>1. now <= now' /\ now' \in Nat
      BY <2>12, <2>0, LifetimeAssumption DEF Tick
    <3>2. Date(now) <= Date(now)' /\ Date(now) \in Int /\ Date(now)' \in Int
      BY <3>1, <2>0, DatePasses
    <3>3. LastDate(Date(now))' = LastDate(Date(now)')
      BY DEF LastDate
    <3>4. LastDate(Date(now)) <= LastDate(Date(now))'
      BY <3>2, <3>3, <2>d
    <3>5. LastDate(Date(now)) \in Int /\ LastDate(Date(now))' \in Int
      BY <3>2, <3>3, <2>0 DEF LastDate
    <3>6. UNCHANGED <<posted, pc, fetchedAt, today, snap>>
      BY <2>12 DEF Tick
    <3>7. Target <= LastDate(Date(now)) => Target' <= LastDate(Date(now))'
      BY <3>4, <3>5, <2>0, <2>t
    <3>8. snap # NoSnap /\ snap.at <= now => snap'.at <= now'
      BY <3>1, <3>6, <2>0
    <3> QED
      BY <3>6, <3>7, <3>8, <2>t, <2>h, <2>m
  <2>13. CASE UNCHANGED vars
    BY <2>13, <2>t, <2>h, <2>l, <2>m DEF vars
  <2> QED
    BY <2>1, <2>2, <2>3, <2>4, <2>5, <2>6, <2>7, <2>8, <2>9, <2>10, <2>11, <2>12, <2>13
       DEF Next, Run
<1> QED
  BY <1>1, <1>2

LEMMA LifetimeInductive == Spec => []LifetimeInv
<1>1. Init => LifetimeInv
  BY TypeInductive, ClocksInductive, SnapInductive, JobInductive DEF LifetimeInv
<1>2. LifetimeInv /\ [Next]_vars => LifetimeInv'
  BY TypeInductive, ClocksInductive, SnapInductive, JobInductive DEF LifetimeInv
<1> QED
  BY <1>1, <1>2, PTL DEF Spec

-----------------------------------------------------------------------------
\* What follows from the invariant.

\* Every variable stays in its range (models jobs.py, openmeteo.py, main.py).
THEOREM LifetimeTyped == Spec => []TypeOK
  BY LifetimeInductive, PTL DEF LifetimeInv

\* The job ends within one interval of the event: jobs.py:152 removes it at
\* its first run after the event, and that run is due by then.
THEOREM JobEndsBriefly == Spec => []JobOutlivesEventBriefly
<1>1. LifetimeInv => JobOutlivesEventBriefly
  BY DEF LifetimeInv, JobInv, JobOutlivesEventBriefly
<1> QED
  BY <1>1, LifetimeInductive, PTL

\* Forecasts are stored in the order of the readings of fetched_at, and the
\* horizon of significance.py shrinks from one to the next.
THEOREM ConfidenceGrows == Spec => ConfidenceNeverDrops
<1>1. LifetimeInv /\ [Next]_vars
        => [(snap # NoSnap /\ snap' # NoSnap)
               => Confidence(snap'.horizon) >= Confidence(snap.horizon)]_vars
  <2> SUFFICES ASSUME LifetimeInv, Next, snap # NoSnap, snap' # NoSnap
               PROVE  Confidence(snap'.horizon) >= Confidence(snap.horizon)
    OBVIOUS
  <2>0. /\ fetchedAt \in Nat /\ snap.at \in Nat /\ event \in Nat /\ offset \in Int
        /\ snap.horizon = Horizon(snap.at)
    BY TypedFacts DEF LifetimeInv, SnapInv
  <2>1. CASE Store
    <3>1. snap.at <= fetchedAt
      BY <2>1 DEF Store, LifetimeInv, SnapInv
    <3>2. snap'.horizon = Horizon(fetchedAt)
      BY <2>1 DEF Store
    <3> QED
      BY <2>0, <3>1, <3>2, HorizonShrinks
  <2>2. CASE snap' = snap
    <3>1. Confidence(snap.horizon) >= Confidence(snap.horizon)
      BY DEF Confidence
    <3> QED
      BY <2>2, <3>1
  <2>3. CASE ExpireJob
    BY <2>3 DEF ExpireJob
  <2> QED
    BY <2>1, <2>2, <2>3 DEF Next, Run, Chat, CreateProfile, Explain, WelcomeForecast, BeginRun,
       ReadClock, BuildParams, NoRow, RunFails, Retry, GoDown, Startup, Tick
<1> QED
  BY <1>1, LifetimeInductive, PTL DEF Spec, ConfidenceNeverDrops

\* The hours that telegram_bot.py:1010 compares and the dates that
\* openmeteo.py:127 asks for agree: no forecast exists when the user is told so.
THEOREM ExplanationIsTrue == Spec => ExplainedOnlyBeyondWindow
<1>1. LifetimeInv /\ [Next]_vars
        => [welcome' = "explained" => (welcome = "explained" \/ ~RowFound(Date(now)))]_vars
  <2> SUFFICES ASSUME LifetimeInv, Next, welcome' = "explained", welcome # "explained"
               PROVE  ~RowFound(Date(now))
    OBVIOUS
  <2>0. /\ now \in Nat /\ event \in Nat /\ FORECAST_DAYS \in Nat /\ Target \in Int
    BY TypedFacts DEF LifetimeInv
  <2>1. Explain
    BY DEF Next, Run, Chat, CreateProfile, WelcomeForecast, BeginRun, ExpireJob, ReadClock,
           BuildParams, Store, NoRow, RunFails, Retry, GoDown, Startup, Tick
  <2>2. offset = 0 /\ event - now > 24 * FORECAST_DAYS
    BY <2>1 DEF Explain, LifetimeInv, ClocksInOrder
  <2>3. Target = Date(event)
    BY <2>0, <2>2 DEF Target
  <2>4. event < 24 * Target + 24
    BY <2>0, <2>3, DateFloor
  <2>5. Date(now) \in Int /\ 24 * Date(now) <= now
    BY <2>0, DateFloor
  <2> QED
    BY <2>0, <2>2, <2>4, <2>5 DEF RowFound, LastDate
<1> QED
  BY <1>1, LifetimeInductive, PTL DEF Spec, ExplainedOnlyBeyondWindow

-----------------------------------------------------------------------------
\* What holds as long as the event is ahead.

\* The target date is not before the date of an instant at which the event is
\* ahead on the wall clock.
LEMMA TargetAhead ==
    ASSUME TypeOK, Ahead
    PROVE  Date(now) <= Target
<1>1. now \in Nat /\ event \in Nat /\ offset \in Int
  BY TypedFacts
<1>2. now <= event + offset /\ event + offset \in Int
  BY <1>1 DEF Ahead, Column
<1> QED
  BY <1>1, <1>2, DateMonotone DEF Target

\* The job is there after every restart as long as the event and the column of
\* database.py:123, which lost its offset, are both ahead.
THEOREM AheadStaysScheduled == Spec => []AheadIsScheduled
<1>1. Init => AheadIsScheduled
  BY DEF Init, AheadIsScheduled, Registered
<1>2. LifetimeInv /\ AheadIsScheduled /\ [Next]_vars => AheadIsScheduled'
  <2> SUFFICES ASSUME LifetimeInv, AheadIsScheduled, [Next]_vars,
                      up', Registered', Ahead'
               PROVE  nextRun' # NoTime
    BY DEF AheadIsScheduled
  <2>0. /\ now \in Nat /\ event \in Nat /\ offset \in Int /\ interval \in Nat
        /\ (nextRun # NoTime => nextRun \in Nat) /\ NoTime \notin Int
    BY TypedFacts DEF LifetimeInv
  <2> USE DEF AheadIsScheduled, Registered, Ahead, Column, IsActive, profile, run
  <2>1. CASE CreateProfile
    BY <2>1, <2>0 DEF CreateProfile
  <2>2. CASE BeginRun
    BY <2>2, <2>0 DEF BeginRun, Due
  <2>3. CASE ExpireJob
    BY <2>3 DEF ExpireJob
  <2>4. CASE Startup
    <3>1. UNCHANGED <<now, event, offset, posted>>
      BY <2>4 DEF Startup
    <3>2. Listed
      BY <2>0, <3>1 DEF Listed
    <3> QED
      BY <2>4, <2>0, <3>1, <3>2 DEF Startup
  <2>5. CASE Tick
    <3>1. UNCHANGED <<event, offset, posted, up, nextRun>>
      BY <2>5 DEF Tick
    <3>2. now <= now' /\ now' \in Nat
      BY <2>5, <2>0, LifetimeAssumption DEF Tick
    <3>3. now < event /\ event + offset > now
      BY <2>0, <3>1, <3>2
    <3> QED
      BY <3>1, <3>3
  <2>6. CASE GoDown
    BY <2>6 DEF GoDown
  <2>7. CASE UNCHANGED <<now, event, offset, posted, up, nextRun>>
    BY <2>7
  <2> QED
    BY <2>1, <2>2, <2>3, <2>4, <2>5, <2>6, <2>7 DEF Next, Run, Chat, Explain, WelcomeForecast,
       ReadClock, BuildParams, Store, NoRow, RunFails, Retry, vars
<1> QED
  BY <1>1, <1>2, LifetimeInductive, PTL DEF Spec

\* With an offset that is not negative the column is never behind the event, so
\* that the job is there up to the event itself: what main.py:141 says is true of
\* every profile the bot or the dashboard posts.
THEOREM ActiveStaysScheduled == Spec => [](offset >= 0 => ActiveIsScheduled)
<1>1. LifetimeInv /\ AheadIsScheduled => (offset >= 0 => ActiveIsScheduled)
  <2> SUFFICES ASSUME LifetimeInv, AheadIsScheduled, offset >= 0, IsActive
               PROVE  Ahead
    BY DEF AheadIsScheduled, ActiveIsScheduled
  <2>1. now \in Nat /\ event \in Nat /\ offset \in Int
    BY TypedFacts DEF LifetimeInv
  <2> QED
    BY <2>1 DEF Ahead, IsActive, Column
<1> QED
  BY <1>1, LifetimeInductive, AheadStaysScheduled, PTL

\* Once a row was found, the later requests of openmeteo.py find one as well,
\* at whatever hour, as long as the event is ahead.
THEOREM TargetReachable == Spec => []TargetStaysReachable
<1>1. LifetimeInv => TargetStaysReachable
  <2> SUFFICES ASSUME LifetimeInv, pc = "requested", snap # NoSnap, Ahead
               PROVE  RowFound(today)
    BY DEF TargetStaysReachable
  <2>1. today <= Date(now) /\ Target <= LastDate(today)
    BY DEF LifetimeInv, ClocksInOrder, SnapInv
  <2>2. Date(now) <= Target
    BY TargetAhead DEF LifetimeInv
  <2>3. Date(now) \in Int /\ Target \in Int /\ today \in Int
    BY TypedFacts, DateFloor DEF LifetimeInv
  <2> QED
    BY <2>1, <2>2, <2>3 DEF RowFound
<1> QED
  BY <1>1, LifetimeInductive, PTL

LEMMA FreshInductive ==
    /\ Init => FreshInv
    /\ LifetimeInv /\ FreshInv /\ [Next]_vars => FreshInv'
<1>1. Init => FreshInv
  BY DEF Init, FreshInv
<1>2. LifetimeInv /\ FreshInv /\ [Next]_vars => FreshInv'
  <2> SUFFICES ASSUME LifetimeInv, FreshInv, [Next]_vars,
                      pc' = "idle", nextRun' # NoTime, now' < nextRun', ~trouble', Ahead',
                      nextRun' - interval' >= WindowOpens'
               PROVE  snap' # NoSnap /\ snap'.at >= nextRun' - interval'
    BY DEF FreshInv
  <2>0. /\ now \in Nat /\ event \in Nat /\ offset \in Int /\ interval \in Nat
        /\ begun \in Nat /\ fetchedAt \in Nat /\ today \in Nat
        /\ (nextRun # NoTime => nextRun \in Nat)
        /\ Target \in Int /\ FORECAST_DAYS \in Nat
    BY TypedFacts DEF LifetimeInv
  <2>p. UNCHANGED profile
    BY DEF Next, Run, Chat, CreateProfile, Explain, WelcomeForecast, BeginRun, ExpireJob,
           ReadClock, BuildParams, Store, NoRow, RunFails, Retry, GoDown, Startup, Tick, vars
  <2>w. WindowOpens' = WindowOpens
    BY <2>p DEF WindowOpens, Target, profile, Date
  <2> USE DEF Ahead, Column, IsActive, profile, run
  <2>1. CASE CreateProfile \/ Startup
    BY <2>1, <2>0 DEF CreateProfile, Startup
  <2>2. CASE BeginRun \/ ReadClock \/ BuildParams \/ Retry
    BY <2>2 DEF BeginRun, ReadClock, BuildParams, Retry
  <2>3. CASE ExpireJob \/ GoDown
    BY <2>3 DEF ExpireJob, GoDown
  <2>4. CASE RunFails
    BY <2>4, Zenon DEF RunFails
  <2>5. CASE Store
    <3>1. nextRun = begun + interval /\ begun <= fetchedAt
      BY <2>5 DEF Store, LifetimeInv, JobInv, ClocksInOrder
    <3>2. snap' = [at |-> fetchedAt, horizon |-> Horizon(fetchedAt)] /\ UNCHANGED nextRun
      BY <2>5 DEF Store
    <3>3. snap' # NoSnap
      <4>1. Horizon(fetchedAt) \in Nat
        BY HorizonNat, TypedFacts DEF LifetimeInv
      <4> QED
        BY <3>2, <4>1, <2>0, LifetimeAssumption
    <3> QED
      BY <3>1, <3>2, <3>3, <2>0, <2>p
  <2>6. CASE NoRow
    <3>1. UNCHANGED <<now, nextRun>> /\ pc = "requested" /\ ~RowFound(today)
      BY <2>6 DEF NoRow
    <3>2. /\ nextRun = begun + interval /\ begun <= fetchedAt
          /\ Date(fetchedAt) <= today /\ today <= Date(now)
      BY <3>1 DEF LifetimeInv, JobInv, ClocksInOrder
    <3>3. begun >= 24 * (Target - (FORECAST_DAYS - 1))
      BY <3>1, <3>2, <2>0, <2>p, <2>w DEF WindowOpens
    <3>4. Date(fetchedAt) \in Int /\ fetchedAt < 24 * Date(fetchedAt) + 24 /\ Date(now) \in Int
      BY <2>0, DateFloor
    <3>5. Target - (FORECAST_DAYS - 1) <= Date(fetchedAt)
      BY <3>2, <3>3, <3>4, <2>0
    <3>6. Target <= LastDate(today)
      BY <3>2, <3>4, <3>5, <2>0 DEF LastDate
    <3>7. Date(now) <= Target
      BY <3>1, <2>p, TargetAhead DEF LifetimeInv
    <3>8. RowFound(today)
      BY <3>2, <3>4, <3>6, <3>7, <2>0 DEF RowFound
    <3> QED
      BY <3>1, <3>8
  <2>7. CASE Tick
    <3>1. UNCHANGED <<pc, nextRun, trouble, snap>> /\ now <= now' /\ now' \in Nat
      BY <2>7, <2>0, LifetimeAssumption DEF Tick
    <3>2. now < nextRun /\ now < event /\ event + offset > now
      BY <3>1, <2>0, <2>p
    <3> QED
      BY <3>1, <3>2, <2>p, <2>w DEF FreshInv
  <2>8. CASE UNCHANGED <<pc, nextRun, trouble, snap, now>>
    BY <2>8, <2>p, <2>w DEF FreshInv
  <2> QED
    BY <2>1, <2>2, <2>3, <2>4, <2>5, <2>6, <2>7, <2>8
       DEF Next, Run, Chat, Explain, WelcomeForecast, vars
<1> QED
  BY <1>1, <1>2

\* The interval trigger of jobs.py:290 and the window of openmeteo.py:127 keep
\* the stored forecast less than one interval old, from the window's opening
\* (or the registration) on, as long as the event is ahead, unless a request
\* fails or the process stops.
THEOREM MonitoredIsFresh == Spec => []FreshWhileMonitored
<1>1. LifetimeInv /\ FreshInv /\ AheadIsScheduled => FreshWhileMonitored
  <2> SUFFICES ASSUME LifetimeInv, FreshInv, AheadIsScheduled,
                      up, Registered, Ahead, pc = "idle", ~Due, ~trouble, PollWasDue
               PROVE  snap # NoSnap /\ now - snap.at < interval
    BY DEF FreshWhileMonitored
  <2>0. /\ now \in Nat /\ interval \in Nat /\ posted \in Nat
        /\ (nextRun # NoTime => nextRun \in Nat) /\ (snap # NoSnap => snap.at \in Nat)
        /\ Target \in Int /\ FORECAST_DAYS \in Nat
    BY TypedFacts DEF LifetimeInv
  <2>1. nextRun # NoTime /\ nextRun \in Nat
    BY <2>0 DEF AheadIsScheduled
  <2>2. now < nextRun
    BY <2>0, <2>1 DEF Due
  <2>3. posted <= nextRun - interval
    BY <2>1, <2>2 DEF LifetimeInv, JobInv
  <2>4. nextRun - interval >= WindowOpens
    BY <2>0, <2>1, <2>2, <2>3 DEF PollWasDue, WindowOpens
  <2>5. snap # NoSnap /\ snap.at >= nextRun - interval
    BY <2>1, <2>2, <2>4 DEF FreshInv
  <2> QED
    BY <2>0, <2>1, <2>2, <2>5
<1> QED
  BY <1>1, LifetimeInductive, FreshInductive, AheadStaysScheduled, PTL DEF Spec
=============================================================================
