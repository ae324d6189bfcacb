---------------------------- MODULE PollingProofs ----------------------------
(***************************************************************************)
(* Proofs about any number of polls: what every run of the graph promises  *)
(* (AgentInv), carried from one poll to the next by the snapshot store.    *)
(***************************************************************************)
EXTENDS Polling, AgentProofs

-----------------------------------------------------------------------------
\* The inductive invariant.

\* A run's baseline is what is stored, and the run has room to be counted.
RunInv ==
    /\ node # "idle" => previous_snapshot = store /\ quiet < MaxQuiet
    /\ accepted = 1 => HasMoved /\ node \in {"acking", "END"}

\* A variable that told still has was reported by every snapshot since.
HistoryInv ==
    /\ store = None => quiet = 0
    /\ (store # None /\ quiet = 0) => told = store
    /\ store # None =>
          /\ \A v \in Numeric : told.num[v] # Missing => store.num[v] # Missing
          /\ told.code # Missing => store.code # Missing

PollInv ==
    /\ AgentInv /\ PollTypeOK
    /\ RunInv /\ HistoryInv /\ SilentDriftBounded

-----------------------------------------------------------------------------
\* Two polls that are quiet do not add up to more than their thresholds.

LEMMA QuietPollAdds ==
    ASSUME NEW a \in Int, NEW b \in Int, NEW c \in Int, NEW p \in Int, NEW t \in Nat \ {0},
           Distance(a, b) <= p, ~(c >= b + t \/ b >= c + t)
    PROVE  Distance(a, c) <= p + (t - 1)
  BY DEF Distance, Abs

LEMMA OneMoreTime ==
    ASSUME NEW q \in Nat, NEW t \in Nat
    PROVE  q * (t - 1) \in Int /\ (q + 1) * (t - 1) = q * (t - 1) + (t - 1)
<1>1. \A x, y \in Int : (x + 1) * y = x * y + y /\ x * y \in Int
  OBVIOUS
<1> QED
  BY <1>1

-----------------------------------------------------------------------------
\* Steps of the graph, seen from the polls.

\* Steps inside a run keep its baseline, and move on from where it is.
LEMMA StepInsideRun ==
    ASSUME Step, node # "END"
    PROVE  previous_snapshot' = previous_snapshot /\ node # "idle" /\ node' # "idle"
<1> USE DEF input
<1>1. CASE FetchAttemptFails
  BY <1>1 DEF FetchAttemptFails
<1>2. CASE FetchFails
  BY <1>2 DEF FetchFails, AfterFetch
<1>3. CASE FetchSucceeds
  BY <1>3 DEF FetchSucceeds, AfterFetch
<1>4. CASE AnalyzeDiff
  BY <1>4 DEF AnalyzeDiff
<1>5. CASE EvaluateSignificance
  BY <1>5 DEF EvaluateSignificance, AfterSignificance
<1>6. CASE LlmAttemptFails
  BY <1>6 DEF LlmAttemptFails
<1>7. CASE LlmAnswers \/ LlmFallback
  BY <1>7 DEF LlmAnswers, LlmFallback, Narrated
<1>8. CASE NotifyRefuses \/ Acknowledge \/ NotifyFails
  BY <1>8 DEF NotifyRefuses, Acknowledge, NotifyFails, Notified
<1>9. CASE Deliver
  BY <1>9 DEF Deliver
<1>10. CASE Return
  BY <1>10 DEF Return
<1> QED
  BY <1>1, <1>2, <1>3, <1>4, <1>5, <1>6, <1>7, <1>8, <1>9, <1>10 DEF Step

\* A message is sent about a move, and nothing but the end of the run follows.
LEMMA StepDelivers ==
    ASSUME AgentInv, Step, node # "END", accepted = 1 => HasMoved /\ node \in {"acking", "END"}
    PROVE  accepted' = 1 => HasMoved' /\ node' \in {"acking", "END"}
<1> USE DEF input, HasMoved
<1>1. CASE FetchAttemptFails
  BY <1>1 DEF FetchAttemptFails, world
<1>2. CASE FetchFails \/ FetchSucceeds
  BY <1>2 DEF FetchFails, FetchSucceeds, world
<1>3. CASE AnalyzeDiff \/ EvaluateSignificance
  BY <1>3 DEF AnalyzeDiff, EvaluateSignificance, world
<1>4. CASE LlmAttemptFails
  BY <1>4 DEF LlmAttemptFails
<1>5. CASE LlmAnswers \/ LlmFallback
  BY <1>5 DEF LlmAnswers, LlmFallback, Narrated
<1>6. CASE NotifyRefuses \/ Acknowledge \/ NotifyFails
  BY <1>6 DEF NotifyRefuses, Acknowledge, NotifyFails, Notified
<1>7. CASE Deliver
  BY <1>7 DEF Deliver, fields, AgentInv, NodeInv
<1>8. CASE Return
  BY <1>8 DEF Return
<1> QED
  BY <1>1, <1>2, <1>3, <1>4, <1>5, <1>6, <1>7, <1>8 DEF Step

\* A lost run leaves the graph's state as it was before the first run.
LEMMA FreshState == Init' => AgentInv'
<1>1. Init => AgentInv
  BY AgentInductive
<1> QED
  BY <1>1, PTL

LEMMA LostIsFresh ==
    ASSUME RunLost
    PROVE  AgentInv'
<1>1. Init'
  BY DEF RunLost, Init
<1> QED
  BY <1>1, FreshState

-----------------------------------------------------------------------------
\* The polls.

\* What the job finds when a run returns to it.
LEMMA RunReturns ==
    ASSUME PollInv, Finish
    PROVE  /\ node = "END" /\ node' = "idle" /\ accepted' = 0 /\ AgentInv'
           /\ previous_snapshot = store /\ quiet < MaxQuiet
           /\ current_snapshot \in Data \union {None}
           /\ error \in Errors \union {None}
           /\ (error = None /\ HasMoved) => accepted = 1
<1>1. Next
  BY DEF Finish, Next, Step
<1>2. AgentInv'
  BY <1>1, AgentInductive DEF PollInv
<1>3. node = "END" /\ node' = "idle" /\ accepted' = 0
  BY DEF Finish, Return
<1>4. previous_snapshot = store /\ quiet < MaxQuiet
  BY <1>3 DEF PollInv, RunInv
<1>5. current_snapshot \in Data \union {None} /\ error \in Errors \union {None}
  BY DEF PollInv, PollTypeOK, TypeOK, FieldsTyped
<1>6. (error = None /\ HasMoved) => accepted = 1
  BY <1>3 DEF PollInv, AgentInv, EndIsTruthful
<1> QED
  BY <1>2, <1>3, <1>4, <1>5, <1>6

LEMMA MaskedTyped ==
    ASSUME NEW s \in Data, NEW t \in Data
    PROVE  /\ Masked(s, t) \in Data
           /\ \A v \in Numeric :
                 Masked(s, t).num[v] # Missing
                    => t.num[v] # Missing /\ Masked(s, t).num[v] = s.num[v]
           /\ Masked(s, t).code # Missing
                    => t.code # Missing /\ Masked(s, t).code = s.code
  BY DEF Masked, Data

\* A quiet poll adds less than a threshold to what the user does not know.
LEMMA QuietStays ==
    ASSUME PollInv, store # None, NEW cur \in Data, ~Moved(store, cur), ~astray
    PROVE  /\ \A v \in DOMAIN Threshold :
                 (told.num[v] # Missing /\ cur.num[v] # Missing) =>
                    Distance(told.num[v], cur.num[v]) <= (quiet + 1) * (Threshold[v] - 1)
           /\ (told.code # Missing /\ cur.code # Missing) =>
                 Distance(Rank[told.code], Rank[cur.code]) <= (quiet + 1) * (RankThreshold - 1)
<1>0. store \in Data /\ told \in Data /\ quiet \in Nat
  BY PollingAssumption DEF PollInv, PollTypeOK
<1>1. ASSUME NEW v \in DOMAIN Threshold, told.num[v] # Missing, cur.num[v] # Missing
      PROVE  Distance(told.num[v], cur.num[v]) <= (quiet + 1) * (Threshold[v] - 1)
  <2>1. v \in Numeric /\ Threshold[v] \in Nat \ {0}
    BY ForecastAssumption
  <2>2. store.num[v] # Missing
    BY <1>1, <2>1 DEF PollInv, HistoryInv
  <2>3. told.num[v] \in Int /\ store.num[v] \in Int /\ cur.num[v] \in Int
    BY <1>0, <1>1, <2>1, <2>2, ForecastAssumption DEF Data
  <2>4. Distance(told.num[v], store.num[v]) <= quiet * (Threshold[v] - 1)
    BY <1>1, <2>2 DEF PollInv, SilentDriftBounded
  <2>5. ~(\/ cur.num[v] >= store.num[v] + Threshold[v]
          \/ store.num[v] >= cur.num[v] + Threshold[v])
    BY <1>1, <2>2 DEF Moved
  <2>6. /\ quiet * (Threshold[v] - 1) \in Int
        /\ (quiet + 1) * (Threshold[v] - 1) = quiet * (Threshold[v] - 1) + (Threshold[v] - 1)
    BY <1>0, <2>1, OneMoreTime
  <2>7. Distance(told.num[v], cur.num[v]) <= quiet * (Threshold[v] - 1) + (Threshold[v] - 1)
    BY <2>1, <2>3, <2>4, <2>5, <2>6, QuietPollAdds
  <2> QED
    BY <2>6, <2>7
<1>2. ASSUME told.code # Missing, cur.code # Missing
      PROVE  Distance(Rank[told.code], Rank[cur.code]) <= (quiet + 1) * (RankThreshold - 1)
  <2>1. RankThreshold \in Nat \ {0}
    BY ForecastAssumption
  <2>2. store.code # Missing
    BY <1>2 DEF PollInv, HistoryInv
  <2>3. Rank[told.code] \in Int /\ Rank[store.code] \in Int /\ Rank[cur.code] \in Int
    BY <1>0, <1>2, <2>2, ForecastAssumption DEF Data
  <2>4. Distance(Rank[told.code], Rank[store.code]) <= quiet * (RankThreshold - 1)
    BY <1>2, <2>2 DEF PollInv, SilentDriftBounded
  <2>5. ~(\/ Rank[cur.code] >= Rank[store.code] + RankThreshold
          \/ Rank[store.code] >= Rank[cur.code] + RankThreshold)
    BY <1>2, <2>2 DEF Moved
  <2>6. /\ quiet * (RankThreshold - 1) \in Int
        /\ (quiet + 1) * (RankThreshold - 1) = quiet * (RankThreshold - 1) + (RankThreshold - 1)
    BY <1>0, <2>1, OneMoreTime
  <2>7. Distance(Rank[told.code], Rank[cur.code])
          <= quiet * (RankThreshold - 1) + (RankThreshold - 1)
    BY <2>1, <2>3, <2>4, <2>5, <2>6, QuietPollAdds
  <2> QED
    BY <2>6, <2>7
<1> QED
  BY <1>1, <1>2

\* Nothing that the invariant says of the store and the history has changed.
LEMMA HistoryFrame ==
    ASSUME PollInv, AgentInv', UNCHANGED <<store, told, quiet>>, astray' \in BOOLEAN,
           astray => astray'
    PROVE  PollTypeOK' /\ HistoryInv' /\ SilentDriftBounded'
<1>1. TypeOK'
  BY DEF AgentInv
<1>2. PollTypeOK'
  BY <1>1 DEF PollInv, PollTypeOK
<1>3. HistoryInv'
  BY DEF PollInv, HistoryInv
<1>4. SilentDriftBounded'
  BY DEF PollInv, SilentDriftBounded, Distance, Abs
<1> QED
  BY <1>2, <1>3, <1>4

LEMMA PollInductive ==
    /\ PollInit => PollInv
    /\ PollInv /\ [PollNext]_pollVars => PollInv'
<1>1. PollInit => PollInv
  <2> SUFFICES ASSUME PollInit PROVE PollInv
    OBVIOUS
  <2>1. AgentInv
    BY AgentInductive DEF PollInit
  <2>2. RunInv /\ HistoryInv /\ SilentDriftBounded
    BY DEF PollInit, Init, RunInv, HistoryInv, SilentDriftBounded
  <2>3. astray \in BOOLEAN
    BY Zenon DEF PollInit
  <2>4. PollTypeOK
    BY <2>1, <2>3, PollingAssumption DEF PollInit, AgentInv, PollTypeOK
  <2> QED
    BY <2>1, <2>2, <2>4 DEF PollInv
<1>2. PollInv /\ [PollNext]_pollVars => PollInv'
  <2> SUFFICES ASSUME PollInv, [PollNext]_pollVars PROVE PollInv'
    OBVIOUS
  <2>0. astray \in BOOLEAN
    BY DEF PollInv, PollTypeOK
  <2>1. CASE Poll
    <3>1. AgentInv'
      BY <2>1, AgentInductive DEF Poll, Next, PollInv
    <3>2. RunInv'
      BY <2>1 DEF Poll, RunAgent, world, PollInv, RunInv, AgentInv, NodeInv, Quiet
    <3>3. PollTypeOK' /\ HistoryInv' /\ SilentDriftBounded'
      BY <2>0, <2>1, <3>1, HistoryFrame DEF Poll
    <3> QED
      BY <3>1, <3>2, <3>3 DEF PollInv
  <2>2. CASE Inside
    <3>1. AgentInv'
      BY <2>2, AgentInductive DEF Inside, Next, PollInv
    <3>2. previous_snapshot' = previous_snapshot /\ node # "idle"
      BY <2>2, StepInsideRun DEF Inside
    <3>3. accepted' = 1 => HasMoved' /\ node' \in {"acking", "END"}
      BY <2>2, StepDelivers DEF Inside, PollInv, RunInv
    <3>4. RunInv'
      BY <2>2, <3>2, <3>3 DEF Inside, PollInv, RunInv
    <3>5. PollTypeOK' /\ HistoryInv' /\ SilentDriftBounded'
      BY <2>0, <2>2, <3>1, HistoryFrame DEF Inside
    <3> QED
      BY <3>1, <3>4, <3>5 DEF PollInv
  <2>3. CASE RunLost
    <3>1. AgentInv'
      BY <2>3, LostIsFresh
    <3>2. RunInv'
      BY <2>3 DEF RunLost, RunInv
    <3>3. astray' \in BOOLEAN /\ (astray => astray')
      BY <2>0, <2>3, Zenon DEF RunLost
    <3>4. PollTypeOK' /\ HistoryInv' /\ SilentDriftBounded'
      BY <2>3, <3>1, <3>3, HistoryFrame DEF RunLost
    <3> QED
      BY <3>1, <3>2, <3>4 DEF PollInv
  <2>4. CASE Finish
    <3>1. /\ node = "END" /\ node' = "idle" /\ accepted' = 0 /\ AgentInv'
          /\ previous_snapshot = store /\ quiet < MaxQuiet
          /\ current_snapshot \in Data \union {None}
          /\ error \in Errors \union {None}
          /\ (error = None /\ HasMoved) => accepted = 1
      BY <2>4, RunReturns
    <3>2. RunInv'
      BY <3>1 DEF RunInv
    <3>3. TypeOK'
      BY <3>1 DEF AgentInv
    <3>n. quiet \in Nat /\ MaxQuiet \in Nat /\ None \notin Data
      BY PollingAssumption, AgentAssumption DEF PollInv, PollTypeOK
    <3>4. CASE StoredQuietly
      <4>1. current_snapshot \in Data /\ store # None /\ accepted = 0
        BY <3>1, <3>4 DEF StoredQuietly
      <4>2. store \in Data /\ told \in Data
        BY <4>1 DEF PollInv, PollTypeOK
      <4>3. store' = current_snapshot /\ told' = Masked(told, store') /\ quiet' = quiet + 1
        BY <3>4 DEF StoredQuietly
      <4>4. store' \in Data /\ told' \in Data
        BY <4>1, <4>2, <4>3, MaskedTyped
      <4>5. astray' \in BOOLEAN
        BY <2>0, <3>4, Zenon DEF StoredQuietly
      <4>6. PollTypeOK'
        BY <3>1, <3>3, <3>n, <4>3, <4>4, <4>5 DEF PollTypeOK
      <4>7. HistoryInv'
        BY <3>n, <4>1, <4>2, <4>3, <4>4, MaskedTyped DEF HistoryInv
      <4>8. SilentDriftBounded'
        <5> SUFFICES ASSUME ~astray' PROVE SilentDriftBounded'
          BY DEF SilentDriftBounded
        <5>1. ~astray /\ error = None
          BY <3>4, Zenon DEF StoredQuietly
        <5>2. ~Moved(store, store')
          BY <3>1, <3>n, <4>1, <4>2, <4>3, <5>1 DEF HasMoved
        <5>3. /\ \A v \in DOMAIN Threshold :
                    (told.num[v] # Missing /\ store'.num[v] # Missing) =>
                      Distance(told.num[v], store'.num[v]) <= quiet' * (Threshold[v] - 1)
              /\ (told.code # Missing /\ store'.code # Missing) =>
                    Distance(Rank[told.code], Rank[store'.code])
                      <= quiet' * (RankThreshold - 1)
          BY <4>1, <4>3, <4>4, <5>1, <5>2, QuietStays
        <5>4. /\ \A v \in DOMAIN Threshold :
                    told'.num[v] # Missing => told'.num[v] = told.num[v]
              /\ told'.code # Missing => told'.code = told.code
          BY <4>2, <4>3, <4>4, MaskedTyped, ForecastAssumption
        <5>5. /\ \A v \in DOMAIN Threshold :
                    (told'.num[v] # Missing /\ store'.num[v] # Missing) =>
                      Distance(told'.num[v], store'.num[v]) <= quiet' * (Threshold[v] - 1)
              /\ (told'.code # Missing /\ store'.code # Missing) =>
                    Distance(Rank[told'.code], Rank[store'.code])
                      <= quiet' * (RankThreshold - 1)
          BY <5>3, <5>4, Zenon
        <5> QED
          BY <5>5 DEF SilentDriftBounded, Distance, Abs
      <4> QED
        BY <3>1, <3>2, <4>6, <4>7, <4>8 DEF PollInv
    <3>5. CASE StoredAndTold
      <4>1. /\ store' \in Data /\ told' = store' /\ quiet' = 0 /\ astray' = FALSE
        BY <3>1, <3>5 DEF StoredAndTold
      <4>2. PollTypeOK'
        <5>1. astray' \in BOOLEAN
          BY <4>1, Zenon
        <5> QED
          BY <3>3, <3>n, <4>1, <5>1 DEF PollTypeOK
      <4>3. HistoryInv'
        BY <4>1 DEF HistoryInv
      <4>4. SilentDriftBounded'
        <5>1. \A n \in Int : Distance(n, n) <= 0 * 0
          BY DEF Distance, Abs
        <5>2. ASSUME NEW v \in DOMAIN Threshold, store'.num[v] # Missing
              PROVE  Distance(told'.num[v], store'.num[v]) <= quiet' * (Threshold[v] - 1)
          <6>1. store'.num[v] \in Int /\ Threshold[v] \in Nat
            BY <4>1, <5>2, ForecastAssumption DEF Data
          <6>2. quiet' * (Threshold[v] - 1) = 0
            BY <4>1, <6>1
          <6> QED
            BY <4>1, <5>1, <6>1, <6>2
        <5>3. ASSUME store'.code # Missing
              PROVE  Distance(Rank[told'.code], Rank[store'.code])
                        <= quiet' * (RankThreshold - 1)
          <6>1. Rank[store'.code] \in Int /\ RankThreshold \in Nat
            BY <4>1, <5>3, ForecastAssumption DEF Data
          <6>2. quiet' * (RankThreshold - 1) = 0
            BY <4>1, <6>1
          <6> QED
            BY <4>1, <5>1, <6>1, <6>2
        <5> QED
          BY <5>2, <5>3 DEF SilentDriftBounded, Distance, Abs
      <4> QED
        BY <3>1, <3>2, <4>2, <4>3, <4>4 DEF PollInv
    <3>6. CASE NothingStored
      <4>1. PollTypeOK' /\ HistoryInv' /\ SilentDriftBounded'
        BY <2>0, <3>1, <3>6, HistoryFrame DEF NothingStored
      <4> QED
        BY <3>1, <3>2, <4>1 DEF PollInv
    <3> QED
      BY <2>4, <3>4, <3>5, <3>6 DEF Finish
  <2>5. CASE UNCHANGED pollVars
    <3>1. UNCHANGED vars /\ UNCHANGED <<store, told, quiet, astray>>
      BY <2>5 DEF pollVars
    <3>2. AgentInv'
      BY <3>1, AgentInductive DEF PollInv
    <3>3. RunInv'
      BY <3>1 DEF vars, input, fields, world, PollInv, RunInv, HasMoved
    <3>4. PollTypeOK' /\ HistoryInv' /\ SilentDriftBounded'
      BY <2>0, <3>1, <3>2, HistoryFrame
    <3> QED
      BY <3>2, <3>3, <3>4 DEF PollInv
  <2> QED
    BY <2>1, <2>2, <2>3, <2>4, <2>5 DEF PollNext
<1> QED
  BY <1>1, <1>2

LEMMA PollInvariant == PollSpec => []PollInv
  BY PollInductive, PTL DEF PollSpec

-----------------------------------------------------------------------------
\* Every variable stays in its range, over any number of polls.
THEOREM PollingTyped == PollSpec => []PollTypeOK
<1>1. PollInv => PollTypeOK
  BY DEF PollInv
<1> QED
  BY <1>1, PollInvariant, PTL

\* How far the forecast can move without a word to the user: less than one
\* threshold of significance.py for each silent poll of jobs.py.
THEOREM DriftIsBounded == PollSpec => []SilentDriftBounded
<1>1. PollInv => SilentDriftBounded
  BY DEF PollInv
<1> QED
  BY <1>1, PollInvariant, PTL

\* jobs.py:193 stores the snapshot of a run that failed to hear of its own
\* message, so that the next run does not repeat it.
THEOREM NewsIsNotRepeated == PollSpec => []NoRepeatedNews
<1>1. PollInv => NoRepeatedNews
  <2> SUFFICES ASSUME PollInv, accepted = 1, quiet = 0
               PROVE  Moved(told, current_snapshot)
    BY DEF NoRepeatedNews
  <2>1. HasMoved /\ previous_snapshot = store
    BY DEF PollInv, RunInv
  <2>2. store # None /\ Moved(store, current_snapshot)
    BY <2>1 DEF HasMoved
  <2>3. told = store
    BY <2>2 DEF PollInv, HistoryInv
  <2> QED
    BY <2>2, <2>3
<1> QED
  BY <1>1, PollInvariant, PTL

-----------------------------------------------------------------------------
\* The polls implement Monitor.

Mail == IF accepted = 1 THEN current_snapshot ELSE None
Crossings == {m \in Data \X Data : Moved(m[1], m[2])}

\* What a run that has moved knows of the store.
LEMMA MoveIsCrossing ==
    ASSUME PollInv, node # "idle", current_snapshot # None, store # None
    PROVE  /\ store \in Data /\ current_snapshot \in Data
           /\ HasMoved <=> <<store, current_snapshot>> \in Crossings
<1>1. store \in Data /\ current_snapshot \in Data
  BY DEF PollInv, PollTypeOK, TypeOK, FieldsTyped
<1>2. previous_snapshot = store
  BY DEF PollInv, RunInv
<1> QED
  BY <1>1, <1>2 DEF HasMoved, Crossings

\* Nothing is on its way when the run has sent nothing.
LEMMA MailOfRun ==
    ASSUME PollInv
    PROVE  /\ accepted \in {0, 1}
           /\ accepted = 1 => /\ Mail = current_snapshot /\ Mail # None
                              /\ store # None /\ node \in {"acking", "END"}
           /\ accepted = 0 => Mail = None
<1>1. accepted \in {0, 1}
  BY DEF PollInv, PollTypeOK, TypeOK, CountersTyped
<1>2. accepted = 1 => /\ HasMoved /\ node \in {"acking", "END"}
                      /\ previous_snapshot = store
  BY DEF PollInv, RunInv
<1> QED
  BY <1>1, <1>2 DEF Mail, HasMoved

\* Inside a run, the mail changes when Telegram accepts a message only.
LEMMA InsideSends ==
    ASSUME PollInv, PollInv', Inside
    PROVE  Watch!Send \/ UNCHANGED Mail
<1>1. CASE Deliver
  <2>1. /\ node = "notify" /\ accepted' = accepted + 1
        /\ UNCHANGED <<previous_snapshot, current_snapshot, store, told, astray>>
    BY <1>1 DEF Deliver, Inside, input, fields
  <2>2. accepted = 0 /\ current_snapshot # None /\ previous_snapshot # None /\ HasMoved
    BY <2>1, AgentAssumption DEF PollInv, AgentInv, NodeInv
  <2>3. store # None
    BY <2>1, <2>2 DEF PollInv, RunInv
  <2>4. Mail = None /\ Mail' = current_snapshot
    BY <2>1, <2>2 DEF Mail
  <2>5. current_snapshot \in Data /\ <<store, current_snapshot>> \in Crossings
    BY <2>1, <2>2, <2>3, MoveIsCrossing
  <2> QED
    BY <2>1, <2>3, <2>4, <2>5 DEF Watch!Send, Mail, Crossings
<1>2. CASE ~Deliver
  <2>1. accepted' = accepted
    BY <1>2 DEF Inside, Step, FetchAttemptFails, FetchFails, FetchSucceeds, AnalyzeDiff,
       EvaluateSignificance, LlmAttemptFails, LlmAnswers, LlmFallback, Narrated,
       NotifyRefuses, Acknowledge, NotifyFails, Return, world
  <2>2. CASE accepted = 1
    <3>1. node = "acking"
      BY <2>2, MailOfRun DEF Inside
    <3>2. Acknowledge \/ NotifyFails
      BY <1>2, <3>1
         DEF Inside, Step, FetchAttemptFails, FetchFails, FetchSucceeds, AnalyzeDiff,
             EvaluateSignificance, LlmAttemptFails, LlmAnswers, LlmFallback,
             NotifyRefuses, Return
    <3>3. current_snapshot' = current_snapshot
      BY <3>2 DEF Acknowledge, NotifyFails, Notified
    <3> QED
      BY <2>1, <3>3 DEF Mail
  <2>3. CASE accepted # 1
    BY <2>1, <2>3 DEF Mail
  <2> QED
    BY <2>2, <2>3
<1> QED
  BY <1>1, <1>2

\* What a job does with the result of its run is a step of the monitor.
LEMMA FinishMonitors ==
    ASSUME PollInv, Finish
    PROVE  [Watch!Next]_(Watch!vars)
<1>0. /\ node = "END" /\ accepted' = 0 /\ previous_snapshot = store
      /\ current_snapshot \in Data \union {None} /\ error \in Errors \union {None}
      /\ (error = None /\ HasMoved) => accepted = 1
  BY RunReturns
<1>1. Mail' = None
  BY <1>0 DEF Mail
<1>n. astray \in BOOLEAN
  BY DEF PollInv, PollTypeOK
<1>2. CASE StoredQuietly
  <2>1. /\ current_snapshot # None /\ store # None /\ accepted = 0
        /\ store' = current_snapshot /\ told' = Masked(told, store')
        /\ astray' = (astray \/ error # None)
    BY <1>0, <1>2 DEF StoredQuietly
  <2>2. Mail = None /\ store' \in Data
    BY <1>0, <2>1 DEF Mail
  <2>3. HasMoved <=> <<store, store'>> \in Crossings
    BY <1>0, <2>1, MoveIsCrossing
  <2>4. CASE error = None
    <3>1. <<store, store'>> \notin Crossings
      BY <1>0, <2>1, <2>3, <2>4
    <3>2. astray' = astray
      BY <1>n, <2>1, <2>4, Zenon
    <3>3. Watch!Silent
      BY <1>1, <2>1, <2>2, <3>1, <3>2 DEF Watch!Silent, Mail, Crossings
    <3> QED
      BY <3>3 DEF Watch!Next
  <2>5. CASE error # None
    <3>1. <<store, store'>> \in Crossings
      BY <1>0, <2>1, <2>3, <2>5 DEF PollInv, AgentInv, EndIsTruthful
    <3>2. astray' = TRUE
      BY <1>n, <2>1, <2>5, Zenon
    <3>3. Watch!GiveUp
      BY <1>1, <2>1, <2>2, <3>1, <3>2 DEF Watch!GiveUp, Mail, Crossings
    <3> QED
      BY <3>3 DEF Watch!Next
  <2> QED
    BY <2>4, <2>5
<1>3. CASE StoredAndTold
  <2>1. /\ current_snapshot \in Data /\ store' = current_snapshot /\ told' = store'
        /\ astray' = FALSE /\ (store = None \/ accepted = 1)
    BY <1>0, <1>3 DEF StoredAndTold
  <2>2. CASE accepted = 1
    <3>1. Mail = current_snapshot /\ Mail # None
      BY <2>2, MailOfRun
    <3>2. Watch!Record
      BY <1>1, <2>1, <3>1 DEF Watch!Record, Mail
    <3> QED
      BY <3>2 DEF Watch!Next
  <2>3. CASE accepted # 1
    <3>1. store = None /\ Mail = None
      BY <2>1, <2>3 DEF Mail
    <3>2. Watch!First
      BY <1>1, <2>1, <3>1 DEF Watch!First, Mail
    <3> QED
      BY <3>2 DEF Watch!Next
  <2> QED
    BY <2>2, <2>3
<1>4. CASE NothingStored
  <2>1. current_snapshot = None /\ UNCHANGED <<store, told, astray>>
    BY <1>4 DEF NothingStored
  <2>2. Mail = None
    BY <2>1 DEF Mail
  <2> QED
    BY <1>1, <2>1, <2>2 DEF Watch!vars, Mail
<1> QED
  BY <1>2, <1>3, <1>4 DEF Finish

\* Over any number of polls, a crossing forecast is told once or given up for
\* good and no other one is told, however the runs of the agent fail and wherever
\* the process stops (_job_for_profile, run_agent, DBSnapshotStore).
THEOREM PollsMonitor == PollSpec => PollingMeetsMonitor
<1>1. PollInit => Watch!Init
  BY DEF PollInit, Init, Watch!Init
<1>2. PollInv /\ PollInv' /\ [PollNext]_pollVars => [Watch!Next]_(Watch!vars)
  <2> SUFFICES ASSUME PollInv, PollInv', [PollNext]_pollVars
               PROVE  [Watch!Next]_(Watch!vars)
    OBVIOUS
  <2>1. CASE Poll
    <3>1. /\ UNCHANGED <<store, told, astray>>
          /\ UNCHANGED <<accepted, current_snapshot>>
      BY <2>1 DEF Poll, RunAgent, fields, world
    <3> QED
      BY <3>1 DEF Watch!vars
  <2>2. CASE Inside
    <3>1. UNCHANGED <<store, told, astray>>
      BY <2>2 DEF Inside
    <3> QED
      BY <2>2, <3>1, InsideSends DEF Watch!Next, Watch!vars, Mail
  <2>3. CASE Finish
    BY <2>3, FinishMonitors
  <2>4. CASE RunLost
    <3>1. /\ accepted' = 0 /\ UNCHANGED <<store, told>>
          /\ astray' = (astray \/ accepted = 1)
      BY <2>4 DEF RunLost
    <3>2. Mail' = None
      BY <3>1 DEF Mail
    <3>3. CASE accepted = 1
      <4>1. astray' = TRUE
        BY <3>1, <3>3, Zenon
      <4>2. Mail # None
        BY <3>3, MailOfRun
      <4>3. Watch!Forget
        BY <3>1, <3>2, <4>1, <4>2 DEF Watch!Forget, Mail
      <4> QED
        BY <4>3 DEF Watch!Next
    <3>4. CASE accepted # 1
      <4>1. astray' = astray
        BY <3>1, <3>4, Zenon DEF PollInv, PollTypeOK
      <4>2. Mail = None
        BY <3>4 DEF Mail
      <4> QED
        BY <3>1, <3>2, <4>1, <4>2 DEF Watch!vars, Mail
    <3> QED
      BY <3>3, <3>4
  <2>5. CASE UNCHANGED pollVars
    BY <2>5 DEF pollVars, vars, fields, world, Watch!vars
  <2> QED
    BY <2>1, <2>2, <2>3, <2>4, <2>5 DEF PollNext
<1> QED
  BY <1>1, <1>2, PollInvariant, PTL DEF PollSpec, PollingMeetsMonitor, Watch!Spec
==============================================================================
