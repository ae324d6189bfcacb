------------------------------ MODULE AgentProofs ------------------------------
(***************************************************************************)
(* Proofs about the agent graph: the decision is the one a user would      *)
(* make, a run ends as it reports, and the graph implements AgentRun.      *)
(***************************************************************************)
EXTENDS AgentProperties, TLAPS

-----------------------------------------------------------------------------
\* The deterministic engine.

\* The numeric trigger test, with the distance spelled out.
LEMMA AbsAtLeast ==
    ASSUME NEW a \in Int, NEW b \in Int, NEW n \in Nat
    PROVE  Abs(b - a) >= n <=> (b >= a + n \/ a >= b + n)
  BY DEF Abs

\* is_significant finds exactly the moves of Moved: missing values never
\* trigger, boundaries do, and both directions count.
LEMMA SignificantIsMoved ==
    ASSUME NEW s \in Data, NEW t \in Data
    PROVE  IsSignificant(s, t) <=> Moved(s, t)
<1> DEFINE ch == Compare(s, t)
<1>1. DOMAIN ch = {v \in Numeric : s.num[v] # Missing /\ t.num[v] # Missing}
  BY DEF Compare
<1>2. \A v \in DOMAIN ch : /\ ch[v] = t.num[v] - s.num[v]
                           /\ s.num[v] \in Int /\ t.num[v] \in Int
  BY <1>1, ForecastAssumption DEF Compare, Data
<1>3. \A v \in DOMAIN ch \intersect DOMAIN Threshold :
         Abs(ch[v]) >= Threshold[v] <=> \/ t.num[v] >= s.num[v] + Threshold[v]
                                        \/ s.num[v] >= t.num[v] + Threshold[v]
  BY <1>2, AbsAtLeast, ForecastAssumption
<1>4. CodeTriggers(s, t) # {} <=>
         /\ s.code # Missing /\ t.code # Missing
         /\ \/ Rank[t.code] >= Rank[s.code] + RankThreshold
            \/ Rank[s.code] >= Rank[t.code] + RankThreshold
  <2>1. CASE s.code # Missing /\ t.code # Missing
    <3>1. Rank[s.code] \in Int /\ Rank[t.code] \in Int /\ RankThreshold \in Nat
      BY <2>1, ForecastAssumption DEF Data
    <3>2. Abs(Rank[t.code] - Rank[s.code]) >= RankThreshold <=>
             \/ Rank[t.code] >= Rank[s.code] + RankThreshold
             \/ Rank[s.code] >= Rank[t.code] + RankThreshold
      BY <3>1, AbsAtLeast
    <3>. QED
      BY <2>1, <3>2 DEF CodeTriggers
  <2>2. CASE ~(s.code # Missing /\ t.code # Missing)
    BY <2>2 DEF CodeTriggers
  <2>. QED
    BY <2>1, <2>2
<1>5. IsSignificant(s, t) <=>
         \/ \E v \in DOMAIN ch \intersect DOMAIN Threshold : Abs(ch[v]) >= Threshold[v]
         \/ CodeTriggers(s, t) # {}
  BY DEF IsSignificant, Triggers
<1>6. (\E v \in DOMAIN ch \intersect DOMAIN Threshold : Abs(ch[v]) >= Threshold[v]) <=>
         \E v \in DOMAIN Threshold :
            /\ s.num[v] # Missing /\ t.num[v] # Missing
            /\ \/ t.num[v] >= s.num[v] + Threshold[v]
               \/ s.num[v] >= t.num[v] + Threshold[v]
  BY <1>1, <1>3, ForecastAssumption
<1>. QED
  BY <1>4, <1>5, <1>6 DEF Moved

\* An improvement of the forecast counts like the same deterioration: if a
\* move is significant, so is the move back (significance.py, fix C).
THEOREM SignificanceSymmetric ==
    ASSUME NEW s \in Data, NEW t \in Data, IsSignificant(s, t)
    PROVE  IsSignificant(t, s)
<1>1. Moved(s, t) => Moved(t, s)
  BY DEF Moved
<1>. QED
  BY <1>1, SignificantIsMoved

-----------------------------------------------------------------------------
\* The inductive invariant: what the state holds at each node.

Quiet == alert = None /\ llmCalls = 0 /\ accepted = 0 /\ error = None

NodeInv ==
    /\ node = "idle" => /\ Quiet /\ previous_snapshot = None /\ current_snapshot = None
                        /\ significant = None /\ attempt = 1
    /\ node = "fetch_forecast" => Quiet /\ current_snapshot = None /\ significant = None
    /\ node \in {"analyze_diff", "evaluate_significance"} =>
          /\ Quiet /\ attempt = 1
          /\ previous_snapshot \in Data /\ current_snapshot \in Data
    /\ node = "evaluate_significance" =>
          changes = Compare(previous_snapshot, current_snapshot)
    /\ node \in {"narrate", "notify", "acking"} =>
          /\ previous_snapshot \in Data /\ current_snapshot \in Data
          /\ HasMoved /\ significant = TRUE /\ error = None
          /\ alert \in Alerts /\ alert.sent = FALSE
          /\ accepted = IF node = "acking" THEN 1 ELSE 0
    /\ node = "narrate" => llmCalls = attempt - 1

AgentInv == TypeOK /\ NodeInv /\ LlmOnlyWhenMoved /\ EndIsTruthful

LEMMA AgentInductive ==
    /\ Init => AgentInv
    /\ AgentInv /\ [Next]_vars => AgentInv'
<1>1. Init => AgentInv
  <2> SUFFICES ASSUME Init PROVE AgentInv
    OBVIOUS
  <2>1. FieldsTyped /\ CountersTyped
    BY AgentAssumption DEF Init, FieldsTyped, CountersTyped, Nodes
  <2>2. NodeInv /\ LlmOnlyWhenMoved /\ EndIsTruthful
    BY DEF Init, NodeInv, Quiet, LlmOnlyWhenMoved, EndIsTruthful
  <2>. QED
    BY <2>1, <2>2 DEF AgentInv, TypeOK
<1>2. AgentInv /\ [Next]_vars => AgentInv'
  <2> SUFFICES ASSUME AgentInv, [Next]_vars PROVE AgentInv'
    OBVIOUS
  <2> USE DEF AgentInv, TypeOK
  <2>1. CASE RunAgent
    <3>a. CountersTyped'
      BY <2>1, AgentAssumption DEF RunAgent, fields, world, CountersTyped, NodeInv, Quiet
    <3>b. FieldsTyped'
      BY <2>1, AgentAssumption DEF RunAgent, fields, world, FieldsTyped, Nodes, Errors
    <3>c. NodeInv' /\ LlmOnlyWhenMoved' /\ EndIsTruthful'
      BY <2>1, AgentAssumption DEF RunAgent, fields, world, NodeInv, Quiet, LlmOnlyWhenMoved,
         EndIsTruthful, HasMoved, FieldsTyped, CountersTyped, Errors
    <3>. QED
      BY <3>a, <3>b, <3>c
  <2>2. CASE FetchAttemptFails
    <3>a. CountersTyped'
      BY <2>2, AgentAssumption DEF FetchAttemptFails, input, fields, world, CountersTyped, NodeInv, Quiet
    <3>b. FieldsTyped'
      BY <2>2, AgentAssumption DEF FetchAttemptFails, input, fields, world, FieldsTyped, Nodes, Errors
    <3>c. NodeInv' /\ LlmOnlyWhenMoved' /\ EndIsTruthful'
      BY <2>2, AgentAssumption DEF FetchAttemptFails, input, fields, world, NodeInv, Quiet, LlmOnlyWhenMoved,
         EndIsTruthful, HasMoved, FieldsTyped, CountersTyped, Errors
    <3>. QED
      BY <3>a, <3>b, <3>c
  <2>3. CASE FetchFails
    <3>1. error' = "fetch" /\ error' # None
      BY <2>3, AgentAssumption DEF FetchFails, Errors
    <3>2. /\ node = "fetch_forecast" /\ node' = "END" /\ attempt' = 1
          /\ UNCHANGED <<previous_snapshot, current_snapshot, changes, significant,
                         triggering_variables, alert, llmCalls, accepted>>
      BY <2>3, <3>1 DEF FetchFails, AfterFetch, input, world
    <3>3. llmCalls' = 0 /\ accepted' = 0 /\ alert' = None
      BY <3>2 DEF NodeInv, Quiet
    <3>a. CountersTyped'
      BY <3>2, <3>3, AgentAssumption DEF CountersTyped
    <3>b. FieldsTyped'
      BY <3>1, <3>2 DEF FieldsTyped, Nodes, Errors
    <3>c. NodeInv'
      BY <3>2 DEF NodeInv
    <3>d. LlmOnlyWhenMoved'
      BY <3>3 DEF LlmOnlyWhenMoved
    <3>4. current_snapshot' = None
      BY <3>2 DEF NodeInv
    <3>e. EndIsTruthful'
      BY <3>1, <3>3, <3>4 DEF EndIsTruthful
    <3>. QED
      BY <3>a, <3>b, <3>c, <3>d, <3>e
  <2>4. CASE FetchSucceeds
    <3>1. /\ node = "fetch_forecast" /\ attempt' = 1
          /\ current_snapshot' \in Data /\ changes' = None
          /\ triggering_variables' = None /\ alert' = None /\ error' = None
          /\ UNCHANGED <<previous_snapshot, llmCalls, accepted>>
      BY <2>4 DEF FetchSucceeds, input, world
    <3>2. llmCalls' = 0 /\ accepted' = 0
      BY <3>1 DEF NodeInv, Quiet
    <3>3. /\ previous_snapshot = None => significant' = FALSE /\ node' = "END"
          /\ previous_snapshot # None => significant' = None /\ node' = "analyze_diff"
      BY <2>4, <3>1, AgentAssumption DEF FetchSucceeds, AfterFetch
    <3>4. previous_snapshot' \in Data \union {None} /\ (node' = "analyze_diff" => previous_snapshot' \in Data)
      BY <3>1, <3>3 DEF FieldsTyped
    <3>5. node' \in {"END", "analyze_diff"} /\ significant' \in {FALSE, None}
      BY <3>3
    <3>a. CountersTyped'
      BY <3>1, <3>2, AgentAssumption DEF CountersTyped
    <3>b. FieldsTyped'
      BY <3>1, <3>4, <3>5 DEF FieldsTyped, Nodes
    <3>c. NodeInv'
      BY <3>1, <3>2, <3>4, <3>5 DEF NodeInv, Quiet
    <3>d. LlmOnlyWhenMoved'
      BY <3>2 DEF LlmOnlyWhenMoved
    <3>6. node' = "END" => ~HasMoved' /\ significant' = FALSE
      BY <3>1, <3>3 DEF HasMoved
    <3>e. EndIsTruthful'
      BY <3>1, <3>2, <3>6 DEF EndIsTruthful
    <3>. QED
      BY <3>a, <3>b, <3>c, <3>d, <3>e
  <2>5. CASE AnalyzeDiff
    <3>1. changes' \in [DOMAIN changes' -> Int] /\ DOMAIN changes' \subseteq Numeric
      BY <2>5, ForecastAssumption DEF AnalyzeDiff, NodeInv, Compare, Data
    <3>a. CountersTyped'
      BY <2>5, <3>1, AgentAssumption DEF AnalyzeDiff, input, world, CountersTyped, NodeInv, Quiet
    <3>b. FieldsTyped'
      BY <2>5, <3>1, AgentAssumption DEF AnalyzeDiff, input, world, FieldsTyped, Nodes, Errors
    <3>c. NodeInv' /\ LlmOnlyWhenMoved' /\ EndIsTruthful'
      BY <2>5, <3>1, AgentAssumption DEF AnalyzeDiff, input, world, NodeInv, Quiet, LlmOnlyWhenMoved,
         EndIsTruthful, HasMoved, FieldsTyped, CountersTyped, Errors
    <3>. QED
      BY <3>a, <3>b, <3>c
  <2>6. CASE EvaluateSignificance
    <3>1. /\ triggering_variables' = Triggers(changes, previous_snapshot, current_snapshot)
          /\ significant' = (triggering_variables' # {})
          /\ alert' = (IF significant' THEN NewAlert ELSE None)
          /\ node = "evaluate_significance"
          /\ node' = IF significant' = TRUE THEN "narrate" ELSE "END"
          /\ UNCHANGED <<attempt, previous_snapshot, current_snapshot, changes, error,
                         llmCalls, accepted>>
      BY <2>6 DEF EvaluateSignificance, AfterSignificance, input, world
    <3>2. significant' \in BOOLEAN /\ (significant' = TRUE <=> HasMoved)
      BY <3>1, SignificantIsMoved, AgentAssumption DEF NodeInv, IsSignificant, HasMoved
    <3>3. triggering_variables' \subseteq Numeric \union {"weather_code"}
      BY <3>1, ForecastAssumption DEF Triggers, CodeTriggers
    <3>4. NewAlert \in Alerts /\ ~NewAlert.sent
      BY DEF NewAlert, Alerts, Narratives
    <3>5. /\ attempt = 1 /\ error' = None /\ llmCalls' = 0 /\ accepted' = 0
          /\ previous_snapshot' \in Data /\ current_snapshot' \in Data
      BY <3>1 DEF NodeInv, Quiet
    <3>6. HasMoved' <=> HasMoved
      BY <3>1 DEF HasMoved
    <3>7. \/ /\ HasMoved' /\ significant' = TRUE /\ node' = "narrate"
             /\ alert' \in Alerts /\ ~alert'.sent /\ alert' = NewAlert
          \/ /\ ~HasMoved' /\ significant' = FALSE /\ node' = "END" /\ alert' = None
      BY <3>1, <3>2, <3>4, <3>6
    <3>a. CountersTyped'
      BY <3>1 DEF CountersTyped
    <3>b. FieldsTyped'
      BY <3>1, <3>3, <3>7 DEF FieldsTyped, Nodes
    <3>8. llmCalls' = attempt' - 1
      BY <3>1, <3>5
    <3>c. NodeInv'
      <4>1. CASE node' = "narrate"
        <5>1. alert' \in Alerts /\ alert'.sent = FALSE
          BY <3>7, <4>1 DEF Alerts
        <5>2. HasMoved' /\ significant' = TRUE /\ llmCalls' = attempt' - 1
          BY <3>7, <3>8, <4>1
        <5>. QED
          BY <3>5, <4>1, <5>1, <5>2 DEF NodeInv
      <4>2. CASE node' = "END"
        BY <4>2 DEF NodeInv
      <4>. QED
        BY <3>1, <4>1, <4>2
    <3>d. LlmOnlyWhenMoved'
      BY <3>5 DEF LlmOnlyWhenMoved
    <3>e. EndIsTruthful'
      BY <3>5, <3>7 DEF EndIsTruthful
    <3>. QED
      BY <3>a, <3>b, <3>c, <3>d, <3>e
  <2>7. CASE LlmAttemptFails
    <3>1. /\ node = "narrate" /\ node' = "narrate" /\ attempt < MaxAttempts
          /\ attempt' = attempt + 1 /\ llmCalls' = llmCalls + 1
          /\ UNCHANGED <<previous_snapshot, current_snapshot, changes, significant,
                         triggering_variables, alert, error, accepted>>
      BY <2>7 DEF LlmAttemptFails, input, fields
    <3>2. HasMoved /\ llmCalls = attempt - 1 /\ attempt \in 1..MaxAttempts
      BY <3>1 DEF NodeInv, CountersTyped
    <3>3. /\ llmCalls' = attempt' - 1 /\ attempt' \in 1..MaxAttempts /\ llmCalls' \in 0..MaxAttempts
          /\ llmCalls' <= MaxAttempts
      BY <3>1, <3>2, AgentAssumption
    <3>4. HasMoved'
      BY <3>1, <3>2 DEF HasMoved
    <3>a. CountersTyped'
      BY <3>1, <3>3 DEF CountersTyped
    <3>b. FieldsTyped'
      BY <3>1 DEF FieldsTyped
    <3>c. NodeInv'
      BY <3>1, <3>3, <3>4 DEF NodeInv
    <3>5. llmCalls' <= MaxAttempts
      BY <3>3
    <3>d. LlmOnlyWhenMoved'
      <4>. DEFINE H == HasMoved'
      <4>1. H /\ llmCalls' <= MaxAttempts
        BY <3>4, <3>5
      <4>2. LlmOnlyWhenMoved' <=> (llmCalls' > 0 => H /\ llmCalls' <= MaxAttempts')
        BY DEF LlmOnlyWhenMoved
      <4>. HIDE DEF H
      <4>. QED
        BY <4>1, <4>2
    <3>e. EndIsTruthful'
      BY <3>1 DEF EndIsTruthful
    <3>. QED
      BY <3>a, <3>b, <3>c, <3>d, <3>e
  <2>8. CASE LlmAnswers \/ LlmFallback
    <3>1. PICK text \in Narratives : Narrated(text)
      BY <2>8 DEF LlmAnswers, LlmFallback, Narratives
    <3>2. node = "narrate" /\ (llmCalls' = llmCalls \/ llmCalls' = llmCalls + 1)
      BY <2>8 DEF LlmAnswers, LlmFallback
    <3>3. alert' \in Alerts /\ ~alert'.sent
      BY <3>1, <3>2 DEF Narrated, NodeInv, Alerts
    <3>a. CountersTyped'
      BY <3>1, <3>2, AgentAssumption DEF Narrated, CountersTyped, NodeInv
    <3>b. FieldsTyped'
      BY <3>1, <3>3 DEF Narrated, FieldsTyped, Nodes, input
    <3>c. HasMoved /\ HasMoved' /\ node' = "notify"
      BY <3>1, <3>2 DEF Narrated, NodeInv, HasMoved, input
    <3>d. NodeInv' /\ LlmOnlyWhenMoved' /\ EndIsTruthful'
      BY <3>1, <3>2, <3>3, <3>a, <3>c DEF Narrated, NodeInv, LlmOnlyWhenMoved, EndIsTruthful,
         CountersTyped, input
    <3>. QED
      BY <3>a, <3>b, <3>d
  <2>9. CASE NotifyRefuses \/ NotifyFails
    <3>1. /\ node \in {"notify", "acking"} /\ node' = "END" /\ alert' = alert
          /\ error' \in Errors /\ (node = "acking" => error' = "telegram")
          /\ UNCHANGED <<attempt, previous_snapshot, current_snapshot, changes, significant,
                         triggering_variables, llmCalls, accepted>>
      BY <2>9 DEF NotifyRefuses, NotifyFails, Notified, input, Errors
    <3>2. ~alert.sent /\ error' # None /\ HasMoved' /\ HasMoved
      BY <3>1, AgentAssumption DEF NodeInv, HasMoved
    <3>a. CountersTyped'
      BY <3>1 DEF CountersTyped
    <3>b. FieldsTyped'
      BY <3>1 DEF FieldsTyped, Nodes
    <3>c. NodeInv' /\ LlmOnlyWhenMoved'
      BY <3>1, <3>2 DEF NodeInv, LlmOnlyWhenMoved
    <3>d. EndIsTruthful'
      BY <3>1, <3>2 DEF NodeInv, EndIsTruthful
    <3>. QED
      BY <3>a, <3>b, <3>c, <3>d
  <2>10. CASE Deliver
    <3>1. /\ node = "notify" /\ node' = "acking" /\ accepted' = accepted + 1
          /\ UNCHANGED <<attempt, previous_snapshot, current_snapshot, changes, significant,
                         triggering_variables, alert, error, llmCalls>>
      BY <2>10 DEF Deliver, input, fields
    <3>2. accepted = 0 /\ HasMoved
      BY <3>1 DEF NodeInv
    <3>3. accepted' = 1
      BY <3>1, <3>2
    <3>4. HasMoved'
      BY <3>1, <3>2 DEF HasMoved
    <3>a. CountersTyped'
      BY <3>1, <3>3 DEF CountersTyped
    <3>b. FieldsTyped'
      BY <3>1 DEF FieldsTyped, Nodes
    <3>c. NodeInv'
      BY <3>1, <3>3, <3>4 DEF NodeInv
    <3>d. LlmOnlyWhenMoved'
      BY <3>1, <3>4 DEF LlmOnlyWhenMoved
    <3>e. EndIsTruthful'
      BY <3>1 DEF EndIsTruthful
    <3>. QED
      BY <3>a, <3>b, <3>c, <3>d, <3>e
  <2>11. CASE Acknowledge
    <3>1. alert' \in Alerts /\ alert'.sent
      BY <2>11 DEF Acknowledge, NodeInv, Alerts
    <3>a. CountersTyped'
      BY <2>11, <3>1, AgentAssumption DEF Acknowledge, Notified, input, CountersTyped, NodeInv, Quiet
    <3>b. FieldsTyped'
      BY <2>11, <3>1, AgentAssumption DEF Acknowledge, Notified, input, FieldsTyped, Nodes, Errors
    <3>c. NodeInv' /\ LlmOnlyWhenMoved' /\ EndIsTruthful'
      BY <2>11, <3>1, AgentAssumption DEF Acknowledge, Notified, input, NodeInv, Quiet, LlmOnlyWhenMoved,
         EndIsTruthful, HasMoved, FieldsTyped, CountersTyped, Errors
    <3>. QED
      BY <3>a, <3>b, <3>c
  <2>12. CASE Return
    <3>1. /\ node' = "idle" /\ attempt' = 1 /\ previous_snapshot' = None
          /\ current_snapshot' = None /\ changes' = None /\ significant' = None
          /\ triggering_variables' = None /\ alert' = None /\ error' = None
          /\ llmCalls' = 0 /\ accepted' = 0
      BY <2>12 DEF Return
    <3>a. CountersTyped'
      BY <3>1, AgentAssumption DEF CountersTyped
    <3>b. FieldsTyped'
      BY <3>1 DEF FieldsTyped, Nodes
    <3>c. NodeInv'
      BY <3>1 DEF NodeInv, Quiet
    <3>d. LlmOnlyWhenMoved'
      BY <3>1 DEF LlmOnlyWhenMoved
    <3>e. EndIsTruthful'
      BY <3>1 DEF EndIsTruthful
    <3>. QED
      BY <3>a, <3>b, <3>c, <3>d, <3>e
  <2>13. CASE UNCHANGED vars
    BY <2>13 DEF vars, FieldsTyped, CountersTyped, NodeInv, Quiet, LlmOnlyWhenMoved,
       EndIsTruthful, HasMoved, input, fields, world
  <2>. QED
    BY <2>1, <2>2, <2>3, <2>4, <2>5, <2>6, <2>7, <2>8, <2>9, <2>10, <2>11, <2>12, <2>13
       DEF Next, Step
<1>. QED
  BY <1>1, <1>2

LEMMA AgentInvariant == Spec => []AgentInv
  BY AgentInductive, PTL DEF Spec

-----------------------------------------------------------------------------
\* No retry loop exceeds its policy and no run sends two messages.
THEOREM AgentTypeCorrect == Spec => []TypeOK
<1>1. AgentInv => TypeOK
  BY DEF AgentInv
<1>. QED
  BY <1>1, AgentInvariant, PTL

\* The edges of graph.py never run a node before its inputs are there.
THEOREM NodesFindTheirInputs == Spec => []NodesHaveInputs
<1>1. AgentInv => NodesHaveInputs
  <2> SUFFICES ASSUME AgentInv PROVE NodesHaveInputs
    OBVIOUS
  <2>1. node \in {"analyze_diff", "evaluate_significance"}
          => previous_snapshot # None /\ current_snapshot # None
    BY AgentAssumption DEF AgentInv, NodeInv
  <2>2. node = "evaluate_significance" => changes # None
    BY AgentAssumption DEF AgentInv, NodeInv
  <2>3. node \in {"narrate", "notify", "acking"} => alert # None
    BY AgentAssumption DEF AgentInv, NodeInv
  <2>. QED
    BY <2>1, <2>2, <2>3 DEF NodesHaveInputs
<1>. QED
  BY <1>1, AgentInvariant, PTL

\* The LLM is called for a significant move only, within its retry policy.
THEOREM LlmOnlyForMoves == Spec => []LlmOnlyWhenMoved
<1>1. AgentInv => LlmOnlyWhenMoved
  BY DEF AgentInv
<1>. QED
  BY <1>1, AgentInvariant, PTL

\* A run without an error sent a message exactly if the forecast moved
\* significantly, and the final AgentState says what happened.
THEOREM RunsEndTruthfully == Spec => []EndIsTruthful
<1>1. AgentInv => EndIsTruthful
  BY DEF AgentInv
<1>. QED
  BY <1>1, AgentInvariant, PTL

-----------------------------------------------------------------------------
\* Termination, as far as safety goes: a measure that every step brings down.

\* The measure at each node, spelled out.
LEMMA MeasureOfNode ==
    /\ node = "idle" => StepsLeft = 0
    /\ node = "END" => StepsLeft = 1
    /\ node = "acking" => StepsLeft = 2
    /\ node = "notify" => StepsLeft = 3
    /\ node = "narrate" => StepsLeft = 4 + (MaxAttempts - attempt)
    /\ node = "evaluate_significance" => StepsLeft = 5 + (MaxAttempts - 1)
    /\ node = "analyze_diff" => StepsLeft = 6 + (MaxAttempts - 1)
    /\ node = "fetch_forecast" =>
          StepsLeft = 7 + (MaxAttempts - attempt) + (MaxAttempts - 1)
  BY AgentAssumption DEF StepsLeft, ToEnd, RetriesLeft

\* However Open-Meteo, the LLM and Telegram fail, a run is over after two retry
\* loops (nodes.py) and one visit of each node of graph.py.
THEOREM RunsAreBounded == Spec => RunIsBounded
<1>1. AgentInv => StepsLeft \in 0..(2 * MaxAttempts + 5)
  <2> SUFFICES ASSUME AgentInv PROVE StepsLeft \in 0..(2 * MaxAttempts + 5)
    OBVIOUS
  <2>1. /\ node \in Nodes /\ attempt \in 1..MaxAttempts
        /\ MaxAttempts \in Nat /\ MaxAttempts >= 1
    BY AgentAssumption DEF AgentInv, TypeOK, FieldsTyped, CountersTyped
  <2> QED
    BY <2>1, MeasureOfNode DEF Nodes
<1>2. AgentInv /\ AgentInv' /\ [Next]_vars => [node # "idle" => StepsLeft' < StepsLeft]_vars
  <2> SUFFICES ASSUME AgentInv, AgentInv', Next, node # "idle"
               PROVE  StepsLeft' < StepsLeft
    OBVIOUS
  <2>0. /\ attempt \in 1..MaxAttempts /\ attempt' \in 1..MaxAttempts
        /\ MaxAttempts \in Nat /\ MaxAttempts >= 1
    BY AgentAssumption DEF AgentInv, TypeOK, CountersTyped
  <2>m. /\ node' = "idle" => StepsLeft' = 0
        /\ node' = "END" => StepsLeft' = 1
        /\ node' = "acking" => StepsLeft' = 2
        /\ node' = "notify" => StepsLeft' = 3
        /\ node' = "narrate" => StepsLeft' = 4 + (MaxAttempts - attempt')
        /\ node' = "evaluate_significance" => StepsLeft' = 5 + (MaxAttempts - 1)
        /\ node' = "analyze_diff" => StepsLeft' = 6 + (MaxAttempts - 1)
        /\ node' = "fetch_forecast" =>
              StepsLeft' = 7 + (MaxAttempts - attempt') + (MaxAttempts - 1)
    BY MeasureOfNode, AgentAssumption DEF StepsLeft, ToEnd, RetriesLeft
  <2>1. CASE FetchAttemptFails
    BY <2>0, <2>m, <2>1, MeasureOfNode DEF FetchAttemptFails
  <2>2. CASE FetchFails
    BY <2>0, <2>m, <2>2, MeasureOfNode DEF FetchFails, AfterFetch
  <2>3. CASE FetchSucceeds
    BY <2>0, <2>m, <2>3, MeasureOfNode DEF FetchSucceeds, AfterFetch
  <2>4. CASE AnalyzeDiff
    BY <2>0, <2>m, <2>4, MeasureOfNode DEF AnalyzeDiff
  <2>5. CASE EvaluateSignificance
    <3>1. attempt' = 1
      BY <2>5 DEF EvaluateSignificance, AgentInv, NodeInv
    <3> QED
      BY <2>0, <2>m, <2>5, <3>1, MeasureOfNode DEF EvaluateSignificance, AfterSignificance
  <2>6. CASE LlmAttemptFails
    BY <2>0, <2>m, <2>6, MeasureOfNode DEF LlmAttemptFails
  <2>7. CASE LlmAnswers \/ LlmFallback
    <3>1. node = "narrate" /\ node' = "notify"
      BY <2>7 DEF LlmAnswers, LlmFallback, Narrated
    <3> QED
      BY <2>0, <2>m, <3>1, MeasureOfNode
  <2>8. CASE NotifyRefuses \/ Acknowledge \/ NotifyFails
    <3>1. node \in {"notify", "acking"} /\ node' = "END"
      BY <2>8 DEF NotifyRefuses, Acknowledge, NotifyFails, Notified
    <3> QED
      BY <2>0, <2>m, <3>1, MeasureOfNode
  <2>9. CASE Deliver
    <3>1. node = "notify" /\ node' = "acking"
      BY <2>9 DEF Deliver
    <3> QED
      BY <2>0, <2>m, <3>1, MeasureOfNode
  <2>10. CASE Return
    BY <2>0, <2>m, <2>10, MeasureOfNode DEF Return
  <2> QED
    BY <2>1, <2>2, <2>3, <2>4, <2>5, <2>6, <2>7, <2>8, <2>9, <2>10 DEF Next, Step, RunAgent
<1>3. QED
  BY <1>1, <1>2, AgentInvariant, PTL DEF Spec, RunIsBounded

-----------------------------------------------------------------------------
\* Refinement: every step of the graph is a step of AgentRun or a stutter.

Current == IF Phase = "fetching" THEN None ELSE current_snapshot

\* The graph implements the contract of one run.
THEOREM GraphMeetsContract == Spec => GraphImplementsRun
<1>1. Init => Run!Init
  BY DEF Init, Run!Init, Phase, Verdict
<1>2. AgentInv /\ AgentInv' /\ [Next]_vars => [Run!Next]_(Run!vars)
  <2> SUFFICES ASSUME AgentInv, AgentInv', [Next]_vars
               PROVE  Run!Next \/ UNCHANGED <<Phase, previous_snapshot, Current, Verdict, accepted > 0>>
    BY DEF Run!vars, Current
  <2>1. CASE RunAgent
    <3>1. /\ node = "idle" /\ node' = "fetch_forecast"
          /\ previous_snapshot' \in Data \union {None}
          /\ current_snapshot = None /\ current_snapshot' = None /\ accepted = 0 /\ accepted' = 0
      BY <2>1 DEF RunAgent, fields, world, AgentInv, NodeInv, Quiet
    <3>. QED
      BY <3>1 DEF Run!Next, Run!Start, Phase, Verdict
  <2>2. CASE FetchAttemptFails
    <3>1. /\ node = "fetch_forecast"
          /\ UNCHANGED <<node, previous_snapshot, current_snapshot, error, significant, accepted>>
      BY <2>2 DEF FetchAttemptFails, input, fields, world
    <3>. QED
      BY <3>1 DEF Phase, Verdict, Current
  <2>3. CASE FetchFails
    <3>1. error' = "fetch" /\ error' # None
      BY <2>3, AgentAssumption DEF FetchFails, Errors
    <3>2. /\ node = "fetch_forecast" /\ node' = "END"
          /\ UNCHANGED <<previous_snapshot, current_snapshot, accepted>>
      BY <2>3, <3>1 DEF FetchFails, AfterFetch, input, world
    <3>3. current_snapshot' = None
      BY <3>2 DEF AgentInv, NodeInv
    <3>. QED
      BY <3>1, <3>2, <3>3 DEF Run!Next, Run!FetchFails, Phase, Verdict
  <2>4. CASE FetchSucceeds
    <3>1. /\ node = "fetch_forecast" /\ current_snapshot' \in Data /\ error' = None
          /\ UNCHANGED <<previous_snapshot, accepted>>
      BY <2>4 DEF FetchSucceeds, input, world
    <3>2. /\ previous_snapshot = None => node' = "END"
          /\ previous_snapshot # None => node' = "analyze_diff"
      BY <2>4, <3>1, AgentAssumption DEF FetchSucceeds, AfterFetch
    <3>3. CASE previous_snapshot = None
      BY <3>1, <3>2, <3>3 DEF Run!Next, Run!Decide, Phase, Verdict
    <3>4. CASE previous_snapshot # None
      BY <3>1, <3>2, <3>4 DEF Phase, Verdict, Current
    <3>. QED
      BY <3>3, <3>4
  <2>5. CASE AnalyzeDiff
    <3>1. /\ node = "analyze_diff" /\ node' = "evaluate_significance"
          /\ UNCHANGED <<previous_snapshot, accepted>>
      BY <2>5 DEF AnalyzeDiff, input, world
    <3>. QED
      BY <3>1 DEF Phase, Verdict, Current
  <2>6. CASE EvaluateSignificance
    <3>1. /\ node = "evaluate_significance"
          /\ significant' \in BOOLEAN
          /\ node' = IF significant' = TRUE THEN "narrate" ELSE "END"
          /\ UNCHANGED <<previous_snapshot, current_snapshot, accepted, error>>
      BY <2>6 DEF EvaluateSignificance, AfterSignificance, input, world
    <3>2. /\ previous_snapshot \in Data /\ current_snapshot \in Data /\ error = None
          /\ previous_snapshot # None
      BY <3>1, AgentAssumption DEF AgentInv, NodeInv, Quiet
    <3>3. significant' = TRUE <=> IsSignificant(previous_snapshot, current_snapshot)
      BY <2>6, <3>1 DEF EvaluateSignificance, IsSignificant, AgentInv, NodeInv
    <3>4. significant' = TRUE <=> Moved(previous_snapshot, current_snapshot)
      BY <3>2, <3>3, SignificantIsMoved
    <3>5. <<previous_snapshot, current_snapshot>> \in {m \in Data \X Data : Moved(m[1], m[2])}
            <=> significant' = TRUE
      BY <3>2, <3>4
    <3>6. CASE significant' = TRUE
      BY <3>1, <3>2, <3>5, <3>6 DEF Run!Next, Run!Decide, Phase, Verdict
    <3>7. CASE significant' = FALSE
      BY <3>1, <3>2, <3>5, <3>7 DEF Run!Next, Run!Decide, Phase, Verdict
    <3>. QED
      BY <3>1, <3>6, <3>7
  <2>7. CASE LlmAttemptFails \/ LlmAnswers \/ LlmFallback
    <3>1. /\ node = "narrate" /\ node' \in {"narrate", "notify"}
          /\ UNCHANGED <<previous_snapshot, current_snapshot, accepted>>
      BY <2>7 DEF LlmAttemptFails, LlmAnswers, LlmFallback, Narrated, input, fields
    <3>. QED
      BY <3>1 DEF Phase, Verdict, Current
  <2>8. CASE NotifyRefuses \/ NotifyFails
    <3>1. /\ node \in {"notify", "acking"} /\ node' = "END" /\ error' \in Errors
          /\ UNCHANGED <<previous_snapshot, current_snapshot, accepted>>
      BY <2>8 DEF NotifyRefuses, NotifyFails, Notified, input, Errors
    <3>2. error' # None
      BY <3>1, AgentAssumption
    <3>. QED
      BY <3>1, <3>2 DEF Run!Next, Run!NotifyFails, Phase, Verdict
  <2>9. CASE Deliver
    <3>1. /\ node = "notify" /\ node' = "acking" /\ accepted' = accepted + 1
          /\ UNCHANGED <<previous_snapshot, current_snapshot>>
      BY <2>9 DEF Deliver, input, fields
    <3>2. accepted = 0
      BY <3>1 DEF AgentInv, NodeInv
    <3>3. (accepted' > 0) = TRUE
      BY <3>1, <3>2
    <3>. QED
      BY <3>1, <3>3 DEF Run!Next, Run!Deliver, Phase, Verdict
  <2>10. CASE Acknowledge
    <3>1. /\ node = "acking" /\ node' = "END"
          /\ UNCHANGED <<previous_snapshot, current_snapshot, accepted, error, significant>>
      BY <2>10 DEF Acknowledge, Notified, input
    <3>2. /\ previous_snapshot # None /\ error = None /\ significant = TRUE
      BY <3>1, AgentAssumption DEF AgentInv, NodeInv
    <3>. QED
      BY <3>1, <3>2 DEF Run!Next, Run!Acknowledge, Phase, Verdict
  <2>11. CASE Return
    <3>1. /\ node' = "idle" /\ previous_snapshot' = None /\ current_snapshot' = None
          /\ accepted' = 0
      BY <2>11 DEF Return
    <3>. QED
      BY <3>1 DEF Run!Next, Run!End, Phase, Verdict
  <2>12. CASE UNCHANGED vars
    BY <2>12 DEF vars, input, fields, world, Phase, Verdict, Current
  <2>. QED
    BY <2>1, <2>2, <2>3, <2>4, <2>5, <2>6, <2>7, <2>8, <2>9, <2>10, <2>11, <2>12
       DEF Next, Step
<1>. QED
  BY <1>1, <1>2, AgentInvariant, PTL DEF Spec, GraphImplementsRun, Run!Spec
=============================================================================
