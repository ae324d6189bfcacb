--------------------------- MODULE AgentProperties ---------------------------
(***************************************************************************)
(* What a run of the agent graph promises, whatever Open-Meteo, the LLM    *)
(* and Telegram answer; and that it implements the contract of AgentRun.   *)
(***************************************************************************)
EXTENDS AgentGraph

Nodes == {"idle", "fetch_forecast", "analyze_diff", "evaluate_significance",
          "narrate", "notify", "acking", "END"}

FieldsTyped ==
    /\ node \in Nodes
    /\ previous_snapshot \in Data \union {None}
    /\ current_snapshot \in Data \union {None}
    /\ changes = None \/ \E S \in SUBSET Numeric : changes \in [S -> Int]
    /\ significant \in BOOLEAN \union {None}
    /\ triggering_variables \in {None} \union SUBSET (Numeric \union {"weather_code"})
    /\ alert \in Alerts \union {None}
    /\ error \in Errors \union {None}

CountersTyped ==
    /\ attempt \in 1..MaxAttempts
    /\ llmCalls \in 0..MaxAttempts
    /\ accepted \in {0, 1}

\* Every variable stays in its range; in particular no retry loop makes more
\* attempts than its policy allows, and a run sends one message at most.
TypeOK == FieldsTyped /\ CountersTyped

-----------------------------------------------------------------------------
\* The move a user would call significant: a variable with a threshold that
\* both snapshots report moved by as much, or the severity of the weather
\* code, reported by both, changed by as much in either direction.
Moved(s, t) ==
    \/ \E v \in DOMAIN Threshold :
          /\ s.num[v] # Missing /\ t.num[v] # Missing
          /\ \/ t.num[v] >= s.num[v] + Threshold[v]
             \/ s.num[v] >= t.num[v] + Threshold[v]
    \/ /\ s.code # Missing /\ t.code # Missing
       /\ \/ Rank[t.code] >= Rank[s.code] + RankThreshold
          \/ Rank[s.code] >= Rank[t.code] + RankThreshold

HasMoved == /\ previous_snapshot # None
            /\ current_snapshot # None
            /\ Moved(previous_snapshot, current_snapshot)

\* No node runs before what it reads is there: the graph's edges, which look
\* at error and significant only, keep analyze_diff from a run without
\* baseline, and narrate and notify from a run without alert.
NodesHaveInputs ==
    /\ node \in {"analyze_diff", "evaluate_significance"}
          => previous_snapshot # None /\ current_snapshot # None
    /\ node = "evaluate_significance" => changes # None
    /\ node \in {"narrate", "notify", "acking"} => alert # None

\* The LLM is asked about a significant move and about nothing else
\* (docs/architecture.md: it is invoked only when there is something worth
\* communicating), and no more often than its retry policy allows.
LlmOnlyWhenMoved == llmCalls > 0 => HasMoved /\ llmCalls <= MaxAttempts

\* How a run ends: without an error, it sent one message if the forecast moved
\* significantly and none otherwise, and says so; no other run says so; a
\* significant move is lost only with an error that the run reports; and a run
\* that fetched a forecast reports an error only about a move.
EndIsTruthful ==
    node = "END" =>
        /\ error = None => /\ HasMoved <=> accepted = 1
                           /\ HasMoved <=> significant = TRUE
        /\ (alert # None /\ alert.sent) <=> (error = None /\ significant = TRUE)
        /\ accepted = 1 => error \in {None, "telegram"}
        /\ error # None => current_snapshot = None \/ HasMoved

\* Every run of the graph ends: the retries are bounded.
RunEnds == node # "idle" ~> node = "idle"

\* How far a node is from the end of the graph.
ToEnd == [idle |-> 0, END |-> 1, acking |-> 2, notify |-> 3, narrate |-> 4,
          evaluate_significance |-> 5, analyze_diff |-> 6, fetch_forecast |-> 7]

\* The attempts that node n may still repeat.
RetriesLeft(n) == IF node = n THEN MaxAttempts - attempt
                  ELSE IF ToEnd[n] < ToEnd[node] THEN MaxAttempts - 1 ELSE 0

StepsLeft == ToEnd[node] + RetriesLeft("fetch_forecast") + RetriesLeft("narrate")

\* How many steps a run may still take: never more than two retry loops and the
\* nodes once each, and fewer after every step, whatever fails.  No edge of the
\* graph leads back, and no node starts a retry loop again that it had left.
RunIsBounded ==
    /\ [](StepsLeft \in 0..(2 * MaxAttempts + 5))
    /\ [][node # "idle" => StepsLeft' < StepsLeft]_vars

-----------------------------------------------------------------------------
\* Refinement.  The decision is the step that leaves evaluate_significance, or
\* fetch_forecast on a first run.

Verdict ==
    IF node # "END" THEN "none"
    ELSE IF error # None THEN "error"
    ELSE IF previous_snapshot = None THEN "first"
    ELSE IF significant = TRUE THEN "alert" ELSE "quiet"

Phase ==
    IF node \in {"fetch_forecast", "analyze_diff", "evaluate_significance"} THEN "fetching"
    ELSE IF node \in {"narrate", "notify"} THEN "alerting"
    ELSE IF node = "END" THEN "done" ELSE node

Run == INSTANCE AgentRun WITH
    Snapshots  <- Data,
    NoSnapshot <- None,
    Crossing   <- {m \in Data \X Data : Moved(m[1], m[2])},
    phase      <- Phase,
    prev       <- previous_snapshot,
    cur        <- IF Phase = "fetching" THEN None ELSE current_snapshot,
    verdict    <- Verdict,
    accepted   <- accepted > 0

\* The graph implements the contract that the scheduler's jobs rely on.
GraphImplementsRun == Run!Spec

-----------------------------------------------------------------------------
\* docs/architecture.md:193: "An LLM failure never suppresses a real alert".
\* A blank answer does: notify refuses an alert whose narrative is empty.
LlmNeverSuppressesAlert == error # "no narrative"

\* routes.py:166: the summary of an alert "lists the variable names that crossed
\* their threshold", and telegram.py:115: "A pure weather_code rank trigger
\* produces an empty changes dict".  The changes are those of every variable
\* that both snapshots report, by however little they moved.
MessageNamesTriggers == node = "acking" => TriggerLabels = triggering_variables
=============================================================================
