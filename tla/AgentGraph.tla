------------------------------ MODULE AgentGraph ------------------------------
(***************************************************************************)
(* The LangGraph agent of skygent/agent: the nodes of nodes.py, the        *)
(* conditional edges of graph.py, the retries around Open-Meteo and the    *)
(* LLM, and the call to Telegram (integrations/telegram.py).  Runs follow  *)
(* one another; each starts from a fresh AgentState.                       *)
(*                                                                         *)
(* The channel is always "telegram": no API field sets another one.  Every *)
(* node but the first returns an error when the snapshot or the alert that *)
(* it reads is not there, and every edge looks at it; here such a node is  *)
(* not enabled instead, and NodesHaveInputs (AgentProperties) checks that  *)
(* no run gets there.                                                      *)
(***************************************************************************)
EXTENDS Forecast

CONSTANTS
    MaxAttempts,   \* stop_after_attempt(3), of both retry policies
    None           \* Python's None

Narratives == {"", "text", "fallback"}
Alerts     == [narrative : Narratives, sent : BOOLEAN]
Errors     == {"fetch", "no narrative", "telegram"}

ASSUME AgentAssumption ==
    /\ MaxAttempts \in Nat \ {0}
    /\ None \notin Data \union Alerts \union Errors \union BOOLEAN
    /\ \A s, t \in Data : Compare(s, t) # None

VARIABLES
    node,       \* the node that runs, "acking", "END", or "idle" between runs
    attempt,    \* the attempt of the node's retry loop
    \* AgentState.
    previous_snapshot, current_snapshot, changes, significant,
    triggering_variables, alert, error,
    \* The outside world, during this run.
    llmCalls,   \* requests made to the LLM
    accepted    \* messages Telegram accepted

input  == <<previous_snapshot>>
fields == <<current_snapshot, changes, significant, triggering_variables, alert, error>>
world  == <<llmCalls, accepted>>
vars   == <<node, attempt, input, fields, world>>

NewAlert == [narrative |-> "", sent |-> FALSE]

\* Mutation of AfterFetch: a first run is not special.
AfterFetchNoFirst == IF error' # None THEN "END" ELSE "analyze_diff"

\* Conditional edges, on the state the node leaves.
AfterFetch == IF error' # None \/ significant' = FALSE THEN "END" ELSE "analyze_diff"
AfterSignificance == IF significant' = TRUE THEN "narrate" ELSE "END"

\* "Triggered by" in the message of format_alert_message, and the
\* triggering_summary of the API: the variables of alert.changes.
TriggerLabels == IF DOMAIN changes = {} THEN {"weather_code"} ELSE DOMAIN changes

-----------------------------------------------------------------------------
Init ==
    /\ node = "idle"
    /\ attempt = 1
    /\ previous_snapshot = None
    /\ current_snapshot = None
    /\ changes = None
    /\ significant = None
    /\ triggering_variables = None
    /\ alert = None
    /\ error = None
    /\ llmCalls = 0
    /\ accepted = 0

\* run_agent: invoke the graph with an initial state.
RunAgent ==
    /\ node = "idle"
    /\ node' = "fetch_forecast"
    /\ previous_snapshot' \in Data \union {None}
    /\ UNCHANGED <<attempt, fields, world>>

\* Mutation of FetchAttemptFails: no stop condition.
FetchAttemptFailsForever ==
    /\ node = "fetch_forecast"
    /\ attempt' = (attempt % MaxAttempts) + 1
    /\ UNCHANGED <<node, input, fields, world>>

\* An OpenMeteoError that is retried.
FetchAttemptFails ==
    /\ node = "fetch_forecast"
    /\ attempt < MaxAttempts
    /\ attempt' = attempt + 1
    /\ UNCHANGED <<node, input, fields, world>>

\* The last OpenMeteoError, or any other exception.
FetchFails ==
    /\ node = "fetch_forecast"
    /\ error' = "fetch"
    /\ UNCHANGED significant
    /\ node' = AfterFetch
    /\ attempt' = 1
    /\ UNCHANGED <<input, current_snapshot, changes, triggering_variables, alert, world>>

FetchSucceeds ==
    /\ node = "fetch_forecast"
    /\ current_snapshot' \in Data
    /\ changes' = None
    /\ significant' = IF previous_snapshot = None THEN FALSE ELSE None
    /\ triggering_variables' = None
    /\ alert' = None
    /\ error' = None
    /\ node' = AfterFetch
    /\ attempt' = 1
    /\ UNCHANGED <<input, world>>

AnalyzeDiff ==
    /\ node = "analyze_diff"
    /\ previous_snapshot # None /\ current_snapshot # None
    /\ changes' = Compare(previous_snapshot, current_snapshot)
    /\ significant' = None
    /\ triggering_variables' = None
    /\ alert' = None
    /\ node' = "evaluate_significance"
    /\ UNCHANGED <<attempt, input, current_snapshot, error, world>>

EvaluateSignificance ==
    /\ node = "evaluate_significance"
    /\ previous_snapshot # None /\ current_snapshot # None
    /\ triggering_variables' = Triggers(changes, previous_snapshot, current_snapshot)
    /\ significant' = (triggering_variables' # {})
    /\ alert' = IF significant' THEN NewAlert ELSE None
    /\ node' = AfterSignificance
    /\ UNCHANGED <<attempt, input, current_snapshot, changes, error, world>>

\* Mutation of LlmAttemptFails: one attempt more than the policy allows.
LlmAttemptFailsOnceMore ==
    /\ node = "narrate"
    /\ attempt <= MaxAttempts
    /\ attempt' = attempt + 1
    /\ llmCalls' = llmCalls + 1
    /\ UNCHANGED <<node, input, fields, accepted>>

\* A call of the LLM raised, and is retried.
LlmAttemptFails ==
    /\ node = "narrate"
    /\ attempt < MaxAttempts
    /\ attempt' = attempt + 1
    /\ llmCalls' = llmCalls + 1
    /\ UNCHANGED <<node, input, fields, accepted>>

Narrated(text) ==
    /\ alert' = [alert EXCEPT !.narrative = text]
    /\ node' = "notify"
    /\ attempt' = 1
    /\ UNCHANGED <<input, current_snapshot, changes, significant,
                   triggering_variables, error, accepted>>

\* The LLM answers; what it answers may be blank.
LlmAnswers ==
    /\ node = "narrate" /\ alert # None
    /\ llmCalls' = llmCalls + 1
    /\ \E text \in {"", "text"} : Narrated(text)

\* The last call raised or the answer was not text (a call was made), or the
\* client could not be built (none was): the narrative is built from the alert.
LlmFallback ==
    /\ node = "narrate" /\ alert # None
    /\ \/ llmCalls' = llmCalls + 1
       \/ attempt = 1 /\ llmCalls' = llmCalls
    /\ Narrated("fallback")

\* notify ends the graph: nothing follows it.
Notified ==
    /\ node' = "END"
    /\ UNCHANGED <<attempt, input, current_snapshot, changes, significant,
                   triggering_variables, llmCalls>>

\* An alert without a narrative is not sent.
NotifyRefuses ==
    /\ node = "notify"
    /\ alert.narrative = ""
    /\ error' = "no narrative"
    /\ Notified
    /\ UNCHANGED <<alert, accepted>>

\* sendMessage is accepted, with the answer on its way.
Deliver ==
    /\ node = "notify"
    /\ alert.narrative # ""
    /\ accepted' = accepted + 1
    /\ node' = "acking"
    /\ UNCHANGED <<attempt, input, fields, llmCalls>>

Acknowledge ==
    /\ node = "acking"
    /\ alert' = [alert EXCEPT !.sent = TRUE]
    /\ Notified
    /\ UNCHANGED <<error, accepted>>

\* Mutation of NotifyFails: a lost answer makes the node try again.
NotifyRetries ==
    /\ node = "acking"
    /\ node' = "notify"
    /\ UNCHANGED <<attempt, input, fields, world>>

\* TelegramError: no credentials, a refusal, no connection; or an answer that
\* was lost, is not JSON or is not ok.
NotifyFails ==
    /\ \/ node = "notify" /\ alert.narrative # ""
       \/ node = "acking"
    /\ error' = "telegram"
    /\ Notified
    /\ UNCHANGED <<alert, accepted>>

\* The caller has the final state.  The next run starts from a fresh one.
Return ==
    /\ node = "END"
    /\ node' = "idle"
    /\ attempt' = 1
    /\ previous_snapshot' = None
    /\ current_snapshot' = None
    /\ changes' = None
    /\ significant' = None
    /\ triggering_variables' = None
    /\ alert' = None
    /\ error' = None
    /\ llmCalls' = 0
    /\ accepted' = 0

Step ==
    \/ FetchAttemptFails \/ FetchFails \/ FetchSucceeds
    \/ AnalyzeDiff \/ EvaluateSignificance
    \/ LlmAttemptFails \/ LlmAnswers \/ LlmFallback
    \/ NotifyRefuses \/ Deliver \/ Acknowledge \/ NotifyFails
    \/ Return

Next == RunAgent \/ Step

Spec == Init /\ [][Next]_vars

\* Every await of a run has a timeout and every wait between attempts is
\* bounded, so a run that can go on does.  Nobody has to call run_agent.
FairSpec == Spec /\ WF_vars(Step)
=============================================================================
