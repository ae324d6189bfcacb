------------------------------- MODULE AgentRun -------------------------------
(***************************************************************************)
(* What one run of the agent promises its caller: it fetches, decides, and *)
(* hands at most one alert to Telegram, for a significant move and no      *)
(* other; and how it ended is what it reports.  The graph (AgentGraph)     *)
(* implements this contract, and it is all the scheduler's jobs            *)
(* (Scheduler) assume of a run.                                            *)
(***************************************************************************)
CONSTANTS
    Snapshots, NoSnapshot,
    Crossing           \* pairs <<baseline, current>> that cross a threshold

VARIABLES
    phase,     \* "idle", "fetching", "alerting", "acking" or "done"
    prev,      \* the baseline run_agent is called with
    cur,       \* current_snapshot
    verdict,   \* how the run ended
    accepted   \* Telegram accepted the alert of this run

vars == <<phase, prev, cur, verdict, accepted>>

Init ==
    /\ phase = "idle"
    /\ prev = NoSnapshot
    /\ cur = NoSnapshot
    /\ verdict = "none"
    /\ accepted = FALSE

\* run_agent is called, with a baseline unless this is a first run.
Start ==
    /\ phase = "idle"
    /\ phase' = "fetching"
    /\ prev' \in Snapshots \union {NoSnapshot}
    /\ UNCHANGED <<cur, verdict, accepted>>

\* The forecast is here and the decision is made.
Decide ==
    /\ phase = "fetching"
    /\ cur' \in Snapshots
    /\ \/ prev = NoSnapshot /\ phase' = "done" /\ verdict' = "first"
       \/ /\ prev # NoSnapshot /\ <<prev, cur'>> \notin Crossing
          /\ phase' = "done" /\ verdict' = "quiet"
       \/ /\ prev # NoSnapshot /\ <<prev, cur'>> \in Crossing
          /\ phase' = "alerting" /\ verdict' = verdict
    /\ UNCHANGED <<prev, accepted>>

\* No forecast: an error, and no snapshot.
FetchFails ==
    /\ phase = "fetching"
    /\ phase' = "done"
    /\ verdict' = "error"
    /\ UNCHANGED <<prev, cur, accepted>>

\* Telegram accepts the alert.
Deliver ==
    /\ phase = "alerting"
    /\ phase' = "acking"
    /\ accepted' = TRUE
    /\ UNCHANGED <<prev, cur, verdict>>

\* The run learns that it did.
Acknowledge ==
    /\ phase = "acking"
    /\ phase' = "done"
    /\ verdict' = "alert"
    /\ UNCHANGED <<prev, cur, accepted>>

\* The alert was not accepted, or the run did not learn that it was.
NotifyFails ==
    /\ phase \in {"alerting", "acking"}
    /\ phase' = "done"
    /\ verdict' = "error"
    /\ UNCHANGED <<prev, cur, accepted>>

\* The caller is done with the result, or the process cut the run short.
End ==
    /\ phase' = "idle"
    /\ prev' = NoSnapshot
    /\ cur' = NoSnapshot
    /\ verdict' = "none"
    /\ accepted' = FALSE

Next == Start \/ Decide \/ FetchFails \/ Deliver \/ Acknowledge \/ NotifyFails \/ End

Spec == Init /\ [][Next]_vars
=============================================================================
