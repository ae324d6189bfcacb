------------------------------- MODULE Polling -------------------------------
(***************************************************************************)
(* The polls of one profile, one after another: the agent graph between    *)
(* the reads and writes of the snapshot store in scheduler/jobs.py         *)
(* (_job_for_profile), with the DB-backed store, which survives a restart. *)
(* Module Scheduler has the interleavings with the other operations and    *)
(* the contract AgentRun for the run; here a poll is the whole graph, and  *)
(* the question is what the user knows after many of them.                 *)
(***************************************************************************)
EXTENDS AgentProperties

CONSTANT MaxQuiet   \* bound: polls in a row that tell the user nothing

ASSUME PollingAssumption == MaxQuiet \in Nat

VARIABLES
    store,    \* the newest live snapshot, or None
    \* History.
    told,     \* the forecast the user knows: of the last message, or the first
              \* one; Missing where a later snapshot did not report a variable
    quiet,    \* snapshots stored since told
    astray    \* a message was lost, or told and then not stored, since told

pollVars == <<vars, store, told, quiet, astray>>

PollInit == Init /\ store = None /\ told = None /\ quiet = 0 /\ astray = FALSE

\* The job runs the agent with the newest snapshot as the baseline.
Poll ==
    /\ quiet < MaxQuiet
    /\ RunAgent /\ previous_snapshot' = store
    /\ UNCHANGED <<store, told, quiet, astray>>

Inside ==
    /\ Step /\ node # "END"
    /\ UNCHANGED <<store, told, quiet, astray>>

\* What is left of told when a snapshot has gaps.
Masked(seen, snapshot) ==
    [num  |-> [v \in Numeric |-> IF snapshot.num[v] = Missing THEN Missing ELSE seen.num[v]],
     code |-> IF snapshot.code = Missing THEN Missing ELSE seen.code]

\* The run fetched a forecast: it is stored, whatever came of the run.
StoredQuietly ==
    /\ current_snapshot # None /\ previous_snapshot # None /\ accepted = 0
    /\ store' = current_snapshot
    /\ told' = Masked(told, current_snapshot)
    /\ quiet' = quiet + 1
    /\ astray' = (astray \/ error # None)

\* Mutation of StoredAndTold: a run with an error stores nothing.
StoredAndToldUnlessError ==
    /\ current_snapshot # None /\ (previous_snapshot = None \/ accepted = 1)
    /\ store' = IF error = None THEN current_snapshot ELSE store
    /\ told' = current_snapshot
    /\ quiet' = 0
    /\ astray' = FALSE

\* The same, when the user was sent a message or this is the first forecast.
StoredAndTold ==
    /\ current_snapshot # None /\ (previous_snapshot = None \/ accepted = 1)
    /\ store' = current_snapshot
    /\ told' = current_snapshot
    /\ quiet' = 0
    /\ astray' = FALSE

NothingStored ==
    /\ current_snapshot = None
    /\ UNCHANGED <<store, told, quiet, astray>>

\* run_agent returns to the job.
Finish == Return /\ (StoredQuietly \/ StoredAndTold \/ NothingStored)

\* The process stops, or the snapshot cannot be stored: the run leaves nothing
\* but the message it may have sent.
RunLost ==
    /\ node # "idle"
    /\ node' = "idle"
    /\ attempt' = 1
    /\ previous_snapshot' = None
    /\ current_snapshot' = None
    /\ changes' = None
    /\ significant' = None
    /\ triggering_variables' = None
    /\ alert' = None
    /\ error' = None
    /\ llmCalls' = 0
    /\ accepted' = 0
    /\ astray' = (astray \/ accepted = 1)
    /\ UNCHANGED <<store, told, quiet>>

PollNext == Poll \/ Inside \/ Finish \/ RunLost

PollSpec == PollInit /\ [][PollNext]_pollVars

-----------------------------------------------------------------------------
Distance(a, b) == Abs(a - b)

\* Every variable stays in its range.
PollTypeOK ==
    /\ TypeOK
    /\ store \in Data \union {None}
    /\ told \in Data \union {None}
    /\ store = None <=> told = None
    /\ quiet \in 0..MaxQuiet
    /\ astray \in BOOLEAN

\* A slow drift escapes the thresholds, which compare neighbouring snapshots
\* (jobs.py:193 stores every one, significance.py:244 looks at the difference),
\* but no further than this: what is stored differs from what the user was told
\* by less than one threshold for each silent poll, as long as no message was
\* lost and no value was missing in between.
SilentDriftBounded ==
    (store # None /\ ~astray) =>
        /\ \A v \in DOMAIN Threshold :
              (told.num[v] # Missing /\ store.num[v] # Missing) =>
                  Distance(told.num[v], store.num[v]) <= quiet * (Threshold[v] - 1)
        /\ (told.code # Missing /\ store.code # Missing) =>
              Distance(Rank[told.code], Rank[store.code]) <= quiet * (RankThreshold - 1)

\* Two messages in a row do not tell the same move: the second one is about a
\* move from the forecast that the first one told, even if its answer was lost
\* and the run ended with an error.  (Unless a run was lost with the process.)
NoRepeatedNews ==
    (accepted = 1 /\ ~astray /\ quiet = 0) => Moved(told, current_snapshot)

-----------------------------------------------------------------------------
\* Refinement: polls, retries and counts are hidden; a message is on its way from
\* Telegram's acceptance of it until the job stores its forecast.

Watch == INSTANCE Monitor WITH
    Snapshots  <- Data,
    NoSnapshot <- None,
    Crossing   <- {m \in Data \X Data : Moved(m[1], m[2])},
    Known      <- Masked,
    mail       <- IF accepted = 1 THEN current_snapshot ELSE None

\* Over all polls, a crossing forecast is told once or given up for good, and no
\* other one is told, wherever runs fail or the process stops (_job_for_profile,
\* run_agent, DBSnapshotStore).
PollingMeetsMonitor == Watch!Spec
==============================================================================
