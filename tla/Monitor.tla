-------------------------------- MODULE Monitor --------------------------------
(***************************************************************************)
(* What the monitoring of one profile promises its user over all of its    *)
(* polls: a forecast that crosses a threshold, seen from the one before    *)
(* it, is told once or given up for good; no other one is told; and what   *)
(* is stored tells the user's knowledge from the next poll's baseline.     *)
(* Polling (the agent graph between reads and writes of the store)         *)
(* implements this.                                                        *)
(***************************************************************************)
CONSTANTS
    Snapshots, NoSnapshot,
    Crossing,       \* pairs <<baseline, current>> that cross a threshold
    Known(_, _)     \* what one forecast leaves of another one that is known

VARIABLES
    store,    \* the baseline of the next poll
    told,     \* what the user knows
    mail,     \* the forecast of a message that has gone out and is not stored
    astray    \* a move was not told, or a message not recorded, since told

vars == <<store, told, mail, astray>>

Init ==
    /\ store = NoSnapshot
    /\ told = NoSnapshot
    /\ mail = NoSnapshot
    /\ astray = FALSE

\* The first forecast, the one that the next ones are seen from.
First ==
    /\ store = NoSnapshot /\ mail = NoSnapshot
    /\ store' \in Snapshots
    /\ told' = store'
    /\ astray' = FALSE
    /\ mail' = mail

\* A forecast that crosses nothing becomes the baseline without a word.
Silent ==
    /\ store # NoSnapshot /\ mail = NoSnapshot
    /\ store' \in Snapshots
    /\ <<store, store'>> \notin Crossing
    /\ told' = Known(told, store')
    /\ UNCHANGED <<mail, astray>>

\* A message goes out, about a move from the stored baseline.
Send ==
    /\ store # NoSnapshot /\ mail = NoSnapshot
    /\ mail' \in Snapshots
    /\ <<store, mail'>> \in Crossing
    /\ UNCHANGED <<store, told, astray>>

\* What was sent is stored, heard of or not: the next message is about a move
\* from there.
Record ==
    /\ mail # NoSnapshot
    /\ store' = mail
    /\ told' = mail
    /\ astray' = FALSE
    /\ mail' = NoSnapshot

\* A move that nobody could be told of becomes the baseline all the same.
GiveUp ==
    /\ store # NoSnapshot /\ mail = NoSnapshot
    /\ store' \in Snapshots
    /\ <<store, store'>> \in Crossing
    /\ told' = Known(told, store')
    /\ astray' = TRUE
    /\ mail' = mail

\* The process ends, or the store fails, between the message and its record.
Forget ==
    /\ mail # NoSnapshot
    /\ mail' = NoSnapshot
    /\ astray' = TRUE
    /\ UNCHANGED <<store, told>>

Next == First \/ Silent \/ Send \/ Record \/ GiveUp \/ Forget

Spec == Init /\ [][Next]_vars
================================================================================
