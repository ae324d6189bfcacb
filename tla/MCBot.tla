-------------------------------- MODULE MCBot --------------------------------
(***************************************************************************)
(* Small instances of BotProperties for TLC.                               *)
(***************************************************************************)
EXTENDS BotProperties

\* What a chat has answered when it is at each step.
Collected ==
    [IDLE |-> {}, ASK_LANGUAGE |-> {}, ASK_LOCATION |-> {"language"},
     ASK_NAME     |-> {"language", "location"},
     ASK_DATE     |-> {"language", "location", "name"},
     ASK_TIME     |-> {"language", "location", "name", "event_date"},
     ASK_CONTEXT  |-> Fields \ {"context", "duration_hours"},
     ASK_DURATION |-> Fields \ {"duration_hours"},
     CONFIRM      |-> Fields,
     OUTDATED     |-> {"language"}]

RowAt(s) == [step |-> s, talk |-> 0,
             data |-> [f \in Fields |-> IF f \in Collected[s] THEN "given" ELSE "missing"]]

\* An earlier process may have left any step.
MCEarlierRows == {RowAt(s) : s \in DOMAIN Collected}

\* A chat at its last question.
MCLateRows == {RowAt("ASK_DURATION")}
=============================================================================
