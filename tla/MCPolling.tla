------------------------------ MODULE MCPolling ------------------------------
(***************************************************************************)
(* An instance of Polling for TLC: a variable and a code that can drift    *)
(* below their thresholds for two polls, jump, and go missing.             *)
(***************************************************************************)
EXTENDS Polling

MCNumeric   == {"precipitation"}
MCValues    == {0, 1, 2, 3}
MCThreshold == [v \in {"precipitation"} |-> 2]
MCCodes     == {0, 3, 45}
MCRank      == [c \in MCCodes |-> CASE c = 0 -> 0 [] c = 3 -> 1 [] c = 45 -> 2]
==============================================================================
