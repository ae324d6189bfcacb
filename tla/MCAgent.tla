-------------------------------- MODULE MCAgent --------------------------------
(***************************************************************************)
(* An instance of AgentProperties for TLC: a variable with a threshold, at *)
(* and below which it can move, one without, and the codes of four ranks.  *)
(***************************************************************************)
EXTENDS AgentProperties

MCNumeric   == {"precipitation", "humidity"}
MCValues    == {0, 1, 20}
MCThreshold == [v \in {"precipitation"} |-> 20]
MCCodes     == {0, 3, 45, 99}
MCRank      == [c \in MCCodes |-> CASE c = 0 -> 0 [] c = 3 -> 1 [] c = 45 -> 2 [] c = 99 -> 6]
=============================================================================
