----------------------------- MODULE MCScheduler -----------------------------
(***************************************************************************)
(* Small instances of SchedulerProperties for TLC.                         *)
(***************************************************************************)
EXTENDS SchedulerInvariants, TLC

CONSTANTS calm, storm

\* A significant move in either direction, none within a forecast.
MCSignificant == {<<calm, storm>>, <<storm, calm>>}

Threads == Permutations(Deleters)
=============================================================================
