------------------------------ MODULE MCLifetime ------------------------------
(***************************************************************************)
(* Instances of LifetimeProperties for TLC.                                *)
(***************************************************************************)
EXTENDS LifetimeProperties

World == {-6, 0, 6}
West == {-6}
=============================================================================
