-------------------------- MODULE MCApplianceUpdate --------------------------
(* Small instances of ApplianceUpdate for TLC: an update from the factory's *)
(* release to one with a migration.                                         *)
EXTENDS ApplianceUpdate, TLC

CONSTANTS controller, w1, console

MCHeadOf == (1 :> 1) @@ (2 :> 2)
=============================================================================
