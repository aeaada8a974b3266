---------------------------- MODULE MCLiveViews ----------------------------
(* A user with two households. *)
EXTENDS LiveViews

CONSTANTS home, cabin
=============================================================================
