---------------------------- MODULE MCMobileQueue ----------------------------
(* Small instances of MobileQueue: the drafts are numbers, the requests model *)
(* values that are all alike.                                                 *)
EXTENDS MobileQueue, TLC

RequestSymmetry == Permutations(Requests)
=============================================================================
