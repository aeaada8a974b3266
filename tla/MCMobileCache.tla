---------------------------- MODULE MCMobileCache ----------------------------
(* Small instances of MobileCache. *)
EXTENDS MobileCache
=============================================================================
