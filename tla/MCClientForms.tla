--------------------------- MODULE MCClientForms ---------------------------
(* Small instances of ClientForms: the ids of the areas are numbers. *)
EXTENDS ClientForms
=============================================================================
