---------------------------- MODULE MCIdentifiers ----------------------------
(* Small instances of Identifiers: ids, targets, phones and tags are model    *)
(* values.                                                                    *)
EXTENDS Identifiers
=============================================================================
