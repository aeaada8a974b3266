------------------------ MODULE MCCheckoutSessions ------------------------
(* Small instances of CheckoutSessions for TLC. *)
EXTENDS CheckoutSessions, TLC

CONSTANTS ann, bob, forAnn, forBob, d1, d2, s1, s2, c1, c2

\* Two devices of one borrower-role user.
SharedUserOf == (d1 :> ann) @@ (d2 :> ann)

\* Two borrower-role users with a device each.
RivalUserOf == (d1 :> ann) @@ (d2 :> bob)

AnnProfile == ann :> forAnn

RivalProfiles == (ann :> forAnn) @@ (bob :> forBob)

IdSymmetry == Permutations({s1, s2}) \cup Permutations({c1, c2})

\* The devices are alike when one user holds both.
SharedSymmetry == IdSymmetry \cup Permutations({d1, d2})
=============================================================================
