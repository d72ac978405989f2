------------------------ MODULE MCEmailVerification ------------------------
(***************************************************************************)
(* Instances of EmailVerification for TLC.                                 *)
(***************************************************************************)
EXTENDS EmailVerification

CONSTANTS a

\* The seeded users have one address.
SameAddress == [s \in Seeds |-> a]

Symmetric == Permutations(Requests)

===========================================================================
