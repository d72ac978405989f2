-------------------------- MODULE MCOtpRateLimit --------------------------
(***************************************************************************)
(* Instances of OtpRateLimit for TLC.                                      *)
(***************************************************************************)
EXTENDS OtpRateLimit, TLC

\* Calls and keys are interchangeable.
Symmetric == Permutations(Calls) \cup Permutations(Keys)

===========================================================================
