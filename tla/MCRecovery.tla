---------------------------- MODULE MCRecovery ----------------------------
(***************************************************************************)
(* Instances of Recovery for TLC.                                          *)
(***************************************************************************)
EXTENDS Recovery, TLC

CONSTANTS k1

\* Every address, and any document number behind it, shares one key.
OneKey == [e \in Emails |-> k1]

Symmetric == Permutations(Requests) \cup Permutations(Accounts)

===========================================================================
