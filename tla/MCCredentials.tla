--------------------------- MODULE MCCredentials ---------------------------
(***************************************************************************)
(* Instances of Credentials for TLC.                                       *)
(***************************************************************************)
EXTENDS Credentials, TLC

CONSTANTS k1

OneKey == [e \in Emails |-> k1]

Symmetric == Permutations(Requests) \cup Permutations(Writers)

===========================================================================
