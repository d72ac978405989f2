-------------------------- MODULE MCParticipants --------------------------
(***************************************************************************)
(* Instances of Participants for TLC.                                      *)
(***************************************************************************)
EXTENDS Participants, TLC

CONSTANTS u1, p1, o1, o2, a, ten, twenty, n1, n2

Nobody == [i \in Scalars |-> None]

Config(base, deduct, account) ==
  [EmptyConfig EXCEPT !["baseCommission"] = base, !["deductAsaasFees"] = deduct,
                      !["account"] = account]
With(config) == [commissionConfig |-> config, note |-> Unset]

\* One user, a member of an organization it does not own.
TheParticipant ==
  p1 :> [has |-> [Nobody EXCEPT !["role"] = "seller", !["org"] = o1],
         userId |-> u1, meta |-> With([Config(ten, ten, ten) EXCEPT !["calculationBase"] = ten]),
         by |-> [p \in Paths |-> {}]]
TheOrgs == (o1 :> [name |-> n1, owner |-> None]) @@ (o2 :> [name |-> n2, owner |-> None])
TheUser == u1 :> [i \in Identifiers |-> IF i = "email" THEN a ELSE None]

Sending(o, meta) == [has |-> [Nobody EXCEPT !["org"] = o], meta |-> meta]

\* The base commission, one rule, one field and a null, or no metadata; in
\* the organization the participant is in, in none or in another one.
SomeSents ==
  {Sending(o1, With(Config(twenty, Unset, Unset))),
   Sending(None, With(Config(Unset, twenty, Null))), Sending(o2, Unset)}

Symmetric == Permutations(Requests)

===========================================================================
