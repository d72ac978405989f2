---------------------------- MODULE MCAccesses ----------------------------
(***************************************************************************)
(* Instances of Accesses for TLC.                                          *)
(***************************************************************************)
EXTENDS Accesses, TLC

CONSTANTS r1, r2, u1, p1, p2, o1, o2, x1, a, b, n1

Nobody == [i \in Scalars |-> None]

Member(user, email, phone, org) ==
  [has |-> [Nobody EXCEPT !["email"] = email, !["phone"] = phone, !["org"] = org,
                          !["role"] = "seller"],
   userId |-> user, meta |-> Unset, by |-> [p \in Paths |-> {}]]

\* Two participants of one organization, one by the email of the user and one
\* by the phone and as its profile; another organization is its own.
TwoParticipants == p1 :> Member(None, a, None, o1) @@ p2 :> Member(u1, None, a, o1)
TwoOrgs == o1 :> [name |-> n1, owner |-> None] @@ o2 :> [name |-> n1, owner |-> u1]
OneUser == u1 :> [i \in Identifiers |-> IF i = "document" THEN None ELSE a]

Carry(changes) == [has |-> changes @@ Nobody, meta |-> Unset]

\* Another email in the organization of the profile, or the phone of the user
\* in another organization.
SomeSents == {Carry("email" :> b @@ "org" :> o1), Carry("phone" :> a @@ "org" :> o2)}

===========================================================================
