---------------------------- MODULE MCAccounts ----------------------------
(***************************************************************************)
(* Instances of Accounts for TLC.                                          *)
(***************************************************************************)
EXTENDS Accounts

CONSTANTS s1, s2, a, b, c

Has(email, phone, customer, index) ==
  [f \in Attributes |-> CASE f = "email" -> email [] f = "phone" -> phone
                          [] f = "customerId" -> customer
                          [] f = "index" -> index [] OTHER -> None]

\* Two old users, without a number: a migration can stop between them, and the
\* first number is given by whoever comes first.
TwoSeeds == s1 :> Has(a, c, None, None) @@ s2 :> Has(b, b, None, None)

Given(email, document, phone, customer) ==
  [f \in Fields |-> CASE f = "email" -> email [] f = "document" -> document
                      [] f = "phone" -> phone [] OTHER -> customer]

\* An e-mail and a phone, the phone with a customer id, or nothing to tell who
\* it is; one phone number to fight over, which the second user has.
SomePayloads ==
  {Given(c, None, b, None), Given(None, None, b, a), Given(None, None, None, None)}

OnePayload == {Given(c, None, None, None)}

Symmetric == Permutations(Requests)

===========================================================================
