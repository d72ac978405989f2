--------------------------- MODULE SecretExchange ---------------------------
(***************************************************************************)
(* What password recovery promises about its secrets, whatever requests    *)
(* overlap or fail.                                                        *)
(*                                                                         *)
(* An account accepts at most one secret, up to a deadline.  A secret that *)
(* is replaced never comes back.  A fresh one is accepted for at most Ttl; *)
(* whoever was given one for an account may exchange it for another with   *)
(* the same deadline, or for a new password, after which the account       *)
(* accepts none.                                                           *)
(*                                                                         *)
(* It does not promise that a secret is exchanged once only: a request may *)
(* be decided before the secret is replaced and take effect afterwards.    *)
(***************************************************************************)
EXTENDS Naturals

CONSTANTS Accounts, Secrets, Ttl, Original

VARIABLES
  now,
  accepts,   \* the secrets each account accepts, and until when
  password,  \* named by the secret that came with it
  undrawn,   \* the secrets nobody has drawn
  terms      \* of a secret that was or may be given: its account and deadline

secretVars == <<now, accepts, password, undrawn, terms>>

TypeOK ==
  /\ now \in Nat
  /\ accepts \in [Accounts -> SUBSET [secret : Secrets, until : Nat]]
  /\ password \in [Accounts -> Secrets \cup {Original}]
  /\ undrawn \subseteq Secrets
  /\ terms \in [Secrets -> SUBSET [account : Accounts, until : Nat]]

---------------------------------------------------------------------------

Draw(s, given) ==
  /\ s \in undrawn
  /\ undrawn' = undrawn \ {s}
  /\ terms' = [terms EXCEPT ![s] = given]

\* Account u accepts the fresh secret s, and nothing else, until the deadline.
Hold(u, s, until) ==
  /\ Draw(s, {[account |-> u, until |-> until]})
  /\ accepts' = [accepts EXCEPT ![u] = {[secret |-> s, until |-> until]}]
  /\ UNCHANGED <<now, password>>

Issue(u, s) == \E until \in 0 .. now + Ttl : Hold(u, s, until)

Exchange(u, s, t) == \E given \in terms[t] : given.account = u /\ Hold(u, s, given.until)

\* The new password is named by a secret that nobody is given.
SetPassword(u, s, t) ==
  /\ \E given \in terms[t] : given.account = u
  /\ Draw(s, {})
  /\ password' = [password EXCEPT ![u] = s]
  /\ accepts' = [accepts EXCEPT ![u] = {}]
  /\ UNCHANGED now

\* Nobody will be given s: the request was refused or has failed.
Lose(s) ==
  /\ undrawn' = undrawn \ {s}
  /\ terms' = [terms EXCEPT ![s] = {}]
  /\ UNCHANGED <<now, accepts, password>>

Tick ==
  /\ now' = now + 1
  /\ UNCHANGED <<accepts, password, undrawn, terms>>

---------------------------------------------------------------------------

Init ==
  /\ now = 0
  /\ accepts = [u \in Accounts |-> {}]
  /\ password = [u \in Accounts |-> Original]
  /\ undrawn = Secrets
  /\ terms = [s \in Secrets |-> {}]

Next ==
  \/ Tick
  \/ \E s \in Secrets :
       \/ Lose(s)
       \/ \E u \in Accounts :
            \/ Issue(u, s)
            \/ \E t \in Secrets : Exchange(u, s, t) \/ SetPassword(u, s, t)

Spec == Init /\ [][Next]_secretVars

=============================================================================
