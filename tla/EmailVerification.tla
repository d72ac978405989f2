------------------------- MODULE EmailVerification -------------------------
(***************************************************************************)
(* The e-mail address of a user document, the token mailed to it and the   *)
(* flag verifiedEmail: registration, verify-user-email,                    *)
(* resend-email-verification, the other requests that write one of the     *)
(* three, and the event handlers of src/emails that mail the token.        *)
(*                                                                         *)
(* A user is named by the request that created it, or is one of Seeds; a   *)
(* token by the request, or the registration of the seed, that drew it.    *)
(* Of the identifiers a request looks up this module keeps the address.    *)
(***************************************************************************)
EXTENDS Naturals, Sequences, FiniteSets, SequencesExt

CONSTANTS
  Requests,
  Seeds,       \* users that have registered
  SeedAddress, \* and their addresses
  Addresses,
  None,        \* a field a document or a request does not have
  NoUser,
  Operations,  \* the kinds of request
  MaxFaults

Ids == Requests \cup Seeds
Fields == {"email", "emailToken", "verifiedEmail"}

Kinds == {"register", "create", "import", "resend", "verify", "update", "edit",
          "writeBack", "remove"}

ASSUME EmailAssumption ==
  /\ Requests \cap Seeds = {} /\ IsFiniteSet(Seeds)
  /\ SeedAddress \in [Seeds -> Addresses]
  /\ None \notin Addresses \cup Ids
  /\ Operations \subseteq Kinds
  /\ MaxFaults \in Nat

VARIABLES
  users,  \* the collection; by is a history: who gave a field its value
  req,    \* the requests; after is a history: who had answered when it began
  mails,  \* the mails that were posted, in this order
  lost,   \* the positions of those that do not arrive
  faults

vars == <<users, req, mails, lost, faults>>

---------------------------------------------------------------------------

Pending == {"insert", "check", "write", "emit"}
Answers == {"ok", "conflict", "forbidden", "notFound", "error"}

Document == [has : [Fields -> Addresses \cup Ids \cup BOOLEAN \cup {None}],
             by : [Fields -> Ids]]

Registered(u, address, token, verified) ==
  [has |-> [f \in Fields |-> CASE f = "email" -> address
                               [] f = "emailToken" -> token
                               [] OTHER -> verified],
   by |-> [f \in Fields |-> u]]

NewRequest ==
  [kind |-> "register", at |-> "idle", user |-> None, address |-> None,
   token |-> None, snap |-> NoUser, after |-> {}]

Live == {u \in Ids : users[u] # NoUser}
Running == {r \in Requests : req[r].at \in Pending}
Answered == {r \in Requests : req[r].at \in Answers}
Taken(address) ==
  address # None /\ \E u \in Live : users[u].has["email"] = address

\* user after request r has set the fields in the domain of new.
Assigned(user, r, new) ==
  [has |-> [f \in Fields |-> IF f \in DOMAIN new THEN new[f] ELSE user.has[f]],
   by  |-> [f \in Fields |-> IF f \in DOMAIN new /\ new[f] # user.has[f] THEN r
                             ELSE user.by[f]]]

\* findByIdAndUpdate: nothing happens to a document that is gone.
Set(r, new) ==
  users' = [users EXCEPT ![req[r].user] =
              IF @ = NoUser THEN @ ELSE Assigned(@, r, new)]

\* What is kept of a request: of one that was refused or has failed the answer,
\* of one that ended well all but what it had read.
Kept(request) ==
  IF request.at \in Pending THEN request
  ELSE IF request.at = "ok" THEN [request EXCEPT !.snap = NoUser]
  ELSE [NewRequest EXCEPT !.at = request.at, !.after = request.after]

Enter(r, entered) ==
  /\ req[r].at = "idle"
  /\ entered.kind \in Operations
  /\ req' = [req EXCEPT ![r] = Kept([entered EXCEPT !.after = Answered])]

Goto(r, at) == req' = [req EXCEPT ![r].at = at]
Answer(r, at) == req' = [req EXCEPT ![r] = Kept([@ EXCEPT !.at = at])]

\* Mutant of Posted: a document without an address is mailed too.
PostedAnyway(u, address, token) ==
  Append(mails, [user |-> u, to |-> address, token |-> token])

\* The handlers of users.created and users.update-email: a mail with the token
\* is posted to the address, without waiting for it.
Posted(u, address, token) ==
  IF address = None \/ token = None THEN mails
  ELSE Append(mails, [user |-> u, to |-> address, token |-> token])

---------------------------------------------------------------------------
(* Requests that create users. *)

\* Registration, the administrators' create and the customer event; the event
\* leaves the three fields of an existing user alone.
Add(r, kind, address) ==
  /\ kind \in {"register", "create", "import"}
  /\ Enter(r, [NewRequest EXCEPT !.kind = kind, !.user = r, !.address = address,
       !.at = IF ~ Taken(address) THEN "insert"
              ELSE IF kind = "import" THEN "ok" ELSE "conflict"])
  /\ UNCHANGED <<users, mails, lost, faults>>

\* Only a registration draws a token; a customer is taken for verified.
Insert(r) ==
  /\ req[r].at = "insert"
  /\ users' = [users EXCEPT ![r] =
       Registered(r, req[r].address,
                  IF req[r].kind = "register" THEN r ELSE None,
                  req[r].kind = "import")]
  /\ IF req[r].kind = "register"
       THEN req' = [req EXCEPT ![r].at = "emit", ![r].snap = users'[r]]
       ELSE Answer(r, "ok")
  /\ UNCHANGED <<mails, lost, faults>>

---------------------------------------------------------------------------
(* Requests about a user: each reads the document first. *)

Resend(r, u) ==
  /\ Enter(r, [NewRequest EXCEPT !.kind = "resend", !.user = u,
       !.at = IF u \in Live /\ users[u].has["email"] # None THEN "write"
              ELSE "notFound",
       !.snap = users[u]])
  /\ UNCHANGED <<users, mails, lost, faults>>

\* Mutant of Verify: the token is not compared.
VerifyAny(r, u, token) ==
  /\ Enter(r, [NewRequest EXCEPT !.kind = "verify", !.user = u, !.token = token,
       !.at = IF u \notin Live THEN "error"
              ELSE IF users[u].has["verifiedEmail"] THEN "conflict"
              ELSE "write"])
  /\ UNCHANGED <<users, mails, lost, faults>>

\* Of a user that is gone the flag cannot be read.  A document without a token
\* agrees with a body without one.
Verify(r, u, token) ==
  /\ Enter(r, [NewRequest EXCEPT !.kind = "verify", !.user = u, !.token = token,
       !.at = IF u \notin Live THEN "error"
              ELSE IF users[u].has["verifiedEmail"] THEN "conflict"
              ELSE IF users[u].has["emailToken"] # token THEN "forbidden"
              ELSE "write"])
  /\ UNCHANGED <<users, mails, lost, faults>>

\* update-user and the administrators' update, which looks an address up only
\* when it is a new one.
Change(r, kind, u, address) ==
  /\ kind \in {"update", "edit"}
  /\ Enter(r, [NewRequest EXCEPT !.kind = kind, !.user = u, !.address = address,
       !.at = IF u \in Live THEN "check"
              ELSE IF kind = "update" THEN "forbidden" ELSE "notFound",
       !.snap = users[u]])
  /\ UNCHANGED <<users, mails, lost, faults>>

\* The update of one's own data does not leave the user itself out.
Check(r) ==
  LET others == IF req[r].kind = "edit" THEN Live \ {req[r].user} ELSE Live
      known == req[r].kind = "edit" /\ req[r].address = req[r].snap.has["email"]
  IN /\ req[r].at = "check"
     /\ IF /\ req[r].address # None /\ ~ known
           /\ \E u \in others : users[u].has["email"] = req[r].address
          THEN Answer(r, "conflict")
          ELSE Goto(r, "write")
     /\ UNCHANGED <<users, mails, lost, faults>>

\* A password change or a reset by link, which hands back all it has read; and
\* the removal of the user.
Other(r, kind, u) ==
  /\ kind \in {"writeBack", "remove"}
  /\ kind = "writeBack" => u \in Live
  /\ Enter(r, [NewRequest EXCEPT !.kind = kind, !.user = u, !.at = "write",
                                 !.snap = users[u]])
  /\ UNCHANGED <<users, mails, lost, faults>>

---------------------------------------------------------------------------
(* The writes. *)

Writes(r, kind) == req[r].at = "write" /\ req[r].kind = kind

\* Mutant of StoreToken: the document that was read keeps its token.
StoreTokenOnly(r) ==
  /\ Writes(r, "resend")
  /\ Set(r, [f \in {"emailToken"} |-> r])
  /\ Goto(r, "emit")
  /\ UNCHANGED <<mails, lost, faults>>

\* The document that was read is given the token, for the mail.
StoreToken(r) ==
  /\ Writes(r, "resend")
  /\ Set(r, [f \in {"emailToken"} |-> r])
  /\ req' = [req EXCEPT ![r].at = "emit",
                        ![r].snap = Assigned(@, r, [f \in {"emailToken"} |-> r])]
  /\ UNCHANGED <<mails, lost, faults>>

\* The event is emitted with the document that was inserted or read.
Emit(r) ==
  /\ req[r].at = "emit"
  /\ mails' = Posted(req[r].user, req[r].snap.has["email"], req[r].snap.has["emailToken"])
  /\ Answer(r, "ok")
  /\ UNCHANGED <<users, lost, faults>>

SetVerified(r) ==
  /\ Writes(r, "verify")
  /\ Set(r, [f \in {"verifiedEmail"} |-> TRUE])
  /\ Answer(r, "ok")
  /\ UNCHANGED <<mails, lost, faults>>

SetAddress(r) ==
  /\ Writes(r, "edit")
  /\ Set(r, [f \in IF req[r].address = None THEN {} ELSE {"email"} |-> req[r].address])
  /\ Answer(r, "ok")
  /\ UNCHANGED <<mails, lost, faults>>

\* Mutant of WriteBack: an update takes the verification away.
WriteBackUnverified(r) ==
  /\ \/ Writes(r, "writeBack") /\ Set(r, req[r].snap.has)
     \/ Writes(r, "update")
        /\ Set(r, [req[r].snap.has EXCEPT !["email"] = req[r].address,
                                          !["verifiedEmail"] = FALSE])
  /\ Answer(r, "ok")
  /\ UNCHANGED <<mails, lost, faults>>

\* Mutant of WriteBack: an update draws a token for the new address.
WriteBackRedraws(r) ==
  /\ \/ Writes(r, "writeBack") /\ Set(r, req[r].snap.has)
     \/ /\ Writes(r, "update")
        /\ Set(r, [req[r].snap.has EXCEPT !["email"] = req[r].address,
                                          !["emailToken"] = r])
  /\ Answer(r, "ok")
  /\ UNCHANGED <<mails, lost, faults>>

\* The whole document, the update with the address it was sent; a field that
\* is not there is not written.
WriteBack(r) ==
  LET read == req[r].snap.has
      new == [f \in Fields |-> IF Writes(r, "update") /\ f = "email"
                                 THEN req[r].address ELSE read[f]]
  IN /\ Writes(r, "writeBack") \/ Writes(r, "update")
     /\ Set(r, [f \in {g \in Fields : new[g] # None} |-> new[f]])
     /\ Answer(r, "ok")
     /\ UNCHANGED <<mails, lost, faults>>

Delete(r) ==
  /\ Writes(r, "remove")
  /\ users' = [users EXCEPT ![req[r].user] = NoUser]
  /\ Answer(r, "ok")
  /\ UNCHANGED <<mails, lost, faults>>

\* MongoDB rejects a request's command; or the process ends, as it does when
\* the mail service rejects a mail, because nobody awaits it: requests of that
\* process get no answer, mails it was posting are lost.
Fail(aborted, undelivered) ==
  /\ faults < MaxFaults
  /\ aborted \cup undelivered # {}
  /\ faults' = faults + 1
  /\ req' = [r \in Requests |->
       IF r \in aborted THEN Kept([req[r] EXCEPT !.at = "error"]) ELSE req[r]]
  /\ lost' = lost \cup undelivered
  /\ UNCHANGED <<users, mails>>

---------------------------------------------------------------------------

Init ==
  /\ users = [u \in Ids |-> IF u \in Seeds THEN Registered(u, SeedAddress[u], u, FALSE)
                            ELSE NoUser]
  /\ req = [r \in Requests |-> NewRequest]
  /\ mails \in SetToSeqs({[user |-> u, to |-> SeedAddress[u], token |-> u] : u \in Seeds})
  /\ lost = {}
  /\ faults = 0

\* Someone presents a token from a mail, or none.
Known == {None} \cup {mails[i].token : i \in (DOMAIN mails) \ lost}

Arrive(r) ==
  \/ \E kind \in Kinds, address \in Addresses \cup {None} :
       \/ Add(r, kind, address)
       \/ \E u \in Ids : Change(r, kind, u, address)
  \/ \E u \in Ids :
       \/ Resend(r, u)
       \/ \E token \in Known : Verify(r, u, token)
       \/ \E kind \in Kinds : Other(r, kind, u)

Step(r) ==
  \/ Insert(r) \/ Check(r) \/ StoreToken(r) \/ Emit(r) \/ SetVerified(r)
  \/ SetAddress(r) \/ WriteBack(r) \/ Delete(r)

Next ==
  \/ \E r \in Requests : Arrive(r) \/ Step(r)
  \/ \E aborted \in SUBSET Running, undelivered \in SUBSET (DOMAIN mails \ lost) :
       Fail(aborted, undelivered)

Spec == Init /\ [][Next]_vars

---------------------------------------------------------------------------
(* Properties. *)

\* The variables have their types, and a mail carries a token drawn for the
\* user it is about.
TypeOK ==
  /\ users \in [Ids -> Document \cup {NoUser}]
  /\ req \in [Requests ->
       [kind : Kinds, at : {"idle"} \cup Pending \cup Answers,
        user : Ids \cup {None}, address : Addresses \cup {None},
        token : Ids \cup {None}, snap : Document \cup {NoUser},
        after : SUBSET Requests]]
  /\ \A i \in DOMAIN mails :
       /\ mails[i] \in [user : Ids, to : Addresses, token : Ids]
       /\ LET t == mails[i].token
          IN t = mails[i].user \/ (req[t].kind = "resend" /\ req[t].user = mails[i].user)
  /\ lost \subseteq DOMAIN mails
  /\ faults \in 0..MaxFaults

\* Request q had answered when request (or the seed) t began.
Precedes(q, t) == q \in Seeds \/ (t \in Requests /\ q \in req[t].after)

Overlap(q, t) ==
  q \in Requests /\ t \in Requests /\ q # t /\ q \notin req[t].after /\ t \notin req[q].after

AsksFor(r, field, value) ==
  CASE field = "email" -> req[r].kind \in {"update", "edit"} /\ value = req[r].address
    [] field = "emailToken" -> req[r].kind = "resend" /\ value = r
    [] OTHER -> req[r].kind = "verify" /\ value

\* An address, a token or the flag is given a value somebody asked for; a
\* request puts another one back (a replaced token, the flag of before the
\* verification) only when it overlapped who had set the present one.
OldValuesNeedOverlap ==
  [][\A u \in Live, f \in Fields :
       users'[u] # NoUser /\ users'[u].has[f] # users[u].has[f]
         => \E r \in Running :
              /\ req[r].user = u
              /\ AsksFor(r, f, users'[u].has[f]) \/ Overlap(r, users[u].by[f])]_vars

\* The address of a user who was verified by a token is the one that token was
\* mailed to, unless the address was given by a request that had not ended
\* when the one that drew the token began.
VerifiedAddressGotToken ==
  \A u \in Live :
    LET v == users[u].by["verifiedEmail"]
        giver == users[u].by["email"]
        token == req[v].token
    IN (users[u].has["verifiedEmail"] /\ v # u /\ token # None)
         => \E i \in DOMAIN mails :
              /\ mails[i].user = u /\ mails[i].token = token
              /\ giver = token \/ Precedes(giver, token)
                   => mails[i].to = users[u].has["email"]

\* Mail i is the last about user u.
LastAbout(u, i) ==
  mails[i].user = u /\ \A j \in DOMAIN mails : mails[j].user = u => j <= i

\* Request r has written a token of user u: a new one, or the one it had read.
WroteToken(r, u) ==
  req[r].at = "ok" /\ req[r].user = u /\ req[r].kind \in {"resend", "update", "writeBack"}

\* The token of the last mail about a user is the one that is stored, unless
\* another request that wrote a token overlapped the mail's, or who drew the one
\* that is stored has yet to post it, or failed.
LastMailWorks ==
  \A u \in Live : \A i \in DOMAIN mails :
    LastAbout(u, i) /\ mails[i].token # users[u].has["emailToken"]
      => \E r \in Requests :
           \/ WroteToken(r, u) /\ Overlap(r, mails[i].token)
           \/ r = users[u].has["emailToken"] /\ req[r].at \in {"emit", "error"}

\* The token of a user was posted to the user, unless it was drawn by a
\* registration without address, or by a request that has yet to post it, or
\* was cut off between the write and the mail.
TokensArePosted ==
  \A u \in Live :
    LET token == users[u].has["emailToken"]
    IN token # None
         => \/ \E i \in DOMAIN mails : mails[i].user = u /\ mails[i].token = token
            \/ /\ token \in Requests
               /\ \/ req[token].at \in {"emit", "error"}
                  \/ /\ req[token].at = "ok" /\ req[token].kind = "register"
                     /\ req[token].address = None

\* "Envia novo e-mail de verificacao quando o e-mail do usuario e alterado (se
\* tiver emailToken e email)": once a user with a token has changed the address,
\* a mail has been posted to it.
NewAddressIsMailed ==
  \A r \in Requests :
    LET user == users[req[r].user]
    IN req[r].kind = "update" /\ req[r].at = "ok" /\ req[r].user \in Live
         /\ user.by["email"] = r /\ user.has["emailToken"] # None
         => \E i \in DOMAIN mails : /\ mails[i].user = req[r].user
                                    /\ mails[i].to = req[r].address

============================================================================
