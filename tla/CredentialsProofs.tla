------------------------- MODULE CredentialsProofs -------------------------
(***************************************************************************)
(* What module Credentials keeps for every number of requests of either    *)
(* kind, accounts, links, faults and every value of the limits.            *)
(*                                                                         *)
(* Recovery alone never revives a secret (RecoveryProofs); here other      *)
(* requests write what they have read, so documents are judged by what may *)
(* have written them.                                                      *)
(***************************************************************************)
EXTENDS Credentials, RecoveryLimiterProofs

---------------------------------------------------------------------------
(* Types.  A password may be one that a writer has set. *)

AnyUser ==
  [password : Passwords, proof : Secrets, proofExpiresAt : Times, hash : Secrets,
   expiresAt : Times, attempts : Nat, blockedUntil : Times]

AnyRequest ==
  [kind : Kinds, email : Emails \cup {NoEmail},
   token : Requests \cup {Wrong}, at : {"idle"} \cup Pending \cup Answers,
   snap : AnyUser, expiresAt : Times, born : Nat]

WriterRecord ==
  [kind : {"change", "link", "update", "set"}, email : Accounts \cup {NoEmail},
   at : {"idle", "write", "ok", "forbidden"}, snap : AnyUser,
   hasFields : BOOLEAN, before : SUBSET Requests]

Addressed(x) ==
  x.at \in {"write", "ok"} => x.kind \in WriterKinds /\ x.email \in Accounts

RecoveryTypes ==
  /\ now \in Nat
  /\ users \in [Accounts -> AnyUser]
  /\ req \in [Requests -> AnyRequest]
  /\ \A r \in Requests : Routed(req[r])
  /\ delivered \subseteq Requests
  /\ spent \subseteq Requests

WriterTypes ==
  /\ writer \in [Writers -> WriterRecord]
  /\ \A w \in Writers : Addressed(writer[w])
  /\ stored \subseteq Accounts
  /\ links \subseteq [email : Accounts, until : Nat]

LEMMA KnownRequest ==
  ASSUME RecoveryTypes, NEW r \in Requests
  PROVE  /\ req[r] \in AnyRequest /\ Routed(req[r])
         /\ req[r].email \in Accounts => users[req[r].email] \in AnyUser
         /\ delivered \subseteq Requests /\ spent \subseteq Requests
         /\ now \in Nat
  BY DEF RecoveryTypes

LEMMA KnownWriter ==
  ASSUME WriterTypes, NEW w \in Writers
  PROVE  writer[w] \in WriterRecord /\ Addressed(writer[w])
  BY DEF WriterTypes

LEMMA NewUserAny == NewUser \in AnyUser
  BY RecoveryAssumption DEF NewUser, AnyUser, Times, Secrets, Passwords

LEMMA NewRequestAny == NewRequest \in AnyRequest
  BY NewUserAny, RecoveryAssumption DEF NewRequest, AnyRequest, Kinds, Times

\* Request r is next; nothing else is said of the other variables.
Becomes(r, next) == req' = [req EXCEPT ![r] = next]

LEMMA AnswerBecomes ==
  ASSUME RecoveryTypes, NEW r \in Requests, NEW at \in Answers, Answer(r, at),
         req[r].at # "idle"
  PROVE  \E next \in AnyRequest :
           /\ Becomes(r, next) /\ Routed(next) /\ next.at = at
           /\ next.email = req[r].email /\ next.token = req[r].token
           /\ next.snap = NewUser /\ next.born = req[r].born
           /\ next.kind = req[r].kind
<1> DEFINE next == [req[r] EXCEPT !.at = at, !.snap = NewUser]
<1>1. req[r] \in AnyRequest /\ Routed(req[r])
  BY KnownRequest
<1>2. next \in AnyRequest /\ Routed(next)
  BY <1>1, NewUserAny DEF AnyRequest, Answers, Routed
<1>3. Becomes(r, next)
  BY DEF Answer, Becomes
<1>4. /\ next.at = at /\ next.email = req[r].email /\ next.token = req[r].token
      /\ next.snap = NewUser /\ next.born = req[r].born /\ next.kind = req[r].kind
  BY <1>1 DEF AnyRequest
<1> HIDE DEF next
<1> QED
  BY <1>2, <1>3, <1>4

LEMMA GotoBecomes ==
  ASSUME RecoveryTypes, NEW r \in Requests, NEW at \in Pending, Goto(r, at),
         req[r].at # "idle",
         at \in {"store", "miss", "burn"} => req[r].email \in Accounts,
         at = "burn" => req[r].token \in Requests
  PROVE  \E next \in AnyRequest :
           /\ Becomes(r, next) /\ Routed(next) /\ next.at = at
           /\ next.email = req[r].email /\ next.token = req[r].token
           /\ next.snap = req[r].snap /\ next.born = req[r].born
           /\ next.kind = req[r].kind
<1> DEFINE next == [req[r] EXCEPT !.at = at]
<1>1. req[r] \in AnyRequest /\ Routed(req[r])
  BY KnownRequest
<1>2. next \in AnyRequest /\ Routed(next)
  BY <1>1 DEF AnyRequest, Pending, Routed
<1>3. Becomes(r, next)
  BY DEF Goto, Becomes
<1>4. /\ next.at = at /\ next.email = req[r].email /\ next.token = req[r].token
      /\ next.snap = req[r].snap /\ next.born = req[r].born /\ next.kind = req[r].kind
  BY <1>1 DEF AnyRequest
<1> HIDE DEF next
<1> QED
  BY <1>2, <1>3, <1>4

---------------------------------------------------------------------------
(* The invariant.  Sound, Ready and the rest are those of RecoveryProofs. *)

\* A writer that has ended wrote secret s into document u again: it had read s
\* before s was consumed.
Revived(u, s) ==
  \E w \in Writers : /\ writer[w].at = "ok"
                     /\ writer[w].email = u
                     /\ s \in SecretsIn(writer[w].snap)
                     /\ s \notin writer[w].before

\* What holds secrets, or has read some, is a document with recovery fields.
Fielded ==
  /\ \A u \in Accounts : SecretsIn(users[u]) # {} => u \in stored
  /\ \A r \in Requests :
       SecretsIn(req[r].snap) # {} \/ req[r].at = "burn" => req[r].email \in stored

\* What a writer has read was sound, and what had been consumed by then was
\* there because another writer had brought it back.
Carries(w) ==
  /\ Sound(req, writer[w].email, writer[w].snap)
  /\ SecretsIn(writer[w].snap) # {} => writer[w].hasFields
  /\ writer[w].hasFields => writer[w].email \in stored
  /\ \A s \in SecretsIn(writer[w].snap) \cap writer[w].before : Revived(writer[w].email, s)

WritersSound ==
  \A w \in Writers : /\ writer[w].at = "write" => Carries(w)
                     /\ writer[w].before \subseteq spent

CredentialsInv ==
  /\ RecoveryTypes /\ WriterTypes
  /\ DocumentsSound /\ RequestsSound /\ DeliveredAnswered
  /\ Fielded /\ WritersSound /\ RevivedByWriteBack

LEMMA AnySoundStays ==
  ASSUME NEW rq, NEW next, Stable(rq, next), NEW u, NEW user \in AnyUser,
         Sound(rq, u, user)
  PROVE  Sound(next, u, user)
  BY DEF Stable, Sound, Owned, AnyUser, Secrets

\* A step that leaves the writers alone, brings no consumed secret back and
\* keeps what recovery itself keeps.
LEMMA RecoveryKeepsInv ==
  ASSUME CredentialsInv, RecoveryTypes', Stable(req, req'),
         DocumentsSound', RequestsSound', DeliveredAnswered', Fielded',
         UNCHANGED <<writer, links>>, stored \subseteq stored', stored' \subseteq Accounts,
         spent \subseteq spent',
         \A u \in Accounts :
            SecretsIn(users'[u]) \cap spent' \subseteq SecretsIn(users[u]) \cap spent
  PROVE  CredentialsInv'
<1>1. WriterTypes'
  BY DEF CredentialsInv, WriterTypes
<1>2. ASSUME NEW u, NEW s, Revived(u, s)
      PROVE  Revived(u, s)'
  BY <1>2 DEF Revived
<1>3. ASSUME NEW w \in Writers
      PROVE  (writer'[w].at = "write" => Carries(w)') /\ writer'[w].before \subseteq spent'
  <2>1. writer[w] \in WriterRecord
    BY KnownWriter DEF CredentialsInv
  <2>2. writer[w].before \subseteq spent /\ (writer[w].at = "write" => Carries(w))
    BY DEF CredentialsInv, WritersSound
  <2>3. ASSUME writer[w].at = "write"
        PROVE  Sound(req', writer[w].email, writer[w].snap)
    BY <2>1, <2>2, <2>3, AnySoundStays DEF Carries, WriterRecord
  <2>4. ASSUME writer[w].at = "write",
               NEW s \in SecretsIn(writer[w].snap) \cap writer[w].before
        PROVE  Revived(writer[w].email, s)'
    BY <1>2, <2>2, <2>4 DEF Carries
  <2>5. QED
    BY <2>2, <2>3, <2>4 DEF Carries
<1>4. ASSUME NEW u \in Accounts, NEW s \in SecretsIn(users'[u]) \cap spent'
      PROVE  Revived(u, s)'
  <2>1. Revived(u, s)
    BY <1>4 DEF CredentialsInv, RevivedByWriteBack, Revived
  <2>2. QED
    BY <1>2, <2>1
<1>5. RevivedByWriteBack'
  BY <1>4 DEF RevivedByWriteBack, Revived
<1>6. QED
  BY <1>1, <1>3, <1>5 DEF CredentialsInv, WritersSound

---------------------------------------------------------------------------
(* A request that has started goes on. *)

\* Request r becomes next, which changes nothing that documents rely on.
Advances(r, next) ==
  /\ next \in AnyRequest /\ Routed(next) /\ Becomes(r, next)
  /\ req[r].at \in Pending /\ next.at # "idle"
  /\ next.email = req[r].email /\ next.token = req[r].token
  /\ next.snap \in {req[r].snap, NewUser}
  /\ req[r].at \notin Unwritten => next.at \notin Unwritten /\ next.born = req[r].born
  /\ now' = now /\ UNCHANGED <<writer, links>>
  /\ stored \subseteq stored' /\ stored' \subseteq Accounts

\* What next is about to write.
Prepared(next) ==
  /\ next.at = "store" => next.expiresAt = next.born + CodeTtl /\ next.born <= now
  /\ next.at = "burn" =>
       /\ next.email \in stored
       /\ req[next.token].email = next.email
       /\ next.kind = "validate" => next.snap.expiresAt = req[next.token].born + CodeTtl

LEMMA AdvanceMoves ==
  ASSUME CredentialsInv, NEW r \in Requests, NEW next, Advances(r, next)
  PROVE  /\ req'[r] = next /\ Moves(r, req, req') /\ Stable(req, req')
         /\ r \notin delivered
         /\ req' \in [Requests -> AnyRequest] /\ \A q \in Requests : Routed(req'[q])
<1>1. req \in [Requests -> AnyRequest] /\ \A q \in Requests : Routed(req[q])
  BY DEF CredentialsInv, RecoveryTypes
<1>2. req'[r] = next /\ \A q \in Requests \ {r} : req'[q] = req[q]
  BY <1>1 DEF Advances, Becomes
<1>3. Moves(r, req, req')
  BY <1>2 DEF Moves, Advances, Answers, Pending
<1>4. r \notin delivered
  BY DEF Advances, Pending, Answers, CredentialsInv, DeliveredAnswered
<1>5. req' \in [Requests -> AnyRequest] /\ \A q \in Requests : Routed(req'[q])
  BY <1>1, <1>2 DEF Advances, Becomes
<1>6. QED
  BY <1>2, <1>3, <1>4, <1>5, MovesStable

LEMMA AdvanceKeepsRequests ==
  ASSUME CredentialsInv, NEW r \in Requests, NEW next, Advances(r, next), Prepared(next),
         delivered \subseteq delivered', delivered' \subseteq delivered \cup {r},
         r \in delivered' => next.at \in Answers,
         spent' \subseteq delivered
  PROVE  /\ RequestsSound' /\ DeliveredAnswered'
         /\ \A q \in Requests :
              SecretsIn(req'[q].snap) # {} \/ req'[q].at = "burn"
                => req'[q].email \in stored'
<1>1. /\ req'[r] = next /\ \A q \in Requests \ {r} : req'[q] = req[q]
      /\ Stable(req, req') /\ r \notin delivered
  BY AdvanceMoves DEF Moves
<1>2. DeliveredAnswered'
  <2>1. ASSUME NEW s \in delivered'
        PROVE  req'[s].at \in Answers
    BY <1>1, KnownRequest DEF CredentialsInv, DeliveredAnswered
  <2>2. QED
    BY <2>1 DEF DeliveredAnswered
<1>3. ASSUME NEW q \in Requests
      PROVE  Sound(req', req'[q].email, req'[q].snap)
  <2>1. req[q].snap \in AnyUser /\ Sound(req, req[q].email, req[q].snap)
    BY KnownRequest DEF CredentialsInv, RequestsSound, AnyRequest
  <2>2. Sound(req', req[q].email, req[q].snap)
    BY <1>1, <2>1, AnySoundStays
  <2>3. Sound(req', req[q].email, NewUser)
    BY NewUserSound
  <2>4. QED
    BY <1>1, <2>2, <2>3 DEF Advances
<1>4. ASSUME NEW q \in Requests
      PROVE  req'[q].token \in delivered' \cup {Wrong}
  BY <1>1 DEF Advances, CredentialsInv, RequestsSound
<1>5. ASSUME NEW q \in Requests, req[q].at = "burn"
      PROVE  req[q].token \in Requests /\ req[q].token # r
  <2>1. req[q].token \in Requests /\ req[q].token \in delivered
    BY <1>5, KnownRequest, RecoveryAssumption
    DEF CredentialsInv, RequestsSound, Routed
  <2>2. QED
    BY <1>1, <2>1
<1>6. ASSUME NEW q \in Requests \ {r}
      PROVE  Ready(req', q, now')
  <2>1. req'[q] = req[q] /\ Ready(req, q, now) /\ now' = now
    BY <1>1 DEF Advances, CredentialsInv, RequestsSound
  <2>2. CASE req[q].at = "burn"
    BY <1>1, <1>5, <2>1, <2>2 DEF Ready
  <2>3. CASE req[q].at # "burn"
    BY <2>1, <2>3 DEF Ready
  <2>4. QED
    BY <2>2, <2>3
<1>7. Ready(req', r, now')
  <2>1. CASE next.at = "burn"
    <3>1. next.token \in Requests /\ next.token \in delivered
      BY <2>1, KnownRequest, RecoveryAssumption
      DEF Advances, CredentialsInv, RequestsSound, Routed
    <3>2. req'[next.token] = req[next.token]
      BY <1>1, <3>1
    <3>3. QED
      BY <1>1, <2>1, <3>2 DEF Prepared, Ready
  <2>2. CASE next.at # "burn"
    BY <1>1, <2>2 DEF Prepared, Ready, Advances
  <2>3. QED
    BY <2>1, <2>2
<1>8. ASSUME NEW q \in Requests, SecretsIn(req'[q].snap) # {} \/ req'[q].at = "burn"
      PROVE  req'[q].email \in stored'
  <2>1. SecretsIn(NewUser) = {}
    BY DEF SecretsIn, NewUser
  <2>2. CASE q = r
    BY <1>1, <1>8, <2>1, <2>2 DEF Advances, Prepared, CredentialsInv, Fielded
  <2>3. CASE q # r
    BY <1>1, <1>8, <2>3 DEF Advances, CredentialsInv, Fielded
  <2>4. QED
    BY <2>2, <2>3
<1>9. QED
  BY <1>2, <1>3, <1>4, <1>6, <1>7, <1>8 DEF RequestsSound

\* A step that writes no document.
LEMMA QuietAdvance ==
  ASSUME CredentialsInv, NEW r \in Requests, NEW next, Advances(r, next), Prepared(next),
         UNCHANGED <<users, spent>>,
         delivered \subseteq delivered', delivered' \subseteq delivered \cup {r},
         r \in delivered' => next.at \in Answers
  PROVE  CredentialsInv'
<1>1. /\ req' \in [Requests -> AnyRequest] /\ \A q \in Requests : Routed(req'[q])
      /\ Stable(req, req')
  BY AdvanceMoves
<1>2. spent' \subseteq delivered
  BY DEF CredentialsInv, DeliveredAnswered
<1>3. RequestsSound' /\ DeliveredAnswered'
      /\ \A q \in Requests :
           SecretsIn(req'[q].snap) # {} \/ req'[q].at = "burn" => req'[q].email \in stored'
  BY <1>2, AdvanceKeepsRequests
<1>4. RecoveryTypes'
  BY <1>1 DEF CredentialsInv, RecoveryTypes, Advances
<1>5. ASSUME NEW u \in Accounts
      PROVE  Sound(req', u, users[u])
  BY <1>1, AnySoundStays DEF CredentialsInv, DocumentsSound, RecoveryTypes
<1>6. DocumentsSound'
  BY <1>5 DEF DocumentsSound
<1>7. Fielded'
  BY <1>3 DEF Fielded, Advances, CredentialsInv
<1>8. QED
  BY <1>1, <1>3, <1>4, <1>6, <1>7, RecoveryKeepsInv DEF Advances

\* A step that writes the request's document: a secret in it is the request's
\* own, or was there already.
LEMMA WriteAdvance ==
  ASSUME CredentialsInv, NEW r \in Requests, NEW next, Advances(r, next), Prepared(next),
         req[r].email \in Accounts, NEW user \in AnyUser,
         users' = [users EXCEPT ![req[r].email] = user],
         Sound(req', req[r].email, user),
         SecretsIn(user) # {} => req[r].email \in stored',
         delivered' = delivered, spent \subseteq spent', spent' \subseteq delivered,
         \A s \in SecretsIn(user) \ {r} : s \in SecretsIn(users[req[r].email]),
         \A s \in spent' \ spent :
            /\ s \notin SecretsIn(user)
            /\ \A u \in Accounts \ {req[r].email} : s \notin SecretsIn(users[u])
  PROVE  CredentialsInv'
<1>1. /\ req' \in [Requests -> AnyRequest] /\ \A q \in Requests : Routed(req'[q])
      /\ Stable(req, req') /\ r \notin delivered
  BY AdvanceMoves
<1>2. RequestsSound' /\ DeliveredAnswered'
      /\ \A q \in Requests :
           SecretsIn(req'[q].snap) # {} \/ req'[q].at = "burn" => req'[q].email \in stored'
  BY <1>1, AdvanceKeepsRequests
<1>3. users \in [Accounts -> AnyUser] /\ delivered \subseteq Requests /\ now \in Nat
  BY DEF CredentialsInv, RecoveryTypes
<1>4. RecoveryTypes'
  BY <1>1, <1>3 DEF CredentialsInv, RecoveryTypes, Advances
<1>5. ASSUME NEW u \in Accounts
      PROVE  Sound(req', u, users'[u])
  <2>1. Sound(req', u, users[u])
    BY <1>1, <1>3, AnySoundStays DEF CredentialsInv, DocumentsSound
  <2>2. QED
    BY <1>3, <2>1
<1>6. DocumentsSound'
  BY <1>5 DEF DocumentsSound
<1>7. ASSUME NEW u \in Accounts, SecretsIn(users'[u]) # {}
      PROVE  u \in stored'
  BY <1>3, <1>7 DEF CredentialsInv, Fielded, Advances
<1>8. Fielded'
  BY <1>2, <1>7 DEF Fielded
<1>9. ASSUME NEW u \in Accounts, NEW s \in SecretsIn(users'[u]) \cap spent'
      PROVE  s \in SecretsIn(users[u]) \cap spent
  <2>1. CASE u = req[r].email
    <3>1. users'[u] = user
      BY <1>3, <2>1
    <3>2. s # r
      BY <1>1, <1>9
    <3>3. QED
      BY <1>9, <2>1, <3>1, <3>2
  <2>2. CASE u # req[r].email
    <3>1. users'[u] = users[u]
      BY <1>3, <2>2
    <3>2. QED
      BY <1>9, <2>2, <3>1
  <2>3. QED
    BY <2>1, <2>2
<1>10. QED
  BY <1>1, <1>2, <1>4, <1>6, <1>8, <1>9, RecoveryKeepsInv DEF Advances

---------------------------------------------------------------------------
(* The steps of recovery. *)

\* What a step of recovery leaves alone.
Beside ==
  /\ UNCHANGED <<writer, links>>
  /\ stored' = stored \cup {u \in Accounts : users'[u].hash # NoSecret}

LEMMA AnswerAdvances ==
  ASSUME CredentialsInv, NEW r \in Requests, NEW at \in Answers, req[r].at \in Pending,
         Answer(r, at), now' = now, Beside,
         UNCHANGED <<users, spent>>,
         delivered \subseteq delivered', delivered' \subseteq delivered \cup {r}
  PROVE  CredentialsInv'
<1>1. PICK next \in AnyRequest :
        /\ Becomes(r, next) /\ Routed(next) /\ next.at = at
        /\ next.email = req[r].email /\ next.token = req[r].token
        /\ next.snap = NewUser /\ next.born = req[r].born
        /\ next.kind = req[r].kind
  BY AnswerBecomes DEF CredentialsInv, Pending
<1>2. at \notin Unwritten /\ at # "idle"
  BY DEF Answers, Unwritten
<1>3. stored \subseteq stored' /\ stored' \subseteq Accounts
  BY DEF Beside, CredentialsInv, WriterTypes
<1>4. Advances(r, next)
  BY <1>1, <1>2, <1>3 DEF Advances, Beside
<1>5. Prepared(next)
  BY <1>1 DEF Prepared, Answers
<1>6. QED
  BY <1>1, <1>4, <1>5, QuietAdvance

\* An accepted token was written for the request's account, whose document has
\* recovery fields.
LEMMA AcceptedAny ==
  ASSUME CredentialsInv, NEW r \in Requests, Valid(r)
  PROVE  /\ req[r].token \in delivered /\ req[r].token \in Requests
         /\ now < req[req[r].token].born + CodeTtl
         /\ req[req[r].token].email = req[r].email
         /\ req[r].email \in stored
         /\ req[r].kind # "change"
              => req[r].snap.expiresAt = req[req[r].token].born + CodeTtl
<1>1. /\ req[r].token \in Requests \cup {Wrong}
      /\ req[r].snap.hash \in Secrets /\ req[r].snap.proof \in Secrets
  BY KnownRequest DEF CredentialsInv, AnyRequest, AnyUser
<1>2. /\ req[r].token \in SecretsIn(req[r].snap)
      /\ req[r].token \in Requests /\ req[r].token # NoSecret
  BY <1>1, RecoveryAssumption
  DEF Valid, ChangeAllowed, CodeValid, Verifies, Secrets, SecretsIn
<1>3. req[r].token \in delivered /\ Sound(req, req[r].email, req[r].snap)
  BY <1>2, RecoveryAssumption DEF CredentialsInv, RequestsSound
<1>4. req[r].email \in stored
  BY <1>2 DEF CredentialsInv, Fielded
<1>5. CASE CodeValid(req[r].snap, req[r].token)
  BY <1>2, <1>3, <1>4, <1>5 DEF CodeValid, InTime, Verifies, Sound, Owned
<1>6. CASE /\ req[r].kind = "change"
           /\ InTime(req[r].snap.proofExpiresAt)
           /\ Verifies(req[r].token, req[r].snap.proof)
  BY <1>2, <1>3, <1>4, <1>6 DEF InTime, Verifies, Sound, Owned
<1>7. QED
  BY <1>5, <1>6 DEF Valid, ChangeAllowed

LEMMA GotoAdvances ==
  ASSUME CredentialsInv, NEW r \in Requests, NEW at \in Pending \ {"store"},
         req[r].at \in Pending, req[r].at \in Unwritten \/ at \notin Unwritten,
         at = "miss" => req[r].email \in Accounts,
         at = "burn" => req[r].email \in Accounts /\ Valid(r),
         Goto(r, at), now' = now, Beside, UNCHANGED <<users, delivered, spent>>
  PROVE  CredentialsInv'
<1>1. at = "burn" => req[r].token \in Requests
  BY AcceptedAny
<1>2. PICK next \in AnyRequest :
        /\ Becomes(r, next) /\ Routed(next) /\ next.at = at
        /\ next.email = req[r].email /\ next.token = req[r].token
        /\ next.snap = req[r].snap /\ next.born = req[r].born
        /\ next.kind = req[r].kind
  BY <1>1, GotoBecomes DEF CredentialsInv, Pending
<1>3. stored \subseteq stored' /\ stored' \subseteq Accounts
  BY DEF Beside, CredentialsInv, WriterTypes
<1>4. Advances(r, next)
  BY <1>2, <1>3 DEF Advances, Beside, Pending
<1>5. Prepared(next)
  BY <1>2, AcceptedAny DEF Prepared
<1>6. r \notin delivered
  BY <1>4, AdvanceMoves
<1>7. QED
  BY <1>2, <1>4, <1>5, <1>6, QuietAdvance

LEMMA DrawCodeKeepsInv ==
  ASSUME CredentialsInv, NEW r \in Requests, DrawCode(r), Beside
  PROVE  CredentialsInv'
<1> DEFINE next == [req[r] EXCEPT !.at = "store", !.snap = NewUser,
                                  !.expiresAt = now + CodeTtl, !.born = now]
<1>1. /\ req[r].at = "admit" /\ req[r].email \in Accounts /\ Becomes(r, next)
      /\ now' = now /\ UNCHANGED <<users, delivered, spent>>
  BY DEF DrawCode, Admitted, limiterVars, Becomes
<1>2. req[r] \in AnyRequest /\ now \in Nat /\ now + CodeTtl \in Times
  BY KnownRequest, RecoveryAssumption DEF CredentialsInv, Times
<1>3. /\ next \in AnyRequest
      /\ next.at = "store" /\ next.email = req[r].email /\ next.token = req[r].token
      /\ next.snap = NewUser /\ next.born = now /\ next.expiresAt = now + CodeTtl
  BY <1>2, NewUserAny DEF AnyRequest, Pending
<1> HIDE DEF next
<1>4. Routed(next)
  BY <1>1, <1>3 DEF Routed, Emails
<1>5. stored \subseteq stored' /\ stored' \subseteq Accounts
  BY DEF Beside, CredentialsInv, WriterTypes
<1>6. Advances(r, next)
  BY <1>1, <1>3, <1>4, <1>5 DEF Advances, Beside, Pending, Unwritten
<1>7. Prepared(next)
  BY <1>2, <1>3 DEF Prepared
<1>8. r \notin delivered
  BY <1>6, AdvanceMoves
<1>9. QED
  BY <1>1, <1>6, <1>7, <1>8, QuietAdvance

\* A request that writes the document goes on.
LEMMA WriterGoes ==
  ASSUME CredentialsInv, NEW r \in Requests, NEW at \in {"mail", "register", "clear"},
         req[r].at \in {"store", "miss", "burn"}, Goto(r, at), now' = now, Beside
  PROVE  \E next : /\ Advances(r, next) /\ Prepared(next)
                   /\ next.at = at /\ next.born = req[r].born
                   /\ next.email = req[r].email
<1>1. PICK next \in AnyRequest :
        /\ Becomes(r, next) /\ Routed(next) /\ next.at = at
        /\ next.email = req[r].email /\ next.token = req[r].token
        /\ next.snap = req[r].snap /\ next.born = req[r].born
        /\ next.kind = req[r].kind
  BY GotoBecomes DEF CredentialsInv, Pending
<1>2. stored \subseteq stored' /\ stored' \subseteq Accounts
  BY DEF Beside, CredentialsInv, WriterTypes
<1>3. Advances(r, next)
  BY <1>1, <1>2 DEF Advances, Beside, Pending, Unwritten
<1>4. Prepared(next)
  BY <1>1 DEF Prepared
<1>5. QED
  BY <1>1, <1>3, <1>4

LEMMA StoreCodeKeepsInv ==
  ASSUME CredentialsInv, NEW r \in Requests, StoreCode(r), Beside
  PROVE  CredentialsInv'
<1> DEFINE user == [users[req[r].email] EXCEPT
                      !.proof = NoSecret, !.proofExpiresAt = Never,
                      !.hash = r, !.expiresAt = req[r].expiresAt,
                      !.attempts = 0, !.blockedUntil = Never]
<1>1. /\ req[r].at = "store" /\ Goto(r, "mail")
      /\ users' = [users EXCEPT ![req[r].email] = user]
      /\ now' = now /\ delivered' = delivered /\ spent' = spent
  BY DEF StoreCode, limiterVars
<1>2. /\ req[r].email \in Accounts /\ users[req[r].email] \in AnyUser
      /\ req[r].expiresAt = req[r].born + CodeTtl /\ req[r].expiresAt \in Times
      /\ users \in [Accounts -> AnyUser]
  BY <1>1, KnownRequest
  DEF CredentialsInv, Routed, AnyRequest, RequestsSound, Ready, RecoveryTypes
<1>3. /\ user \in AnyUser /\ user.hash = r /\ user.expiresAt = req[r].expiresAt
      /\ user.proof = NoSecret
  BY <1>2 DEF AnyUser, Secrets, Times
<1> HIDE DEF user
<1>4. PICK next : /\ Advances(r, next) /\ Prepared(next)
                  /\ next.at = "mail" /\ next.born = req[r].born
                  /\ next.email = req[r].email
  BY <1>1, WriterGoes
<1>5. req'[r] = next /\ r \notin delivered
  BY <1>4, AdvanceMoves
<1>6. Sound(req', req[r].email, user)
  BY <1>2, <1>3, <1>4, <1>5 DEF Sound, Owned, Unwritten
<1>7. SecretsIn(user) \subseteq {r}
  BY <1>3 DEF SecretsIn
<1>8. req[r].email \in stored'
  BY <1>1, <1>2, <1>3, RecoveryAssumption DEF Beside
<1>9. spent' \subseteq delivered /\ spent \subseteq spent'
  BY <1>1 DEF CredentialsInv, DeliveredAnswered
<1>10. spent' \ spent = {}
  BY <1>1
<1>11. QED
  BY <1>1, <1>2, <1>3, <1>4, <1>6, <1>7, <1>8, <1>9, <1>10, WriteAdvance

LEMMA MissKeepsInv ==
  ASSUME CredentialsInv, NEW r \in Requests, Miss(r), Beside
  PROVE  CredentialsInv'
<1> DEFINE attempts == req[r].snap.attempts + 1
           old == users[req[r].email]
           user == [old EXCEPT !.attempts = attempts,
                      !.blockedUntil = IF attempts >= MaxAttempts
                                         THEN now + BlockFor ELSE old.blockedUntil]
<1>1. /\ req[r].at = "miss" /\ Goto(r, "register")
      /\ users' = [users EXCEPT ![req[r].email] = user]
      /\ now' = now /\ delivered' = delivered /\ spent' = spent
  BY ClockAtBegin DEF Miss
<1>2. /\ req[r].email \in Accounts /\ old \in AnyUser
      /\ attempts \in Nat /\ now + BlockFor \in Nat
  BY <1>1, KnownRequest, RecoveryAssumption
  DEF CredentialsInv, Routed, AnyRequest, AnyUser
<1>3. /\ user \in AnyUser
      /\ user.hash = old.hash /\ user.expiresAt = old.expiresAt
      /\ user.proof = old.proof /\ user.proofExpiresAt = old.proofExpiresAt
  BY <1>2 DEF AnyUser, Times
<1> HIDE DEF user
<1>4. PICK next : /\ Advances(r, next) /\ Prepared(next)
                  /\ next.at = "register" /\ next.born = req[r].born
                  /\ next.email = req[r].email
  BY <1>1, WriterGoes
<1>5. Sound(req', req[r].email, old)
  BY <1>2, <1>4, AdvanceMoves, AnySoundStays DEF CredentialsInv, DocumentsSound
<1>6. Sound(req', req[r].email, user) /\ SecretsIn(user) = SecretsIn(old)
  BY <1>3, <1>5 DEF Sound, SecretsIn
<1>7. SecretsIn(user) # {} => req[r].email \in stored'
  BY <1>2, <1>6 DEF Beside, CredentialsInv, Fielded
<1>8. spent' \subseteq delivered /\ spent \subseteq spent' /\ spent' \ spent = {}
  BY <1>1 DEF CredentialsInv, DeliveredAnswered
<1>9. QED
  BY <1>1, <1>2, <1>3, <1>4, <1>6, <1>7, <1>8, WriteAdvance

\* What an accepted request consumes only its own document can hold.
LEMMA ConsumedAny ==
  ASSUME CredentialsInv, NEW r \in Requests, req[r].at = "burn"
  PROVE  /\ req[r].token \in delivered /\ req[r].token \in Requests
         /\ req[r].email \in Accounts /\ req[r].email \in stored
         /\ \A u \in Accounts \ {req[r].email} : req[r].token \notin SecretsIn(users[u])
<1>1. /\ req[r].token \in delivered /\ req[r].token \in Requests
      /\ req[r].email \in Accounts /\ req[r].email \in stored
  BY KnownRequest, RecoveryAssumption
  DEF CredentialsInv, RequestsSound, Routed, Fielded
<1>2. req[req[r].token].email = req[r].email /\ req[r].token # NoSecret
  BY <1>1, RecoveryAssumption DEF CredentialsInv, RequestsSound, Ready
<1>3. QED
  BY <1>1, <1>2 DEF CredentialsInv, DocumentsSound, Sound, Owned, SecretsIn

LEMMA ChangePasswordKeepsInv ==
  ASSUME CredentialsInv, NEW r \in Requests, ChangePassword(r), Beside
  PROVE  CredentialsInv'
<1> DEFINE user == [NewUser EXCEPT !.password = r]
<1>1. /\ req[r].at = "burn" /\ Goto(r, "clear")
      /\ users' = [users EXCEPT ![req[r].email] = user]
      /\ now' = now /\ delivered' = delivered /\ spent' = spent \cup {req[r].token}
  BY ClockAtBegin DEF ChangePassword
<1>2. user \in AnyUser /\ user.hash = NoSecret /\ user.proof = NoSecret
  BY NewUserAny DEF AnyUser, NewUser, Passwords
<1> HIDE DEF user
<1>3. PICK next : /\ Advances(r, next) /\ Prepared(next)
                  /\ next.at = "clear" /\ next.born = req[r].born
                  /\ next.email = req[r].email
  BY <1>1, WriterGoes
<1>4. Sound(req', req[r].email, user) /\ SecretsIn(user) = {}
  BY <1>2 DEF Sound, Owned, SecretsIn
<1>5. spent' \subseteq delivered /\ spent \subseteq spent' /\ spent' \ spent \subseteq {req[r].token}
  BY <1>1, ConsumedAny DEF CredentialsInv, DeliveredAnswered
<1>6. \A s \in spent' \ spent :
         /\ s \notin SecretsIn(user)
         /\ \A u \in Accounts \ {req[r].email} : s \notin SecretsIn(users[u])
  BY <1>1, <1>4, <1>5, ConsumedAny
<1>7. req[r].email \in Accounts /\ SecretsIn(user) = {}
  BY <1>1, <1>4, ConsumedAny
<1>8. QED
  BY <1>1, <1>2, <1>3, <1>4, <1>5, <1>6, <1>7, WriteAdvance

LEMMA BurnCodeKeepsInv ==
  ASSUME CredentialsInv, NEW r \in Requests, BurnCode(r), Beside
  PROVE  CredentialsInv'
<1> DEFINE user == [users[req[r].email] EXCEPT
                      !.proof = r, !.proofExpiresAt = req[r].snap.expiresAt,
                      !.hash = NoSecret, !.expiresAt = req[r].snap.expiresAt,
                      !.attempts = 0, !.blockedUntil = Never]
           next == [req[r] EXCEPT !.at = "clear", !.born = req[req[r].token].born]
<1>1. /\ req[r].at = "burn" /\ req[r].kind = "validate"
      /\ Becomes(r, next)
      /\ users' = [users EXCEPT ![req[r].email] = user]
      /\ now' = now /\ delivered' = delivered /\ spent' = spent \cup {req[r].token}
  BY ClockAtBegin DEF BurnCode, Becomes
<1>2. /\ req[r] \in AnyRequest /\ Routed(req[r]) /\ req[req[r].token] \in AnyRequest
      /\ req[r].email \in Accounts /\ users[req[r].email] \in AnyUser
  BY <1>1, KnownRequest, ConsumedAny DEF CredentialsInv
<1>3. /\ next \in AnyRequest /\ Routed(next)
      /\ next.at = "clear" /\ next.email = req[r].email /\ next.token = req[r].token
      /\ next.snap = req[r].snap /\ next.born = req[req[r].token].born
  BY <1>1, <1>2 DEF AnyRequest, Pending, Routed
<1>4. /\ user \in AnyUser /\ user.hash = NoSecret /\ user.proof = r
      /\ user.proofExpiresAt = req[r].snap.expiresAt
  BY <1>2 DEF AnyUser, AnyRequest, Secrets, Times
<1> HIDE DEF user, next
<1>5. stored \subseteq stored' /\ stored' \subseteq Accounts
  BY DEF Beside, CredentialsInv, WriterTypes
<1>6. Advances(r, next) /\ Prepared(next)
  BY <1>1, <1>3, <1>5 DEF Advances, Prepared, Beside, Pending, Unwritten
<1>7. req'[r] = next /\ r \notin delivered
  BY <1>6, AdvanceMoves
<1>8. req[r].snap.expiresAt = next.born + CodeTtl
  BY <1>1, <1>3 DEF CredentialsInv, RequestsSound, Ready
<1>9. Sound(req', req[r].email, user) /\ SecretsIn(user) \subseteq {r}
  BY <1>3, <1>4, <1>7, <1>8 DEF Sound, Owned, Unwritten, SecretsIn
<1>10. spent' \subseteq delivered /\ spent \subseteq spent' /\ spent' \ spent \subseteq {req[r].token}
  BY <1>1, ConsumedAny DEF CredentialsInv, DeliveredAnswered
<1>11. req[r].email \in stored' /\ req[r].token # r
  BY <1>1, <1>5, <1>7, ConsumedAny
<1>12. \A s \in spent' \ spent :
          /\ s \notin SecretsIn(user)
          /\ \A u \in Accounts \ {req[r].email} : s \notin SecretsIn(users[u])
  BY <1>1, <1>9, <1>10, <1>11, ConsumedAny
<1>13. QED
  BY <1>1, <1>2, <1>4, <1>6, <1>9, <1>10, <1>11, <1>12, WriteAdvance

LEMMA ServiceKeepsInv ==
  ASSUME CredentialsInv, NEW r \in Requests, ServiceStep(r), Beside
  PROVE  CredentialsInv'
<1> USE DEF Answers, Pending
<1>1. CASE Refused(r)
  BY <1>1, AnswerAdvances DEF Refused, limiterVars
<1>2. CASE GenerateUnknown(r)
  BY <1>2, AnswerAdvances DEF GenerateUnknown, Admitted, limiterVars
<1>3. CASE DrawCode(r)
  BY <1>3, DrawCodeKeepsInv
<1>4. CASE StoreCode(r)
  BY <1>4, StoreCodeKeepsInv
<1>5. CASE Mail(r)
  <2>1. CASE Answer(r, "ok") /\ delivered' = delivered \cup {r}
    BY <1>5, <2>1, AnswerAdvances DEF Mail, limiterVars
  <2>2. CASE Answer(r, "mailFailed") /\ delivered' \in {delivered, delivered \cup {r}}
    BY <1>5, <2>2, AnswerAdvances DEF Mail, limiterVars
  <2>3. QED
    BY <1>5, <2>1, <2>2 DEF Mail
<1>6. CASE TokenForUnknown(r)
  BY <1>6, GotoAdvances, ClockAtBegin DEF TokenForUnknown, Admitted, Unwritten
<1>7. CASE Judge(r)
  BY <1>7, GotoAdvances, AnswerAdvances DEF Judge, Admitted, Unwritten, limiterVars
<1>8. CASE Miss(r)
  BY <1>8, MissKeepsInv
<1>9. CASE BurnCode(r)
  BY <1>9, BurnCodeKeepsInv
<1>10. CASE ChangePassword(r)
  BY <1>10, ChangePasswordKeepsInv
<1>11. CASE FailureRegistered(r)
  BY <1>11, AnswerAdvances DEF FailureRegistered, limiterVars
<1>12. CASE FailuresCleared(r)
  BY <1>12, AnswerAdvances DEF FailuresCleared, limiterVars
<1>13. QED
  BY <1>1, <1>2, <1>3, <1>4, <1>5, <1>6, <1>7, <1>8, <1>9, <1>10, <1>11, <1>12
  DEF ServiceStep

LEMMA ArriveKeepsInv ==
  ASSUME CredentialsInv, NEW r \in Requests, Arrive(r), Beside
  PROVE  CredentialsInv'
<1>1. PICK kind \in Kinds, email \in Emails, token \in delivered \cup {Wrong} :
        Start(r, kind, email, token)
  BY DEF Arrive
<1> DEFINE next == [NewRequest EXCEPT !.kind = kind, !.email = email,
                      !.token = token, !.at = "admit",
                      !.snap = IF email \in Accounts THEN users[email] ELSE NewUser]
<1>2. /\ req[r].at = "idle" /\ Becomes(r, next)
      /\ UNCHANGED <<users, delivered, spent>> /\ now' = now
  BY <1>1, ClockAtBegin DEF Start, Becomes
<1>3. /\ users \in [Accounts -> AnyUser] /\ delivered \subseteq Requests
      /\ req \in [Requests -> AnyRequest] /\ \A q \in Requests : Routed(req[q])
  BY DEF CredentialsInv, RecoveryTypes
<1>4. /\ next \in AnyRequest /\ Routed(next)
      /\ next.at = "admit" /\ next.email = email /\ next.token = token
      /\ next.snap = IF email \in Accounts THEN users[email] ELSE NewUser
  BY <1>3, NewUserAny, NewRequestAny DEF AnyRequest, Pending, Routed
<1> HIDE DEF next
<1>5. req'[r] = next /\ \A q \in Requests \ {r} : req'[q] = req[q]
  BY <1>2, <1>3 DEF Becomes
<1>6. Stable(req, req')
  BY <1>2, <1>5 DEF Stable, Unwritten
<1>7. r \notin delivered
  BY <1>2 DEF CredentialsInv, DeliveredAnswered, Answers
<1>8. DeliveredAnswered'
  BY <1>2, <1>3, <1>5, <1>7 DEF CredentialsInv, DeliveredAnswered
<1>9. stored \subseteq stored' /\ stored' \subseteq Accounts
  BY DEF Beside, CredentialsInv, WriterTypes
<1>10. /\ Sound(req, email, next.snap)
       /\ SecretsIn(next.snap) # {} => email \in stored
  BY <1>4, NewUserSound
  DEF CredentialsInv, DocumentsSound, Fielded, SecretsIn, NewUser
<1>11. ASSUME NEW q \in Requests
       PROVE  /\ Sound(req', req'[q].email, req'[q].snap)
              /\ req'[q].token \in delivered' \cup {Wrong}
              /\ Ready(req', q, now')
              /\ SecretsIn(req'[q].snap) # {} \/ req'[q].at = "burn"
                   => req'[q].email \in stored'
  <2>1. CASE q = r
    <3>1. Sound(req', email, next.snap)
      BY <1>4, <1>6, <1>10, AnySoundStays DEF AnyRequest
    <3>2. QED
      BY <1>2, <1>4, <1>5, <1>9, <1>10, <2>1, <3>1 DEF Ready
  <2>2. CASE q # r
    <3>1. /\ Sound(req, req[q].email, req[q].snap) /\ Ready(req, q, now)
          /\ req[q].token \in delivered \cup {Wrong} /\ req[q].snap \in AnyUser
          /\ SecretsIn(req[q].snap) # {} \/ req[q].at = "burn" => req[q].email \in stored
      BY <1>3 DEF CredentialsInv, RequestsSound, AnyRequest, Fielded
    <3>2. Sound(req', req'[q].email, req'[q].snap)
      BY <1>5, <1>6, <2>2, <3>1, AnySoundStays
    <3>3. CASE req[q].at = "burn"
      <4>1. req[q].token \in Requests /\ req[q].token # r
        BY <1>7, <3>3, ConsumedAny
      <4>2. QED
        BY <1>2, <1>5, <1>9, <2>2, <3>1, <3>2, <3>3, <4>1 DEF Ready
    <3>4. CASE req[q].at # "burn"
      BY <1>2, <1>5, <1>9, <2>2, <3>1, <3>2, <3>4 DEF Ready
    <3>5. QED
      BY <3>3, <3>4
  <2>3. QED
    BY <2>1, <2>2
<1>12. RequestsSound'
  BY <1>11 DEF RequestsSound
<1>13. ASSUME NEW u \in Accounts
       PROVE  Sound(req', u, users[u])
  BY <1>3, <1>6, AnySoundStays DEF CredentialsInv, DocumentsSound
<1>14. DocumentsSound'
  BY <1>2, <1>13 DEF DocumentsSound
<1>15. Fielded'
  BY <1>2, <1>9, <1>11 DEF CredentialsInv, Fielded
<1>16. RecoveryTypes'
  <2>1. req' \in [Requests -> AnyRequest] /\ \A q \in Requests : Routed(req'[q])
    BY <1>2, <1>3, <1>4, <1>5 DEF Becomes
  <2>2. QED
    BY <1>2, <2>1 DEF CredentialsInv, RecoveryTypes
<1>17. QED
  BY <1>2, <1>6, <1>8, <1>9, <1>12, <1>14, <1>15, <1>16, RecoveryKeepsInv DEF Beside

LEMMA RecoveryStepKeepsInv ==
  ASSUME CredentialsInv, RecoveryStep
  PROVE  CredentialsInv'
<1>1. Beside /\ Next
  BY DEF RecoveryStep, Beside
<1>2. ASSUME UNCHANGED recoveryVars, now' \in {now, now + 1}
      PROVE  CredentialsInv'
  <2>1. ASSUME NEW r \in Requests
        PROVE  Ready(req', r, now')
    <3>1. Ready(req, r, now) /\ req[r].born \in Nat /\ now \in Nat
      BY KnownRequest DEF CredentialsInv, RequestsSound, AnyRequest
    <3>2. QED
      BY <1>2, <3>1 DEF Ready, recoveryVars
  <2>2. RequestsSound' /\ DocumentsSound' /\ DeliveredAnswered' /\ Stable(req, req')
    BY <1>2, <2>1
    DEF recoveryVars, CredentialsInv, RequestsSound, DocumentsSound, DeliveredAnswered, Stable
  <2>3. RecoveryTypes'
    BY <1>2 DEF recoveryVars, CredentialsInv, RecoveryTypes
  <2>4. stored \subseteq stored' /\ stored' \subseteq Accounts
    BY <1>1 DEF Beside, CredentialsInv, WriterTypes
  <2>5. Fielded'
    BY <1>2, <2>4 DEF recoveryVars, CredentialsInv, Fielded
  <2>6. QED
    BY <1>1, <1>2, <2>2, <2>3, <2>4, <2>5, RecoveryKeepsInv DEF Beside, recoveryVars
<1>3. CASE Tick
  BY <1>2, <1>3, ClockTicks DEF Tick
<1>4. ASSUME NEW r \in Requests, Arrive(r)
      PROVE  CredentialsInv'
  BY <1>1, <1>4, ArriveKeepsInv
<1>5. ASSUME NEW r \in Requests, ServiceStep(r)
      PROVE  CredentialsInv'
  BY <1>1, <1>5, ServiceKeepsInv
<1>6. ASSUME NEW r \in Requests, Abort(r)
      PROVE  CredentialsInv'
  BY <1>1, <1>6, AbortClock, AnswerAdvances DEF Abort, Answers
<1>7. ASSUME NEW r \in Requests, LimiterStep(r)
      PROVE  CredentialsInv'
  BY <1>2, <1>7, ClockAtCall DEF LimiterStep
<1>8. QED
  BY <1>1, <1>3, <1>4, <1>5, <1>6, <1>7 DEF Next

---------------------------------------------------------------------------
(* The writers. *)

\* A step of the writers that leaves the documents alone: each of them stays
\* as it is, or becomes one that has no write to do or has just read a document.
LEMMA ReadingKeepsInv ==
  ASSUME CredentialsInv, UNCHANGED <<vars, stored>>,
         links' \subseteq [email : Accounts, until : Nat],
         NEW w, NEW next \in WriterRecord, Addressed(next),
         writer' = [writer EXCEPT ![w] = next] \/ writer' = writer,
         writer' # writer => writer[w].at = "idle",
         next.at # "ok", next.before \subseteq spent,
         next.at = "write" => /\ next.snap = users[next.email]
                              /\ next.hasFields = (next.email \in stored)
  PROVE  CredentialsInv'
<1>1. UNCHANGED <<now, users, req, delivered, spent, stored>>
  BY DEF vars, limiterVars, recoveryVars
<1>2. /\ RecoveryTypes' /\ DocumentsSound' /\ RequestsSound' /\ DeliveredAnswered'
      /\ Fielded'
  BY <1>1
  DEF CredentialsInv, RecoveryTypes, DocumentsSound, RequestsSound, DeliveredAnswered,
      Fielded
<1>3. writer \in [Writers -> WriterRecord] /\ \A v \in Writers : Addressed(writer[v])
  BY DEF CredentialsInv, WriterTypes
<1>4. \A v \in Writers : \/ writer'[v] = writer[v]
                         \/ v = w /\ writer'[v] = next /\ writer[v].at = "idle"
  BY <1>3
<1>5. WriterTypes'
  BY <1>1, <1>3 DEF CredentialsInv, WriterTypes
<1>6. ASSUME NEW u, NEW s, Revived(u, s)
      PROVE  Revived(u, s)'
  <2>1. PICK v \in Writers : /\ writer[v].at = "ok" /\ writer[v].email = u
                             /\ s \in SecretsIn(writer[v].snap)
                             /\ s \notin writer[v].before
    BY <1>6 DEF Revived
  <2>2. writer'[v] = writer[v]
    BY <1>4, <2>1
  <2>3. QED
    BY <2>1, <2>2 DEF Revived
<1>7. ASSUME NEW v \in Writers
      PROVE  /\ writer'[v].at = "write" => Carries(v)'
             /\ writer'[v].before \subseteq spent'
  <2>1. CASE writer'[v] = writer[v]
    BY <1>1, <1>6, <2>1 DEF CredentialsInv, WritersSound, Carries
  <2>2. CASE writer'[v] = next
    <3>1. ASSUME next.at = "write"
          PROVE  Carries(v)'
      <4>1. /\ next.email \in Accounts /\ next.snap = users[next.email]
            /\ Sound(req, next.email, next.snap)
            /\ SecretsIn(next.snap) # {} => next.email \in stored
            /\ next.hasFields = (next.email \in stored)
        BY <3>1 DEF Addressed, CredentialsInv, DocumentsSound, Fielded
      <4>2. ASSUME NEW s \in SecretsIn(next.snap) \cap next.before
            PROVE  Revived(next.email, s)'
        <5>1. Revived(next.email, s)
          BY <4>1, <4>2 DEF CredentialsInv, RevivedByWriteBack, Revived
        <5>2. QED
          BY <1>6, <5>1
      <4>3. QED
        BY <1>1, <2>2, <4>1, <4>2 DEF Carries
    <3>2. QED
      BY <1>1, <2>2, <3>1
  <2>3. QED
    BY <1>4, <2>1, <2>2
<1>8. WritersSound'
  BY <1>7 DEF WritersSound
<1>9. RevivedByWriteBack'
  BY <1>1, <1>6 DEF CredentialsInv, RevivedByWriteBack, Revived
<1>10. QED
  BY <1>2, <1>5, <1>8, <1>9 DEF CredentialsInv

LEMMA ReadKeepsInv ==
  ASSUME CredentialsInv, NEW w \in Writers, NEW kind, NEW u \in Accounts, Read(w, kind, u)
  PROVE  CredentialsInv'
<1> DEFINE next == [kind |-> kind, email |-> u, at |-> "write", snap |-> users[u],
                    hasFields |-> u \in stored, before |-> spent]
<1>1. /\ writer[w].at = "idle" /\ kind \in WriterKinds
      /\ writer' = [writer EXCEPT ![w] = next] /\ UNCHANGED <<vars, stored, links>>
  BY DEF Read
<1>2. /\ users[u] \in AnyUser /\ spent \subseteq Requests
      /\ links \subseteq [email : Accounts, until : Nat]
  BY DEF CredentialsInv, RecoveryTypes, WriterTypes
<1>3. next \in WriterRecord /\ Addressed(next)
  BY <1>1, <1>2, CredentialsAssumption DEF WriterRecord, Addressed
<1>4. /\ next.at = "write" /\ next.email = u /\ next.snap = users[u]
      /\ next.hasFields = (u \in stored) /\ next.before = spent
  OBVIOUS
<1> HIDE DEF next
<1>5. QED
  BY <1>1, <1>2, <1>3, <1>4, ReadingKeepsInv

LEMMA ForbiddenKeepsInv ==
  ASSUME CredentialsInv, NEW w \in Writers, NEW kind, Forbidden(w, kind)
  PROVE  CredentialsInv'
<1> DEFINE next == [writer[w] EXCEPT !.at = "forbidden"]
<1>1. /\ writer[w].at = "idle" /\ UNCHANGED <<vars, stored, links>>
      /\ writer' = [writer EXCEPT ![w] = next]
  BY DEF Forbidden
<1>2. /\ writer[w] \in WriterRecord /\ writer[w].before \subseteq spent
      /\ links \subseteq [email : Accounts, until : Nat]
  BY KnownWriter DEF CredentialsInv, WriterTypes, WritersSound
<1>3. /\ next \in WriterRecord /\ next.at = "forbidden"
      /\ next.before = writer[w].before
  BY <1>2 DEF WriterRecord
<1> HIDE DEF next
<1>4. Addressed(next)
  BY <1>3 DEF Addressed
<1>5. QED
  BY <1>1, <1>2, <1>3, <1>4, ReadingKeepsInv

LEMMA MailLinkKeepsInv ==
  ASSUME CredentialsInv, NEW u \in Accounts, MailLink(u)
  PROVE  CredentialsInv'
<1> DEFINE next == NewWriter
<1>1. now + LinkTtl \in Nat
  BY CredentialsAssumption DEF CredentialsInv, RecoveryTypes
<1>2. /\ writer' = writer /\ UNCHANGED <<vars, stored>>
      /\ links' \subseteq [email : Accounts, until : Nat]
  BY <1>1 DEF MailLink, CredentialsInv, WriterTypes
<1>3. next \in WriterRecord /\ next.at = "idle" /\ next.before = {}
  BY NewUserAny DEF NewWriter, WriterRecord
<1> HIDE DEF next
<1>4. Addressed(next)
  BY <1>3 DEF Addressed
<1>5. QED
  BY <1>2, <1>3, <1>4, ReadingKeepsInv

\* The document a write leaves: it holds what it held, or what the writer read
\* in it, and for an update the password that was read.
LEMMA MergedUser ==
  ASSUME CredentialsInv, NEW w \in Writers, writer[w].at = "write"
  PROVE  LET u == writer[w].email
             user == Merged(users[u], w)
         IN /\ u \in Accounts /\ user \in AnyUser
            /\ Sound(req, u, user)
            /\ SecretsIn(user) = SecretsIn(users[u])
                 \/ SecretsIn(user) = SecretsIn(writer[w].snap)
            /\ SecretsIn(user) # {} => u \in stored
            /\ user.password = IF writer[w].kind = "update" THEN writer[w].snap.password
                                ELSE w
<1> DEFINE u == writer[w].email
           snap == writer[w].snap
           password == IF writer[w].kind = "update" THEN snap.password ELSE w
           user == Merged(users[u], w)
<1>1. /\ writer[w] \in WriterRecord /\ u \in Accounts /\ snap \in AnyUser
      /\ Carries(w)
  BY KnownWriter DEF CredentialsInv, WritersSound, Addressed, WriterRecord
<1>2. /\ users[u] \in AnyUser /\ Sound(req, u, users[u]) /\ Sound(req, u, snap)
      /\ SecretsIn(users[u]) # {} => u \in stored
  BY <1>1 DEF CredentialsInv, RecoveryTypes, DocumentsSound, Fielded, Carries
<1>3. w \in Passwords /\ password \in Passwords
  BY <1>1 DEF Passwords, AnyUser
<1>4. CASE writer[w].kind = "set"
  <2>1. user = [users[u] EXCEPT !.password = w]
    BY <1>4 DEF Merged
  <2>2. /\ user \in AnyUser /\ user.hash = users[u].hash /\ user.proof = users[u].proof
        /\ user.expiresAt = users[u].expiresAt
        /\ user.proofExpiresAt = users[u].proofExpiresAt /\ user.password = w
    BY <1>2, <1>3, <2>1 DEF AnyUser
  <2> HIDE DEF user
  <2>3. Sound(req, u, user) /\ SecretsIn(user) = SecretsIn(users[u])
    BY <1>2, <2>2 DEF Sound, SecretsIn
  <2>4. QED
    BY <1>1, <1>2, <1>4, <2>2, <2>3 DEF user
<1>5. CASE writer[w].kind # "set" /\ writer[w].hasFields
  <2>1. user = [snap EXCEPT !.password = password]
    BY <1>5 DEF Merged
  <2>2. /\ user \in AnyUser /\ user.hash = snap.hash /\ user.proof = snap.proof
        /\ user.expiresAt = snap.expiresAt
        /\ user.proofExpiresAt = snap.proofExpiresAt /\ user.password = password
    BY <1>1, <1>3, <2>1 DEF AnyUser
  <2> HIDE DEF user
  <2>3. Sound(req, u, user) /\ SecretsIn(user) = SecretsIn(snap) /\ u \in stored
    BY <1>1, <1>2, <1>5, <2>2 DEF Sound, SecretsIn, Carries
  <2>4. QED
    BY <1>1, <1>2, <2>2, <2>3 DEF user
<1>6. CASE writer[w].kind # "set" /\ ~ writer[w].hasFields
  <2>1. user = [users[u] EXCEPT !.password = password, !.attempts = snap.attempts,
                  !.blockedUntil = IF snap.blockedUntil = Never
                                     THEN users[u].blockedUntil ELSE snap.blockedUntil]
    BY <1>1, <1>2, <1>6 DEF Merged, AnyUser
  <2>2. /\ user \in AnyUser /\ user.hash = users[u].hash /\ user.proof = users[u].proof
        /\ user.expiresAt = users[u].expiresAt
        /\ user.proofExpiresAt = users[u].proofExpiresAt /\ user.password = password
    BY <1>1, <1>2, <1>3, <2>1 DEF AnyUser
  <2> HIDE DEF user
  <2>3. Sound(req, u, user) /\ SecretsIn(user) = SecretsIn(users[u])
    BY <1>2, <2>2 DEF Sound, SecretsIn
  <2>4. QED
    BY <1>1, <1>2, <2>2, <2>3 DEF user
<1>7. QED
  BY <1>1, <1>4, <1>5, <1>6 DEF WriterRecord

LEMMA WriteKeepsInv ==
  ASSUME CredentialsInv, NEW w \in Writers, Write(w)
  PROVE  CredentialsInv'
<1>0. PICK u : u = writer[w].email
  OBVIOUS
<1> DEFINE user == Merged(users[u], w)
           next == [writer[w] EXCEPT !.at = "ok"]
<1>1. /\ writer[w].at = "write" /\ users' = [users EXCEPT ![u] = user]
      /\ writer' = [writer EXCEPT ![w] = next]
      /\ UNCHANGED <<now, req, delivered, spent, stored, links>>
  BY <1>0 DEF Write, limiterVars
<1>2. /\ u \in Accounts /\ user \in AnyUser /\ Sound(req, u, user)
      /\ SecretsIn(user) = SecretsIn(users[u]) \/ SecretsIn(user) = SecretsIn(writer[w].snap)
      /\ SecretsIn(user) # {} => u \in stored
  BY <1>0, <1>1, MergedUser
<1>3. /\ writer \in [Writers -> WriterRecord] /\ \A v \in Writers : Addressed(writer[v])
      /\ users \in [Accounts -> AnyUser]
  BY DEF CredentialsInv, WriterTypes, RecoveryTypes
<1>4. /\ next \in WriterRecord /\ Addressed(next) /\ next.at = "ok" /\ next.email = u
      /\ next.snap = writer[w].snap /\ next.before = writer[w].before
  BY <1>0, <1>1, <1>3 DEF WriterRecord, Addressed
<1> HIDE DEF user, next
<1>5. /\ users'[u] = user /\ \A a \in Accounts \ {u} : users'[a] = users[a]
      /\ users' \in [Accounts -> AnyUser]
  BY <1>1, <1>2, <1>3
<1>6. /\ writer'[w] = next /\ \A v \in Writers \ {w} : writer'[v] = writer[v]
      /\ writer' \in [Writers -> WriterRecord]
  BY <1>1, <1>3, <1>4
<1>7. WriterTypes'
  BY <1>1, <1>3, <1>4, <1>6 DEF CredentialsInv, WriterTypes
<1>8. RecoveryTypes' /\ RequestsSound' /\ DeliveredAnswered'
  BY <1>1, <1>5 DEF CredentialsInv, RecoveryTypes, RequestsSound, DeliveredAnswered
<1>9. DocumentsSound' /\ Fielded'
  BY <1>1, <1>2, <1>5 DEF CredentialsInv, DocumentsSound, Fielded
<1>10. ASSUME NEW a, NEW s, Revived(a, s)
       PROVE  Revived(a, s)'
  <2>1. PICK v \in Writers : /\ writer[v].at = "ok" /\ writer[v].email = a
                             /\ s \in SecretsIn(writer[v].snap)
                             /\ s \notin writer[v].before
    BY <1>10 DEF Revived
  <2>2. writer'[v] = writer[v]
    BY <1>1, <1>6, <2>1
  <2>3. QED
    BY <2>1, <2>2 DEF Revived
<1>11. ASSUME NEW v \in Writers
       PROVE  /\ writer'[v].at = "write" => Carries(v)'
              /\ writer'[v].before \subseteq spent'
  <2>1. CASE v = w
    BY <1>1, <1>4, <1>6, <2>1 DEF CredentialsInv, WritersSound
  <2>2. CASE v # w
    BY <1>1, <1>6, <1>10, <2>2 DEF CredentialsInv, WritersSound, Carries
  <2>3. QED
    BY <2>1, <2>2
<1>12. ASSUME NEW s \in SecretsIn(user) \cap spent
       PROVE  Revived(u, s)'
  <2>1. CASE s \in SecretsIn(users[u])
    <3>1. Revived(u, s)
      BY <1>2, <1>12, <2>1 DEF CredentialsInv, RevivedByWriteBack, Revived
    <3>2. QED
      BY <1>10, <3>1
  <2>2. CASE s \in SecretsIn(writer[w].snap) /\ s \in writer[w].before
    <3>1. Revived(u, s)
      BY <1>0, <1>1, <2>2 DEF CredentialsInv, WritersSound, Carries
    <3>2. QED
      BY <1>10, <3>1
  <2>3. CASE s \in SecretsIn(writer[w].snap) /\ s \notin writer[w].before
    BY <1>4, <1>6, <2>3 DEF Revived
  <2>4. QED
    BY <1>2, <1>12, <2>1, <2>2, <2>3
<1>13. ASSUME NEW a \in Accounts, NEW s \in SecretsIn(users'[a]) \cap spent'
       PROVE  Revived(a, s)'
  <2>1. CASE a = u
    BY <1>1, <1>5, <1>12, <1>13, <2>1
  <2>2. CASE a # u
    <3>1. Revived(a, s)
      BY <1>1, <1>5, <1>13, <2>2 DEF CredentialsInv, RevivedByWriteBack, Revived
    <3>2. QED
      BY <1>10, <3>1
  <2>3. QED
    BY <2>1, <2>2
<1>14. RevivedByWriteBack'
  BY <1>13 DEF RevivedByWriteBack, Revived
<1>15. QED
  BY <1>7, <1>8, <1>9, <1>11, <1>14 DEF CredentialsInv, WritersSound

LEMMA NextKeepsInv == CredentialsInv /\ [CredentialsNext]_allVars => CredentialsInv'
<1> SUFFICES ASSUME CredentialsInv, [CredentialsNext]_allVars PROVE CredentialsInv'
  OBVIOUS
<1>1. CASE RecoveryStep
  BY <1>1, RecoveryStepKeepsInv
<1>2. ASSUME NEW u \in Accounts, MailLink(u)
      PROVE  CredentialsInv'
  BY <1>2, MailLinkKeepsInv
<1>3. ASSUME NEW w \in Writers, NEW u \in Accounts, NEW old, ChangeWithOld(w, u, old)
      PROVE  CredentialsInv'
  BY <1>3, ReadKeepsInv, ForbiddenKeepsInv DEF ChangeWithOld
<1>4. ASSUME NEW w \in Writers, NEW link \in links, ResetWithLink(w, link)
      PROVE  CredentialsInv'
  <2>1. link.email \in Accounts
    BY DEF CredentialsInv, WriterTypes
  <2>2. QED
    BY <1>4, <2>1, ReadKeepsInv, ForbiddenKeepsInv DEF ResetWithLink
<1>5. ASSUME NEW w \in Writers, NEW u \in Accounts, NEW kind, Read(w, kind, u)
      PROVE  CredentialsInv'
  BY <1>5, ReadKeepsInv
<1>6. ASSUME NEW w \in Writers, Write(w)
      PROVE  CredentialsInv'
  BY <1>6, WriteKeepsInv
<1>7. CASE UNCHANGED allVars
  <2>1. UNCHANGED <<now, users, req, delivered, spent, writer, stored, links>>
    BY <1>7 DEF allVars, vars, limiterVars, recoveryVars
  <2>2. RecoveryTypes' /\ WriterTypes'
    BY <2>1 DEF CredentialsInv, RecoveryTypes, WriterTypes
  <2>3. DocumentsSound' /\ RequestsSound' /\ DeliveredAnswered'
    BY <2>1 DEF CredentialsInv, DocumentsSound, RequestsSound, DeliveredAnswered
  <2>4. Fielded'
    BY <2>1 DEF CredentialsInv, Fielded
  <2>5. WritersSound' /\ RevivedByWriteBack'
    BY <2>1 DEF CredentialsInv, WritersSound, Carries, Revived, RevivedByWriteBack
  <2>6. QED
    BY <2>2, <2>3, <2>4, <2>5 DEF CredentialsInv
<1>8. QED
  BY <1>1, <1>2, <1>3, <1>4, <1>5, <1>6, <1>7 DEF CredentialsNext

LEMMA InitInv == CredentialsInit => CredentialsInv
<1> SUFFICES ASSUME CredentialsInit PROVE CredentialsInv
  OBVIOUS
<1>1. /\ now = 0 /\ users = [u \in Accounts |-> NewUser] /\ delivered = {} /\ spent = {}
      /\ req = [r \in Requests |-> NewRequest]
      /\ writer = [w \in Writers |-> NewWriter] /\ stored = {} /\ links = {}
  BY DEF CredentialsInit, Init, Limiter!Init
<1>2. NewWriter \in WriterRecord /\ Addressed(NewWriter)
      /\ NewWriter.at = "idle" /\ NewWriter.before = {}
  BY NewUserAny DEF NewWriter, WriterRecord, Addressed
<1>3. NewRequest.at = "idle" /\ NewRequest.token = Wrong /\ NewRequest.snap = NewUser
  BY DEF NewRequest
<1>4. SecretsIn(NewUser) = {}
  BY DEF SecretsIn, NewUser
<1>5. RecoveryTypes /\ WriterTypes
  BY <1>1, <1>2, <1>3, NewUserAny, NewRequestAny DEF RecoveryTypes, WriterTypes, Routed
<1>6. DocumentsSound /\ RequestsSound /\ DeliveredAnswered
  BY <1>1, <1>3, NewUserSound DEF DocumentsSound, RequestsSound, DeliveredAnswered, Ready
<1>7. Fielded /\ WritersSound /\ RevivedByWriteBack
  BY <1>1, <1>2, <1>3, <1>4 DEF Fielded, WritersSound, RevivedByWriteBack
<1>8. QED
  BY <1>5, <1>6, <1>7 DEF CredentialsInv

LEMMA InvAlways == CredentialsSpec => []CredentialsInv
  BY InitInv, NextKeepsInv, PTL DEF CredentialsSpec

---------------------------------------------------------------------------
(* The theorems. *)

\* The variables have their types, next to requests that write back whatever
\* they have read.
THEOREM CredentialsTyped == CredentialsSpec => []CredentialsTypeOK
<1>1. ASSUME NEW user \in AnyUser
      PROVE  [user EXCEPT !.password = Original] \in UserRecord
  BY DEF AnyUser, UserRecord
<1>2. CredentialsInv => CredentialsTypeOK
  <2> SUFFICES ASSUME CredentialsInv PROVE CredentialsTypeOK
    OBVIOUS
  <2>1. ASSUME NEW w \in Writers
        PROVE  /\ writer[w].at \in {"idle", "write", "ok", "forbidden"}
               /\ writer[w].at \in {"write", "ok"}
                    => writer[w].kind \in WriterKinds /\ writer[w].email \in Accounts
               /\ writer[w].before \subseteq spent
               /\ [writer[w].snap EXCEPT !.password = Original] \in UserRecord
    BY <1>1, KnownWriter DEF CredentialsInv, WritersSound, WriterRecord, Addressed
  <2>2. ASSUME NEW u \in Accounts
        PROVE  /\ users[u].password \in Passwords
               /\ [users[u] EXCEPT !.password = Original] \in UserRecord
               /\ SecretsIn(users[u]) # {} => u \in stored
    <3>1. users[u] \in AnyUser
      BY DEF CredentialsInv, RecoveryTypes
    <3>2. QED
      BY <1>1, <3>1 DEF CredentialsInv, Fielded, AnyUser
  <2>3. QED
    BY <2>1, <2>2 DEF CredentialsInv, WriterTypes, CredentialsTypeOK
<1>3. QED
  BY <1>2, InvAlways, PTL

\* A consumed secret is in a document again only because a request that had
\* read it before it was consumed wrote the whole document back.
THEOREM OnlyWriteBackRevives == CredentialsSpec => []RevivedByWriteBack
<1>1. CredentialsInv => RevivedByWriteBack
  BY DEF CredentialsInv
<1>2. QED
  BY <1>1, InvAlways, PTL

\* What is written back is a whole document, so a document still holds a code
\* or a reset proof, never both.
THEOREM WriteBackHoldsOneSecret == CredentialsSpec => []OneSecretAtATime
<1>1. CredentialsInv => OneSecretAtATime
  BY DEF CredentialsInv, DocumentsSound, Sound, OneSecretAtATime
<1>2. QED
  BY <1>1, InvAlways, PTL

\* And a secret that is written back comes with its own deadline: no write
\* prolongs it.
THEOREM WriteBackKeepsDeadlines == CredentialsSpec => []SecretsExpireWithTheirCode
<1>1. CredentialsInv => SecretsExpireWithTheirCode
  BY DEF CredentialsInv, DocumentsSound, Sound, Owned, SecretsExpireWithTheirCode
<1>2. QED
  BY <1>1, InvAlways, PTL

LEMMA RecoveryWrites ==
  ASSUME Next
  PROVE  \/ UNCHANGED <<users, spent>>
         \/ \E r \in Requests : StoreCode(r) \/ Miss(r) \/ BurnCode(r) \/ ChangePassword(r)
<1>1. CASE Tick
  BY <1>1, Zenon DEF Tick, recoveryVars
<1>2. ASSUME NEW r \in Requests, Arrive(r) \/ Abort(r) \/ LimiterStep(r)
      PROVE  UNCHANGED <<users, spent>>
  BY <1>2, Zenon DEF Arrive, Start, Abort, LimiterStep, recoveryVars
<1>3. ASSUME NEW r \in Requests, ServiceStep(r)
      PROVE  \/ UNCHANGED <<users, spent>>
             \/ StoreCode(r) \/ Miss(r) \/ BurnCode(r) \/ ChangePassword(r)
  <2>1. ASSUME \/ Refused(r) \/ GenerateUnknown(r) \/ DrawCode(r) \/ Mail(r)
               \/ TokenForUnknown(r) \/ Judge(r) \/ FailureRegistered(r)
               \/ FailuresCleared(r)
        PROVE  UNCHANGED <<users, spent>>
    BY <2>1, Zenon
    DEF Refused, GenerateUnknown, DrawCode, Mail, TokenForUnknown, Judge,
        FailureRegistered, FailuresCleared
  <2>2. QED
    BY <1>3, <2>1, Zenon DEF ServiceStep
<1>4. QED
  BY <1>1, <1>2, <1>3, Zenon DEF Next

\* The steps of recovery that write a document; only the change of the password
\* gives it another one.
LEMMA RecoveryPasswords ==
  ASSUME CredentialsInv, Next, NEW u \in Accounts, users'[u].password # users[u].password
  PROVE  \E r \in Requests : /\ users'[u].password = r
                             /\ req[r].at = "burn" /\ req[r].email = u
<1>1. users \in [Accounts -> AnyUser]
  BY DEF CredentialsInv, RecoveryTypes
<1>2. ASSUME NEW r \in Requests, NEW user, user.password = users[req[r].email].password,
             users' = [users EXCEPT ![req[r].email] = user]
      PROVE  FALSE
  BY <1>1, <1>2
<1>3. PICK r \in Requests : StoreCode(r) \/ Miss(r) \/ BurnCode(r) \/ ChangePassword(r)
  BY RecoveryWrites
<1>4. CASE StoreCode(r)
  <2>1. req[r].email \in Accounts
    BY <1>4, KnownRequest DEF StoreCode, Routed, CredentialsInv
  <2> DEFINE user == [users[req[r].email] EXCEPT
                        !.proof = NoSecret, !.proofExpiresAt = Never,
                        !.hash = r, !.expiresAt = req[r].expiresAt,
                        !.attempts = 0, !.blockedUntil = Never]
  <2>2. users' = [users EXCEPT ![req[r].email] = user]
    BY <1>4 DEF StoreCode
  <2>3. user.password = users[req[r].email].password
    BY <1>1, <2>1 DEF AnyUser
  <2>4. QED
    BY <1>2, <2>2, <2>3
<1>5. CASE Miss(r)
  <2>1. req[r].email \in Accounts
    BY <1>5, KnownRequest DEF Miss, Routed, CredentialsInv
  <2> DEFINE attempts == req[r].snap.attempts + 1
             old == users[req[r].email]
             user == [old EXCEPT !.attempts = attempts,
                        !.blockedUntil = IF attempts >= MaxAttempts
                                           THEN now + BlockFor ELSE old.blockedUntil]
  <2>2. users' = [users EXCEPT ![req[r].email] = user]
    BY <1>5 DEF Miss
  <2>3. user.password = users[req[r].email].password
    BY <1>1, <2>1 DEF AnyUser
  <2>4. QED
    BY <1>2, <2>2, <2>3
<1>6. CASE BurnCode(r)
  <2>1. req[r].email \in Accounts
    BY <1>6, ConsumedAny DEF BurnCode
  <2> DEFINE user == [users[req[r].email] EXCEPT
                        !.proof = r, !.proofExpiresAt = req[r].snap.expiresAt,
                        !.hash = NoSecret, !.expiresAt = req[r].snap.expiresAt,
                        !.attempts = 0, !.blockedUntil = Never]
  <2>2. users' = [users EXCEPT ![req[r].email] = user]
    BY <1>6 DEF BurnCode
  <2>3. user.password = users[req[r].email].password
    BY <1>1, <2>1 DEF AnyUser
  <2>4. QED
    BY <1>2, <2>2, <2>3
<1>7. CASE ChangePassword(r)
  <2> DEFINE user == [NewUser EXCEPT !.password = r]
  <2>1. req[r].at = "burn" /\ users' = [users EXCEPT ![req[r].email] = user]
    BY <1>7 DEF ChangePassword
  <2>2. user.password = r
    BY DEF NewUser
  <2> HIDE DEF user
  <2>3. req[r].email = u /\ users'[u] = user
    BY <1>1, <2>1
  <2>4. QED
    BY <2>1, <2>2, <2>3
<1>8. QED
  BY <1>3, <1>4, <1>5, <1>6, <1>7

\* A password is set by the request that brought it, and comes back only with
\* an update of one's data that had read it.
THEOREM OnlyUpdatesReturnPasswords == CredentialsSpec => PasswordsReturnByUpdate
<1> DEFINE Set(u) ==
      LET p == users'[u].password
      IN p # users[u].password
           => \/ p \in Requests /\ req[p].at = "burn" /\ req[p].email = u
              \/ \E w \in Writers :
                   /\ writer[w].at = "write" /\ writer'[w].at = "ok"
                   /\ writer[w].email = u
                   /\ p = w \/ (writer[w].kind = "update"
                                /\ writer[w].snap.password = p)
<1>1. ASSUME CredentialsInv, [CredentialsNext]_allVars, NEW u \in Accounts,
             users'[u].password # users[u].password
      PROVE  Set(u)
  <2>1. CASE RecoveryStep
    BY <1>1, <2>1, RecoveryPasswords DEF RecoveryStep
  <2>2. ASSUME NEW w \in Writers, Write(w)
        PROVE  Set(u)
    <3> DEFINE user == Merged(users[writer[w].email], w)
    <3>1. /\ writer[w].at = "write" /\ users' = [users EXCEPT ![writer[w].email] = user]
          /\ writer' = [writer EXCEPT ![w].at = "ok"]
      BY <2>2 DEF Write
    <3>2. user.password = w
            \/ (writer[w].kind = "update" /\ user.password = writer[w].snap.password)
      BY <1>1, <3>1, MergedUser
    <3>3. users \in [Accounts -> AnyUser] /\ writer \in [Writers -> WriterRecord]
      BY <1>1 DEF CredentialsInv, RecoveryTypes, WriterTypes
    <3> HIDE DEF user
    <3>4. writer[w].email = u /\ users'[u] = user
      BY <1>1, <3>1, <3>3
    <3>5. writer'[w].at = "ok"
      BY <3>1, <3>3 DEF WriterRecord
    <3>6. QED
      BY <3>1, <3>2, <3>4, <3>5
  <2>3. ASSUME UNCHANGED users
        PROVE  FALSE
    BY <1>1, <2>3
  <2>4. QED
    BY <1>1, <2>1, <2>2, <2>3
    DEF CredentialsNext, MailLink, ChangeWithOld, ResetWithLink, Read, Forbidden, vars,
        recoveryVars, allVars
<1>2. CredentialsInv /\ [CredentialsNext]_allVars => [\A u \in Accounts : Set(u)]_allVars
  BY <1>1
<1>3. CredentialsSpec => [][\A u \in Accounts : Set(u)]_allVars
  BY <1>2, InvAlways, PTL DEF CredentialsSpec
<1>4. QED
  BY <1>3 DEF PasswordsReturnByUpdate

\* Also next to the writers a token is accepted only before CodeTtl has passed
\* since its code was drawn, and only for the account it was drawn for.
THEOREM WriteBackAcceptsInTime == CredentialsSpec => AcceptedInTime
<1> DEFINE Timely ==
      \A r \in Requests :
        req[r].at # "burn" /\ req'[r].at = "burn"
          => LET s == req[r].token
             IN /\ s \in delivered
                /\ now < req[s].born + CodeTtl
                /\ req[s].email = req[r].email
<1>1. ASSUME CredentialsInv, [CredentialsNext]_allVars, NEW r \in Requests,
             req[r].at # "burn", req'[r].at = "burn"
      PROVE  Valid(r)
  <2>1. req \in [Requests -> AnyRequest]
    BY <1>1 DEF CredentialsInv, RecoveryTypes
  <2>2. ASSUME NEW q \in Requests, NEW at \in Answers, Answer(q, at)
        PROVE  FALSE
    BY <1>1, <2>1, <2>2 DEF Answer, Answers, AnyRequest
  <2>3. ASSUME NEW q \in Requests, NEW at, Goto(q, at)
        PROVE  q = r /\ at = "burn"
    BY <1>1, <2>1, <2>3 DEF Goto, AnyRequest
  <2>4. ASSUME NEW q \in Requests, Arrive(q)
        PROVE  FALSE
    BY <1>1, <2>1, <2>4 DEF Arrive, Start, NewRequest
  <2>5. ASSUME NEW q \in Requests, DrawCode(q) \/ BurnCode(q)
        PROVE  FALSE
    BY <1>1, <2>1, <2>5 DEF DrawCode, BurnCode, AnyRequest
  <2>6. ASSUME NEW q \in Requests, Judge(q)
        PROVE  Valid(r)
    BY <2>2, <2>3, <2>6 DEF Judge, Answers
  <2>7. ASSUME NEW q \in Requests, ServiceStep(q), ~ Judge(q)
        PROVE  FALSE
    BY <2>2, <2>3, <2>5, <2>7
    DEF ServiceStep, Refused, GenerateUnknown, StoreCode, Mail, TokenForUnknown, Miss,
        ChangePassword, FailureRegistered, FailuresCleared, Answers
  <2>8. ASSUME NEW q \in Requests, Abort(q)
        PROVE  FALSE
    BY <2>2, <2>8 DEF Abort, Answers
  <2>9. ASSUME UNCHANGED req
        PROVE  FALSE
    BY <1>1, <2>1, <2>9
  <2>10. CASE RecoveryStep
    BY <2>4, <2>6, <2>7, <2>8, <2>9, <2>10
    DEF RecoveryStep, Next, Tick, LimiterStep, recoveryVars
  <2>11. CASE ~ RecoveryStep
    BY <1>1, <2>9, <2>11
    DEF CredentialsNext, MailLink, ChangeWithOld, ResetWithLink, Read, Forbidden, Write,
        vars, recoveryVars, allVars
  <2>12. QED
    BY <2>10, <2>11
<1>2. CredentialsInv /\ [CredentialsNext]_allVars => Timely
  BY <1>1, AcceptedAny
<1>3. CredentialsInv /\ [CredentialsNext]_allVars => [Timely]_vars
  BY <1>2
<1>4. CredentialsSpec => [][Timely]_vars
  BY <1>3, InvAlways, PTL DEF CredentialsSpec
<1>5. QED
  BY <1>4 DEF AcceptedInTime

---------------------------------------------------------------------------
(* Requests that keep out of each other's way. *)

\* No code or proof of an account is being consumed while another request is
\* about to write that account's document.
BurnsApart ==
  \A w \in Writers, r \in Requests :
    writer[w].at = "write" /\ req[r].email = writer[w].email => req[r].at # "burn"

\* And no two of the others, one an update of one's data and one that sets a
\* password, are about to write the document of one account.
UpdatesApart ==
  \A v, w \in Writers :
    /\ writer[v].at = "write" /\ writer[w].at = "write"
    /\ writer[v].email = writer[w].email
    /\ writer[v].kind = "update"
    => writer[w].kind = "update"

\* Neither a document nor what is about to be written in one holds a consumed
\* secret.
SpentNowhere ==
  /\ \A u \in Accounts : SecretsIn(users[u]) \cap spent = {}
  /\ \A w \in Writers : writer[w].at = "write" => SecretsIn(writer[w].snap) \cap spent = {}

\* An update that is about to write holds the password of the document.
UpdatesFresh ==
  \A w \in Writers :
    writer[w].at = "write" /\ writer[w].kind = "update"
      => writer[w].snap.password = users[writer[w].email].password

\* A step of recovery brings no consumed secret into a document, and what it
\* consumes is the token of a request at the point of being written.
LEMMA RecoveryRevivesNone ==
  ASSUME CredentialsInv, Next
  PROVE  /\ \A u \in Accounts :
              SecretsIn(users'[u]) \cap spent' \subseteq SecretsIn(users[u]) \cap spent
         /\ \A s \in spent' \ spent : \E r \in Requests : req[r].at = "burn" /\ s = req[r].token
<1>1. /\ users \in [Accounts -> AnyUser] /\ spent \subseteq delivered
      /\ \A r \in delivered : req[r].at \in Answers
  BY DEF CredentialsInv, RecoveryTypes, DeliveredAnswered
<1>2. ASSUME NEW r \in Requests, req[r].at \in Pending, NEW user,
             users' = [users EXCEPT ![req[r].email] = user],
             SecretsIn(user) \subseteq {r} \/ (SecretsIn(user) = SecretsIn(users[req[r].email])
                                               /\ spent' = spent),
             spent' = spent \/ (req[r].at = "burn" /\ spent' = spent \cup {req[r].token})
      PROVE  /\ \A u \in Accounts :
                  SecretsIn(users'[u]) \cap spent' \subseteq SecretsIn(users[u]) \cap spent
             /\ \A s \in spent' \ spent :
                  \E q \in Requests : req[q].at = "burn" /\ s = req[q].token
  <2>1. r \notin delivered
    BY <1>1, <1>2 DEF Pending, Answers
  <2>2. r \notin spent'
    BY <1>1, <1>2, <2>1, ConsumedAny
  <2>3. ASSUME NEW u \in Accounts
        PROVE  SecretsIn(users'[u]) \cap spent' \subseteq SecretsIn(users[u]) \cap spent
    <3>1. CASE u = req[r].email
      <4>1. users'[u] = user
        BY <1>1, <1>2, <3>1
      <4>2. QED
        BY <1>2, <2>2, <3>1, <4>1
    <3>2. CASE u # req[r].email
      <4>1. users'[u] = users[u]
        BY <1>1, <1>2, <3>2
      <4>2. QED
        BY <1>2, <3>2, <4>1, ConsumedAny
    <3>3. QED
      BY <3>1, <3>2
  <2>4. QED
    BY <1>2, <2>3
<1>3. CASE UNCHANGED <<users, spent>>
  BY <1>3
<1>4. ASSUME NEW r \in Requests, StoreCode(r)
      PROVE  \E user : /\ users' = [users EXCEPT ![req[r].email] = user]
                       /\ SecretsIn(user) \subseteq {r} /\ spent' = spent
                       /\ req[r].at = "store"
  <2> DEFINE user == [users[req[r].email] EXCEPT
                        !.proof = NoSecret, !.proofExpiresAt = Never,
                        !.hash = r, !.expiresAt = req[r].expiresAt,
                        !.attempts = 0, !.blockedUntil = Never]
  <2>1. /\ req[r].at = "store" /\ users' = [users EXCEPT ![req[r].email] = user]
        /\ spent' = spent
    BY <1>4 DEF StoreCode
  <2>2. req[r].email \in Accounts
    BY <2>1, KnownRequest DEF CredentialsInv, Routed
  <2>3. user.hash = r /\ user.proof = NoSecret
    BY <1>1, <2>2 DEF AnyUser
  <2> HIDE DEF user
  <2>4. SecretsIn(user) \subseteq {r}
    BY <2>3 DEF SecretsIn
  <2>5. QED
    BY <2>1, <2>4
<1>5. ASSUME NEW r \in Requests, Miss(r)
      PROVE  \E user : /\ users' = [users EXCEPT ![req[r].email] = user]
                       /\ SecretsIn(user) = SecretsIn(users[req[r].email])
                       /\ spent' = spent /\ req[r].at = "miss"
  <2> DEFINE attempts == req[r].snap.attempts + 1
             old == users[req[r].email]
             user == [old EXCEPT !.attempts = attempts,
                        !.blockedUntil = IF attempts >= MaxAttempts
                                           THEN now + BlockFor ELSE old.blockedUntil]
  <2>1. /\ req[r].at = "miss" /\ users' = [users EXCEPT ![req[r].email] = user]
        /\ spent' = spent
    BY <1>5 DEF Miss
  <2>2. req[r].email \in Accounts
    BY <2>1, KnownRequest DEF CredentialsInv, Routed
  <2>3. user.hash = old.hash /\ user.proof = old.proof
    BY <1>1, <2>2 DEF AnyUser
  <2> HIDE DEF user
  <2>4. SecretsIn(user) = SecretsIn(users[req[r].email])
    BY <2>3 DEF SecretsIn
  <2>5. QED
    BY <2>1, <2>4
<1>6. ASSUME NEW r \in Requests, BurnCode(r) \/ ChangePassword(r)
      PROVE  \E user : /\ users' = [users EXCEPT ![req[r].email] = user]
                       /\ SecretsIn(user) \subseteq {r}
                       /\ spent' = spent \cup {req[r].token} /\ req[r].at = "burn"
  <2>1. CASE BurnCode(r)
    <3> DEFINE user == [users[req[r].email] EXCEPT
                          !.proof = r, !.proofExpiresAt = req[r].snap.expiresAt,
                          !.hash = NoSecret, !.expiresAt = req[r].snap.expiresAt,
                          !.attempts = 0, !.blockedUntil = Never]
    <3>1. /\ req[r].at = "burn" /\ users' = [users EXCEPT ![req[r].email] = user]
          /\ spent' = spent \cup {req[r].token}
      BY <2>1 DEF BurnCode
    <3>2. user.hash = NoSecret /\ user.proof = r
      BY <1>1, <3>1, ConsumedAny DEF AnyUser
    <3> HIDE DEF user
    <3>3. SecretsIn(user) \subseteq {r}
      BY <3>2 DEF SecretsIn
    <3>4. QED
      BY <3>1, <3>3
  <2>2. CASE ChangePassword(r)
    <3> DEFINE user == [NewUser EXCEPT !.password = r]
    <3>1. /\ req[r].at = "burn" /\ users' = [users EXCEPT ![req[r].email] = user]
          /\ spent' = spent \cup {req[r].token}
      BY <2>2 DEF ChangePassword
    <3>2. user.hash = NoSecret /\ user.proof = NoSecret
      BY DEF NewUser
    <3> HIDE DEF user
    <3>3. SecretsIn(user) \subseteq {r}
      BY <3>2 DEF SecretsIn
    <3>4. QED
      BY <3>1, <3>3
  <2>3. QED
    BY <1>6, <2>1, <2>2
<1>7. \/ UNCHANGED <<users, spent>>
      \/ \E r \in Requests : StoreCode(r) \/ Miss(r) \/ BurnCode(r) \/ ChangePassword(r)
  BY RecoveryWrites
<1>8. CASE \E r \in Requests : StoreCode(r) \/ Miss(r) \/ BurnCode(r) \/ ChangePassword(r)
  <2>1. PICK r \in Requests : StoreCode(r) \/ Miss(r) \/ BurnCode(r) \/ ChangePassword(r)
    BY <1>8
  <2>2. PICK user :
          /\ users' = [users EXCEPT ![req[r].email] = user]
          /\ SecretsIn(user) \subseteq {r} \/ (SecretsIn(user) = SecretsIn(users[req[r].email])
                                               /\ spent' = spent)
          /\ spent' = spent \/ (req[r].at = "burn" /\ spent' = spent \cup {req[r].token})
          /\ req[r].at \in {"store", "miss", "burn"}
    BY <1>4, <1>5, <1>6, <2>1
  <2>3. req[r].at \in Pending
    BY <2>2 DEF Pending
  <2>4. QED
    BY <1>2, <2>2, <2>3
<1>9. QED
  BY <1>3, <1>7, <1>8

\* The steps of the writers: one has just read a document, or writes what it
\* holds, or none of them has anything to do with it.
LEMMA WriterMoves ==
  ASSUME CredentialsInv, [CredentialsNext]_allVars
  PROVE  \/ RecoveryStep
         \/ /\ UNCHANGED <<users, spent>>
            /\ \A w \in Writers :
                 writer'[w].at = "write"
                   => \/ writer'[w] = writer[w]
                      \/ /\ writer'[w].email \in Accounts
                         /\ writer'[w].snap = users[writer'[w].email]
         \/ \E w \in Writers : Write(w)
<1>1. writer \in [Writers -> WriterRecord]
  BY DEF CredentialsInv, WriterTypes
<1>2. ASSUME NEW w \in Writers, NEW kind, NEW u \in Accounts, Read(w, kind, u)
      PROVE  /\ UNCHANGED <<users, spent>>
             /\ \A v \in Writers :
                  writer'[v].at = "write"
                    => \/ writer'[v] = writer[v]
                       \/ /\ writer'[v].email \in Accounts
                          /\ writer'[v].snap = users[writer'[v].email]
  BY <1>1, <1>2 DEF Read, vars, recoveryVars
<1>3. ASSUME NEW w \in Writers, NEW kind, Forbidden(w, kind)
      PROVE  /\ UNCHANGED <<users, spent>>
             /\ \A v \in Writers : writer'[v].at = "write" => writer'[v] = writer[v]
  BY <1>1, <1>3 DEF Forbidden, vars, recoveryVars, WriterRecord
<1>4. ASSUME NEW w \in Writers, NEW link \in links, ResetWithLink(w, link)
      PROVE  \/ link.email \in Accounts /\ Read(w, "link", link.email)
             \/ Forbidden(w, "link")
  BY <1>4 DEF ResetWithLink, CredentialsInv, WriterTypes
<1>5. ASSUME UNCHANGED <<vars, writer>>
      PROVE  UNCHANGED <<users, spent, writer>>
  BY <1>5 DEF vars, recoveryVars
<1>6. QED
  BY <1>2, <1>3, <1>4, <1>5 DEF CredentialsNext, ChangeWithOld, MailLink, allVars

\* A write leaves what the document held, or what the writer had read in it.
LEMMA WriteLeaves ==
  ASSUME CredentialsInv, NEW w \in Writers, Write(w)
  PROVE  LET u == writer[w].email
         IN /\ writer[w].at = "write" /\ spent' = spent /\ u \in Accounts
            /\ \A a \in Accounts \ {u} : users'[a] = users[a]
            /\ SecretsIn(users'[u]) = SecretsIn(users[u])
                 \/ SecretsIn(users'[u]) = SecretsIn(writer[w].snap)
            /\ users'[u].password =
                 IF writer[w].kind = "update" THEN writer[w].snap.password ELSE w
            /\ writer[w].kind \in WriterKinds
            /\ \A v \in Writers : writer'[v].at = "write" => v # w /\ writer'[v] = writer[v]
<1>0. PICK u : u = writer[w].email
  OBVIOUS
<1> DEFINE user == Merged(users[u], w)
<1>1. /\ writer[w].at = "write" /\ users' = [users EXCEPT ![u] = user]
      /\ writer' = [writer EXCEPT ![w].at = "ok"] /\ spent' = spent
  BY <1>0 DEF Write
<1>2. /\ u \in Accounts
      /\ SecretsIn(user) = SecretsIn(users[u]) \/ SecretsIn(user) = SecretsIn(writer[w].snap)
      /\ user.password =
           IF writer[w].kind = "update" THEN writer[w].snap.password ELSE w
  BY <1>0, <1>1, MergedUser
<1>3. /\ writer \in [Writers -> WriterRecord] /\ users \in [Accounts -> AnyUser]
      /\ Addressed(writer[w])
  BY DEF CredentialsInv, WriterTypes, RecoveryTypes
<1> HIDE DEF user
<1>4. users'[u] = user /\ \A a \in Accounts \ {u} : users'[a] = users[a]
  BY <1>1, <1>2, <1>3
<1>5. \A v \in Writers : writer'[v].at = "write" => v # w /\ writer'[v] = writer[v]
  BY <1>1, <1>3 DEF WriterRecord
<1>6. QED
  BY <1>0, <1>1, <1>2, <1>3, <1>4, <1>5 DEF Addressed

LEMMA SpentNowhereStays ==
  ASSUME CredentialsInv, BurnsApart, SpentNowhere, [CredentialsNext]_allVars
  PROVE  SpentNowhere'
<1>1. CASE RecoveryStep
  <2>1. Next /\ writer' = writer
    BY <1>1 DEF RecoveryStep
  <2>2. \A u \in Accounts : SecretsIn(users'[u]) \cap spent' = {}
    BY <2>1, RecoveryRevivesNone DEF SpentNowhere
  <2>3. ASSUME NEW w \in Writers, writer[w].at = "write",
               NEW s \in SecretsIn(writer[w].snap), s \in spent'
        PROVE  FALSE
    <3>1. PICK r \in Requests : req[r].at = "burn" /\ s = req[r].token
      BY <2>1, <2>3, RecoveryRevivesNone DEF SpentNowhere
    <3>2. req[s].email = req[r].email
      BY <3>1 DEF CredentialsInv, RequestsSound, Ready
    <3>3. req[s].email = writer[w].email
      BY <2>3 DEF CredentialsInv, WritersSound, Carries, Sound, Owned, SecretsIn
    <3>4. QED
      BY <2>3, <3>1, <3>2, <3>3 DEF BurnsApart
  <2>4. QED
    BY <2>1, <2>2, <2>3 DEF SpentNowhere
<1>2. ASSUME UNCHANGED <<users, spent>>,
             \A w \in Writers :
               writer'[w].at = "write"
                 => \/ writer'[w] = writer[w]
                    \/ /\ writer'[w].email \in Accounts
                       /\ writer'[w].snap = users[writer'[w].email]
      PROVE  SpentNowhere'
  BY <1>2 DEF SpentNowhere
<1>3. ASSUME NEW w \in Writers, Write(w)
      PROVE  SpentNowhere'
  BY <1>3, WriteLeaves DEF SpentNowhere
<1>4. QED
  BY <1>1, <1>2, <1>3, WriterMoves

\* Where the requests about an account let a consumption be written before they
\* read the document, and theirs be written before the next begins, a consumed
\* secret is in no document ever again: what OnlyWriteBackRevives allows comes
\* of that one overlap.
THEOREM NothingRevivedInTurn == CredentialsSpec /\ []BurnsApart => []SpentIsGone
<1>1. CredentialsInit => SpentNowhere
  BY DEF CredentialsInit, Init, SpentNowhere, NewWriter
<1>2. CredentialsInv /\ SpentNowhere => SpentIsGone
  <2> SUFFICES ASSUME CredentialsInv, SpentNowhere, NEW u \in Accounts
               PROVE  users[u].hash \notin spent /\ users[u].proof \notin spent
    BY DEF SpentIsGone
  <2>1. NoSecret \notin spent
    BY RecoveryAssumption DEF CredentialsInv, RecoveryTypes
  <2>2. QED
    BY <2>1 DEF SpentNowhere, SecretsIn
<1>3. CredentialsInv /\ BurnsApart /\ SpentNowhere /\ [CredentialsNext]_allVars
        => SpentNowhere'
  BY SpentNowhereStays
<1>4. QED
  BY <1>1, <1>2, <1>3, InvAlways, PTL DEF CredentialsSpec

LEMMA UpdatesFreshStays ==
  ASSUME CredentialsInv, BurnsApart, UpdatesApart, UpdatesFresh, [CredentialsNext]_allVars
  PROVE  UpdatesFresh'
<1>0. \A w \in Writers : writer[w].at = "write" => writer[w].email \in Accounts
  BY KnownWriter DEF CredentialsInv, Addressed
<1>1. CASE RecoveryStep
  <2>1. Next /\ writer' = writer
    BY <1>1 DEF RecoveryStep
  <2>2. ASSUME NEW w \in Writers, writer[w].at = "write"
        PROVE  users'[writer[w].email].password = users[writer[w].email].password
    BY <1>0, <2>1, <2>2, RecoveryPasswords DEF BurnsApart
  <2>3. QED
    BY <2>1, <2>2 DEF UpdatesFresh
<1>2. ASSUME UNCHANGED <<users, spent>>,
             \A w \in Writers :
               writer'[w].at = "write"
                 => \/ writer'[w] = writer[w]
                    \/ /\ writer'[w].email \in Accounts
                       /\ writer'[w].snap = users[writer'[w].email]
      PROVE  UpdatesFresh'
  BY <1>2 DEF UpdatesFresh
<1>3. ASSUME NEW w \in Writers, Write(w)
      PROVE  UpdatesFresh'
  <2>1. ASSUME NEW v \in Writers, writer'[v].at = "write", writer'[v].kind = "update"
        PROVE  writer'[v].snap.password = users'[writer'[v].email].password
    <3>1. v # w /\ writer'[v] = writer[v] /\ writer[v].email \in Accounts
      BY <1>0, <1>3, <2>1, WriteLeaves
    <3>2. CASE writer[v].email = writer[w].email
      <4>1. writer[w].kind = "update"
        BY <1>3, <2>1, <3>1, <3>2, WriteLeaves DEF UpdatesApart
      <4>2. QED
        BY <1>3, <2>1, <3>1, <3>2, <4>1, WriteLeaves DEF UpdatesFresh
    <3>3. CASE writer[v].email # writer[w].email
      BY <1>3, <2>1, <3>1, <3>3, WriteLeaves DEF UpdatesFresh
    <3>4. QED
      BY <3>2, <3>3
  <2>2. QED
    BY <2>1 DEF UpdatesFresh
<1>4. QED
  BY <1>1, <1>2, <1>3, WriterMoves

\* Where an update of one's data also lets no password be set between its read
\* and its write, no password ever comes back: each new one is the one its
\* request brought.
THEOREM NoPasswordReturnsInTurn ==
  CredentialsSpec /\ []BurnsApart /\ []UpdatesApart
    => [][\A u \in Accounts :
            LET p == users'[u].password
            IN p # users[u].password
                 => \/ p \in Requests /\ req[p].at = "burn" /\ req[p].email = u
                    \/ p \in Writers /\ writer[p].at = "write" /\ writer[p].email = u]_allVars
<1> DEFINE Brought ==
      \A u \in Accounts :
        LET p == users'[u].password
        IN p # users[u].password
             => \/ p \in Requests /\ req[p].at = "burn" /\ req[p].email = u
                \/ p \in Writers /\ writer[p].at = "write" /\ writer[p].email = u
<1>1. CredentialsInit => UpdatesFresh
  BY DEF CredentialsInit, UpdatesFresh, NewWriter
<1>2. ASSUME CredentialsInv, UpdatesFresh, [CredentialsNext]_allVars
      PROVE  Brought
  <2> SUFFICES ASSUME NEW u \in Accounts, users'[u].password # users[u].password
               PROVE  LET p == users'[u].password
                      IN \/ p \in Requests /\ req[p].at = "burn" /\ req[p].email = u
                         \/ p \in Writers /\ writer[p].at = "write" /\ writer[p].email = u
    OBVIOUS
  <2>1. CASE RecoveryStep
    BY <1>2, <2>1, RecoveryPasswords DEF RecoveryStep
  <2>2. ASSUME NEW w \in Writers, Write(w)
        PROVE  users'[u].password = w /\ writer[w].at = "write" /\ writer[w].email = u
    BY <1>2, <2>2, WriteLeaves DEF UpdatesFresh
  <2>3. QED
    BY <1>2, <2>1, <2>2, WriterMoves
<1> HIDE DEF Brought
<1>3. CredentialsInv /\ BurnsApart /\ UpdatesApart /\ UpdatesFresh
        /\ [CredentialsNext]_allVars => UpdatesFresh'
  BY UpdatesFreshStays
<1>4. CredentialsInv /\ UpdatesFresh /\ [CredentialsNext]_allVars => [Brought]_allVars
  BY <1>2
<1>5. CredentialsSpec /\ []BurnsApart /\ []UpdatesApart => [][Brought]_allVars
  BY <1>1, <1>3, <1>4, InvAlways, PTL DEF CredentialsSpec
<1>6. QED
  BY <1>5 DEF Brought

---------------------------------------------------------------------------
(* The limiter.  The writers neither call it nor touch the requests of     *)
(* recovery, whose part of the proofs never asks what a document holds: so *)
(* all it guarantees of recovery alone it guarantees here.                 *)

LEMMA AnyIsShaped == RecoveryTypes => Shaped
<1>1. AnyRequest = RequestWith(AnyUser)
  BY DEF AnyRequest, RequestWith
<1>2. QED
  BY <1>1 DEF RecoveryTypes, Shaped

LEMMA WritersSpareLimiter ==
  ASSUME [CredentialsNext]_allVars
  PROVE  Next \/ UNCHANGED <<limiterVars, req, spent>>
<1>1. ASSUME UNCHANGED vars
      PROVE  UNCHANGED <<limiterVars, req, spent>>
  BY <1>1 DEF vars, recoveryVars
<1>2. ASSUME NEW w, NEW kind, NEW u, Read(w, kind, u) \/ Forbidden(w, kind)
      PROVE  UNCHANGED <<limiterVars, req, spent>>
  BY <1>1, <1>2 DEF Read, Forbidden
<1>3. ASSUME NEW w, Write(w)
      PROVE  UNCHANGED <<limiterVars, req, spent>>
  BY <1>3 DEF Write
<1>4. QED
  BY <1>1, <1>2, <1>3
  DEF CredentialsNext, RecoveryStep, MailLink, ChangeWithOld, ResetWithLink, allVars

\* The requests that Credentials adds leave the limiter alone, so what is proved
\* of OtpRateLimit holds of the limiter beside them too.
LEMMA CredentialsUseLimiter == CredentialsSpec => UsesLimiter
<1>1. CredentialsInit => Limiter!Init
  BY DEF CredentialsInit, Init
<1>2. ASSUME CredentialsInv, [CredentialsNext]_allVars
      PROVE  [Limiter!Next]_(Limiter!vars)
  <2>1. CASE Next
    BY <1>2, <2>1, AnyIsShaped, NextUsesLimiter
    DEF CredentialsInv, limiterVars, Limiter!vars
  <2>2. CASE UNCHANGED limiterVars
    BY <2>2 DEF limiterVars, Limiter!vars
  <2>3. QED
    BY <1>2, <2>1, <2>2, WritersSpareLimiter
<1>3. CredentialsInv /\ [CredentialsNext]_allVars => [Limiter!Next]_(Limiter!vars)
  BY <1>2
<1>4. QED
  BY <1>1, <1>3, InvAlways, PTL DEF CredentialsSpec, UsesLimiter, Limiter!Spec

\* However the requests of an account overlap, no key gets more than twice a
\* limit, less one, of its calls past a gate in less than a Window; and while
\* Redis answers, counters expire, refusals end and failures lock.
THEOREM CredentialsLimited ==
  CredentialsSpec => [](/\ Limiter!BoundedBurst
                        /\ Limiter!CountersExpire
                        /\ Limiter!RefusalIsTemporaryWithRedis
                        /\ Limiter!FailuresLock)
  BY CredentialsUseLimiter, LimiterBounds, LimiterRecovers, PTL

LEMMA CredentialsShaped == CredentialsSpec => [](Shaped /\ Limiter!TypeOK)
<1>1. CredentialsInv => Shaped
  BY AnyIsShaped DEF CredentialsInv
<1>2. QED
  BY <1>1, InvAlways, CredentialsUseLimiter, LimiterTyped, PTL

LEMMA CredentialsTied == CredentialsSpec => []TiedInv
<1>1. CredentialsInit => TiedInv
  BY InitTied DEF CredentialsInit
<1>2. (Shaped /\ Limiter!TypeOK) /\ TiedInv /\ [CredentialsNext]_allVars => TiedInv'
  BY TiedStays, WritersSpareLimiter DEF AnyStep
<1>3. QED
  BY <1>1, <1>2, CredentialsShaped, PTL DEF CredentialsSpec

\* A lockout ends early only when a request of recovery that presented a valid
\* secret has been written: the change with the old password, the reset by link,
\* the update and the administrators lift none.
THEOREM OthersLiftNoLock == CredentialsSpec => LockLiftedBySuccess
  BY LocksLifted, CredentialsTied, CredentialsShaped, LimiterLocks,
     CredentialsUseLimiter, PTL

\* A code that another request has written back is still judged only past the
\* gate of its key: putting the old document in place gives no free guesses.
THEOREM WriteBackIsJudgedCounted == CredentialsSpec => []JudgedAreCounted
<1>1. CredentialsInit => CountInv
  BY InitCounted DEF CredentialsInit
<1>2. (Shaped /\ Limiter!TypeOK) /\ (Shaped /\ Limiter!TypeOK)' /\ TiedInv
        /\ CountInv /\ [CredentialsNext]_allVars => CountInv'
  BY CountStays, WritersSpareLimiter DEF AnyStep, CountInv
<1>3. CountInv /\ Limiter!TypeOK => JudgedAreCounted
  BY CountedJudged
<1>4. QED
  BY <1>1, <1>2, <1>3, CredentialsShaped, CredentialsTied, PTL DEF CredentialsSpec

\* And no request of recovery is left waiting for an answer that never comes,
\* whatever document it finds.
THEOREM OthersStrandNobody == CredentialsSpec => [](\A r \in Requests : Served(r))
<1>1. CredentialsInit => WaitInv
  BY InitWaits DEF CredentialsInit
<1>2. (Shaped /\ Limiter!TypeOK) /\ WaitInv /\ [CredentialsNext]_allVars => WaitInv'
  BY WaitStays, WritersSpareLimiter DEF AnyStep
<1>3. Shaped /\ WaitInv => \A r \in Requests : Served(r)
  BY WaitsServed
<1>4. QED
  BY <1>1, <1>2, <1>3, CredentialsShaped, PTL DEF CredentialsSpec

=============================================================================
