--------------------------- MODULE RecoveryProofs ---------------------------
(***************************************************************************)
(* What module Recovery keeps for every number of requests, accounts,      *)
(* faults and every value of the limits.                                   *)
(***************************************************************************)
EXTENDS Recovery, TLAPS

---------------------------------------------------------------------------
(* The clock moves only by a tick. *)

LEMMA ClockAtCall ==
  ASSUME NEW r \in Requests, Limiter!CallStep(r)
  PROVE  now' = now
  BY DEF Limiter!CallStep, Limiter!CommandStep, Limiter!GetLock, Limiter!Incr,
     Limiter!Expire, Limiter!SetLock, Limiter!Del, Limiter!Fail, Limiter!Resend

LEMMA ClockAtFail ==
  ASSUME NEW r \in Requests, Limiter!Fail(r)
  PROVE  now' = now
  BY DEF Limiter!Fail

LEMMA ClockAtBegin ==
  ASSUME NEW r \in Requests, NEW op, NEW k, Limiter!Begin(r, op, k)
  PROVE  now' = now
  BY DEF Limiter!Begin

LEMMA ClockTicks ==
  ASSUME Limiter!Tick
  PROVE  now' = now + 1
  BY DEF Limiter!Tick

---------------------------------------------------------------------------
(* Type correctness. *)

\* A request that is about to write has an account, and one that was accepted
\* has a secret.
Routed(x) ==
  /\ x.at # "idle" => x.email \in Emails
  /\ x.at \in {"store", "miss", "burn"} => x.email \in Accounts
  /\ x.at = "burn" => x.token \in Requests

Requested ==
  /\ req \in [Requests -> RequestRecord]
  /\ \A r \in Requests : Routed(req[r])

TypeInv == TypeOK /\ Requested

LEMMA NewUserType == NewUser \in UserRecord
  BY RecoveryAssumption DEF NewUser, UserRecord, Times, Secrets

LEMMA NewRequestType == NewRequest \in RequestRecord
  BY NewUserType, RecoveryAssumption DEF NewRequest, RequestRecord, Kinds, Times

LEMMA InitType == Init => TypeInv
  BY NewUserType, NewRequestType, RecoveryAssumption
  DEF Init, TypeInv, Requested, Routed, TypeOK, Limiter!Init, NewRequest

\* A request that is answered or moves on keeps its type.
LEMMA AnswerType ==
  ASSUME TypeInv, NEW r \in Requests, NEW at \in Answers, Answer(r, at), req[r].at # "idle"
  PROVE  Requested'
<1> DEFINE next == [req[r] EXCEPT !.at = at, !.snap = NewUser]
<1>1. req[r] \in RequestRecord /\ Routed(req[r])
  BY DEF TypeInv, Requested
<1>2. next \in RequestRecord /\ Routed(next)
  BY <1>1, NewUserType DEF RequestRecord, Answers, Routed
<1>3. req' = [req EXCEPT ![r] = next]
  BY DEF Answer
<1> HIDE DEF next
<1> QED
  BY <1>2, <1>3 DEF TypeInv, Requested

LEMMA GotoType ==
  ASSUME TypeInv, NEW r \in Requests, NEW at \in Pending, Goto(r, at), req[r].at # "idle",
         at \in {"store", "miss", "burn"} => req[r].email \in Accounts,
         at = "burn" => req[r].token \in Requests
  PROVE  Requested'
<1> DEFINE next == [req[r] EXCEPT !.at = at]
<1>1. req[r] \in RequestRecord /\ Routed(req[r])
  BY DEF TypeInv, Requested
<1>2. next \in RequestRecord /\ Routed(next)
  BY <1>1 DEF RequestRecord, Pending, Routed
<1>3. req' = [req EXCEPT ![r] = next]
  BY DEF Goto
<1> HIDE DEF next
<1> QED
  BY <1>2, <1>3 DEF TypeInv, Requested

\* The rest of a step: what it writes has the document's type.
LEMMA StepType ==
  ASSUME TypeInv, Requested', now' \in {now, now + 1},
         users' = users \/ users' \in [Accounts -> UserRecord],
         delivered' \subseteq Requests, spent' \subseteq Requests
  PROVE  TypeInv'
  BY DEF TypeInv, TypeOK, Requested, Routed

LEMMA WriteType ==
  ASSUME TypeInv, NEW r \in Requests, req[r].email \in Accounts,
         NEW user \in UserRecord, users' = [users EXCEPT ![req[r].email] = user]
  PROVE  users' \in [Accounts -> UserRecord]
  BY DEF TypeInv, TypeOK

LEMMA Known ==
  ASSUME TypeInv, NEW r \in Requests
  PROVE  /\ req[r] \in RequestRecord /\ Routed(req[r])
         /\ req[r].email \in Accounts => users[req[r].email] \in UserRecord
         /\ delivered \subseteq Requests /\ spent \subseteq Requests
         /\ now \in Nat
  BY DEF TypeInv, TypeOK, Requested

\* What is verified is a secret.
LEMMA ValidIsSecret ==
  ASSUME TypeInv, NEW r \in Requests, Valid(r)
  PROVE  req[r].token \in Requests
<1>1. /\ req[r].token \in Requests \cup {Wrong}
      /\ req[r].snap.hash \in Secrets /\ req[r].snap.proof \in Secrets
  BY Known DEF RequestRecord, UserRecord
<1>2. QED
  BY <1>1, RecoveryAssumption
  DEF Valid, ChangeAllowed, CodeValid, Verifies, Secrets

LEMMA ArriveType ==
  ASSUME TypeInv, NEW r \in Requests, Arrive(r)
  PROVE  TypeInv'
<1>1. PICK kind \in Kinds, email \in Emails, token \in delivered \cup {Wrong} :
        Start(r, kind, email, token)
  BY DEF Arrive
<1> DEFINE next == [NewRequest EXCEPT !.kind = kind, !.email = email,
                      !.token = token, !.at = "admit",
                      !.snap = IF email \in Accounts THEN users[email] ELSE NewUser]
<1>2. next \in RequestRecord /\ Routed(next)
  BY NewUserType, NewRequestType DEF TypeInv, TypeOK, RequestRecord, Pending, Routed
<1>3. req' = [req EXCEPT ![r] = next] /\ UNCHANGED <<users, delivered, spent>>
  BY <1>1 DEF Start
<1>4. now' = now
  BY <1>1, ClockAtBegin DEF Start
<1> HIDE DEF next
<1>5. Requested'
  BY <1>2, <1>3 DEF TypeInv, Requested
<1>6. QED
  BY <1>3, <1>4, <1>5, StepType, Known

LEMMA ServiceType ==
  ASSUME TypeInv, NEW r \in Requests, ServiceStep(r)
  PROVE  TypeInv'
<1> USE StepType, Known
<1>1. CASE Refused(r)
  BY <1>1, AnswerType DEF Refused, Answers, limiterVars
<1>2. CASE GenerateUnknown(r)
  BY <1>2, AnswerType DEF GenerateUnknown, Admitted, Answers, limiterVars
<1>3. CASE DrawCode(r)
  <2> DEFINE next == [req[r] EXCEPT !.at = "store", !.snap = NewUser,
                                    !.expiresAt = now + CodeTtl, !.born = now]
  <2>1. /\ req[r].at = "admit" /\ req[r].email \in Accounts
        /\ now + CodeTtl \in Times /\ now \in Nat
    BY <1>3, RecoveryAssumption DEF DrawCode, Admitted, Times
  <2>2. next \in RequestRecord
    BY <2>1, NewUserType DEF RequestRecord, Pending
  <2>3. Routed(next)
    BY <2>1 DEF Routed, Emails, RequestRecord
  <2>4. req' = [req EXCEPT ![r] = next]
    BY <1>3 DEF DrawCode
  <2> HIDE DEF next
  <2>5. Requested'
    BY <2>2, <2>3, <2>4 DEF TypeInv, Requested
  <2>6. QED
    BY <1>3, <2>5 DEF DrawCode, limiterVars
<1>4. CASE StoreCode(r)
  <2>1. Requested'
    BY <1>4, GotoType DEF StoreCode, Pending
  <2>2. users' \in [Accounts -> UserRecord]
    <3> DEFINE user == [users[req[r].email] EXCEPT
                          !.proof = NoSecret, !.proofExpiresAt = Never,
                          !.hash = r, !.expiresAt = req[r].expiresAt,
                          !.attempts = 0, !.blockedUntil = Never]
    <3>1. req[r].email \in Accounts /\ req[r].expiresAt \in Times
      BY <1>4 DEF StoreCode, Routed, RequestRecord
    <3>2. user \in UserRecord
      BY <3>1 DEF UserRecord, Secrets, Times
    <3>3. users' = [users EXCEPT ![req[r].email] = user]
      BY <1>4 DEF StoreCode
    <3>4. QED
      BY <3>1, <3>2, <3>3, WriteType
  <2>3. QED
    BY <1>4, <2>1, <2>2 DEF StoreCode, limiterVars
<1>5. CASE Mail(r)
  <2>1. Requested'
    BY <1>5, AnswerType DEF Mail, Answers
  <2>2. QED
    BY <1>5, <2>1 DEF Mail, limiterVars
<1>6. CASE TokenForUnknown(r)
  <2>1. Requested'
    BY <1>6, GotoType DEF TokenForUnknown, Admitted, Pending
  <2>2. QED
    BY <1>6, <2>1, ClockAtBegin DEF TokenForUnknown
<1>7. CASE Judge(r)
  <2>1. Requested'
    BY <1>7, GotoType, AnswerType, ValidIsSecret DEF Judge, Admitted, Pending, Answers
  <2>2. QED
    BY <1>7, <2>1 DEF Judge, limiterVars
<1>8. CASE Miss(r)
  <2>1. Requested'
    BY <1>8, GotoType DEF Miss, Pending
  <2>2. req[r].email \in Accounts /\ req[r].snap.attempts + 1 \in Nat /\ now + BlockFor \in Nat
    BY <1>8, RecoveryAssumption DEF Miss, Routed, RequestRecord, UserRecord
  <2>3. users' \in [Accounts -> UserRecord]
    <3> DEFINE attempts == req[r].snap.attempts + 1
               old == users[req[r].email]
               user == [old EXCEPT !.attempts = attempts,
                          !.blockedUntil = IF attempts >= MaxAttempts
                                             THEN now + BlockFor
                                             ELSE old.blockedUntil]
    <3>1. user \in UserRecord
      BY <2>2 DEF UserRecord, Times
    <3>2. users' = [users EXCEPT ![req[r].email] = user]
      BY <1>8 DEF Miss
    <3>3. QED
      BY <2>2, <3>1, <3>2, WriteType
  <2>4. QED
    BY <1>8, <2>1, <2>3, ClockAtBegin DEF Miss
<1>9. CASE BurnCode(r)
  <2>1. /\ req[r].token \in Requests /\ req[r].email \in Accounts
        /\ req[req[r].token] \in RequestRecord
    BY <1>9 DEF BurnCode, Routed
  <2> DEFINE next == [req[r] EXCEPT !.at = "clear", !.born = req[req[r].token].born]
  <2>2. next \in RequestRecord /\ Routed(next)
    BY <2>1 DEF RequestRecord, Pending, Routed, Emails
  <2>3. req' = [req EXCEPT ![r] = next]
    BY <1>9 DEF BurnCode
  <2> HIDE DEF next
  <2>4. Requested'
    BY <2>2, <2>3 DEF TypeInv, Requested
  <2>5. users' \in [Accounts -> UserRecord]
    <3> DEFINE user == [users[req[r].email] EXCEPT
                          !.proof = r, !.proofExpiresAt = req[r].snap.expiresAt,
                          !.hash = NoSecret, !.expiresAt = req[r].snap.expiresAt,
                          !.attempts = 0, !.blockedUntil = Never]
    <3>1. user \in UserRecord
      BY <2>1 DEF UserRecord, RequestRecord, Secrets, Times
    <3>2. users' = [users EXCEPT ![req[r].email] = user]
      BY <1>9 DEF BurnCode
    <3>3. QED
      BY <2>1, <3>1, <3>2, WriteType
  <2>6. QED
    BY <1>9, <2>1, <2>4, <2>5, ClockAtBegin DEF BurnCode
<1>10. CASE ChangePassword(r)
  <2>1. Requested'
    BY <1>10, GotoType DEF ChangePassword, Pending
  <2>2. [NewUser EXCEPT !.password = r] \in UserRecord
    BY NewUserType DEF UserRecord
  <2>3. req[r].token \in Requests /\ req[r].email \in Accounts
    BY <1>10 DEF ChangePassword, Routed
  <2>4. users' \in [Accounts -> UserRecord]
    BY <1>10, <2>2, <2>3, WriteType DEF ChangePassword
  <2>5. QED
    BY <1>10, <2>1, <2>3, <2>4, ClockAtBegin DEF ChangePassword
<1>11. CASE FailureRegistered(r)
  <2>1. Requested'
    BY <1>11, AnswerType DEF FailureRegistered, Answers
  <2>2. QED
    BY <1>11, <2>1 DEF FailureRegistered, limiterVars
<1>12. CASE FailuresCleared(r)
  <2>1. Requested'
    BY <1>12, AnswerType DEF FailuresCleared, Answers
  <2>2. QED
    BY <1>12, <2>1 DEF FailuresCleared, limiterVars
<1>13. QED
  BY <1>1, <1>2, <1>3, <1>4, <1>5, <1>6, <1>7, <1>8, <1>9, <1>10, <1>11, <1>12
  DEF ServiceStep

LEMMA AbortClock ==
  ASSUME NEW r \in Requests, Abort(r)
  PROVE  now' = now
  BY ClockAtFail DEF Abort, limiterVars

LEMMA NextType == TypeInv /\ [Next]_vars => TypeInv'
<1> SUFFICES ASSUME TypeInv, [Next]_vars PROVE TypeInv'
  OBVIOUS
<1>1. ASSUME UNCHANGED recoveryVars, now' \in {now, now + 1}
      PROVE  TypeInv'
  BY <1>1 DEF recoveryVars, TypeInv, TypeOK, Requested, Routed
<1>2. CASE Tick
  BY <1>1, <1>2, ClockTicks DEF Tick
<1>3. ASSUME NEW r \in Requests, Arrive(r)
      PROVE  TypeInv'
  BY <1>3, ArriveType
<1>4. ASSUME NEW r \in Requests, ServiceStep(r)
      PROVE  TypeInv'
  BY <1>4, ServiceType
<1>5. ASSUME NEW r \in Requests, Abort(r)
      PROVE  TypeInv'
  <2>1. now' = now
    BY <1>5, AbortClock
  <2>2. Requested'
    BY <1>5, AnswerType DEF Abort, Answers, Pending
  <2>3. QED
    BY <1>5, <2>1, <2>2, StepType, Known DEF Abort
<1>6. ASSUME NEW r \in Requests, LimiterStep(r)
      PROVE  TypeInv'
  BY <1>1, <1>6, ClockAtCall DEF LimiterStep
<1>7. CASE UNCHANGED vars
  BY <1>1, <1>7 DEF vars, limiterVars
<1>8. QED
  BY <1>2, <1>3, <1>4, <1>5, <1>6, <1>7 DEF Next

\* The user documents, the requests and what was delivered or consumed have
\* their types in every reachable state.
THEOREM TypeCorrect == Spec => []TypeOK
<1>1. TypeInv => TypeOK
  BY DEF TypeInv
<1>2. QED
  BY <1>1, InitType, NextType, PTL DEF Spec

---------------------------------------------------------------------------
(* Recovery is one of the systems the limiter is shown correct for.        *)

LEMMA KeyIsKey ==
  ASSUME NEW email \in Emails
  PROVE  ThrottleKey[email] \in Keys
  BY RecoveryAssumption

\* What the limiter's part of the proofs asks of the requests, whatever the
\* documents are that they have read.
RequestWith(U) ==
  [kind : Kinds, email : Emails \cup {NoEmail},
   token : Requests \cup {Wrong}, at : {"idle"} \cup Pending \cup Answers,
   snap : U, expiresAt : Times, born : Nat]

Shaped ==
  /\ \E U : req \in [Requests -> RequestWith(U)]
  /\ \A r \in Requests : Routed(req[r])

LEMMA TypedIsShaped == TypeInv => Shaped
<1>1. RequestRecord = RequestWith(UserRecord)
  BY DEF RequestRecord, RequestWith
<1>2. QED
  BY <1>1 DEF TypeInv, Requested, Shaped

LEMMA NextUsesLimiter ==
  ASSUME Shaped, [Next]_vars
  PROVE  [Limiter!Next]_limiterVars
<1>1. ASSUME NEW r \in Requests, NEW op \in Limiter!Ops, NEW k \in Keys,
             Limiter!Begin(r, op, k)
      PROVE  Limiter!Next
  BY <1>1 DEF Limiter!Next
<1>2. ASSUME NEW r \in Requests, Limiter!CallStep(r)
      PROVE  Limiter!Next
  BY <1>2 DEF Limiter!Next
<1>3. {"generate", "validate", "failure", "clear"} = Limiter!Ops
  BY DEF Limiter!Ops, Limiter!Gates
<1>4. ASSUME NEW r \in Requests, req[r].at # "idle"
      PROVE  KeyOf(r) \in Keys
  BY <1>4, KeyIsKey DEF KeyOf, Shaped, Routed
<1>5. CASE Tick
  BY <1>5 DEF Tick, Limiter!Next
<1>6. ASSUME NEW r \in Requests, Arrive(r)
      PROVE  Limiter!Next
  BY <1>1, <1>3, <1>6, KeyIsKey DEF Arrive, Start
<1>7. ASSUME NEW r \in Requests, ServiceStep(r)
      PROVE  Limiter!Next \/ UNCHANGED limiterVars
  BY <1>1, <1>3, <1>4, <1>7
  DEF ServiceStep, Refused, GenerateUnknown, DrawCode, StoreCode, Mail, TokenForUnknown,
      Judge, Miss, BurnCode, ChangePassword, FailureRegistered, FailuresCleared, Admitted
<1>8. ASSUME NEW r \in Requests, Abort(r)
      PROVE  Limiter!Next \/ UNCHANGED limiterVars
  BY <1>2, <1>8 DEF Abort, Limiter!CallStep
<1>9. ASSUME NEW r \in Requests, LimiterStep(r)
      PROVE  Limiter!Next
  BY <1>2, <1>9 DEF LimiterStep
<1>10. CASE UNCHANGED vars
  BY <1>10 DEF vars
<1>11. QED
  BY <1>5, <1>6, <1>7, <1>8, <1>9, <1>10 DEF Next

\* Seen from the limiter, requests are processes that call it one operation at
\* a time.  Recovery is built that way, from the limiter's own actions; the
\* lemma carries what is proved of OtpRateLimit over to the limiter inside.
UsesLimiter == Limiter!Spec

LEMMA RecoveryUsesLimiter == Spec => UsesLimiter
<1>1. Init => Limiter!Init
  BY DEF Init
<1>2. TypeInv /\ [Next]_vars => [Limiter!Next]_(Limiter!vars)
  BY NextUsesLimiter, TypedIsShaped DEF limiterVars, Limiter!vars
<1>3. QED
  BY <1>1, <1>2, InitType, NextType, PTL DEF Spec, UsesLimiter, Limiter!Spec


---------------------------------------------------------------------------
(* The secrets.  rq stands for req in the state before a step or after it. *)

\* A request with one of these has not written its secret.
Unwritten == {"idle", "admit", "store", "burn"}

\* What document u may hold: a secret that was written for u, up to CodeTtl
\* after its code was drawn.
Owned(rq, u, s, until) ==
  s # NoSecret => /\ rq[s].at \notin Unwritten
                  /\ rq[s].email = u
                  /\ until = rq[s].born + CodeTtl

Sound(rq, u, user) ==
  /\ Owned(rq, u, user.hash, user.expiresAt)
  /\ Owned(rq, u, user.proof, user.proofExpiresAt)
  /\ user.hash = NoSecret \/ user.proof = NoSecret

\* What a request is about to write.
Ready(rq, r, t) ==
  /\ rq[r].at = "store" => /\ rq[r].expiresAt = rq[r].born + CodeTtl
                           /\ rq[r].born <= t
  /\ rq[r].at = "burn" =>
       /\ rq[rq[r].token].email = rq[r].email
       /\ rq[r].kind = "validate"
            => rq[r].snap.expiresAt = rq[rq[r].token].born + CodeTtl

DocumentsSound == \A u \in Accounts : Sound(req, u, users[u])
RequestsSound ==
  \A r \in Requests : /\ Sound(req, req[r].email, req[r].snap)
                      /\ req[r].token \in delivered \cup {Wrong}
                      /\ Ready(req, r, now)
DeliveredAnswered ==
  /\ \A s \in delivered : req[s].at \in Answers
  /\ spent \subseteq delivered

SecretInv ==
  TypeInv /\ DocumentsSound /\ RequestsSound /\ DeliveredAnswered /\ SpentIsGone

\* A step of request r, other than its arrival, changes no other request, and
\* not what a document relies on once r has written its secret.
Moves(r, rq, next) ==
  /\ \A q \in Requests \ {r} : next[q] = rq[q]
  /\ rq[r].at \notin Answers
  /\ next[r].email = rq[r].email /\ next[r].token = rq[r].token
  /\ next[r].snap \in {rq[r].snap, NewUser}
  /\ rq[r].at \notin Unwritten
       => next[r].at \notin Unwritten /\ next[r].born = rq[r].born

Stable(rq, next) ==
  \A s \in Requests :
    rq[s].at \notin Unwritten
      => /\ next[s].at \notin Unwritten
         /\ next[s].email = rq[s].email /\ next[s].born = rq[s].born

LEMMA SoundStays ==
  ASSUME NEW rq, NEW next, Stable(rq, next), NEW u, NEW user \in UserRecord,
         Sound(rq, u, user)
  PROVE  Sound(next, u, user)
  BY DEF Stable, Sound, Owned, UserRecord, Secrets

LEMMA NewUserSound ==
  ASSUME NEW rq, NEW u
  PROVE  Sound(rq, u, NewUser)
  BY DEF Sound, Owned, NewUser

LEMMA MovesStable ==
  ASSUME NEW r \in Requests, NEW rq, NEW next, Moves(r, rq, next)
  PROVE  Stable(rq, next)
  BY DEF Moves, Stable

LEMMA AnswerMoves ==
  ASSUME TypeInv, NEW r \in Requests, NEW at \in Answers, req[r].at \in Pending,
         Answer(r, at)
  PROVE  Moves(r, req, req') /\ req'[r].at = at
  BY Known DEF Answer, Moves, Answers, Pending, Unwritten, TypeInv, TypeOK, RequestRecord

LEMMA GotoMoves ==
  ASSUME TypeInv, NEW r \in Requests, NEW at \in Pending, req[r].at \in Pending,
         req[r].at \in Unwritten \/ at \notin Unwritten, Goto(r, at)
  PROVE  Moves(r, req, req') /\ req'[r] = [req[r] EXCEPT !.at = at]
  BY Known DEF Goto, Moves, Answers, Pending, Unwritten, TypeInv, TypeOK, RequestRecord

LEMMA MoveKeepsRequests ==
  ASSUME SecretInv, NEW r \in Requests, Moves(r, req, req'), now' \in Nat, now <= now',
         delivered \subseteq delivered', delivered' \subseteq delivered \cup {r},
         r \in delivered' => req'[r].at \in Answers,
         spent' \subseteq delivered,
         Ready(req', r, now')
  PROVE  RequestsSound' /\ DeliveredAnswered'
<1>1. r \notin delivered
  BY DEF SecretInv, DeliveredAnswered, Moves
<1>2. DeliveredAnswered'
  <2>1. ASSUME NEW s \in delivered'
        PROVE  req'[s].at \in Answers
    BY <1>1 DEF SecretInv, DeliveredAnswered, Moves, TypeInv, TypeOK
  <2>2. QED
    BY <2>1 DEF DeliveredAnswered
<1>3. ASSUME NEW q \in Requests
      PROVE  Sound(req', req'[q].email, req'[q].snap)
  <2>1. Sound(req', req[q].email, req[q].snap)
    <3>1. req[q].snap \in UserRecord
      BY Known DEF SecretInv, RequestRecord
    <3>2. QED
      BY <3>1, MovesStable, SoundStays DEF SecretInv, RequestsSound
  <2>2. Sound(req', req[q].email, NewUser)
    BY NewUserSound
  <2>3. QED
    BY <2>1, <2>2 DEF Moves
<1>4. ASSUME NEW q \in Requests
      PROVE  req'[q].token \in delivered' \cup {Wrong}
  BY DEF SecretInv, RequestsSound, Moves
<1>5. ASSUME NEW q \in Requests \ {r}
      PROVE  Ready(req', q, now')
  <2>1. req'[q] = req[q] /\ Ready(req, q, now) /\ req[q].born \in Nat /\ now \in Nat
    BY Known DEF Moves, SecretInv, RequestsSound, RequestRecord
  <2>2. CASE req[q].at = "burn"
    <3>1. req[q].token \in delivered
      BY <2>2, Known, RecoveryAssumption DEF SecretInv, RequestsSound, Routed
    <3>2. req[q].token \in Requests /\ req[q].token # r
      BY <1>1, <3>1 DEF SecretInv, TypeInv, TypeOK
    <3>3. QED
      BY <2>1, <2>2, <3>2 DEF Ready, Moves
  <2>3. CASE req[q].at # "burn"
    BY <2>1, <2>3 DEF Ready
  <2>4. QED
    BY <2>2, <2>3
<1>6. QED
  BY <1>2, <1>3, <1>4, <1>5 DEF RequestsSound

\* A step that leaves the documents alone.
LEMMA DocumentsStay ==
  ASSUME SecretInv, Stable(req, req'), UNCHANGED <<users, spent>>
  PROVE  DocumentsSound' /\ SpentIsGone'
<1>1. ASSUME NEW u \in Accounts
      PROVE  Sound(req', u, users[u])
  BY SoundStays DEF SecretInv, TypeInv, TypeOK, DocumentsSound
<1>2. QED
  BY <1>1 DEF SecretInv, DocumentsSound, SpentIsGone

LEMMA QuietKeepsSecrets ==
  ASSUME SecretInv, TypeInv', NEW r \in Requests, Moves(r, req, req'), now' = now,
         UNCHANGED <<users, spent>>,
         delivered \subseteq delivered', delivered' \subseteq delivered \cup {r},
         r \in delivered' => req'[r].at \in Answers,
         Ready(req', r, now)
  PROVE  SecretInv'
<1>1. now \in Nat
  BY Known DEF SecretInv, TypeInv, TypeOK
<1>2. spent' \subseteq delivered /\ Ready(req', r, now') /\ now <= now'
  BY <1>1 DEF SecretInv, DeliveredAnswered
<1>3. QED
  BY <1>1, <1>2, MoveKeepsRequests, DocumentsStay, MovesStable DEF SecretInv

LEMMA AnswerKeepsSecrets ==
  ASSUME SecretInv, TypeInv', NEW r \in Requests, NEW at \in Answers,
         req[r].at \in Pending, Answer(r, at), now' = now,
         UNCHANGED <<users, spent>>,
         delivered \subseteq delivered', delivered' \subseteq delivered \cup {r}
  PROVE  SecretInv'
<1>1. Moves(r, req, req') /\ req'[r].at = at
  BY AnswerMoves DEF SecretInv
<1>2. Ready(req', r, now)
  BY <1>1 DEF Ready, Answers
<1>3. QED
  BY <1>1, <1>2, QuietKeepsSecrets

\* A write to the document of request r, which then waits for the limiter or
\* for the mail service.
LEMMA WriteKeepsSecrets ==
  ASSUME SecretInv, TypeInv', NEW r \in Requests, Moves(r, req, req'),
         req'[r].at \in {"mail", "register", "clear"}, now' = now, delivered' = delivered,
         req[r].email \in Accounts, NEW user \in UserRecord,
         users' = [users EXCEPT ![req[r].email] = user],
         Sound(req', req[r].email, user),
         spent' \subseteq delivered,
         \A u \in Accounts \ {req[r].email} :
            users[u].hash \notin spent' /\ users[u].proof \notin spent',
         user.hash \notin spent' /\ user.proof \notin spent'
  PROVE  SecretInv'
<1>1. now' \in Nat /\ now <= now'
  BY Known DEF SecretInv, TypeInv, TypeOK
<1>2. Ready(req', r, now')
  BY DEF Ready
<1>3. r \notin delivered
  BY DEF SecretInv, DeliveredAnswered, Moves
<1>4. RequestsSound' /\ DeliveredAnswered'
  BY <1>1, <1>2, <1>3, MoveKeepsRequests
<1>5. users \in [Accounts -> UserRecord]
  BY DEF SecretInv, TypeInv, TypeOK
<1>6. ASSUME NEW u \in Accounts
      PROVE  Sound(req', u, users'[u])
  <2>1. Sound(req', u, users[u])
    BY <1>5, MovesStable, SoundStays DEF SecretInv, DocumentsSound
  <2>2. QED
    BY <1>5, <2>1
<1>7. SpentIsGone'
  BY <1>5 DEF SpentIsGone
<1>8. QED
  BY <1>4, <1>6, <1>7 DEF SecretInv, DocumentsSound

LEMMA StoreCodeKeepsSecrets ==
  ASSUME SecretInv, TypeInv', NEW r \in Requests, StoreCode(r)
  PROVE  SecretInv'
<1> DEFINE user == [users[req[r].email] EXCEPT
                      !.proof = NoSecret, !.proofExpiresAt = Never,
                      !.hash = r, !.expiresAt = req[r].expiresAt,
                      !.attempts = 0, !.blockedUntil = Never]
<1>1. /\ req[r].at = "store" /\ Goto(r, "mail")
      /\ users' = [users EXCEPT ![req[r].email] = user]
      /\ now' = now /\ delivered' = delivered /\ spent' = spent
  BY DEF StoreCode, limiterVars
<1>2. req[r].email \in Accounts /\ users[req[r].email] \in UserRecord
  BY <1>1, Known DEF SecretInv, Routed
<1>3. /\ Moves(r, req, req') /\ req'[r] = [req[r] EXCEPT !.at = "mail"]
  BY <1>1, GotoMoves DEF SecretInv, Pending, Unwritten
<1>4. /\ req[r].expiresAt = req[r].born + CodeTtl
      /\ req[r].expiresAt \in Times /\ req[r] \in RequestRecord
  BY <1>1, Known DEF SecretInv, RequestsSound, Ready, RequestRecord
<1>5. /\ user \in UserRecord /\ user.hash = r /\ user.expiresAt = req[r].expiresAt
      /\ user.proof = NoSecret
  BY <1>2, <1>4 DEF UserRecord, Secrets, Times
<1>6. /\ req'[r].at = "mail" /\ req'[r].email = req[r].email
      /\ req'[r].born = req[r].born
  BY <1>3, <1>4 DEF RequestRecord
<1> HIDE DEF user
<1>7. Sound(req', req[r].email, user)
  BY <1>4, <1>5, <1>6 DEF Sound, Owned, Unwritten
<1>8. spent' \subseteq delivered /\ delivered \subseteq Requests
  BY <1>1, Known DEF SecretInv, DeliveredAnswered
<1>9. r \notin spent' /\ NoSecret \notin spent'
  BY <1>3, <1>8, RecoveryAssumption DEF SecretInv, DeliveredAnswered, Moves
<1>10. QED
  BY <1>1, <1>2, <1>3, <1>5, <1>6, <1>7, <1>8, <1>9, WriteKeepsSecrets
  DEF SecretInv, SpentIsGone

LEMMA MissKeepsSecrets ==
  ASSUME SecretInv, TypeInv', NEW r \in Requests, Miss(r)
  PROVE  SecretInv'
<1> DEFINE attempts == req[r].snap.attempts + 1
           old == users[req[r].email]
           user == [old EXCEPT !.attempts = attempts,
                      !.blockedUntil = IF attempts >= MaxAttempts
                                         THEN now + BlockFor ELSE old.blockedUntil]
<1>1. /\ req[r].at = "miss" /\ Goto(r, "register")
      /\ users' = [users EXCEPT ![req[r].email] = user]
      /\ now' = now /\ delivered' = delivered /\ spent' = spent
  BY ClockAtBegin DEF Miss
<1>2. /\ req[r].email \in Accounts /\ old \in UserRecord
      /\ attempts \in Nat /\ now + BlockFor \in Nat
  BY <1>1, Known, RecoveryAssumption DEF SecretInv, Routed, RequestRecord, UserRecord
<1>3. /\ Moves(r, req, req') /\ req'[r] = [req[r] EXCEPT !.at = "register"]
  BY <1>1, GotoMoves DEF SecretInv, Pending, Unwritten
<1>4. req'[r].at = "register"
  BY <1>3, Known DEF SecretInv, RequestRecord
<1>5. /\ user \in UserRecord
      /\ user.hash = old.hash /\ user.expiresAt = old.expiresAt
      /\ user.proof = old.proof /\ user.proofExpiresAt = old.proofExpiresAt
  BY <1>2 DEF UserRecord, Times
<1>6. Sound(req', req[r].email, old)
  BY <1>2, <1>3, MovesStable, SoundStays DEF SecretInv, DocumentsSound
<1> HIDE DEF user
<1>7. Sound(req', req[r].email, user)
  BY <1>5, <1>6 DEF Sound
<1>8. QED
  BY <1>1, <1>2, <1>3, <1>4, <1>5, <1>7, WriteKeepsSecrets
  DEF SecretInv, SpentIsGone, DeliveredAnswered

\* What an accepted request consumes: a secret that its owner was given and
\* that only the request's own document can hold.
LEMMA Consumed ==
  ASSUME SecretInv, NEW r \in Requests, req[r].at = "burn"
  PROVE  /\ req[r].token \in delivered /\ req[r].token \in Requests
         /\ req[r].token # r /\ req[r].email \in Accounts
         /\ req[req[r].token].email = req[r].email
         /\ req[req[r].token].at \notin Unwritten
         /\ \A u \in Accounts \ {req[r].email} :
              users[u].hash # req[r].token /\ users[u].proof # req[r].token
<1>1. req[r].token \in delivered /\ req[r].token \in Requests /\ req[r].email \in Accounts
  BY Known, RecoveryAssumption DEF SecretInv, RequestsSound, Routed
<1>2. req[req[r].token].at \in Answers /\ req[req[r].token].email = req[r].email
  BY <1>1 DEF SecretInv, DeliveredAnswered, RequestsSound, Ready
<1>3. req[r].token # NoSecret
  BY <1>1, RecoveryAssumption
<1>4. QED
  BY <1>1, <1>2, <1>3
  DEF SecretInv, DocumentsSound, Sound, Owned, Answers, Unwritten

LEMMA ChangePasswordKeepsSecrets ==
  ASSUME SecretInv, TypeInv', NEW r \in Requests, ChangePassword(r)
  PROVE  SecretInv'
<1> DEFINE user == [NewUser EXCEPT !.password = r]
<1>1. /\ req[r].at = "burn" /\ Goto(r, "clear")
      /\ users' = [users EXCEPT ![req[r].email] = user]
      /\ now' = now /\ delivered' = delivered /\ spent' = spent \cup {req[r].token}
  BY ClockAtBegin DEF ChangePassword
<1>2. /\ Moves(r, req, req') /\ req'[r] = [req[r] EXCEPT !.at = "clear"]
  BY <1>1, GotoMoves DEF SecretInv, Pending, Unwritten
<1>3. req'[r].at = "clear"
  BY <1>2, Known DEF SecretInv, RequestRecord
<1>4. user \in UserRecord /\ user.hash = NoSecret /\ user.proof = NoSecret
  BY NewUserType DEF UserRecord, NewUser
<1> HIDE DEF user
<1>5. Sound(req', req[r].email, user)
  BY <1>4 DEF Sound, Owned
<1>6. spent' \subseteq delivered /\ delivered \subseteq Requests
  BY <1>1, Consumed, Known DEF SecretInv, DeliveredAnswered
<1>7. \A u \in Accounts \ {req[r].email} :
         users[u].hash \notin spent' /\ users[u].proof \notin spent'
  BY <1>1, Consumed DEF SecretInv, SpentIsGone
<1>8. user.hash \notin spent' /\ user.proof \notin spent'
  BY <1>4, <1>6, RecoveryAssumption
<1>9. QED
  BY <1>1, <1>2, <1>3, <1>4, <1>5, <1>6, <1>7, <1>8, Consumed, WriteKeepsSecrets

LEMMA BurnCodeKeepsSecrets ==
  ASSUME SecretInv, TypeInv', NEW r \in Requests, BurnCode(r)
  PROVE  SecretInv'
<1> DEFINE user == [users[req[r].email] EXCEPT
                      !.proof = r, !.proofExpiresAt = req[r].snap.expiresAt,
                      !.hash = NoSecret, !.expiresAt = req[r].snap.expiresAt,
                      !.attempts = 0, !.blockedUntil = Never]
           next == [req[r] EXCEPT !.at = "clear", !.born = req[req[r].token].born]
<1>1. /\ req[r].at = "burn" /\ req[r].kind = "validate"
      /\ req' = [req EXCEPT ![r] = next]
      /\ users' = [users EXCEPT ![req[r].email] = user]
      /\ now' = now /\ delivered' = delivered /\ spent' = spent \cup {req[r].token}
  BY ClockAtBegin DEF BurnCode
<1>2. /\ req[r] \in RequestRecord /\ req \in [Requests -> RequestRecord]
      /\ users[req[r].email] \in UserRecord
  BY <1>1, Known, Consumed DEF SecretInv, TypeInv, TypeOK
<1>3. /\ next.at = "clear" /\ next.email = req[r].email /\ next.token = req[r].token
      /\ next.snap = req[r].snap /\ next.born = req[req[r].token].born
  BY <1>2 DEF RequestRecord
<1>4. /\ user \in UserRecord /\ user.hash = NoSecret /\ user.proof = r
      /\ user.proofExpiresAt = req[r].snap.expiresAt
  BY <1>2 DEF UserRecord, RequestRecord, Secrets, Times
<1> HIDE DEF user, next
<1>5. Moves(r, req, req') /\ req'[r] = next
  BY <1>1, <1>2, <1>3 DEF Moves, Unwritten, Answers
<1>6. req[r].snap.expiresAt = next.born + CodeTtl
  BY <1>1, <1>3 DEF SecretInv, RequestsSound, Ready
<1>7. Sound(req', req[r].email, user)
  BY <1>3, <1>4, <1>5, <1>6 DEF Sound, Owned, Unwritten
<1>8. /\ spent' \subseteq delivered /\ delivered \subseteq Requests
      /\ r \notin delivered
  BY <1>1, <1>5, Consumed, Known DEF SecretInv, DeliveredAnswered, Moves
<1>9. \A u \in Accounts \ {req[r].email} :
         users[u].hash \notin spent' /\ users[u].proof \notin spent'
  BY <1>1, Consumed DEF SecretInv, SpentIsGone
<1>10. user.hash \notin spent' /\ user.proof \notin spent'
  BY <1>4, <1>8, RecoveryAssumption
<1>11. QED
  <2>1. req[r].email \in Accounts /\ req'[r].at \in {"mail", "register", "clear"}
    BY <1>1, <1>3, <1>5, Consumed
  <2>2. QED
    BY <1>1, <1>4, <1>5, <1>7, <1>8, <1>9, <1>10, <2>1, WriteKeepsSecrets

\* An accepted token was written for the request's account, and what the
\* request has read of it ends CodeTtl after its code was drawn.
LEMMA Accepted ==
  ASSUME SecretInv, NEW r \in Requests, Valid(r)
  PROVE  /\ req[r].token \in delivered /\ req[r].token \in Requests
         /\ now < req[req[r].token].born + CodeTtl
         /\ req[req[r].token].email = req[r].email
         /\ req[r].kind # "change"
              => req[r].snap.expiresAt = req[req[r].token].born + CodeTtl
<1>1. req[r].token \in Requests /\ req[r].token \in delivered
  BY ValidIsSecret, RecoveryAssumption DEF SecretInv, RequestsSound
<1>2. req[r].token # NoSecret
  BY <1>1, RecoveryAssumption
<1>3. Sound(req, req[r].email, req[r].snap)
  BY DEF SecretInv, RequestsSound
<1>4. CASE CodeValid(req[r].snap, req[r].token)
  BY <1>1, <1>2, <1>3, <1>4 DEF CodeValid, InTime, Verifies, Sound, Owned
<1>5. CASE /\ req[r].kind = "change"
           /\ InTime(req[r].snap.proofExpiresAt)
           /\ Verifies(req[r].token, req[r].snap.proof)
  BY <1>1, <1>2, <1>3, <1>5 DEF InTime, Verifies, Sound, Owned
<1>6. QED
  BY <1>4, <1>5 DEF Valid, ChangeAllowed

LEMMA ServiceKeepsSecrets ==
  ASSUME SecretInv, TypeInv', NEW r \in Requests, ServiceStep(r)
  PROVE  SecretInv'
<1> USE DEF Answers, Pending
<1>1. CASE Refused(r)
  BY <1>1, AnswerKeepsSecrets DEF Refused, limiterVars
<1>2. CASE GenerateUnknown(r)
  BY <1>2, AnswerKeepsSecrets DEF GenerateUnknown, Admitted, limiterVars
<1>3. CASE DrawCode(r)
  <2> DEFINE next == [req[r] EXCEPT !.at = "store", !.snap = NewUser,
                                    !.expiresAt = now + CodeTtl, !.born = now]
  <2>1. /\ req[r].at = "admit" /\ req' = [req EXCEPT ![r] = next]
        /\ now' = now /\ UNCHANGED <<users, delivered, spent>>
    BY <1>3 DEF DrawCode, Admitted, limiterVars
  <2>2. /\ next.at = "store" /\ next.email = req[r].email /\ next.token = req[r].token
        /\ next.snap = NewUser /\ next.born = now /\ next.expiresAt = now + CodeTtl
    BY Known DEF SecretInv, RequestRecord
  <2> HIDE DEF next
  <2>3. Moves(r, req, req') /\ req'[r] = next
    BY <2>1, <2>2 DEF Moves, Unwritten, SecretInv, TypeInv, TypeOK
  <2>4. r \notin delivered
    BY <2>3 DEF SecretInv, DeliveredAnswered, Moves
  <2>5. Ready(req', r, now)
    BY <2>2, <2>3, Known DEF Ready, SecretInv
  <2>6. QED
    BY <2>1, <2>3, <2>4, <2>5, QuietKeepsSecrets
<1>4. CASE StoreCode(r)
  BY <1>4, StoreCodeKeepsSecrets
<1>5. CASE Mail(r)
  <2>1. CASE Answer(r, "ok") /\ delivered' = delivered \cup {r}
    BY <1>5, <2>1, AnswerKeepsSecrets DEF Mail, limiterVars
  <2>2. CASE Answer(r, "mailFailed") /\ delivered' \in {delivered, delivered \cup {r}}
    BY <1>5, <2>2, AnswerKeepsSecrets DEF Mail, limiterVars
  <2>3. QED
    BY <1>5, <2>1, <2>2 DEF Mail
<1>6. ASSUME NEW at \in Pending \ {"store"}, Goto(r, at), now' = now,
             req[r].at \in Pending, req[r].at \in Unwritten \/ at \notin Unwritten,
             UNCHANGED <<users, delivered, spent>>, at = "burn" => Valid(r)
      PROVE  SecretInv'
  <2>1. Moves(r, req, req') /\ req'[r] = [req[r] EXCEPT !.at = at]
    BY <1>6, GotoMoves DEF SecretInv
  <2>2. r \notin delivered
    BY <2>1 DEF SecretInv, DeliveredAnswered, Moves
  <2>3. /\ req'[r].at = at /\ req'[r].token = req[r].token /\ req'[r].kind = req[r].kind
        /\ req'[r].snap = req[r].snap /\ req'[r].email = req[r].email
    BY <2>1, Known DEF SecretInv, RequestRecord
  <2>4. CASE at = "burn"
    <3>1. /\ req'[req[r].token] = req[req[r].token]
          /\ req[req[r].token].email = req[r].email
          /\ req[r].kind = "validate"
               => req[r].snap.expiresAt = req[req[r].token].born + CodeTtl
      BY <1>6, <2>1, <2>2, <2>4, Accepted DEF Moves
    <3>2. Ready(req', r, now)
      BY <2>3, <2>4, <3>1 DEF Ready
    <3>3. QED
      BY <1>6, <2>1, <2>2, <3>2, QuietKeepsSecrets
  <2>5. CASE at # "burn"
    <3>1. Ready(req', r, now)
      BY <2>3, <2>5 DEF Ready
    <3>2. QED
      BY <1>6, <2>1, <2>2, <3>1, QuietKeepsSecrets
  <2>6. QED
    BY <2>4, <2>5
<1>7. CASE TokenForUnknown(r)
  BY <1>6, <1>7, ClockAtBegin DEF TokenForUnknown, Admitted, Unwritten
<1>8. CASE Judge(r)
  BY <1>6, <1>8, AnswerKeepsSecrets DEF Judge, Admitted, Unwritten, limiterVars
<1>9. CASE Miss(r)
  BY <1>9, MissKeepsSecrets
<1>10. CASE BurnCode(r)
  BY <1>10, BurnCodeKeepsSecrets
<1>11. CASE ChangePassword(r)
  BY <1>11, ChangePasswordKeepsSecrets
<1>12. CASE FailureRegistered(r)
  BY <1>12, AnswerKeepsSecrets DEF FailureRegistered, limiterVars
<1>13. CASE FailuresCleared(r)
  BY <1>13, AnswerKeepsSecrets DEF FailuresCleared, limiterVars
<1>14. QED
  BY <1>1, <1>2, <1>3, <1>4, <1>5, <1>7, <1>8, <1>9, <1>10, <1>11, <1>12, <1>13
  DEF ServiceStep

LEMMA ArriveKeepsSecrets ==
  ASSUME SecretInv, TypeInv', NEW r \in Requests, Arrive(r)
  PROVE  SecretInv'
<1>1. PICK kind \in Kinds, email \in Emails, token \in delivered \cup {Wrong} :
        Start(r, kind, email, token)
  BY DEF Arrive
<1> DEFINE next == [NewRequest EXCEPT !.kind = kind, !.email = email,
                      !.token = token, !.at = "admit",
                      !.snap = IF email \in Accounts THEN users[email] ELSE NewUser]
<1>2. /\ req[r].at = "idle" /\ req' = [req EXCEPT ![r] = next]
      /\ UNCHANGED <<users, delivered, spent>> /\ now' = now
  BY <1>1, ClockAtBegin DEF Start
<1>3. /\ next.at = "admit" /\ next.email = email /\ next.token = token
      /\ next.snap = IF email \in Accounts THEN users[email] ELSE NewUser
  BY DEF NewRequest
<1> HIDE DEF next
<1>4. req'[r] = next /\ \A q \in Requests \ {r} : req'[q] = req[q]
  BY <1>2 DEF SecretInv, TypeInv, TypeOK
<1>5. Stable(req, req')
  BY <1>2, <1>4 DEF Stable, Unwritten
<1>6. r \notin delivered
  BY <1>2 DEF SecretInv, DeliveredAnswered, Answers
<1>7. DeliveredAnswered'
  BY <1>2, <1>4, <1>6, Known DEF SecretInv, DeliveredAnswered
<1>8. ASSUME NEW q \in Requests
      PROVE  /\ Sound(req', req'[q].email, req'[q].snap)
             /\ req'[q].token \in delivered' \cup {Wrong}
             /\ Ready(req', q, now')
  <2>1. CASE q = r
    <3>1. Sound(req, email, next.snap) /\ next.snap \in UserRecord
      BY <1>3, NewUserSound, NewUserType
      DEF SecretInv, TypeInv, TypeOK, DocumentsSound
    <3>2. Sound(req', email, next.snap)
      BY <1>5, <3>1, SoundStays
    <3>3. QED
      BY <1>2, <1>3, <1>4, <2>1, <3>2 DEF Ready
  <2>2. CASE q # r
    <3>1. /\ Sound(req, req[q].email, req[q].snap) /\ Ready(req, q, now)
          /\ req[q].token \in delivered \cup {Wrong} /\ req[q].snap \in UserRecord
      BY Known DEF SecretInv, RequestsSound, RequestRecord
    <3>2. Sound(req', req'[q].email, req'[q].snap)
      BY <1>4, <1>5, <2>2, <3>1, SoundStays
    <3>3. CASE req[q].at = "burn"
      <4>1. req[q].token \in Requests /\ req[q].token # r
        BY <1>6, <3>3, Consumed
      <4>2. QED
        BY <1>2, <1>4, <2>2, <3>1, <3>2, <3>3, <4>1 DEF Ready
    <3>4. CASE req[q].at # "burn"
      BY <1>2, <1>4, <2>2, <3>1, <3>2, <3>4 DEF Ready
    <3>5. QED
      BY <3>3, <3>4
  <2>3. QED
    BY <2>1, <2>2
<1>9. QED
  BY <1>2, <1>5, <1>7, <1>8, DocumentsStay DEF SecretInv, RequestsSound

LEMMA NextKeepsSecrets == SecretInv /\ [Next]_vars => SecretInv'
<1> SUFFICES ASSUME SecretInv, [Next]_vars PROVE SecretInv'
  OBVIOUS
<1>1. TypeInv'
  BY NextType DEF SecretInv
<1>2. ASSUME UNCHANGED recoveryVars, now' \in {now, now + 1}
      PROVE  SecretInv'
  <2>1. ASSUME NEW r \in Requests
        PROVE  Ready(req', r, now')
    BY <1>2, Known DEF SecretInv, RequestsSound, Ready, recoveryVars, RequestRecord
  <2>2. QED
    BY <1>1, <1>2, <2>1
    DEF recoveryVars, SecretInv, DocumentsSound, RequestsSound, DeliveredAnswered, SpentIsGone
<1>3. CASE Tick
  BY <1>2, <1>3, ClockTicks DEF Tick
<1>4. ASSUME NEW r \in Requests, Arrive(r)
      PROVE  SecretInv'
  BY <1>1, <1>4, ArriveKeepsSecrets
<1>5. ASSUME NEW r \in Requests, ServiceStep(r)
      PROVE  SecretInv'
  BY <1>1, <1>5, ServiceKeepsSecrets
<1>6. ASSUME NEW r \in Requests, Abort(r)
      PROVE  SecretInv'
  BY <1>1, <1>6, AbortClock, AnswerKeepsSecrets DEF Abort, Answers
<1>7. ASSUME NEW r \in Requests, LimiterStep(r)
      PROVE  SecretInv'
  BY <1>2, <1>7, ClockAtCall DEF LimiterStep
<1>8. CASE UNCHANGED vars
  BY <1>2, <1>8 DEF vars, limiterVars
<1>9. QED
  BY <1>3, <1>4, <1>5, <1>6, <1>7, <1>8 DEF Next

LEMMA InitSecrets == Init => SecretInv
  BY InitType, NewUserSound, RecoveryAssumption
  DEF Init, SecretInv, DocumentsSound, RequestsSound, DeliveredAnswered, SpentIsGone,
      Ready, NewRequest

LEMMA SecretsInvariant == Spec => []SecretInv
  BY InitSecrets, NextKeepsSecrets, PTL DEF Spec

\* However requests overlap and whatever fails, a secret that was consumed is
\* in no document any more.
THEOREM ConsumedIsGone == Spec => []SpentIsGone
<1>1. SecretInv => SpentIsGone
  BY DEF SecretInv
<1>2. QED
  BY <1>1, SecretsInvariant, PTL

\* A document never holds a code and a reset proof.
THEOREM HoldsOneSecret == Spec => []OneSecretAtATime
<1>1. SecretInv => OneSecretAtATime
  BY DEF SecretInv, DocumentsSound, Sound, OneSecretAtATime
<1>2. QED
  BY <1>1, SecretsInvariant, PTL

\* What a document holds ends CodeTtl after its code was drawn, whether the
\* code was exchanged or not.
THEOREM ExpiresWithCode == Spec => []SecretsExpireWithTheirCode
<1>1. SecretInv => SecretsExpireWithTheirCode
  BY DEF SecretInv, DocumentsSound, Sound, Owned, SecretsExpireWithTheirCode
<1>2. QED
  BY <1>1, SecretsInvariant, PTL

\* Only Judge accepts a request.
LEMMA OnlyJudgeAccepts ==
  ASSUME SecretInv, [Next]_vars, NEW r \in Requests,
         req[r].at # "burn", req'[r].at = "burn"
  PROVE  Valid(r) /\ req'[r].token = req[r].token /\ req'[r].email = req[r].email
<1> USE DEF SecretInv
<1>1. req \in [Requests -> RequestRecord] /\ req' # req
  BY DEF TypeInv, TypeOK
<1>2. ASSUME NEW q \in Requests, NEW at \in Answers, Answer(q, at)
      PROVE  FALSE
  BY <1>1, <1>2 DEF Answer, Answers, RequestRecord
<1>3. ASSUME NEW q \in Requests, NEW at, Goto(q, at)
      PROVE  /\ q = r /\ at = "burn"
             /\ req'[r].token = req[r].token /\ req'[r].email = req[r].email
  BY <1>1, <1>3 DEF Goto, RequestRecord
<1>4. ASSUME NEW q \in Requests, Arrive(q)
      PROVE  FALSE
  BY <1>1, <1>4 DEF Arrive, Start, NewRequest
<1>5. ASSUME NEW q \in Requests, DrawCode(q) \/ BurnCode(q)
      PROVE  FALSE
  BY <1>1, <1>5 DEF DrawCode, BurnCode, RequestRecord
<1>6. ASSUME NEW q \in Requests, Judge(q)
      PROVE  Valid(r) /\ req'[r].token = req[r].token /\ req'[r].email = req[r].email
  BY <1>2, <1>3, <1>6 DEF Judge, Answers
<1>7. ASSUME NEW q \in Requests, ServiceStep(q), ~ Judge(q)
      PROVE  FALSE
  BY <1>2, <1>3, <1>5, <1>7
  DEF ServiceStep, Refused, GenerateUnknown, StoreCode, Mail, TokenForUnknown, Miss,
      ChangePassword, FailureRegistered, FailuresCleared, Answers
<1>8. ASSUME NEW q \in Requests, Abort(q)
      PROVE  FALSE
  BY <1>2, <1>8 DEF Abort, Answers
<1>9. ASSUME UNCHANGED recoveryVars
      PROVE  FALSE
  BY <1>1, <1>9 DEF recoveryVars
<1>10. QED
  BY <1>4, <1>6, <1>7, <1>8, <1>9 DEF Next, vars, Tick, LimiterStep

\* A token is accepted only before CodeTtl has passed since its code was drawn
\* and only for the account it was drawn for, whatever the request had read
\* and however long it waited for the limiter.
THEOREM AcceptsInTime == Spec => AcceptedInTime
<1> DEFINE Timely ==
      \A r \in Requests :
        req[r].at # "burn" /\ req'[r].at = "burn"
          => LET s == req[r].token
             IN /\ s \in delivered
                /\ now < req[s].born + CodeTtl
                /\ req[s].email = req[r].email
<1>1. SecretInv /\ [Next]_vars => Timely
  BY OnlyJudgeAccepts, Accepted
<1>2. SecretInv /\ [Next]_vars => [Timely]_vars
  BY <1>1
<1>3. Spec => [][Timely]_vars
  BY <1>2, SecretsInvariant, PTL DEF Spec
<1>4. QED
  BY <1>3 DEF AcceptedInTime

---------------------------------------------------------------------------
(* Recovery implements SecretExchange. *)

GivenIn(rq, dlv) ==
  dlv \cup {r \in Requests : \/ rq[r].at = "mail"
                             \/ rq[r].at = "clear" /\ rq[r].kind = "validate"}

TermIn(rq, dlv, s) ==
  IF s \in GivenIn(rq, dlv)
    THEN {[account |-> rq[s].email, until |-> rq[s].born + CodeTtl]} ELSE {}

TermsIn(rq, dlv) == [s \in Requests |-> TermIn(rq, dlv, s)]

UndrawnIn(rq) == {r \in Requests : rq[r].at \in Unwritten}

AcceptsIn(docs) == [u \in Accounts |-> Accepts(docs[u])]

PasswordsIn(docs) == [u \in Accounts |-> docs[u].password]

LEMMA Mapping ==
  /\ UndrawnIn(req) = Undrawn /\ UndrawnIn(req') = Undrawn'
  /\ TermsIn(req, delivered) =
       [s \in Requests |->
          IF s \in Given THEN {[account |-> req[s].email, until |-> req[s].born + CodeTtl]}
          ELSE {}]
  /\ TermsIn(req', delivered') =
       [s \in Requests |->
          IF s \in Given THEN {[account |-> req[s].email, until |-> req[s].born + CodeTtl]}
          ELSE {}]'
  /\ AcceptsIn(users) = [u \in Accounts |-> Accepts(users[u])]
  /\ AcceptsIn(users') = [u \in Accounts |-> Accepts(users[u])]'
  /\ PasswordsIn(users) = [u \in Accounts |-> users[u].password]
  /\ PasswordsIn(users') = [u \in Accounts |-> users[u].password]'
<1>1. UndrawnIn(req) = Undrawn /\ UndrawnIn(req') = Undrawn'
  BY DEF UndrawnIn, Undrawn, Unwritten
<1>2. GivenIn(req, delivered) = Given /\ GivenIn(req', delivered') = Given'
  BY DEF GivenIn, Given
<1>3. QED
  BY <1>1, <1>2 DEF TermsIn, TermIn, AcceptsIn, PasswordsIn

\* The actions of SecretExchange, seen through the mapping.
LEMMA LoseMapped ==
  ASSUME NEW s \in Requests,
         UndrawnIn(req') = UndrawnIn(req) \ {s},
         TermsIn(req', delivered') = [TermsIn(req, delivered) EXCEPT ![s] = {}],
         now' = now, AcceptsIn(users') = AcceptsIn(users),
         PasswordsIn(users') = PasswordsIn(users)
  PROVE  Secrecy!Next
<1>1. Secrecy!Lose(s)
  BY Mapping DEF Secrecy!Lose
<1>2. QED
  BY <1>1 DEF Secrecy!Next

LEMMA StutterMapped ==
  ASSUME UndrawnIn(req') = UndrawnIn(req),
         TermsIn(req', delivered') = TermsIn(req, delivered),
         now' = now, AcceptsIn(users') = AcceptsIn(users),
         PasswordsIn(users') = PasswordsIn(users)
  PROVE  UNCHANGED Secrecy!secretVars
  BY Mapping DEF Secrecy!secretVars

\* The secret of a code is fresh, that of a reset proof replaces one that was
\* given up to the same deadline.
LEMMA HoldMapped ==
  ASSUME NEW u \in Accounts, NEW s \in Requests, NEW until,
         \/ until \in 0 .. now + CodeTtl
         \/ \E t \in Requests :
              [account |-> u, until |-> until] \in TermsIn(req, delivered)[t],
         s \in UndrawnIn(req), UndrawnIn(req') = UndrawnIn(req) \ {s},
         TermsIn(req', delivered') =
           [TermsIn(req, delivered) EXCEPT ![s] = {[account |-> u, until |-> until]}],
         AcceptsIn(users') =
           [AcceptsIn(users) EXCEPT ![u] = {[secret |-> s, until |-> until]}],
         now' = now, PasswordsIn(users') = PasswordsIn(users)
  PROVE  Secrecy!Next
<1>1. Secrecy!Hold(u, s, until)
  BY Mapping DEF Secrecy!Hold, Secrecy!Draw
<1>2. CASE until \in 0 .. now + CodeTtl
  <2>1. Secrecy!Issue(u, s)
    BY <1>1, <1>2 DEF Secrecy!Issue
  <2>2. QED
    BY <2>1 DEF Secrecy!Next
<1>3. ASSUME NEW t \in Requests,
             [account |-> u, until |-> until] \in TermsIn(req, delivered)[t]
      PROVE  Secrecy!Next
  <2>1. Secrecy!Exchange(u, s, t)
    BY <1>1, <1>3, Mapping DEF Secrecy!Exchange
  <2>2. QED
    BY <2>1 DEF Secrecy!Next
<1>4. QED
  BY <1>2, <1>3

LEMMA SetPasswordMapped ==
  ASSUME NEW u \in Accounts, NEW s \in Requests, NEW t \in Requests,
         NEW until, [account |-> u, until |-> until] \in TermsIn(req, delivered)[t],
         s \in UndrawnIn(req), UndrawnIn(req') = UndrawnIn(req) \ {s},
         TermsIn(req', delivered') = [TermsIn(req, delivered) EXCEPT ![s] = {}],
         AcceptsIn(users') = [AcceptsIn(users) EXCEPT ![u] = {}],
         PasswordsIn(users') = [PasswordsIn(users) EXCEPT ![u] = s],
         now' = now
  PROVE  Secrecy!Next
<1>1. \E given \in TermsIn(req, delivered)[t] : given.account = u
  OBVIOUS
<1>2. Secrecy!SetPassword(u, s, t)
  BY <1>1, Mapping DEF Secrecy!SetPassword, Secrecy!Draw
<1>3. QED
  BY <1>2 DEF Secrecy!Next

\* What a step of request r does to the secrets that were drawn and given.
LEMMA MovesMapped ==
  ASSUME SecretInv, NEW r \in Requests, Moves(r, req, req'),
         delivered \subseteq delivered', delivered' \subseteq delivered \cup {r}
  PROVE  /\ r \notin delivered
         /\ \A s \in Requests \ {r} : s \in UndrawnIn(req') <=> s \in UndrawnIn(req)
         /\ TermsIn(req', delivered') =
              [TermsIn(req, delivered) EXCEPT ![r] = TermIn(req', delivered', r)]
<1>1. r \notin delivered
  BY DEF SecretInv, DeliveredAnswered, Moves
<1>2. \A s \in Requests \ {r} : s \in UndrawnIn(req') <=> s \in UndrawnIn(req)
  BY DEF UndrawnIn, Moves
<1>3. ASSUME NEW s \in Requests \ {r}
      PROVE  TermIn(req', delivered', s) = TermIn(req, delivered, s)
  <2>1. req'[s] = req[s]
    BY DEF Moves
  <2>2. s \in GivenIn(req', delivered') <=> s \in GivenIn(req, delivered)
    BY <2>1 DEF GivenIn
  <2>3. QED
    BY <2>1, <2>2 DEF TermIn
<1>4. QED
  BY <1>1, <1>2, <1>3 DEF TermsIn

\* A step that leaves the documents alone draws no secret that is used: r still
\* has its own before it, is still to be given it, or will never be.
LEMMA QuietMapped ==
  ASSUME SecretInv, SecretInv', NEW r \in Requests, Moves(r, req, req'),
         delivered \subseteq delivered', delivered' \subseteq delivered \cup {r},
         AcceptsIn(users') = AcceptsIn(users), PasswordsIn(users') = PasswordsIn(users),
         now' = now, r \in GivenIn(req', delivered') => r \in GivenIn(req, delivered)
  PROVE  Secrecy!Next \/ UNCHANGED Secrecy!secretVars
<1>1. CASE req'[r].at \in Unwritten
  <2>1. req[r].at \in Unwritten
    BY <1>1 DEF Moves
  <2>2. r \notin delivered'
    BY <1>1 DEF SecretInv, DeliveredAnswered, Answers, Unwritten
  <2>3. r \notin GivenIn(req', delivered') /\ r \notin GivenIn(req, delivered)
    BY <1>1, <2>1, <2>2, MovesMapped DEF GivenIn, Unwritten
  <2>4. TermIn(req', delivered', r) = TermIn(req, delivered, r)
    BY <2>3 DEF TermIn
  <2>5. TermsIn(req', delivered') = TermsIn(req, delivered)
    BY <2>4, MovesMapped DEF TermsIn
  <2>6. UndrawnIn(req') = UndrawnIn(req)
    BY <1>1, <2>1, MovesMapped DEF UndrawnIn
  <2>7. QED
    BY <2>5, <2>6, StutterMapped
<1>2. CASE req'[r].at \notin Unwritten /\ r \notin GivenIn(req', delivered')
  <2>1. TermsIn(req', delivered') = [TermsIn(req, delivered) EXCEPT ![r] = {}]
    BY <1>2, MovesMapped DEF TermIn
  <2>2. UndrawnIn(req') = UndrawnIn(req) \ {r}
    BY <1>2, MovesMapped DEF UndrawnIn
  <2>3. QED
    BY <2>1, <2>2, LoseMapped
<1>3. CASE req'[r].at \notin Unwritten /\ r \in GivenIn(req', delivered')
  <2>1. req[r].at \notin Unwritten
    BY <1>3, MovesMapped DEF GivenIn, Unwritten
  <2>2. req'[r].born = req[r].born /\ req'[r].email = req[r].email
    BY <2>1 DEF Moves
  <2>3. TermIn(req', delivered', r) = TermIn(req, delivered, r)
    BY <1>3, <2>2 DEF TermIn
  <2>4. TermsIn(req', delivered') = TermsIn(req, delivered)
    BY <2>3, MovesMapped DEF TermsIn
  <2>5. UndrawnIn(req') = UndrawnIn(req)
    BY <1>3, <2>1, MovesMapped DEF UndrawnIn
  <2>6. QED
    BY <2>4, <2>5, StutterMapped
<1>4. QED
  BY <1>1, <1>2, <1>3

\* What a document accepts.
LEMMA AcceptsOne ==
  ASSUME NEW user \in UserRecord,
         user.hash = NoSecret \/ user.proof = NoSecret
  PROVE  Accepts(user) =
           IF user.hash # NoSecret
             THEN {[secret |-> user.hash, until |-> user.expiresAt]}
             ELSE IF user.proof # NoSecret
               THEN {[secret |-> user.proof, until |-> user.proofExpiresAt]}
               ELSE {}
<1> DEFINE none == [secret : {NoSecret}, until : Times]
           code == [secret |-> user.hash, until |-> user.expiresAt]
           proof == [secret |-> user.proof, until |-> user.proofExpiresAt]
<1>1. code \in none <=> user.hash = NoSecret
  BY DEF UserRecord
<1>2. proof \in none <=> user.proof = NoSecret
  BY DEF UserRecord
<1>3. Accepts(user) = {code, proof} \ none
  BY DEF Accepts
<1> HIDE DEF none, code, proof
<1>4. QED
  BY <1>1, <1>2, <1>3 DEF code, proof

\* A step of SecretExchange, or none.
Implemented == Secrecy!Next \/ UNCHANGED Secrecy!secretVars

LEMMA AnswerMapped ==
  ASSUME SecretInv, SecretInv', NEW r \in Requests, NEW at \in Answers,
         req[r].at \in Pending, Answer(r, at), now' = now, users' = users,
         delivered \subseteq delivered', delivered' \subseteq delivered \cup {r},
         r \in delivered' => r \in GivenIn(req, delivered)
  PROVE  Implemented
<1>1. Moves(r, req, req') /\ req'[r].at = at
  BY AnswerMoves DEF SecretInv
<1>2. r \in GivenIn(req', delivered') => r \in GivenIn(req, delivered)
  BY <1>1 DEF GivenIn, Answers
<1>3. QED
  BY <1>1, <1>2, QuietMapped DEF Implemented

LEMMA GotoMapped ==
  ASSUME SecretInv, SecretInv', NEW r \in Requests, NEW at \in {"register", "miss", "burn"},
         req[r].at \in Pending, Goto(r, at), now' = now, delivered' = delivered,
         req[r].at \in Unwritten \/ at \notin Unwritten,
         AcceptsIn(users') = AcceptsIn(users), PasswordsIn(users') = PasswordsIn(users)
  PROVE  Implemented
<1>1. Moves(r, req, req') /\ req'[r] = [req[r] EXCEPT !.at = at]
  BY GotoMoves DEF SecretInv, Pending
<1>2. req'[r].at = at
  BY <1>1, Known DEF SecretInv, RequestRecord
<1>3. r \in GivenIn(req', delivered') => r \in GivenIn(req, delivered)
  BY <1>2 DEF GivenIn
<1>4. QED
  BY <1>1, <1>3, QuietMapped DEF Implemented

LEMMA StoreCodeMapped ==
  ASSUME SecretInv, SecretInv', NEW r \in Requests, StoreCode(r)
  PROVE  Implemented
<1> DEFINE u == req[r].email
           until == req[r].expiresAt
<1>1. /\ req[r].at = "store" /\ Goto(r, "mail") /\ now' = now
      /\ delivered' = delivered
  BY DEF StoreCode, limiterVars
<1>2. /\ u \in Accounts /\ users \in [Accounts -> UserRecord]
      /\ req[r] \in RequestRecord /\ now \in Nat
  BY <1>1, Known DEF SecretInv, TypeInv, TypeOK, Routed
<1>3. /\ Moves(r, req, req') /\ req'[r] = [req[r] EXCEPT !.at = "mail"]
  BY <1>1, GotoMoves DEF SecretInv, Pending, Unwritten
<1>4. /\ req'[r].at = "mail" /\ req'[r].email = u /\ req'[r].born = req[r].born
      /\ until = req[r].born + CodeTtl /\ req[r].born <= now /\ req[r].born \in Nat
  BY <1>1, <1>2, <1>3 DEF RequestRecord, SecretInv, RequestsSound, Ready
<1>5. until \in 0 .. now + CodeTtl
  BY <1>2, <1>4, RecoveryAssumption
<1>6. /\ users'[u].hash = r /\ users'[u].expiresAt = until /\ users'[u].proof = NoSecret
      /\ users'[u].password = users[u].password
      /\ \A v \in Accounts \ {u} : users'[v] = users[v]
      /\ users'[u] \in UserRecord
  <2>1. users' = [users EXCEPT ![u] =
                    [users[u] EXCEPT !.proof = NoSecret, !.proofExpiresAt = Never,
                                     !.hash = r, !.expiresAt = until,
                                     !.attempts = 0, !.blockedUntil = Never]]
    BY DEF StoreCode
  <2>2. users[u] \in UserRecord /\ users' \in [Accounts -> UserRecord]
    BY <1>2 DEF SecretInv, TypeInv, TypeOK
  <2>3. QED
    BY <1>2, <2>1, <2>2 DEF UserRecord
<1> HIDE DEF u, until
<1>7. Accepts(users'[u]) = {[secret |-> r, until |-> until]}
  BY <1>6, AcceptsOne, RecoveryAssumption
<1>8. AcceptsIn(users') = [AcceptsIn(users) EXCEPT ![u] = {[secret |-> r, until |-> until]}]
  BY <1>2, <1>6, <1>7 DEF AcceptsIn
<1>9. PasswordsIn(users') = PasswordsIn(users)
  BY <1>6 DEF PasswordsIn
<1>10. TermIn(req', delivered', r) = {[account |-> u, until |-> until]}
  BY <1>4 DEF TermIn, GivenIn
<1>11. r \in UndrawnIn(req) /\ UndrawnIn(req') = UndrawnIn(req) \ {r}
  BY <1>1, <1>3, <1>4, MovesMapped DEF UndrawnIn, Unwritten
<1>12. TermsIn(req', delivered') =
         [TermsIn(req, delivered) EXCEPT ![r] = {[account |-> u, until |-> until]}]
  BY <1>1, <1>3, <1>10, MovesMapped
<1>13. QED
  BY <1>1, <1>2, <1>5, <1>8, <1>9, <1>11, <1>12, HoldMapped DEF Implemented

\* What an accepted request was given.
LEMMA ConsumedTerm ==
  ASSUME SecretInv, NEW r \in Requests, req[r].at = "burn"
  PROVE  TermsIn(req, delivered)[req[r].token] =
           {[account |-> req[r].email, until |-> req[req[r].token].born + CodeTtl]}
  BY Consumed DEF TermsIn, TermIn, GivenIn

LEMMA BurnCodeMapped ==
  ASSUME SecretInv, SecretInv', NEW r \in Requests, BurnCode(r)
  PROVE  Implemented
<1> DEFINE u == req[r].email
           t == req[r].token
           until == req[r].snap.expiresAt
           next == [req[r] EXCEPT !.at = "clear", !.born = req[t].born]
<1>1. /\ req[r].at = "burn" /\ req[r].kind = "validate"
      /\ req' = [req EXCEPT ![r] = next] /\ now' = now /\ delivered' = delivered
  BY ClockAtBegin DEF BurnCode
<1>2. /\ u \in Accounts /\ t \in Requests /\ t # r
      /\ users \in [Accounts -> UserRecord]
      /\ req \in [Requests -> RequestRecord]
  BY <1>1, Consumed DEF SecretInv, TypeInv, TypeOK
<1>3. /\ next.at = "clear" /\ next.email = u /\ next.token = t /\ next.kind = "validate"
      /\ next.snap = req[r].snap /\ next.born = req[t].born
  BY <1>1, <1>2 DEF RequestRecord
<1>4. until = req[t].born + CodeTtl
  BY <1>1 DEF SecretInv, RequestsSound, Ready
<1>5. TermsIn(req, delivered)[t] = {[account |-> u, until |-> until]}
  BY <1>1, <1>4, ConsumedTerm
<1>6. /\ users'[u].proof = r /\ users'[u].proofExpiresAt = until
      /\ users'[u].hash = NoSecret /\ users'[u].password = users[u].password
      /\ \A v \in Accounts \ {u} : users'[v] = users[v]
      /\ users'[u] \in UserRecord
  <2>1. users' = [users EXCEPT ![u] =
                    [users[u] EXCEPT !.proof = r, !.proofExpiresAt = until,
                                     !.hash = NoSecret, !.expiresAt = until,
                                     !.attempts = 0, !.blockedUntil = Never]]
    BY DEF BurnCode
  <2>2. users[u] \in UserRecord /\ users' \in [Accounts -> UserRecord]
    BY <1>2 DEF SecretInv, TypeInv, TypeOK
  <2>3. QED
    BY <1>2, <2>1, <2>2 DEF UserRecord
<1> HIDE DEF next
<1>7. Moves(r, req, req') /\ req'[r] = next
  BY <1>1, <1>2, <1>3 DEF Moves, Unwritten, Answers
<1> HIDE DEF u, t, until
<1>8. Accepts(users'[u]) = {[secret |-> r, until |-> until]}
  BY <1>6, AcceptsOne, RecoveryAssumption
<1>9. AcceptsIn(users') = [AcceptsIn(users) EXCEPT ![u] = {[secret |-> r, until |-> until]}]
  BY <1>2, <1>6, <1>8 DEF AcceptsIn
<1>10. PasswordsIn(users') = PasswordsIn(users)
  BY <1>6 DEF PasswordsIn
<1>11. TermIn(req', delivered', r) = {[account |-> u, until |-> until]}
  BY <1>3, <1>4, <1>7 DEF TermIn, GivenIn
<1>12. r \in UndrawnIn(req) /\ UndrawnIn(req') = UndrawnIn(req) \ {r}
  BY <1>1, <1>3, <1>7, MovesMapped DEF UndrawnIn, Unwritten
<1>13. TermsIn(req', delivered') =
         [TermsIn(req, delivered) EXCEPT ![r] = {[account |-> u, until |-> until]}]
  BY <1>1, <1>7, <1>11, MovesMapped
<1>14. QED
  BY <1>1, <1>2, <1>5, <1>9, <1>10, <1>12, <1>13, HoldMapped DEF Implemented

LEMMA ChangePasswordMapped ==
  ASSUME SecretInv, SecretInv', NEW r \in Requests, ChangePassword(r)
  PROVE  Implemented
<1> DEFINE u == req[r].email
           t == req[r].token
<1>1. /\ req[r].at = "burn" /\ req[r].kind = "change" /\ Goto(r, "clear")
      /\ now' = now /\ delivered' = delivered
      /\ users' = [users EXCEPT ![u] = [NewUser EXCEPT !.password = r]]
  BY ClockAtBegin DEF ChangePassword
<1>2. /\ u \in Accounts /\ t \in Requests
      /\ users \in [Accounts -> UserRecord] /\ req[r] \in RequestRecord
  BY <1>1, Consumed, Known DEF SecretInv, TypeInv, TypeOK
<1>3. Moves(r, req, req') /\ req'[r] = [req[r] EXCEPT !.at = "clear"]
  BY <1>1, GotoMoves DEF SecretInv, Pending, Unwritten
<1>4. req'[r].at = "clear" /\ req'[r].kind = "change"
  BY <1>1, <1>2, <1>3 DEF RequestRecord
<1>5. /\ users'[u].proof = NoSecret /\ users'[u].hash = NoSecret
      /\ users'[u].password = r
      /\ \A v \in Accounts \ {u} : users'[v] = users[v]
      /\ users'[u] \in UserRecord
  BY <1>1, <1>2, NewUserType DEF NewUser, UserRecord
<1>6. Accepts(users'[u]) = {}
  BY <1>5, AcceptsOne
<1>7. AcceptsIn(users') = [AcceptsIn(users) EXCEPT ![u] = {}]
  BY <1>2, <1>5, <1>6 DEF AcceptsIn
<1>8. PasswordsIn(users') = [PasswordsIn(users) EXCEPT ![u] = r]
  BY <1>2, <1>5 DEF PasswordsIn
<1>9. r \notin GivenIn(req', delivered')
  BY <1>1, <1>3, <1>4, MovesMapped DEF GivenIn
<1>10. TermsIn(req', delivered') = [TermsIn(req, delivered) EXCEPT ![r] = {}]
  BY <1>1, <1>3, <1>9, MovesMapped DEF TermIn
<1>11. r \in UndrawnIn(req) /\ UndrawnIn(req') = UndrawnIn(req) \ {r}
  BY <1>1, <1>3, <1>4, MovesMapped DEF UndrawnIn, Unwritten
<1>12. [account |-> u, until |-> req[t].born + CodeTtl] \in TermsIn(req, delivered)[t]
  BY <1>1, ConsumedTerm
<1> HIDE DEF u, t
<1>13. QED
  BY <1>1, <1>2, <1>7, <1>8, <1>10, <1>11, <1>12, SetPasswordMapped DEF Implemented

LEMMA ServiceMapped ==
  ASSUME SecretInv, SecretInv', NEW r \in Requests, ServiceStep(r)
  PROVE  Implemented
<1> USE DEF Answers, Pending
<1>1. r \notin delivered \/ req[r].at \in Answers
  BY DEF SecretInv, DeliveredAnswered
<1>2. CASE Refused(r)
  BY <1>1, <1>2, AnswerMapped DEF Refused, limiterVars
<1>3. CASE GenerateUnknown(r)
  BY <1>1, <1>3, AnswerMapped DEF GenerateUnknown, Admitted, limiterVars
<1>4. CASE DrawCode(r)
  <2> DEFINE next == [req[r] EXCEPT !.at = "store", !.snap = NewUser,
                                    !.expiresAt = now + CodeTtl, !.born = now]
  <2>1. /\ req[r].at = "admit" /\ req' = [req EXCEPT ![r] = next]
        /\ now' = now /\ UNCHANGED <<users, delivered, spent>>
    BY <1>4 DEF DrawCode, Admitted, limiterVars
  <2>2. /\ next.at = "store" /\ next.email = req[r].email /\ next.token = req[r].token
        /\ next.snap = NewUser
    BY Known DEF SecretInv, RequestRecord
  <2> HIDE DEF next
  <2>3. Moves(r, req, req') /\ req'[r] = next
    BY <2>1, <2>2 DEF Moves, Unwritten, SecretInv, TypeInv, TypeOK
  <2>4. r \notin GivenIn(req', delivered')
    BY <1>1, <2>1, <2>2, <2>3 DEF GivenIn
  <2>5. QED
    BY <2>1, <2>3, <2>4, QuietMapped DEF Implemented
<1>5. CASE StoreCode(r)
  BY <1>5, StoreCodeMapped
<1>6. CASE Mail(r)
  <2>1. r \in GivenIn(req, delivered)
    BY <1>6 DEF Mail, GivenIn
  <2>2. QED
    BY <1>6, <2>1, AnswerMapped DEF Mail, limiterVars
<1>7. CASE TokenForUnknown(r)
  BY <1>7, GotoMapped, ClockAtBegin DEF TokenForUnknown, Admitted, Unwritten
<1>8. CASE Judge(r)
  BY <1>1, <1>8, GotoMapped, AnswerMapped DEF Judge, Admitted, Unwritten, limiterVars
<1>9. CASE Miss(r)
  <2> DEFINE u == req[r].email
             attempts == req[r].snap.attempts + 1
             user == [users[u] EXCEPT !.attempts = attempts,
                        !.blockedUntil = IF attempts >= MaxAttempts
                                           THEN now + BlockFor ELSE users[u].blockedUntil]
  <2>1. /\ req[r].at = "miss" /\ Goto(r, "register") /\ now' = now /\ delivered' = delivered
        /\ users' = [users EXCEPT ![u] = user]
    BY <1>9, ClockAtBegin DEF Miss
  <2>2. /\ u \in Accounts /\ users \in [Accounts -> UserRecord]
    BY <2>1, Known DEF SecretInv, TypeInv, TypeOK, Routed
  <2>3. /\ user.hash = users[u].hash /\ user.expiresAt = users[u].expiresAt
        /\ user.proof = users[u].proof /\ user.proofExpiresAt = users[u].proofExpiresAt
        /\ user.password = users[u].password
    BY <2>2 DEF UserRecord
  <2> HIDE DEF user, u
  <2>4. AcceptsIn(users') = AcceptsIn(users)
    BY <2>1, <2>2, <2>3 DEF AcceptsIn, Accepts
  <2>5. PasswordsIn(users') = PasswordsIn(users)
    BY <2>1, <2>2, <2>3 DEF PasswordsIn
  <2>6. QED
    BY <2>1, <2>4, <2>5, GotoMapped DEF Unwritten
<1>10. CASE BurnCode(r)
  BY <1>10, BurnCodeMapped
<1>11. CASE ChangePassword(r)
  BY <1>11, ChangePasswordMapped
<1>12. CASE FailureRegistered(r)
  BY <1>1, <1>12, AnswerMapped DEF FailureRegistered, limiterVars
<1>13. CASE FailuresCleared(r)
  <2>1. r \in delivered' => r \in GivenIn(req, delivered)
    BY <1>1, <1>13 DEF FailuresCleared, GivenIn
  <2>2. QED
    BY <1>13, <2>1, AnswerMapped DEF FailuresCleared, limiterVars
<1>14. QED
  BY <1>2, <1>3, <1>4, <1>5, <1>6, <1>7, <1>8, <1>9, <1>10, <1>11, <1>12, <1>13
  DEF ServiceStep

LEMMA ArriveMapped ==
  ASSUME SecretInv, SecretInv', NEW r \in Requests, Arrive(r)
  PROVE  Implemented
<1>1. PICK kind \in Kinds, email \in Emails, token \in delivered \cup {Wrong} :
        Start(r, kind, email, token)
  BY DEF Arrive
<1>2. /\ req[r].at = "idle" /\ now' = now /\ UNCHANGED <<users, delivered>>
  BY <1>1, ClockAtBegin DEF Start
<1>3. req'[r].at = "admit" /\ \A q \in Requests \ {r} : req'[q] = req[q]
  BY <1>1 DEF Start, NewRequest, SecretInv, TypeInv, TypeOK
<1>4. r \notin delivered
  BY <1>2 DEF SecretInv, DeliveredAnswered, Answers
<1>5. GivenIn(req', delivered') = GivenIn(req, delivered) /\ r \notin GivenIn(req, delivered)
  BY <1>2, <1>3, <1>4 DEF GivenIn
<1>6. TermsIn(req', delivered') = TermsIn(req, delivered)
  BY <1>3, <1>5 DEF TermsIn, TermIn
<1>7. UndrawnIn(req') = UndrawnIn(req)
  BY <1>2, <1>3 DEF UndrawnIn, Unwritten
<1>8. QED
  BY <1>2, <1>6, <1>7, StutterMapped DEF Implemented

LEMMA NextMapped ==
  ASSUME SecretInv, SecretInv', [Next]_vars
  PROVE  Implemented
<1>1. CASE Tick
  <2>1. now' = now + 1 /\ UNCHANGED <<users, req, delivered>>
    BY <1>1, ClockTicks DEF Tick, recoveryVars
  <2>2. Secrecy!Tick
    BY <2>1, Mapping DEF Secrecy!Tick
  <2>3. QED
    BY <2>2 DEF Implemented, Secrecy!Next
<1>2. ASSUME UNCHANGED recoveryVars, now' = now
      PROVE  Implemented
  BY <1>2, StutterMapped DEF Implemented, recoveryVars
<1>3. ASSUME NEW r \in Requests, Arrive(r)
      PROVE  Implemented
  BY <1>3, ArriveMapped
<1>4. ASSUME NEW r \in Requests, ServiceStep(r)
      PROVE  Implemented
  BY <1>4, ServiceMapped
<1>5. ASSUME NEW r \in Requests, Abort(r)
      PROVE  Implemented
  <2>1. r \notin delivered
    BY <1>5 DEF Abort, Pending, Answers, SecretInv, DeliveredAnswered
  <2>2. QED
    BY <1>5, <2>1, AbortClock, AnswerMapped DEF Abort, Answers
<1>6. ASSUME NEW r \in Requests, LimiterStep(r)
      PROVE  Implemented
  BY <1>2, <1>6, ClockAtCall DEF LimiterStep
<1>7. CASE UNCHANGED vars
  BY <1>2, <1>7 DEF vars, limiterVars
<1>8. QED
  BY <1>1, <1>3, <1>4, <1>5, <1>6, <1>7 DEF Next

LEMMA InitMapped ==
  ASSUME Init
  PROVE  Secrecy!Init
<1>1. now = 0 /\ users = [u \in Accounts |-> NewUser]
      /\ req = [r \in Requests |-> NewRequest] /\ delivered = {}
  BY DEF Init, Limiter!Init
<1>2. Accepts(NewUser) = {} /\ NewUser.password = Original
  BY NewUserType, AcceptsOne DEF NewUser
<1>3. AcceptsIn(users) = [u \in Accounts |-> {}]
      /\ PasswordsIn(users) = [u \in Accounts |-> Original]
  BY <1>1, <1>2 DEF AcceptsIn, PasswordsIn
<1>4. UndrawnIn(req) = Requests
  BY <1>1 DEF UndrawnIn, Unwritten, NewRequest
<1>5. GivenIn(req, delivered) = {}
  BY <1>1 DEF GivenIn, NewRequest
<1>6. TermsIn(req, delivered) = [s \in Requests |-> {}]
  BY <1>5 DEF TermsIn, TermIn
<1>7. QED
  BY <1>1, <1>3, <1>4, <1>6, Mapping DEF Secrecy!Init

\* Recovery implements SecretExchange: whatever requests overlap, fail or are
\* lost, a document accepts one secret at a time, none comes back, exchanging
\* one buys no time, and only its owner's secret changes a password.
THEOREM RecoveryKeepsSecrets == Spec => KeepsSecrets
<1>1. Init => Secrecy!Init
  BY InitMapped
<1>2. SecretInv /\ SecretInv' /\ [Next]_vars => [Secrecy!Next]_(Secrecy!secretVars)
  BY NextMapped DEF Implemented
<1>3. QED
  BY <1>1, <1>2, SecretsInvariant, PTL DEF Spec, KeepsSecrets, Secrecy!Spec

---------------------------------------------------------------------------
(* Requests that use a secret one after the other. *)

Consuming == {"validate", "change"}

\* From the look-up of the document to the write that removes its secret.
Deciding(r) == req[r].kind \in Consuming /\ req[r].at \in {"admit", "burn"}

\* Those of one address do not overlap.
DecideInTurn ==
  \A r, s \in Requests :
    r # s /\ Deciding(r) /\ Deciding(s) => req[r].email # req[s].email

\* The requests that have removed the secret they presented, up to their answer.
Used(r) == req[r].kind \in Consuming /\ req[r].at \in {"clear", "ok"}

\* What a request has read is still there to be used.
ReadsFresh ==
  \A r \in Requests :
    Deciding(r) => /\ req[r].snap.hash \notin spent /\ req[r].snap.proof \notin spent
                   /\ req[r].at = "burn" => req[r].token \notin spent

UsedApart ==
  /\ \A r \in Requests : /\ Used(r) => req[r].token \in spent
                         /\ req[r].at \in {"store", "mail"} => req[r].kind = "generate"
                         /\ req[r].at = "burn" => req[r].kind \in Consuming
  /\ \A r, s \in Requests : r # s /\ Used(r) /\ Used(s) => req[r].token # req[s].token

TurnInv == ReadsFresh /\ UsedApart

\* What a request that goes on may do with the secrets.
Goes(r) ==
  /\ \A q \in Requests \ {r} : req'[q] = req[q]
  /\ req'[r].kind = req[r].kind /\ req'[r].email = req[r].email
  /\ req'[r].token = req[r].token /\ req'[r].at \notin {"idle", "admit"}
  /\ req'[r].at \in {"store", "mail"} => req[r].kind = "generate"
  /\ req'[r].at = "burn"
       => /\ req[r].at = "admit" /\ req[r].kind \in Consuming /\ Valid(r)
          /\ req'[r].snap = req[r].snap /\ spent' = spent
  /\ \/ spent' = spent /\ (Used(r)' => Used(r))
     \/ /\ spent' = spent \cup {req[r].token} /\ req[r].kind \in Consuming
        /\ req[r].at = "burn" /\ req'[r].at = "clear"

LEMMA AnswerGoes ==
  ASSUME SecretInv, TurnInv, NEW r \in Requests, NEW at \in Answers, Answer(r, at),
         at = "ok" => req[r].at \in {"clear", "mail"}, spent' = spent
  PROVE  Goes(r)
<1>1. req \in [Requests -> RequestRecord]
  BY DEF SecretInv, TypeInv, TypeOK
<1>2. /\ \A q \in Requests \ {r} : req'[q] = req[q]
      /\ req'[r] = [req[r] EXCEPT !.at = at, !.snap = NewUser]
  BY <1>1 DEF Answer
<1>3. /\ req'[r].kind = req[r].kind /\ req'[r].email = req[r].email
      /\ req'[r].token = req[r].token /\ req'[r].at = at
  BY <1>1, <1>2 DEF RequestRecord
<1>4. Used(r)' => Used(r)
  BY <1>3 DEF Used, TurnInv, UsedApart, Answers, Consuming
<1>5. QED
  BY <1>2, <1>3, <1>4 DEF Goes, Answers

LEMMA GotoGoes ==
  ASSUME SecretInv, NEW r \in Requests, NEW at \in Pending \ {"admit"}, Goto(r, at),
         at \in {"store", "mail"} => req[r].kind = "generate",
         at = "burn" => req[r].at = "admit" /\ req[r].kind \in Consuming /\ Valid(r),
         \/ spent' = spent /\ at # "clear"
         \/ /\ spent' = spent \cup {req[r].token} /\ req[r].kind \in Consuming
            /\ req[r].at = "burn" /\ at = "clear"
  PROVE  Goes(r)
<1>1. req \in [Requests -> RequestRecord]
  BY DEF SecretInv, TypeInv, TypeOK
<1>2. /\ \A q \in Requests \ {r} : req'[q] = req[q]
      /\ req'[r] = [req[r] EXCEPT !.at = at]
  BY <1>1 DEF Goto
<1>3. /\ req'[r].kind = req[r].kind /\ req'[r].email = req[r].email
      /\ req'[r].token = req[r].token /\ req'[r].at = at /\ req'[r].snap = req[r].snap
  BY <1>1, <1>2 DEF RequestRecord
<1>4. Used(r)' => at = "clear"
  BY <1>3 DEF Used, Pending
<1>5. QED
  BY <1>2, <1>3, <1>4 DEF Goes, Pending

LEMMA ServiceGoes ==
  ASSUME SecretInv, TurnInv, NEW r \in Requests, ServiceStep(r)
  PROVE  Goes(r)
<1>1. req \in [Requests -> RequestRecord]
  BY DEF SecretInv, TypeInv, TypeOK
<1> USE DEF Answers, Pending
<1>2. CASE Refused(r)
  BY <1>2, AnswerGoes DEF Refused
<1>3. CASE GenerateUnknown(r)
  BY <1>3, AnswerGoes DEF GenerateUnknown
<1>4. CASE DrawCode(r)
  <2> DEFINE next == [req[r] EXCEPT !.at = "store", !.snap = NewUser,
                                    !.expiresAt = now + CodeTtl, !.born = now]
  <2>1. req' = [req EXCEPT ![r] = next] /\ req[r].kind = "generate" /\ spent' = spent
    BY <1>4 DEF DrawCode
  <2>2. /\ next.at = "store" /\ next.kind = req[r].kind /\ next.email = req[r].email
        /\ next.token = req[r].token
    BY <1>1 DEF RequestRecord
  <2> HIDE DEF next
  <2>3. req'[r] = next /\ \A q \in Requests \ {r} : req'[q] = req[q]
    BY <1>1, <2>1
  <2>4. QED
    BY <2>1, <2>2, <2>3 DEF Goes, Used
<1>5. CASE StoreCode(r)
  BY <1>5, GotoGoes DEF StoreCode, TurnInv, UsedApart
<1>6. CASE Mail(r)
  BY <1>6, AnswerGoes DEF Mail
<1>7. CASE TokenForUnknown(r)
  BY <1>7, GotoGoes DEF TokenForUnknown
<1>8. CASE Judge(r)
  <2>1. CASE Answer(r, "lockout") /\ spent' = spent
    BY <2>1, AnswerGoes
  <2>2. CASE Goto(r, "miss") /\ spent' = spent
    BY <2>2, GotoGoes
  <2>3. req[r].kind \in Consuming
    BY <1>1, <1>8 DEF Judge, RequestRecord, Kinds, Consuming
  <2>4. CASE Goto(r, "burn") /\ Valid(r) /\ req[r].at = "admit" /\ spent' = spent
    BY <2>3, <2>4, GotoGoes
  <2>5. QED
    BY <1>8, <2>1, <2>2, <2>4 DEF Judge, Admitted
<1>9. CASE Miss(r)
  BY <1>9, GotoGoes DEF Miss
<1>10. CASE BurnCode(r)
  <2> DEFINE next == [req[r] EXCEPT !.at = "clear", !.born = req[req[r].token].born]
  <2>1. /\ req' = [req EXCEPT ![r] = next] /\ req[r].at = "burn"
        /\ spent' = spent \cup {req[r].token} /\ req[r].kind \in Consuming
    BY <1>10 DEF BurnCode, Consuming
  <2>2. /\ next.at = "clear" /\ next.kind = req[r].kind /\ next.email = req[r].email
        /\ next.token = req[r].token
    BY <1>1 DEF RequestRecord
  <2> HIDE DEF next
  <2>3. req'[r] = next /\ \A q \in Requests \ {r} : req'[q] = req[q]
    BY <1>1, <2>1
  <2>4. QED
    BY <2>1, <2>2, <2>3 DEF Goes
<1>11. CASE ChangePassword(r)
  BY <1>11, GotoGoes DEF ChangePassword, Consuming
<1>12. CASE FailureRegistered(r)
  BY <1>12, AnswerGoes DEF FailureRegistered
<1>13. CASE FailuresCleared(r)
  BY <1>13, AnswerGoes DEF FailuresCleared
<1>14. QED
  BY <1>2, <1>3, <1>4, <1>5, <1>6, <1>7, <1>8, <1>9, <1>10, <1>11, <1>12, <1>13
  DEF ServiceStep

\* A secret that is consumed is one that no other request of its account has
\* read and is still to decide on.
LEMMA ConsumesAlone ==
  ASSUME SecretInv, TurnInv, DecideInTurn, NEW r \in Requests, Goes(r), spent' # spent,
         NEW q \in Requests \ {r}, Deciding(q)
  PROVE  /\ req[q].snap.hash # req[r].token /\ req[q].snap.proof # req[r].token
         /\ req[q].at = "burn" => req[q].token # req[r].token
<1>1. req[r].at = "burn" /\ req[q].email # req[r].email
  BY DEF Goes, DecideInTurn, Deciding
<1>2. req[req[r].token].email = req[r].email /\ req[r].token \in Requests
  BY <1>1, Consumed
<1>3. Sound(req, req[q].email, req[q].snap)
  BY DEF SecretInv, RequestsSound
<1>4. req[r].token # NoSecret
  BY <1>2, RecoveryAssumption
<1>5. req[q].at = "burn" => req[req[q].token].email = req[q].email
  BY Consumed
<1>6. QED
  BY <1>1, <1>2, <1>3, <1>4, <1>5 DEF Sound, Owned

LEMMA ArriveInTurn ==
  ASSUME SecretInv, TurnInv, NEW r \in Requests, Arrive(r)
  PROVE  TurnInv'
<1>1. PICK kind \in Kinds, email \in Emails, token \in delivered \cup {Wrong} :
        Start(r, kind, email, token)
  BY DEF Arrive
<1> DEFINE next == [NewRequest EXCEPT !.kind = kind, !.email = email,
                      !.token = token, !.at = "admit",
                      !.snap = IF email \in Accounts THEN users[email] ELSE NewUser]
<1>2. req' = [req EXCEPT ![r] = next] /\ spent' = spent
  BY <1>1 DEF Start
<1>3. /\ next.at = "admit" /\ next.email = email
      /\ next.snap = IF email \in Accounts THEN users[email] ELSE NewUser
  BY DEF NewRequest
<1> HIDE DEF next
<1>4. req'[r] = next /\ \A q \in Requests \ {r} : req'[q] = req[q]
  BY <1>2 DEF SecretInv, TypeInv, TypeOK
<1>5. NoSecret \notin spent
  BY RecoveryAssumption DEF SecretInv, TypeInv, TypeOK
<1>6. req'[r].snap.hash \notin spent /\ req'[r].snap.proof \notin spent
  BY <1>3, <1>4, <1>5 DEF SecretInv, SpentIsGone, NewUser
<1>7. ReadsFresh'
  BY <1>2, <1>3, <1>4, <1>6 DEF TurnInv, ReadsFresh, Deciding
<1>8. UsedApart'
  BY <1>2, <1>3, <1>4 DEF TurnInv, UsedApart, Used
<1>9. QED
  BY <1>7, <1>8 DEF TurnInv

LEMMA GoesInTurn ==
  ASSUME SecretInv, TurnInv, DecideInTurn, NEW r \in Requests, Goes(r)
  PROVE  TurnInv'
<1>1. ASSUME NEW q \in Requests \ {r}, Deciding(q)'
      PROVE  /\ req'[q].snap.hash \notin spent' /\ req'[q].snap.proof \notin spent'
             /\ req'[q].at = "burn" => req'[q].token \notin spent'
  <2>1. req'[q] = req[q] /\ Deciding(q)
    BY <1>1 DEF Goes, Deciding
  <2>2. /\ req[q].snap.hash \notin spent /\ req[q].snap.proof \notin spent
        /\ req[q].at = "burn" => req[q].token \notin spent
    BY <2>1 DEF TurnInv, ReadsFresh
  <2>3. CASE spent' = spent
    BY <2>1, <2>2, <2>3
  <2>4. CASE spent' # spent
    <3>1. /\ req[q].snap.hash # req[r].token /\ req[q].snap.proof # req[r].token
          /\ req[q].at = "burn" => req[q].token # req[r].token
      BY <2>1, <2>4, ConsumesAlone
    <3>2. spent' = spent \cup {req[r].token}
      BY <2>4 DEF Goes
    <3>3. QED
      BY <2>1, <2>2, <3>1, <3>2
  <2>5. QED
    BY <2>3, <2>4
<1>2. ASSUME Deciding(r)'
      PROVE  /\ req'[r].snap.hash \notin spent' /\ req'[r].snap.proof \notin spent'
             /\ req'[r].at = "burn" => req'[r].token \notin spent'
  <2>1. /\ req[r].at = "admit" /\ Valid(r) /\ req'[r].snap = req[r].snap /\ spent' = spent
        /\ req'[r].token = req[r].token /\ req[r].kind \in Consuming
    BY <1>2 DEF Goes, Deciding
  <2>2. req[r].snap.hash \notin spent /\ req[r].snap.proof \notin spent
    BY <2>1 DEF TurnInv, ReadsFresh, Deciding
  <2>3. req[r].token \in {req[r].snap.hash, req[r].snap.proof}
    BY <2>1 DEF Valid, ChangeAllowed, CodeValid, Verifies
  <2>4. QED
    BY <2>1, <2>2, <2>3
<1>3. ReadsFresh'
  BY <1>1, <1>2 DEF ReadsFresh
<1>4. ASSUME NEW q \in Requests
      PROVE  /\ Used(q)' => req'[q].token \in spent'
             /\ req'[q].at \in {"store", "mail"} => req'[q].kind = "generate"
             /\ req'[q].at = "burn" => req'[q].kind \in Consuming
  BY DEF TurnInv, UsedApart, Goes, Used
<1>5. ASSUME NEW p \in Requests, NEW q \in Requests, p # q, Used(p)', Used(q)'
      PROVE  req'[p].token # req'[q].token
  <2>1. req'[p].token = req[p].token /\ req'[q].token = req[q].token
    BY DEF Goes
  <2>2. CASE spent' = spent /\ (Used(r)' => Used(r))
    BY <1>5, <2>1, <2>2 DEF Goes, TurnInv, UsedApart, Used
  <2>3. CASE req[r].at = "burn" /\ req[r].kind \in Consuming
    <3>1. req[r].token \notin spent
      BY <2>3 DEF TurnInv, ReadsFresh, Deciding
    <3>2. \A s \in Requests \ {r} : Used(s)' => Used(s) /\ req[s].token \in spent
      BY DEF Goes, Used, TurnInv, UsedApart
    <3>3. QED
      BY <1>5, <2>1, <3>1, <3>2 DEF TurnInv, UsedApart
  <2>4. QED
    BY <2>2, <2>3 DEF Goes
<1>6. UsedApart'
  BY <1>4, <1>5 DEF UsedApart
<1>7. QED
  BY <1>3, <1>6 DEF TurnInv

LEMMA AbortGoes ==
  ASSUME SecretInv, TurnInv, NEW r \in Requests, Abort(r)
  PROVE  Goes(r)
<1>1. Answer(r, "error") /\ spent' = spent
  BY DEF Abort
<1>2. QED
  BY <1>1, AnswerGoes DEF Answers

LEMMA TurnStays == SecretInv /\ TurnInv /\ DecideInTurn /\ [Next]_vars => TurnInv'
<1> SUFFICES ASSUME SecretInv, TurnInv, DecideInTurn, [Next]_vars PROVE TurnInv'
  OBVIOUS
<1>1. ASSUME UNCHANGED recoveryVars PROVE TurnInv'
  BY <1>1 DEF recoveryVars, TurnInv, ReadsFresh, UsedApart, Deciding, Used
<1>2. CASE Tick \/ UNCHANGED vars
  BY <1>1, <1>2 DEF Tick, vars, recoveryVars
<1>3. ASSUME NEW r \in Requests, Arrive(r) PROVE TurnInv'
  BY <1>3, ArriveInTurn
<1>4. ASSUME NEW r \in Requests, ServiceStep(r) PROVE TurnInv'
  BY <1>4, ServiceGoes, GoesInTurn
<1>5. ASSUME NEW r \in Requests, Abort(r) PROVE TurnInv'
  BY <1>5, AbortGoes, GoesInTurn
<1>6. ASSUME NEW r \in Requests, LimiterStep(r) PROVE TurnInv'
  BY <1>1, <1>6 DEF LimiterStep
<1>7. QED
  BY <1>2, <1>3, <1>4, <1>5, <1>6 DEF Next

LEMMA InitTurn == Init => TurnInv
  BY DEF Init, TurnInv, ReadsFresh, UsedApart, Deciding, Used, NewRequest

LEMMA TurnAlways == Spec /\ []DecideInTurn => []TurnInv
  BY InitTurn, TurnStays, SecretsInvariant, PTL DEF Spec

\* "Single-use OTP" needs only that the requests of one address that present a
\* token do not overlap between the look-up and the write: then no code and no
\* reset token is accepted and consumed twice, by a validation or by a change
\* of the password, whatever else overlaps or fails.
THEOREM ConsumedOnceInTurn ==
  Spec /\ []DecideInTurn
    => [][\A r \in Requests :
            req[r].at = "burn" /\ req'[r].at = "clear" => req[r].token \notin spent]_vars
<1> DEFINE Once == \A r \in Requests :
                     req[r].at = "burn" /\ req'[r].at = "clear" => req[r].token \notin spent
<1>1. TurnInv => Once
  BY DEF TurnInv, ReadsFresh, UsedApart, Deciding
<1> HIDE DEF Once
<1>2. Spec /\ []DecideInTurn => [][Once]_vars
  BY <1>1, TurnAlways, PTL
<1>3. QED
  BY <1>2 DEF Once

\* And then two validations of one code never both succeed.
THEOREM CodeUsedOnceInTurn == Spec /\ []DecideInTurn => []CodeUsedOnce
<1>1. TurnInv => CodeUsedOnce
  BY DEF TurnInv, UsedApart, Used, CodeUsedOnce, Consuming
<1>2. QED
  BY <1>1, TurnAlways, PTL

=============================================================================
