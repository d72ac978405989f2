----------------------- MODULE RecoveryLimiterProofs -----------------------
(***************************************************************************)
(* Recovery and its limiter together: what is proved of OtpRateLimit holds *)
(* of the limiter inside Recovery, and what a request may do follows from  *)
(* the answers of the calls it made.                                       *)
(***************************************************************************)
EXTENDS RecoveryProofs, FiniteSetTheorems

\* The theorems about the limiter, with requests for processes.
LimiterProofs == INSTANCE OtpRateLimitProofs WITH Calls <- Requests

---------------------------------------------------------------------------
(* The theorems of OtpRateLimitProofs, of this limiter. *)

LEMMA LimiterAssumed ==
  LimiterProofs!LimitsAssumption /\ LimiterProofs!TimesAssumption
  BY LimiterAssumption
  DEF Limiter!LimitsAssumption, LimiterProofs!LimitsAssumption,
      Limiter!TimesAssumption, LimiterProofs!TimesAssumption

LEMMA SameStore ==
  /\ Limiter!RedisKeys = LimiterProofs!RedisKeys
  /\ Limiter!Absent = LimiterProofs!Absent
  /\ Limiter!Gates = LimiterProofs!Gates
  /\ Limiter!Ops = LimiterProofs!Ops
  /\ \A c : Limiter!CounterOf(c) = LimiterProofs!CounterOf(c)
  /\ \A c : Limiter!Executed(c) = LimiterProofs!Executed(c)
  BY DEF Limiter!RedisKeys, LimiterProofs!RedisKeys, Limiter!Counters, LimiterProofs!Counters,
         Limiter!Absent, LimiterProofs!Absent, Limiter!Gates, LimiterProofs!Gates,
         Limiter!Ops, LimiterProofs!Ops, Limiter!CounterOf, LimiterProofs!CounterOf,
         Limiter!Counter, LimiterProofs!Counter, Limiter!Executed, LimiterProofs!Executed,
         Limiter!Incremented, LimiterProofs!Incremented,
         Limiter!Expiring, LimiterProofs!Expiring, Limiter!Ttl, LimiterProofs!Ttl,
         Limiter!Locked, LimiterProofs!Locked, Limiter!Deleted, LimiterProofs!Deleted,
         Limiter!DelKinds, LimiterProofs!DelKinds

LEMMA SameCall ==
  ASSUME NEW c
  PROVE  /\ Limiter!CallStep(c) <=> LimiterProofs!CallStep(c)
         /\ \A op, k : Limiter!Begin(c, op, k) <=> LimiterProofs!Begin(c, op, k)
  BY SameStore
  DEF Limiter!CallStep, LimiterProofs!CallStep,
      Limiter!CommandStep, LimiterProofs!CommandStep, Limiter!GetLock, LimiterProofs!GetLock,
      Limiter!Incr, LimiterProofs!Incr, Limiter!Expire, LimiterProofs!Expire,
      Limiter!SetLock, LimiterProofs!SetLock, Limiter!Del, LimiterProofs!Del,
      Limiter!Fail, LimiterProofs!Fail, Limiter!Resend, LimiterProofs!Resend,
      Limiter!InFlight, LimiterProofs!InFlight, Limiter!Commands, LimiterProofs!Commands,
      Limiter!Goto, LimiterProofs!Goto, Limiter!AfterCount, LimiterProofs!AfterCount,
      Limiter!Limit, LimiterProofs!Limit, Limiter!Begin, LimiterProofs!Begin,
      Limiter!FirstCommand, LimiterProofs!FirstCommand

LEMMA SameLimiter == Limiter!Spec => LimiterProofs!Spec
<1>1. Limiter!Init => LimiterProofs!Init
  BY SameStore DEF Limiter!Init, LimiterProofs!Init
<1>2. Limiter!Tick <=> LimiterProofs!Tick
  BY SameStore
  DEF Limiter!Tick, LimiterProofs!Tick, Limiter!Purged, LimiterProofs!Purged,
      Limiter!Expired, LimiterProofs!Expired
<1>3. [Limiter!Next]_(Limiter!vars) => [LimiterProofs!Next]_(LimiterProofs!vars)
  BY <1>2, SameStore, SameCall
  DEF Limiter!Next, LimiterProofs!Next, Limiter!vars, LimiterProofs!vars
<1>4. QED
  BY <1>1, <1>3, PTL DEF Limiter!Spec, LimiterProofs!Spec

LEMMA LimiterInside == UsesLimiter => LimiterProofs!Spec
  BY SameLimiter DEF UsesLimiter

LEMMA LimiterTyped == UsesLimiter => []Limiter!TypeOK
<1>1. LimiterProofs!TypeOK => Limiter!TypeOK
  BY SameStore
  DEF Limiter!TypeOK, LimiterProofs!TypeOK, Limiter!Deadlines, LimiterProofs!Deadlines,
      Limiter!Commands, LimiterProofs!Commands, Limiter!Outcomes, LimiterProofs!Outcomes
<1>2. LimiterProofs!Spec => []LimiterProofs!TypeOK
  BY LimiterAssumed, LimiterProofs!TypeCorrect
<1>3. QED
  BY <1>1, <1>2, LimiterInside, PTL

LEMMA LimiterBounds == UsesLimiter => []Limiter!BoundedBurst
<1>1. LimiterProofs!BoundedBurst => Limiter!BoundedBurst
  BY SameStore
  DEF Limiter!BoundedBurst, LimiterProofs!BoundedBurst, Limiter!Limit, LimiterProofs!Limit
<1>2. LimiterProofs!Spec => []LimiterProofs!BoundedBurst
  BY LimiterAssumed, LimiterProofs!BurstIsBounded
<1>3. QED
  BY <1>1, <1>2, LimiterInside, PTL

LEMMA LimiterLocks == UsesLimiter => Limiter!LockHolds
<1>1. LimiterProofs!Spec => LimiterProofs!LockHolds
  BY LimiterAssumed, LimiterProofs!LockoutHolds
<1>2. LimiterProofs!LockHolds => Limiter!LockHolds
  BY DEF Limiter!LockHolds, LimiterProofs!LockHolds, Limiter!vars, LimiterProofs!vars
<1>3. QED
  BY <1>1, <1>2, LimiterInside, PTL

LEMMA LimiterRecovers ==
  UsesLimiter => [](/\ Limiter!CountersExpire
                    /\ Limiter!RefusalIsTemporaryWithRedis
                    /\ Limiter!FailuresLock)
<1>1. \A rk : Limiter!DeadlineOwed(rk) <=> LimiterProofs!DeadlineOwed(rk)
  BY SameStore DEF Limiter!DeadlineOwed, LimiterProofs!DeadlineOwed
<1>2. LimiterProofs!CountersExpire => Limiter!CountersExpire
  BY <1>1
  DEF Limiter!CountersExpire, LimiterProofs!CountersExpire,
      Limiter!Counters, LimiterProofs!Counters
<1>3. LimiterProofs!RefusalIsTemporaryWithRedis => Limiter!RefusalIsTemporaryWithRedis
  BY <1>1, SameStore
  DEF Limiter!RefusalIsTemporaryWithRedis, LimiterProofs!RefusalIsTemporaryWithRedis,
      Limiter!RefusalIsTemporary, LimiterProofs!RefusalIsTemporary,
      Limiter!Limit, LimiterProofs!Limit, Limiter!Counter, LimiterProofs!Counter
<1>4. LimiterProofs!FailuresLock => Limiter!FailuresLock
  BY DEF Limiter!FailuresLock, LimiterProofs!FailuresLock
<1>5. LimiterProofs!Spec => /\ []LimiterProofs!CountersExpire
                            /\ []LimiterProofs!RefusalIsTemporaryWithRedis
                            /\ []LimiterProofs!FailuresLock
  BY LimiterAssumed, LimiterProofs!ReliableCountersExpire, LimiterProofs!ReliableRefusal,
     LimiterProofs!ReliableFailuresLock
<1>6. QED
  BY <1>2, <1>3, <1>4, <1>5, LimiterInside, PTL

\* However recovery requests overlap, and whatever fails, no key gets more than
\* twice a limit, less one, of its calls past a gate in less than a Window.
THEOREM RecoveryBurstIsBounded == Spec => []Limiter!BoundedBurst
  BY LimiterBounds, RecoveryUsesLimiter, PTL

\* And while Redis answers, counters expire, a gate refuses for no longer than a
\* Window, and failures lock.
THEOREM RecoveryLimiterRecovers ==
  Spec => [](/\ Limiter!CountersExpire
             /\ Limiter!RefusalIsTemporaryWithRedis
             /\ Limiter!FailuresLock)
  BY LimiterRecovers, RecoveryUsesLimiter, PTL

---------------------------------------------------------------------------
(* A request and the call it is making. *)

\* At the gate a request has called it for its own key; the failures of a key
\* are being cleared only by a request that has consumed a secret.
Tied(r) ==
  /\ req[r].at = "admit"
       => /\ call[r].op = IF req[r].kind = "generate" THEN "generate" ELSE "validate"
          /\ call[r].key = KeyOf(r)
  /\ call[r].op = "clear" /\ Limiter!InFlight(r)
       => /\ req[r].at = "clear" /\ call[r].key = KeyOf(r)
          /\ req[r].token \in spent

TiedInv == \A r \in Requests : Tied(r)

\* A step of request r that is not its arrival leaves its kind, address and
\* token alone.
SameRequest(r) ==
  /\ req'[r].kind = req[r].kind /\ req'[r].email = req[r].email
  /\ req'[r].token = req[r].token
  /\ \A q \in Requests \ {r} : req'[q] = req[q]

LEMMA AnswerIs ==
  ASSUME Shaped, NEW r \in Requests, NEW at \in Answers, Answer(r, at)
  PROVE  SameRequest(r) /\ req'[r].at = at
<1>1. PICK U : req \in [Requests -> RequestWith(U)]
  BY DEF Shaped
<1>2. QED
  BY <1>1 DEF Answer, SameRequest, RequestWith

LEMMA GotoIs ==
  ASSUME Shaped, NEW r \in Requests, NEW at, Goto(r, at)
  PROVE  SameRequest(r) /\ req'[r].at = at
<1>1. PICK U : req \in [Requests -> RequestWith(U)]
  BY DEF Shaped
<1>2. QED
  BY <1>1 DEF Goto, SameRequest, RequestWith

LEMMA CallIs ==
  ASSUME Limiter!TypeOK, NEW r \in Requests
  PROVE  /\ \A op, k : Limiter!Begin(r, op, k)
              => /\ call'[r] = [op |-> op, key |-> k, at |-> Limiter!FirstCommand(op)]
                 /\ \A q \in Requests \ {r} : call'[q] = call[q]
         /\ Limiter!CallStep(r)
              => /\ Limiter!InFlight(r)
                 /\ call'[r].op = call[r].op /\ call'[r].key = call[r].key
                 /\ \A q \in Requests \ {r} : call'[q] = call[q]
         /\ Limiter!Fail(r) => call'[r].at = "unavailable"
<1>1. call \in [Requests -> [op : Limiter!Ops, key : Keys \cup {NoKey},
                             at : {"idle"} \cup Limiter!Commands \cup Limiter!Outcomes]]
  BY DEF Limiter!TypeOK
<1>2. \A op, k : Limiter!Begin(r, op, k)
        => /\ call'[r] = [op |-> op, key |-> k, at |-> Limiter!FirstCommand(op)]
           /\ \A q \in Requests \ {r} : call'[q] = call[q]
  BY <1>1 DEF Limiter!Begin
<1>3. ASSUME NEW at, Limiter!Goto(r, at)
      PROVE  /\ call'[r].op = call[r].op /\ call'[r].key = call[r].key
             /\ call'[r].at = at
             /\ \A q \in Requests \ {r} : call'[q] = call[q]
  BY <1>1, <1>3 DEF Limiter!Goto
<1>4. ASSUME Limiter!CallStep(r)
      PROVE  /\ Limiter!InFlight(r)
             /\ call'[r].op = call[r].op /\ call'[r].key = call[r].key
             /\ \A q \in Requests \ {r} : call'[q] = call[q]
  BY <1>3, <1>4
  DEF Limiter!CallStep, Limiter!CommandStep, Limiter!GetLock, Limiter!Incr, Limiter!Expire,
      Limiter!SetLock, Limiter!Del, Limiter!Fail, Limiter!Resend, Limiter!InFlight,
      Limiter!Commands
<1>5. Limiter!Fail(r) => call'[r].at = "unavailable"
  BY <1>3 DEF Limiter!Fail
<1>6. QED
  BY <1>2, <1>4, <1>5

LEMMA BeginIs ==
  ASSUME Limiter!TypeOK, NEW r \in Requests, NEW op, NEW k, Limiter!Begin(r, op, k)
  PROVE  /\ call'[r].op = op /\ call'[r].key = k /\ granted' = granted
         /\ \A q \in Requests \ {r} : call'[q] = call[q]
<1>1. /\ call'[r] = [op |-> op, key |-> k, at |-> Limiter!FirstCommand(op)]
      /\ \A q \in Requests \ {r} : call'[q] = call[q]
  BY CallIs
<1>2. QED
  BY <1>1 DEF Limiter!Begin

\* The requests that have come past the gate of validations, and those of them
\* whose token has been judged (or whose address is unknown).
Passed(r) ==
  /\ req[r].at = "admit" /\ req[r].kind # "generate"
  /\ call[r].at \in {"allowed", "expire"}

Judged(r) == req[r].at \in {"miss", "burn", "register", "clear", "unauthorized"}

\* Every step of the service is of this form.
LEMMA ServiceIs ==
  ASSUME Shaped, Limiter!TypeOK, NEW r \in Requests, ServiceStep(r)
  PROVE  /\ SameRequest(r) /\ req'[r].at \notin {"idle", "admit"}
         /\ granted' = granted /\ spent \subseteq spent'
         /\ \A q \in Requests \ {r} : call'[q] = call[q]
         /\ \/ call' = call /\ (req[r].at = "clear" => ~ Limiter!InFlight(r))
            \/ call'[r].op = "failure"
            \/ /\ call'[r].key = KeyOf(r) /\ req'[r].at = "clear"
               /\ req[r].token \in spent'
         /\ Judged(r)' => Judged(r) \/ Passed(r)
<1>1. PICK U : req \in [Requests -> RequestWith(U)]
  BY DEF Shaped
<1> USE DEF Judged, Passed
<1>2. ASSUME NEW at \in Answers, Answer(r, at), req[r].at \in Pending,
             UNCHANGED <<call, granted, spent>>,
             req[r].at = "clear" => ~ Limiter!InFlight(r),
             at = "unauthorized" => req[r].at = "register"
      PROVE  /\ SameRequest(r) /\ req'[r].at \notin {"idle", "admit"}
             /\ granted' = granted /\ spent \subseteq spent'
             /\ \A q \in Requests \ {r} : call'[q] = call[q]
             /\ call' = call /\ (req[r].at = "clear" => ~ Limiter!InFlight(r))
             /\ Judged(r)' => Judged(r) \/ Passed(r)
  BY <1>2, AnswerIs DEF Answers
<1>3. CASE Refused(r)
  BY <1>2, <1>3 DEF Refused, Answers, Pending, limiterVars
<1>4. CASE GenerateUnknown(r)
  BY <1>2, <1>4 DEF GenerateUnknown, Admitted, Answers, Pending, limiterVars
<1>5. CASE DrawCode(r)
  <2> DEFINE next == [req[r] EXCEPT !.at = "store", !.snap = NewUser,
                                    !.expiresAt = now + CodeTtl, !.born = now]
  <2>1. req[r].at = "admit" /\ req' = [req EXCEPT ![r] = next]
    BY <1>5 DEF DrawCode, Admitted
  <2>2. /\ next.at = "store" /\ next.kind = req[r].kind /\ next.email = req[r].email
        /\ next.token = req[r].token
    BY <1>1 DEF RequestWith
  <2> HIDE DEF next
  <2>3. SameRequest(r) /\ req'[r].at = "store"
    BY <1>1, <2>1, <2>2 DEF SameRequest
  <2>4. QED
    BY <1>5, <2>1, <2>3 DEF DrawCode, limiterVars
<1>6. CASE StoreCode(r)
  BY <1>6, GotoIs DEF StoreCode, limiterVars
<1>7. CASE Mail(r)
  BY <1>2, <1>7 DEF Mail, Answers, Pending, limiterVars
<1>8. CASE TokenForUnknown(r)
  <2>1. Limiter!Begin(r, "failure", KeyOf(r)) /\ Goto(r, "register") /\ Passed(r)
        /\ spent' = spent
    BY <1>8 DEF TokenForUnknown, Admitted
  <2>2. QED
    BY <2>1, GotoIs, BeginIs
<1>9. CASE Judge(r)
  <2>1. /\ req[r].at = "admit" /\ Passed(r) /\ UNCHANGED <<call, granted, spent>>
        /\ Answer(r, "lockout") \/ Goto(r, "burn") \/ Goto(r, "miss")
    BY <1>9 DEF Judge, Admitted, limiterVars
  <2>2. QED
    BY <2>1, AnswerIs, GotoIs DEF Answers
<1>10. CASE Miss(r)
  <2>1. /\ req[r].at = "miss" /\ Goto(r, "register") /\ spent' = spent
        /\ Limiter!Begin(r, "failure", KeyOf(r))
    BY <1>10 DEF Miss
  <2>2. QED
    BY <2>1, GotoIs, BeginIs
<1>11. CASE BurnCode(r)
  <2> DEFINE next == [req[r] EXCEPT !.at = "clear", !.born = req[req[r].token].born]
  <2>1. /\ req[r].at = "burn" /\ req' = [req EXCEPT ![r] = next]
        /\ spent' = spent \cup {req[r].token} /\ Limiter!Begin(r, "clear", KeyOf(r))
    BY <1>11 DEF BurnCode
  <2>2. /\ next.at = "clear" /\ next.kind = req[r].kind /\ next.email = req[r].email
        /\ next.token = req[r].token
    BY <1>1 DEF RequestWith
  <2> HIDE DEF next
  <2>3. SameRequest(r) /\ req'[r].at = "clear"
    BY <1>1, <2>1, <2>2 DEF SameRequest
  <2>4. QED
    BY <2>1, <2>3, BeginIs
<1>12. CASE ChangePassword(r)
  <2>1. /\ req[r].at = "burn" /\ Goto(r, "clear")
        /\ spent' = spent \cup {req[r].token} /\ Limiter!Begin(r, "clear", KeyOf(r))
    BY <1>12 DEF ChangePassword
  <2>2. QED
    BY <2>1, GotoIs, BeginIs
<1>13. CASE FailureRegistered(r)
  BY <1>2, <1>13 DEF FailureRegistered, Answers, Pending, limiterVars
<1>14. CASE FailuresCleared(r)
  <2>1. ~ Limiter!InFlight(r)
    BY <1>14 DEF FailuresCleared, Limiter!InFlight, Limiter!Commands
  <2>2. QED
    BY <1>2, <1>14, <2>1 DEF FailuresCleared, Answers, Pending, limiterVars
<1>15. QED
  BY <1>3, <1>4, <1>5, <1>6, <1>7, <1>8, <1>9, <1>10, <1>11, <1>12, <1>13, <1>14
  DEF ServiceStep

\* The other steps of a request.
LEMMA ArrivalIs ==
  ASSUME Shaped, Limiter!TypeOK, NEW r \in Requests, Arrive(r)
  PROVE  /\ \A q \in Requests \ {r} : req'[q] = req[q] /\ call'[q] = call[q]
         /\ granted' = granted /\ spent' = spent
         /\ req'[r].at = "admit" /\ call'[r].key = KeyOf(r)'
         /\ call'[r].op = IF req'[r].kind = "generate" THEN "generate" ELSE "validate"
         /\ call'[r].at \notin {"allowed", "expire"}
<1>1. PICK kind \in Kinds, email \in Emails, token \in delivered \cup {Wrong} :
        Start(r, kind, email, token)
  BY DEF Arrive
<1> DEFINE next == [NewRequest EXCEPT !.kind = kind, !.email = email,
                      !.token = token, !.at = "admit",
                      !.snap = IF email \in Accounts THEN users[email] ELSE NewUser]
           op == IF kind = "generate" THEN "generate" ELSE "validate"
<1>2. /\ req' = [req EXCEPT ![r] = next]
      /\ Limiter!Begin(r, op, ThrottleKey[email]) /\ spent' = spent
  BY <1>1 DEF Start
<1>3. next.at = "admit" /\ next.kind = kind /\ next.email = email
  BY DEF NewRequest
<1> HIDE DEF next
<1>4. req'[r] = next /\ \A q \in Requests \ {r} : req'[q] = req[q]
  BY <1>2 DEF Shaped
<1>5. /\ call'[r] = [op |-> op, key |-> ThrottleKey[email], at |-> Limiter!FirstCommand(op)]
      /\ \A q \in Requests \ {r} : call'[q] = call[q]
  BY <1>2, CallIs
<1>6. granted' = granted
  BY <1>2 DEF Limiter!Begin
<1>7. QED
  BY <1>2, <1>3, <1>4, <1>5, <1>6 DEF KeyOf, Limiter!FirstCommand

LEMMA AbortIs ==
  ASSUME Shaped, Limiter!TypeOK, NEW r \in Requests, Abort(r)
  PROVE  /\ SameRequest(r) /\ req'[r].at = "error" /\ granted' = granted /\ spent' = spent
         /\ \A q \in Requests \ {r} : call'[q] = call[q]
         /\ ~ Limiter!InFlight(r)'
<1>1. Answer(r, "error") /\ spent' = spent
  BY DEF Abort
<1>2. CASE Limiter!InFlight(r)
  <2>1. Limiter!Fail(r)
    BY <1>2 DEF Abort
  <2>2. granted' = granted
    BY <2>1 DEF Limiter!Fail
  <2>3. call'[r].at = "unavailable" /\ \A q \in Requests \ {r} : call'[q] = call[q]
    BY <2>1, CallIs DEF Limiter!CallStep
  <2>4. QED
    BY <1>1, <2>2, <2>3, AnswerIs DEF Answers, Limiter!InFlight, Limiter!Commands
<1>3. CASE ~ Limiter!InFlight(r)
  <2>1. UNCHANGED limiterVars
    BY <1>3 DEF Abort
  <2>2. QED
    BY <1>1, <1>3, <2>1, AnswerIs DEF Answers, limiterVars, Limiter!InFlight
<1>4. QED
  BY <1>2, <1>3

LEMMA CallStepIs ==
  ASSUME Shaped, Limiter!TypeOK, NEW r \in Requests, LimiterStep(r)
  PROVE  /\ req' = req /\ spent' = spent /\ Limiter!CallStep(r)
         /\ Limiter!InFlight(r) /\ call'[r].op = call[r].op /\ call'[r].key = call[r].key
         /\ \A q \in Requests \ {r} : call'[q] = call[q]
  BY CallIs DEF LimiterStep, recoveryVars

\* A step of recovery, or of somebody who leaves the limiter and the requests of
\* recovery alone.
AnyStep == Next \/ UNCHANGED <<limiterVars, req, spent>>

LEMMA NextIsAny == [Next]_vars => AnyStep
  BY DEF AnyStep, vars, recoveryVars

---------------------------------------------------------------------------
(* Lockouts. *)

LEMMA TiedStays ==
  ASSUME Shaped, Limiter!TypeOK, TiedInv, AnyStep
  PROVE  TiedInv'
<1>1. ASSUME NEW q \in Requests, call'[q] = call[q], req'[q] = req[q], spent \subseteq spent'
      PROVE  Tied(q)'
  BY <1>1 DEF TiedInv, Tied, KeyOf, Limiter!InFlight
<1>2. ASSUME NEW r \in Requests, Arrive(r)
      PROVE  TiedInv'
  <2>1. Tied(r)'
    BY <1>2, ArrivalIs DEF Tied
  <2>2. QED
    BY <1>1, <1>2, <2>1, ArrivalIs DEF TiedInv
<1>3. ASSUME NEW r \in Requests, ServiceStep(r)
      PROVE  TiedInv'
  <2>1. SameRequest(r) /\ req'[r].at \notin {"idle", "admit"} /\ spent \subseteq spent'
    BY <1>3, ServiceIs
  <2>2. KeyOf(r)' = KeyOf(r) /\ req'[r].token = req[r].token /\ req'[r].at # "admit"
    BY <2>1 DEF SameRequest, KeyOf
  <2>3. Tied(r)'
    <3>1. CASE call' = call /\ (req[r].at = "clear" => ~ Limiter!InFlight(r))
      BY <2>2, <3>1 DEF Tied, TiedInv, Limiter!InFlight
    <3>2. CASE call'[r].op = "failure"
      BY <2>2, <3>2 DEF Tied
    <3>3. CASE call'[r].key = KeyOf(r) /\ req'[r].at = "clear" /\ req[r].token \in spent'
      BY <2>2, <3>3 DEF Tied
    <3>4. QED
      BY <1>3, <3>1, <3>2, <3>3, ServiceIs
  <2>4. \A q \in Requests \ {r} : call'[q] = call[q]
    BY <1>3, ServiceIs
  <2>5. QED
    BY <1>1, <2>1, <2>3, <2>4 DEF TiedInv, SameRequest
<1>4. ASSUME NEW r \in Requests, Abort(r)
      PROVE  TiedInv'
  <2>1. Tied(r)'
    BY <1>4, AbortIs DEF Tied
  <2>2. QED
    BY <1>1, <1>4, <2>1, AbortIs DEF TiedInv, SameRequest
<1>5. ASSUME NEW r \in Requests, LimiterStep(r)
      PROVE  TiedInv'
  <2>1. Tied(r)'
    BY <1>5, CallStepIs DEF Tied, TiedInv, KeyOf
  <2>2. QED
    BY <1>1, <1>5, <2>1, CallStepIs DEF TiedInv
<1>6. CASE Tick \/ UNCHANGED <<limiterVars, req, spent>>
  <2>1. req' = req /\ call' = call /\ spent' = spent
    BY <1>6 DEF Tick, Limiter!Tick, limiterVars, recoveryVars
  <2>2. QED
    BY <1>1, <2>1 DEF TiedInv
<1>7. QED
  BY <1>2, <1>3, <1>4, <1>5, <1>6 DEF AnyStep, Next

LEMMA InitTied == Init => TiedInv
  BY DEF Init, Limiter!Init, TiedInv, Tied, NewRequest, Limiter!InFlight, Limiter!Commands

LEMMA TypesAlways == Spec => [](Shaped /\ Limiter!TypeOK)
  BY InitType, NextType, TypedIsShaped, LimiterTyped, RecoveryUsesLimiter, PTL DEF Spec

LEMMA TiedAlways == Spec => []TiedInv
<1>1. (Shaped /\ Limiter!TypeOK) /\ TiedInv /\ [Next]_vars => TiedInv'
  BY TiedStays, NextIsAny
<1>2. QED
  BY <1>1, InitTied, TypesAlways, PTL DEF Spec

\* What the limiter promises of a lockout, and what recovery does.
Held ==
  \A k \in Keys :
    LET lock == redis[<<"lock", k>>]
        next == redis'[<<"lock", k>>]
    IN (lock.value # 0 /\ now' < lock.expiresAt)
         => \/ next.value # 0 /\ next.expiresAt >= lock.expiresAt
            \/ \E c \in Requests : /\ call[c].op = "clear"
                                   /\ call[c].key = k
                                   /\ call[c].at = "del"

Lifted ==
  \A k \in Keys :
    LET lock == redis[<<"lock", k>>]
        next == redis'[<<"lock", k>>]
    IN (lock.value # 0 /\ now' < lock.expiresAt)
         => \/ next.value # 0 /\ next.expiresAt >= lock.expiresAt
            \/ \E r \in Requests : /\ req[r].at = "clear"
                                   /\ KeyOf(r) = k
                                   /\ req[r].token \in spent

LEMMA HeldIsLifted ==
  ASSUME TiedInv, Limiter!TypeOK, [Held]_(Limiter!vars)
  PROVE  Lifted
<1>1. CASE Held
  <2>1. ASSUME NEW k \in Keys, NEW c \in Requests,
               call[c].op = "clear" /\ call[c].key = k /\ call[c].at = "del"
        PROVE  req[c].at = "clear" /\ KeyOf(c) = k /\ req[c].token \in spent
    BY <2>1 DEF TiedInv, Tied, Limiter!InFlight, Limiter!Commands
  <2>2. QED
    BY <1>1, <2>1 DEF Held, Lifted
<1>2. CASE UNCHANGED Limiter!vars
  <2>1. ASSUME NEW k \in Keys, redis[<<"lock", k>>].value # 0
        PROVE  redis[<<"lock", k>>].expiresAt \in Nat
    <3>1. <<"lock", k>> \in Limiter!RedisKeys
      BY DEF Limiter!RedisKeys
    <3>2. QED
      BY <2>1, <3>1 DEF Limiter!TypeOK, Limiter!Deadlines
  <2>2. redis' = redis
    BY <1>2 DEF Limiter!vars
  <2>3. QED
    BY <2>1, <2>2 DEF Lifted
<1>3. QED
  BY <1>1, <1>2

LEMMA LocksLifted ==
  Limiter!LockHolds /\ []TiedInv /\ []Limiter!TypeOK => LockLiftedBySuccess
<1>1. TiedInv /\ Limiter!TypeOK /\ [Held]_(Limiter!vars) => [Lifted]_vars
  BY HeldIsLifted
<1>2. Limiter!LockHolds => [][Held]_(Limiter!vars)
  BY DEF Limiter!LockHolds, Held
<1>3. Limiter!LockHolds /\ []TiedInv /\ []Limiter!TypeOK => [][Lifted]_vars
  BY <1>1, <1>2, PTL
<1>4. QED
  BY <1>3 DEF LockLiftedBySuccess, Lifted

\* A lockout ends early only when a request that presented a valid secret of an
\* account with that key has been written, whatever else fails or overlaps.
THEOREM OnlySuccessLiftsLock == Spec => LockLiftedBySuccess
  BY LocksLifted, TiedAlways, TypesAlways, LimiterLocks, RecoveryUsesLimiter, PTL

---------------------------------------------------------------------------
(* Counting. *)

\* The requests of key k that the gate of validations has let through.
Through(k) == {r \in Requests : KeyOf(r) = k /\ (Passed(r) \/ Judged(r))}

Draws(k) == Len(granted[<<"validate", k>>])

\* They do not outnumber the numbers drawn within the limit.
Counted(k) == IsFiniteSet(Through(k)) /\ Cardinality(Through(k)) <= Draws(k)

CountInv == \A k \in Keys : Counted(k)

LEMMA DrawsType ==
  ASSUME Limiter!TypeOK, NEW k \in Keys
  PROVE  Draws(k) \in Nat
<1>1. <<"validate", k>> \in Limiter!Gates \X Keys
  BY DEF Limiter!Gates
<1>2. QED
  BY <1>1 DEF Limiter!TypeOK, Draws

\* Nothing changes for a key when no request comes through its gate.
LEMMA CountKept ==
  ASSUME Limiter!TypeOK, Limiter!TypeOK', NEW k \in Keys, Counted(k),
         Through(k)' \subseteq Through(k), Draws(k) <= Draws(k)'
  PROVE  Counted(k)'
<1> DEFINE S == Through(k)
           T == Through(k)'
<1>0. Draws(k)' \in Nat
  <2>1. <<"validate", k>> \in Limiter!Gates \X Keys
    BY DEF Limiter!Gates
  <2>2. QED
    BY <2>1 DEF Limiter!TypeOK, Draws
<1>1. /\ Draws(k) \in Nat /\ Draws(k)' \in Nat /\ IsFiniteSet(S)
      /\ Cardinality(S) <= Draws(k) /\ T \in SUBSET S
  BY <1>0, DrawsType DEF Counted
<1> HIDE DEF S, T
<1>2. IsFiniteSet(T) /\ Cardinality(T) <= Cardinality(S)
  BY <1>1, FS_Subset
<1>3. Cardinality(S) \in Nat /\ Cardinality(T) \in Nat
  BY <1>1, <1>2, FS_CardinalityType
<1>4. IsFiniteSet(T) /\ Cardinality(T) <= Draws(k)'
  BY <1>1, <1>2, <1>3
<1>5. QED
  BY <1>4 DEF T, Counted

\* A request that comes through has drawn a number.
LEMMA CountDrawn ==
  ASSUME Limiter!TypeOK, Limiter!TypeOK', NEW k \in Keys, NEW r, Counted(k),
         Through(k)' \subseteq Through(k) \cup {r}, Draws(k)' = Draws(k) + 1
  PROVE  Counted(k)'
<1> DEFINE S == Through(k)
           T == Through(k)'
<1>0. Draws(k)' \in Nat
  <2>1. <<"validate", k>> \in Limiter!Gates \X Keys
    BY DEF Limiter!Gates
  <2>2. QED
    BY <2>1 DEF Limiter!TypeOK, Draws
<1>1. /\ Draws(k) \in Nat /\ Draws(k)' \in Nat /\ IsFiniteSet(S)
      /\ Cardinality(S) <= Draws(k) /\ T \in SUBSET (S \cup {r})
      /\ Draws(k)' = Draws(k) + 1
  BY <1>0, DrawsType DEF Counted
<1> HIDE DEF S, T
<1>2. Cardinality(S) \in Nat
  BY <1>1, FS_CardinalityType
<1>3. /\ IsFiniteSet(S \cup {r})
      /\ \/ Cardinality(S \cup {r}) = Cardinality(S)
         \/ Cardinality(S \cup {r}) = Cardinality(S) + 1
  BY <1>1, FS_AddElement
<1>4. IsFiniteSet(T) /\ Cardinality(T) <= Cardinality(S \cup {r})
  BY <1>1, <1>3, FS_Subset
<1>5. Cardinality(T) \in Nat
  BY <1>4, FS_CardinalityType
<1>6. IsFiniteSet(T) /\ Cardinality(T) <= Draws(k)'
  BY <1>1, <1>2, <1>3, <1>4, <1>5
<1>7. QED
  BY <1>6 DEF T, Counted

LEMMA ThroughOthers ==
  ASSUME NEW r \in Requests, NEW k \in Keys,
         \A q \in Requests \ {r} : req'[q] = req[q] /\ call'[q] = call[q]
  PROVE  /\ Through(k)' \subseteq Through(k) \cup {r}
         /\ (r \in Through(k)' => r \in Through(k)) => Through(k)' \subseteq Through(k)
<1>1. \A q \in Requests \ {r} : q \in Through(k)' => q \in Through(k)
  BY DEF Through, KeyOf, Passed, Judged
<1>2. Through(k)' \subseteq Requests
  BY DEF Through
<1>3. QED
  BY <1>1, <1>2

\* What a command does to the numbers drawn and to the place of its call.
LEMMA DrawIs ==
  ASSUME Limiter!TypeOK, NEW r \in Requests, Limiter!CallStep(r)
  PROVE  \/ granted' = granted
            /\ (call[r].op = "validate" /\ call'[r].at \in {"allowed", "expire"}
                  => call[r].at = "expire")
         \/ granted' = [granted EXCEPT ![<<call[r].op, call[r].key>>] = Append(@, now)]
<1>1. call \in [Requests -> [op : Limiter!Ops, key : Keys \cup {NoKey},
                             at : {"idle"} \cup Limiter!Commands \cup Limiter!Outcomes]]
  BY DEF Limiter!TypeOK
<1>2. ASSUME NEW at, Limiter!Goto(r, at)
      PROVE  call'[r].at = at
  BY <1>1, <1>2 DEF Limiter!Goto
<1>3. CASE Limiter!Incr(r)
  <2> DEFINE n == redis[Limiter!CounterOf(r)].value + 1
             after == Limiter!AfterCount(call[r].op, n)
  <2>1. /\ call[r].at = "incr"
        /\ Limiter!Goto(r, IF n = 1 THEN "expire" ELSE after)
        /\ granted' = IF after = "allowed"
                        THEN [granted EXCEPT ![<<call[r].op, call[r].key>>] = Append(@, now)]
                        ELSE granted
    BY <1>3 DEF Limiter!Incr
  <2>2. CASE after = "allowed"
    BY <2>1, <2>2
  <2>3. CASE after # "allowed"
    <3>1. granted' = granted
      BY <2>1, <2>3
    <3>2. ASSUME call[r].op = "validate" PROVE n # 1
      BY <2>3, <3>2, LimiterAssumption
      DEF Limiter!AfterCount, Limiter!Limit, Limiter!LimitsAssumption
    <3>3. call[r].op = "validate" => call'[r].at = after
      BY <1>2, <2>1, <3>2
    <3>4. call[r].op = "validate" => after = "throttled"
      BY <2>3 DEF Limiter!AfterCount
    <3>5. QED
      BY <3>1, <3>3, <3>4
  <2>4. QED
    BY <2>2, <2>3
<1>4. CASE Limiter!GetLock(r)
  <2>1. call'[r].at \in {"locked", "incr"} /\ granted' = granted
    BY <1>2, <1>4 DEF Limiter!GetLock
  <2>2. QED
    BY <2>1
<1>5. CASE Limiter!Expire(r)
  BY <1>5 DEF Limiter!Expire
<1>6. CASE Limiter!SetLock(r)
  <2>1. call'[r].at = "del" /\ granted' = granted
    BY <1>2, <1>6 DEF Limiter!SetLock
  <2>2. QED
    BY <2>1
<1>7. CASE Limiter!Del(r)
  <2>1. call'[r].at \in {"cleared", "locked"} /\ granted' = granted
    BY <1>2, <1>7 DEF Limiter!Del
  <2>2. QED
    BY <2>1
<1>8. CASE Limiter!Fail(r)
  <2>1. call'[r].at = "unavailable" /\ granted' = granted
    BY <1>2, <1>8 DEF Limiter!Fail
  <2>2. QED
    BY <2>1
<1>9. CASE Limiter!Resend(r)
  BY <1>9 DEF Limiter!Resend, Limiter!InFlight, Limiter!Commands
<1>10. QED
  BY <1>3, <1>4, <1>5, <1>6, <1>7, <1>8, <1>9 DEF Limiter!CallStep, Limiter!CommandStep

LEMMA CountStays ==
  ASSUME Shaped, Limiter!TypeOK, Limiter!TypeOK', TiedInv, CountInv, AnyStep,
         NEW k \in Keys
  PROVE  Counted(k)'
<1>1. Counted(k) /\ Draws(k) \in Nat
  BY DrawsType DEF CountInv
<1>2. granted' = granted => Draws(k) <= Draws(k)'
  BY <1>1 DEF Draws
<1>3. ASSUME NEW r \in Requests, Arrive(r)
      PROVE  Counted(k)'
  <2>1. r \notin Through(k)'
    BY <1>3, ArrivalIs DEF Through, Passed, Judged
  <2>2. Through(k)' \subseteq Through(k)
    BY <1>3, <2>1, ArrivalIs, ThroughOthers
  <2>3. QED
    BY <1>1, <1>2, <1>3, <2>2, ArrivalIs, CountKept
<1>4. ASSUME NEW r \in Requests, ServiceStep(r)
      PROVE  Counted(k)'
  <2>1. /\ SameRequest(r) /\ req'[r].at # "admit" /\ granted' = granted
        /\ \A q \in Requests \ {r} : call'[q] = call[q]
        /\ Judged(r)' => Judged(r) \/ Passed(r)
    BY <1>4, ServiceIs
  <2>2. r \in Through(k)' => r \in Through(k)
    BY <2>1 DEF Through, KeyOf, SameRequest, Passed
  <2>3. Through(k)' \subseteq Through(k)
    BY <2>1, <2>2, ThroughOthers DEF SameRequest
  <2>4. QED
    BY <1>1, <1>2, <2>1, <2>3, CountKept
<1>5. ASSUME NEW r \in Requests, Abort(r)
      PROVE  Counted(k)'
  <2>1. /\ SameRequest(r) /\ req'[r].at = "error" /\ granted' = granted
        /\ \A q \in Requests \ {r} : call'[q] = call[q]
    BY <1>5, AbortIs
  <2>2. r \notin Through(k)'
    BY <2>1 DEF Through, Passed, Judged
  <2>3. Through(k)' \subseteq Through(k)
    BY <2>1, <2>2, ThroughOthers DEF SameRequest
  <2>4. QED
    BY <1>1, <1>2, <2>1, <2>3, CountKept
<1>6. ASSUME NEW r \in Requests, LimiterStep(r)
      PROVE  Counted(k)'
  <2>1. /\ req' = req /\ Limiter!CallStep(r) /\ Limiter!InFlight(r)
        /\ \A q \in Requests \ {r} : call'[q] = call[q]
    BY <1>6, CallStepIs
  <2>2. KeyOf(r)' = KeyOf(r) /\ (Judged(r)' <=> Judged(r))
    BY <2>1 DEF KeyOf, Judged
  <2>3. ASSUME granted' = granted,
               call[r].op = "validate" /\ call'[r].at \in {"allowed", "expire"}
                 => call[r].at = "expire"
        PROVE  Counted(k)'
    <3>1. Passed(r)' => Passed(r)
      BY <2>1, <2>3 DEF Passed, TiedInv, Tied
    <3>2. r \in Through(k)' => r \in Through(k)
      BY <2>2, <3>1 DEF Through
    <3>3. Through(k)' \subseteq Through(k)
      BY <2>1, <3>2, ThroughOthers
    <3>4. QED
      BY <1>1, <1>2, <2>3, <3>3, CountKept
  <2>4. ASSUME granted' = [granted EXCEPT ![<<call[r].op, call[r].key>>] = Append(@, now)]
        PROVE  Counted(k)'
    <3>1. /\ <<"validate", k>> \in Limiter!Gates \X Keys
          /\ granted \in [Limiter!Gates \X Keys -> Seq(Nat)] /\ now \in Nat
      BY DEF Limiter!Gates, Limiter!TypeOK
    <3>2. CASE call[r].op = "validate" /\ call[r].key = k
      <4>1. granted'[<<"validate", k>>] = Append(granted[<<"validate", k>>], now)
        BY <2>4, <3>1, <3>2
      <4>2. Draws(k)' = Draws(k) + 1
        BY <3>1, <4>1 DEF Draws
      <4>3. QED
        BY <1>1, <2>1, <4>2, ThroughOthers, CountDrawn
    <3>3. CASE ~ (call[r].op = "validate" /\ call[r].key = k)
      <4>1. granted'[<<"validate", k>>] = granted[<<"validate", k>>]
        BY <2>4, <3>1, <3>3
      <4>2. Draws(k) <= Draws(k)'
        BY <1>1, <4>1 DEF Draws
      <4>3. Passed(r)' => KeyOf(r) # k
        BY <2>1, <3>3 DEF Passed, TiedInv, Tied
      <4>4. r \in Through(k)' => r \in Through(k)
        BY <2>2, <4>3 DEF Through
      <4>5. QED
        BY <1>1, <2>1, <4>2, <4>4, ThroughOthers, CountKept
    <3>4. QED
      BY <3>2, <3>3
  <2>5. QED
    BY <2>1, <2>3, <2>4, DrawIs
<1>7. CASE Tick \/ UNCHANGED <<limiterVars, req, spent>>
  <2>1. req' = req /\ call' = call /\ granted' = granted
    BY <1>7 DEF Tick, Limiter!Tick, limiterVars, recoveryVars
  <2>2. Through(k)' \subseteq Through(k)
    BY <2>1 DEF Through, KeyOf, Passed, Judged
  <2>3. QED
    BY <1>1, <1>2, <2>1, <2>2, CountKept
<1>8. QED
  BY <1>3, <1>4, <1>5, <1>6, <1>7 DEF AnyStep, Next

LEMMA InitCounted == Init => CountInv
<1> SUFFICES ASSUME Init, NEW k \in Keys PROVE Counted(k)
  BY DEF CountInv
<1>1. Through(k) = {}
  BY DEF Init, Through, Passed, Judged, NewRequest
<1>2. Draws(k) = 0
  <2>1. <<"validate", k>> \in Limiter!Gates \X Keys
    BY DEF Limiter!Gates
  <2>2. QED
    BY <2>1 DEF Init, Limiter!Init, Draws
<1>3. QED
  BY <1>1, <1>2, FS_EmptySet DEF Counted

LEMMA CountedJudged ==
  ASSUME CountInv, Limiter!TypeOK
  PROVE  JudgedAreCounted
<1> SUFFICES ASSUME NEW k \in Keys
             PROVE  Cardinality({r \in Requests :
                                   /\ req[r].email \in Accounts
                                   /\ KeyOf(r) = k
                                   /\ req[r].at \in {"miss", "burn", "register",
                                                     "clear", "unauthorized"}})
                      <= Len(granted[<<"validate", k>>])
  BY DEF JudgedAreCounted
<1> DEFINE S == Through(k)
           T == {r \in Requests : /\ req[r].email \in Accounts
                                  /\ KeyOf(r) = k
                                  /\ req[r].at \in {"miss", "burn", "register",
                                                    "clear", "unauthorized"}}
<1>1. T \in SUBSET S
  BY DEF Through, Judged
<1>2. IsFiniteSet(S) /\ Cardinality(S) <= Draws(k) /\ Draws(k) \in Nat
  BY DrawsType DEF CountInv, Counted
<1> HIDE DEF S, T
<1>3. IsFiniteSet(T) /\ Cardinality(T) <= Cardinality(S)
  BY <1>1, <1>2, FS_Subset
<1>4. Cardinality(T) \in Nat /\ Cardinality(S) \in Nat
  BY <1>2, <1>3, FS_CardinalityType
<1>5. Cardinality(T) <= Draws(k)
  BY <1>2, <1>3, <1>4
<1>6. QED
  BY <1>5 DEF T, Draws

\* No token is judged that did not go through the gate of its key: whatever
\* overlaps or fails, guesses cost numbers of the validate counter.
THEOREM JudgedCounted == Spec => []JudgedAreCounted
<1>1. (Shaped /\ Limiter!TypeOK) /\ (Shaped /\ Limiter!TypeOK)' /\ TiedInv
        /\ CountInv /\ [Next]_vars => CountInv'
  BY CountStays, NextIsAny DEF CountInv
<1>2. CountInv /\ Limiter!TypeOK => JudgedAreCounted
  BY CountedJudged
<1>3. QED
  BY <1>1, <1>2, InitCounted, TypesAlways, TiedAlways, PTL DEF Spec

---------------------------------------------------------------------------
(* Nobody waits for what never comes. *)

\* Where a call of an operation can be: the commands it sends, then how it ends.
Course(op) ==
  CASE op = "generate" -> {"incr", "expire", "allowed", "throttled", "unavailable"}
    [] op = "validate" -> {"get", "incr", "expire",
                           "allowed", "throttled", "locked", "unavailable"}
    [] op = "failure" -> {"incr", "expire", "set", "del",
                          "counted", "locked", "unavailable"}
    [] OTHER -> {"del", "cleared", "unavailable"}

\* The operations whose answer a request awaits at a place.
Awaited(at) ==
  CASE at = "admit" -> {"generate", "validate"}
    [] at = "register" -> {"failure"}
    [] at = "clear" -> {"clear"}
    [] OTHER -> {}

\* A request that waits for the limiter is making the call it waits for, a
\* command is in flight only for such a request, and only a request with a
\* token gets to the point where its secret is consumed.
Waits(r) ==
  /\ Awaited(req[r].at) # {}
       => call[r].op \in Awaited(req[r].at) /\ call[r].at \in Course(call[r].op)
  /\ Limiter!InFlight(r) => Awaited(req[r].at) # {}
  /\ req[r].at = "burn" => req[r].kind # "generate"

WaitInv == \A r \in Requests : Waits(r)

LEMMA CourseStays ==
  ASSUME Limiter!TypeOK, NEW r \in Requests, Limiter!CallStep(r),
         call[r].at \in Course(call[r].op)
  PROVE  call'[r].at \in Course(call[r].op)
<1>1. call \in [Requests -> [op : Limiter!Ops, key : Keys \cup {NoKey},
                             at : {"idle"} \cup Limiter!Commands \cup Limiter!Outcomes]]
  BY DEF Limiter!TypeOK
<1>2. ASSUME NEW at, Limiter!Goto(r, at)
      PROVE  call'[r].at = at
  BY <1>1, <1>2 DEF Limiter!Goto
<1>3. call[r].op \in {"generate", "validate", "failure", "clear"}
  BY <1>1 DEF Limiter!Ops, Limiter!Gates
<1>4. CASE Limiter!GetLock(r)
  <2>1. call[r].at = "get" /\ call'[r].at \in {"locked", "incr"}
    BY <1>2, <1>4 DEF Limiter!GetLock
  <2>2. QED
    BY <1>3, <2>1 DEF Course
<1>5. ASSUME NEW n, call[r].at \in {"incr", "expire"}
      PROVE  Limiter!AfterCount(call[r].op, n) \in Course(call[r].op)
  BY <1>3, <1>5 DEF Course, Limiter!AfterCount
<1>6. CASE Limiter!Incr(r)
  <2> DEFINE n == redis[Limiter!CounterOf(r)].value + 1
             next == IF n = 1 THEN "expire" ELSE Limiter!AfterCount(call[r].op, n)
  <2>1. call[r].at = "incr" /\ Limiter!Goto(r, next)
    BY <1>6 DEF Limiter!Incr
  <2>2. call'[r].at = next
    BY <1>2, <2>1
  <2>3. "expire" \in Course(call[r].op)
    BY <1>3, <2>1 DEF Course
  <2>4. QED
    BY <1>5, <2>1, <2>2, <2>3
<1>7. CASE Limiter!Expire(r)
  BY <1>2, <1>5, <1>7 DEF Limiter!Expire
<1>8. CASE Limiter!SetLock(r)
  <2>1. call[r].at = "set" /\ call'[r].at = "del"
    BY <1>2, <1>8 DEF Limiter!SetLock
  <2>2. QED
    BY <1>3, <2>1 DEF Course
<1>9. CASE Limiter!Del(r)
  <2>1. /\ call[r].at = "del"
        /\ call'[r].at = IF call[r].op = "clear" THEN "cleared" ELSE "locked"
    BY <1>2, <1>9 DEF Limiter!Del
  <2>2. QED
    BY <1>3, <2>1 DEF Course
<1>10. CASE Limiter!Fail(r)
  <2>1. call'[r].at = "unavailable"
    BY <1>2, <1>10 DEF Limiter!Fail
  <2>2. QED
    BY <1>3, <2>1 DEF Course
<1>11. CASE Limiter!Resend(r)
  BY <1>11 DEF Limiter!Resend
<1>12. QED
  BY <1>4, <1>6, <1>7, <1>8, <1>9, <1>10, <1>11 DEF Limiter!CallStep, Limiter!CommandStep

\* An operation that begins is on its course.
LEMMA CourseBegins ==
  ASSUME Limiter!TypeOK, NEW r \in Requests,
         NEW op \in {"generate", "validate", "failure", "clear"}, NEW k,
         Limiter!Begin(r, op, k)
  PROVE  /\ call'[r].op = op /\ call'[r].at \in Course(op)
         /\ \A q \in Requests \ {r} : call'[q] = call[q]
<1>1. /\ call'[r] = [op |-> op, key |-> k, at |-> Limiter!FirstCommand(op)]
      /\ \A q \in Requests \ {r} : call'[q] = call[q]
  BY CallIs
<1>2. QED
  BY <1>1 DEF Limiter!FirstCommand, Course

LEMMA ServiceWaits ==
  ASSUME Shaped, Limiter!TypeOK, NEW r \in Requests, Waits(r), ServiceStep(r)
  PROVE  Waits(r)'
<1>1. PICK U : req \in [Requests -> RequestWith(U)]
  BY DEF Shaped
<1>2. ASSUME call' = call, ~ Limiter!InFlight(r), req'[r].at \notin {"admit", "register", "clear", "burn"}
      PROVE  Waits(r)'
  BY <1>2 DEF Waits, Awaited, Limiter!InFlight
<1>3. ASSUME NEW at \in Answers, Answer(r, at), call' = call, ~ Limiter!InFlight(r)
      PROVE  Waits(r)'
  BY <1>2, <1>3, AnswerIs DEF Answers
<1>4. ASSUME NEW op \in {"failure", "clear"}, Limiter!Begin(r, op, KeyOf(r)),
             req'[r].at = IF op = "failure" THEN "register" ELSE "clear"
      PROVE  Waits(r)'
  BY <1>4, CourseBegins DEF Waits, Awaited
<1>5. CASE Refused(r)
  BY <1>3, <1>5 DEF Refused, Answers, limiterVars, Limiter!InFlight, Limiter!Commands
<1>6. CASE GenerateUnknown(r)
  BY <1>3, <1>6
  DEF GenerateUnknown, Admitted, Answers, limiterVars, Limiter!InFlight, Limiter!Commands
<1>7. CASE DrawCode(r)
  <2>1. req'[r].at = "store"
    BY <1>1, <1>7 DEF DrawCode, RequestWith
  <2>2. QED
    BY <1>2, <1>7, <2>1
    DEF DrawCode, Admitted, limiterVars, Limiter!InFlight, Limiter!Commands
<1>8. CASE StoreCode(r)
  <2>1. req[r].at = "store" /\ req'[r].at = "mail" /\ call' = call
    BY <1>8, GotoIs DEF StoreCode, limiterVars
  <2>2. QED
    BY <1>2, <2>1 DEF Waits, Awaited
<1>9. CASE Mail(r)
  <2>1. req[r].at = "mail" /\ call' = call /\ (Answer(r, "ok") \/ Answer(r, "mailFailed"))
    BY <1>9 DEF Mail, limiterVars
  <2>2. ~ Limiter!InFlight(r)
    BY <2>1 DEF Waits, Awaited
  <2>3. QED
    BY <1>3, <2>1, <2>2 DEF Answers
<1>10. CASE TokenForUnknown(r)
  <2>1. req'[r].at = "register" /\ Limiter!Begin(r, "failure", KeyOf(r))
    BY <1>10, GotoIs DEF TokenForUnknown
  <2>2. QED
    BY <1>4, <2>1
<1>11. CASE Judge(r)
  <2>1. /\ ~ Limiter!InFlight(r) /\ call' = call /\ req[r].kind # "generate"
        /\ Answer(r, "lockout") \/ Goto(r, "burn") \/ Goto(r, "miss")
    BY <1>11 DEF Judge, Admitted, limiterVars, Limiter!InFlight, Limiter!Commands
  <2>2. CASE Answer(r, "lockout")
    BY <1>3, <2>1, <2>2 DEF Answers
  <2>3. CASE Goto(r, "burn")
    <3>1. req'[r].at = "burn" /\ req'[r].kind # "generate"
      BY <2>1, <2>3, GotoIs DEF SameRequest
    <3>2. QED
      BY <2>1, <3>1 DEF Waits, Awaited, Limiter!InFlight
  <2>4. CASE Goto(r, "miss")
    BY <1>2, <2>1, <2>4, GotoIs
  <2>5. QED
    BY <2>1, <2>2, <2>3, <2>4
<1>12. CASE Miss(r)
  <2>1. req'[r].at = "register" /\ Limiter!Begin(r, "failure", KeyOf(r))
    BY <1>12, GotoIs DEF Miss
  <2>2. QED
    BY <1>4, <2>1
<1>13. CASE BurnCode(r)
  <2>1. req'[r].at = "clear" /\ Limiter!Begin(r, "clear", KeyOf(r))
    BY <1>1, <1>13 DEF BurnCode, RequestWith
  <2>2. QED
    BY <1>4, <2>1
<1>14. CASE ChangePassword(r)
  <2>1. req'[r].at = "clear" /\ Limiter!Begin(r, "clear", KeyOf(r))
    BY <1>14, GotoIs DEF ChangePassword
  <2>2. QED
    BY <1>4, <2>1
<1>15. CASE FailureRegistered(r)
  BY <1>3, <1>15
  DEF FailureRegistered, Answers, limiterVars, Limiter!InFlight, Limiter!Commands
<1>16. CASE FailuresCleared(r)
  BY <1>3, <1>16
  DEF FailuresCleared, Answers, limiterVars, Limiter!InFlight, Limiter!Commands
<1>17. QED
  BY <1>5, <1>6, <1>7, <1>8, <1>9, <1>10, <1>11, <1>12, <1>13, <1>14, <1>15, <1>16
  DEF ServiceStep

LEMMA WaitStays ==
  ASSUME Shaped, Limiter!TypeOK, WaitInv, AnyStep
  PROVE  WaitInv'
<1>1. ASSUME NEW q \in Requests, call'[q] = call[q], req'[q] = req[q]
      PROVE  Waits(q)'
  BY <1>1 DEF WaitInv, Waits, Limiter!InFlight
<1>2. ASSUME NEW r \in Requests, Waits(r)',
             \A q \in Requests \ {r} : req'[q] = req[q] /\ call'[q] = call[q]
      PROVE  WaitInv'
  BY <1>1, <1>2 DEF WaitInv
<1>3. ASSUME NEW r \in Requests, Arrive(r)
      PROVE  WaitInv'
  <2>1. PICK kind \in Kinds, email \in Emails, token \in delivered \cup {Wrong} :
          Start(r, kind, email, token)
    BY <1>3 DEF Arrive
  <2>2. PICK op \in {"generate", "validate"} : Limiter!Begin(r, op, ThrottleKey[email])
    BY <2>1 DEF Start
  <2>3. call'[r].op = op /\ call'[r].at \in Course(op)
    BY <2>2, CourseBegins
  <2>4. req'[r].at = "admit"
    BY <1>3, ArrivalIs
  <2>5. Waits(r)'
    BY <2>3, <2>4 DEF Waits, Awaited
  <2>6. QED
    BY <1>2, <1>3, <2>5, ArrivalIs
<1>4. ASSUME NEW r \in Requests, ServiceStep(r)
      PROVE  WaitInv'
  <2>1. Waits(r)'
    BY <1>4, ServiceWaits DEF WaitInv
  <2>2. QED
    BY <1>2, <1>4, <2>1, ServiceIs DEF SameRequest
<1>5. ASSUME NEW r \in Requests, Abort(r)
      PROVE  WaitInv'
  <2>1. Waits(r)'
    BY <1>5, AbortIs DEF Waits, Awaited
  <2>2. QED
    BY <1>2, <1>5, <2>1, AbortIs DEF SameRequest
<1>6. ASSUME NEW r \in Requests, LimiterStep(r)
      PROVE  WaitInv'
  <2>1. /\ req' = req /\ Limiter!CallStep(r) /\ Limiter!InFlight(r)
        /\ call'[r].op = call[r].op /\ \A q \in Requests \ {r} : call'[q] = call[q]
    BY <1>6, CallStepIs
  <2>2. Awaited(req[r].at) # {} /\ Waits(r)
    BY <2>1 DEF WaitInv, Waits
  <2>3. call'[r].at \in Course(call[r].op)
    BY <2>1, <2>2, CourseStays DEF Waits
  <2>4. Waits(r)'
    BY <2>1, <2>2, <2>3 DEF Waits
  <2>5. QED
    BY <1>2, <2>1, <2>4
<1>7. CASE Tick \/ UNCHANGED <<limiterVars, req, spent>>
  <2>1. req' = req /\ call' = call
    BY <1>7 DEF Tick, Limiter!Tick, limiterVars, recoveryVars
  <2>2. QED
    BY <1>1, <2>1 DEF WaitInv
<1>8. QED
  BY <1>3, <1>4, <1>5, <1>6, <1>7 DEF AnyStep, Next

LEMMA InitWaits == Init => WaitInv
  BY DEF Init, Limiter!Init, WaitInv, Waits, Awaited, NewRequest, Limiter!InFlight,
         Limiter!Commands

\* What a request can do next: go on with the answer it waited for, or see its
\* command of the limiter run.
Proceeds(r) ==
  \/ Limiter!InFlight(r)
  \/ /\ req[r].at = "admit"
     /\ call[r].at \in {"allowed", "throttled", "locked", "unavailable"}
  \/ req[r].at \in {"store", "mail", "miss"}
  \/ req[r].at = "burn" /\ req[r].kind \in {"validate", "change"}
  \/ req[r].at = "register" /\ call[r].at \in {"counted", "locked", "unavailable"}
  \/ req[r].at = "clear" /\ call[r].at \in {"cleared", "unavailable"}

Served(r) ==
  /\ req[r].at \in Pending => Proceeds(r)
  /\ Limiter!InFlight(r) => req[r].at \in Pending

LEMMA WaitsServed ==
  ASSUME Shaped, WaitInv, NEW r \in Requests
  PROVE  Served(r)
<1>1. Waits(r) /\ req[r].kind \in Kinds
  BY DEF WaitInv, Shaped, RequestWith
<1>2. Limiter!InFlight(r) => req[r].at \in Pending
  BY <1>1 DEF Waits, Awaited, Pending
<1>3. CASE req[r].at = "admit"
  BY <1>1, <1>2, <1>3
  DEF Waits, Awaited, Course, Proceeds, Limiter!InFlight, Limiter!Commands, Served
<1>4. CASE req[r].at = "register"
  BY <1>1, <1>2, <1>4
  DEF Waits, Awaited, Course, Proceeds, Limiter!InFlight, Limiter!Commands, Served
<1>5. CASE req[r].at = "clear"
  BY <1>1, <1>2, <1>5
  DEF Waits, Awaited, Course, Proceeds, Limiter!InFlight, Limiter!Commands, Served
<1>6. CASE req[r].at = "burn"
  BY <1>1, <1>2, <1>6 DEF Waits, Proceeds, Kinds, Served
<1>7. QED
  BY <1>2, <1>3, <1>4, <1>5, <1>6 DEF Pending, Proceeds, Served

\* No answer of the limiter falls between the cases a request handles: at every
\* await the request is either served or has a step of its own, and no command
\* outlives the request that sent it (what RequestsAnswered needs fairness on
\* top of).
THEOREM NobodyStrands == Spec => [](\A r \in Requests : Served(r))
<1>1. Shaped /\ WaitInv => \A r \in Requests : Served(r)
  BY WaitsServed
<1>2. (Shaped /\ Limiter!TypeOK) /\ WaitInv /\ [Next]_vars => WaitInv'
  BY WaitStays, NextIsAny
<1>3. QED
  BY <1>1, <1>2, InitWaits, TypesAlways, PTL DEF Spec

=============================================================================
