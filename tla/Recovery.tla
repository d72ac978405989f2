----------------------------- MODULE Recovery -----------------------------
(***************************************************************************)
(* Password recovery, src/recovery/services: generate-code, validate-code  *)
(* and change-password as concurrent requests over the user documents and  *)
(* the rate limiter (module OtpRateLimit).                                 *)
(*                                                                         *)
(* A request reads the user document once, awaits the limiter, decides on  *)
(* that snapshot, writes by id without comparing, awaits the limiter again *)
(* and answers.  Every await is a point where other requests, the clock    *)
(* and Redis faults interleave.                                            *)
(*                                                                         *)
(* Secrets are fresh: the six-digit code of a generate request and the     *)
(* reset token of a validate request are named by the request that drew    *)
(* them, and a new password by the request that set it.  A hash is the     *)
(* secret it verifies (bcrypt accepts nothing else), and passwordToken,    *)
(* "verified|<hash>|<expiry>", is the pair proof, proofExpiresAt.          *)
(***************************************************************************)
EXTENDS Naturals, Sequences, FiniteSets

CONSTANTS
  Requests,
  Accounts,     \* e-mail addresses with a user document
  Strangers,    \* e-mail addresses without
  Keys,
  ThrottleKey,  \* resolveThrottleKey: document digits, else the address
  CodeTtl,      \* CODE_TTL_MS
  MaxAttempts,  \* MAX_OTP_ATTEMPTS
  BlockFor,     \* LOCKOUT_MS
  Wrong,        \* a token nobody was given
  NoSecret, NoEmail, Original,
  MaxGenerate, MaxValidate, MaxFailures, Window, Lockout, FailureTtl,
  Never, NoKey, MaxFaults, MaxTime

Emails == Accounts \cup Strangers

ASSUME RecoveryAssumption ==
  /\ ThrottleKey \in [Emails -> Keys]
  /\ Accounts \cap Strangers = {}
  /\ NoEmail \notin Emails
  /\ CodeTtl \in Nat \ {0}
  /\ MaxAttempts \in Nat \ {0}
  /\ BlockFor \in Nat \ {0}
  /\ Wrong \notin Requests
  /\ NoSecret \notin Requests
  /\ NoSecret # Wrong
  /\ Original \notin Requests

VARIABLES
  now, redis, call, granted, faults,   \* those of the limiter
  users,      \* the recovery fields of each user document
  req,        \* the requests
  delivered,  \* secrets their owner has received
  spent       \* history: secrets that an accepted request has consumed

limiterVars == <<now, redis, call, granted, faults>>
recoveryVars == <<users, req, delivered, spent>>
vars == <<limiterVars, recoveryVars>>

Limiter == INSTANCE OtpRateLimit WITH Calls <- Requests

ASSUME LimiterAssumption == Limiter!LimitsAssumption /\ Limiter!TimesAssumption

---------------------------------------------------------------------------

Kinds == {"generate", "validate", "change"}

\* Where a request is: not started, awaiting the admission gate, a write, the
\* mail service, the failure counter or the clearing of it, or answered.
Pending == {"admit", "store", "mail", "miss", "burn", "register", "clear"}
Answers == {"ok", "notFound", "unauthorized", "lockout", "unavailable",
            "mailFailed", "error"}

NewUser ==
  [password |-> Original, proof |-> NoSecret, proofExpiresAt |-> Never,
   hash |-> NoSecret, expiresAt |-> Never,
   attempts |-> 0, blockedUntil |-> Never]

\* born is a history field: when the code was drawn from which the request's
\* secret stems.
NewRequest ==
  [kind |-> "generate", email |-> NoEmail, token |-> Wrong, at |-> "idle",
   snap |-> NewUser, expiresAt |-> Never, born |-> 0]

KeyOf(r) == ThrottleKey[req[r].email]

---------------------------------------------------------------------------
(* Decisions on a snapshot. *)

Blocked(user) == user.blockedUntil # Never /\ user.blockedUntil > now

InTime(expiresAt) == expiresAt # Never /\ now < expiresAt

\* verifyOtp: a missing hash verifies nothing.
Verifies(token, hash) == hash # NoSecret /\ token = hash

\* The code of validate-code.
CodeValid(user, token) ==
  InTime(user.expiresAt) /\ Verifies(token, user.hash)

\* Mutant of ChangeAllowed: the expiry inside the proof is not looked at.
ChangeAllowedForever(user, token) ==
  IF user.proof # NoSecret THEN Verifies(token, user.proof)
  ELSE CodeValid(user, token)

\* isChangeAllowed: a reset proof, once there is one, replaces the code.
ChangeAllowed(user, token) ==
  IF user.proof # NoSecret
    THEN InTime(user.proofExpiresAt) /\ Verifies(token, user.proof)
    ELSE CodeValid(user, token)

Valid(r) ==
  IF req[r].kind = "change" THEN ChangeAllowed(req[r].snap, req[r].token)
  ELSE CodeValid(req[r].snap, req[r].token)

---------------------------------------------------------------------------
(* The steps of a request. *)

Goto(r, at) == req' = [req EXCEPT ![r].at = at]

\* The last step: the answer; the snapshot is gone.
Answer(r, at) == req' = [req EXCEPT ![r].at = at, ![r].snap = NewUser]

\* Mutant of Start: change-password passes the generate gate.
StartWrongGate(r, kind, email, token) ==
  /\ req[r].at = "idle"
  /\ req' = [req EXCEPT ![r] =
       [NewRequest EXCEPT !.kind = kind, !.email = email, !.token = token,
          !.at = "admit",
          !.snap = IF email \in Accounts THEN users[email] ELSE NewUser]]
  /\ Limiter!Begin(r, IF kind = "validate" THEN "validate" ELSE "generate",
                   ThrottleKey[email])
  /\ UNCHANGED <<users, delivered, spent>>

\* findByEmail, then the first command of the limiter's gate.
Start(r, kind, email, token) ==
  /\ req[r].at = "idle"
  /\ req' = [req EXCEPT ![r] =
       [NewRequest EXCEPT !.kind = kind, !.email = email, !.token = token,
          !.at = "admit",
          !.snap = IF email \in Accounts THEN users[email] ELSE NewUser]]
  /\ Limiter!Begin(r, IF kind = "generate" THEN "generate" ELSE "validate",
                   ThrottleKey[email])
  /\ UNCHANGED <<users, delivered, spent>>

\* The gate throws: 429, or 503 when Redis failed.
Refused(r) ==
  /\ req[r].at = "admit"
  /\ call[r].at \in {"throttled", "locked", "unavailable"}
  /\ Answer(r, IF call[r].at = "unavailable" THEN "unavailable"
               ELSE "lockout")
  /\ UNCHANGED <<limiterVars, users, delivered, spent>>

Admitted(r) == req[r].at = "admit" /\ call[r].at = "allowed"

GenerateUnknown(r) ==
  /\ Admitted(r)
  /\ req[r].kind = "generate"
  /\ req[r].email \notin Accounts
  /\ Answer(r, "notFound")
  /\ UNCHANGED <<limiterVars, users, delivered, spent>>

\* A code is drawn, hashed and given its expiry; the update is on its way.
DrawCode(r) ==
  /\ Admitted(r)
  /\ req[r].kind = "generate"
  /\ req[r].email \in Accounts
  /\ req' = [req EXCEPT ![r].at = "store", ![r].snap = NewUser,
                        ![r].expiresAt = now + CodeTtl, ![r].born = now]
  /\ UNCHANGED <<limiterVars, users, delivered, spent>>

\* Mutants of StoreCode: the document is looked up by its throttle key; the
\* reset proof of an earlier code stays.
StoreCodeByKey(r) ==
  /\ req[r].at = "store"
  /\ users' = [u \in Accounts |->
       IF ThrottleKey[u] # KeyOf(r) THEN users[u]
       ELSE [users[u] EXCEPT !.proof = NoSecret, !.proofExpiresAt = Never,
                             !.hash = r, !.expiresAt = req[r].expiresAt,
                             !.attempts = 0, !.blockedUntil = Never]]
  /\ Goto(r, "mail")
  /\ UNCHANGED <<limiterVars, delivered, spent>>
StoreCodeKeepsProof(r) ==
  /\ req[r].at = "store"
  /\ users' = [users EXCEPT ![req[r].email] =
       [@ EXCEPT !.hash = r, !.expiresAt = req[r].expiresAt,
                 !.attempts = 0, !.blockedUntil = Never]]
  /\ Goto(r, "mail")
  /\ UNCHANGED <<limiterVars, delivered, spent>>

StoreCode(r) ==
  /\ req[r].at = "store"
  /\ users' = [users EXCEPT ![req[r].email] =
       [@ EXCEPT !.proof = NoSecret, !.proofExpiresAt = Never,
                 !.hash = r, !.expiresAt = req[r].expiresAt,
                 !.attempts = 0, !.blockedUntil = Never]]
  /\ Goto(r, "mail")
  /\ UNCHANGED <<limiterVars, delivered, spent>>

\* The mail service takes the code; when it answers with an error or not at
\* all the mail may still have gone out.
Mail(r) ==
  /\ req[r].at = "mail"
  /\ \/ Answer(r, "ok") /\ delivered' = delivered \cup {r}
     \/ Answer(r, "mailFailed")
        /\ delivered' \in {delivered, delivered \cup {r}}
  /\ UNCHANGED <<limiterVars, users, spent>>

\* An unknown address counts as a failed validation.
TokenForUnknown(r) ==
  /\ Admitted(r)
  /\ req[r].kind # "generate"
  /\ req[r].email \notin Accounts
  /\ Goto(r, "register")
  /\ Limiter!Begin(r, "failure", KeyOf(r))
  /\ UNCHANGED <<users, delivered, spent>>

\* The block, the expiry and the token are judged on the snapshot; the token
\* is compared before the next await ends.
Judge(r) ==
  /\ Admitted(r)
  /\ req[r].kind # "generate"
  /\ req[r].email \in Accounts
  /\ IF Blocked(req[r].snap) THEN Answer(r, "lockout")
     ELSE Goto(r, IF Valid(r) THEN "burn" ELSE "miss")
  /\ UNCHANGED <<limiterVars, users, delivered, spent>>

\* The attempt is counted from the snapshot, not by an increment.
Miss(r) ==
  LET user == users[req[r].email]
      attempts == req[r].snap.attempts + 1
  IN /\ req[r].at = "miss"
     /\ users' = [users EXCEPT ![req[r].email] =
          [user EXCEPT !.attempts = attempts,
                       !.blockedUntil = IF attempts >= MaxAttempts
                                          THEN now + BlockFor
                                          ELSE user.blockedUntil]]
     /\ Goto(r, "register")
     /\ Limiter!Begin(r, "failure", KeyOf(r))
     /\ UNCHANGED <<delivered, spent>>

\* Mutants of BurnCode: the code stays; the proof gets a lifetime of its own.
BurnCodeKeepsHash(r) ==
  /\ req[r].at = "burn"
  /\ req[r].kind = "validate"
  /\ users' = [users EXCEPT ![req[r].email] =
       [@ EXCEPT !.proof = r, !.proofExpiresAt = req[r].snap.expiresAt,
                 !.attempts = 0, !.blockedUntil = Never]]
  /\ req' = [req EXCEPT ![r].at = "clear", ![r].born = req[req[r].token].born]
  /\ spent' = spent \cup {req[r].token}
  /\ Limiter!Begin(r, "clear", KeyOf(r))
  /\ UNCHANGED delivered
BurnCodeRenews(r) ==
  /\ req[r].at = "burn"
  /\ req[r].kind = "validate"
  /\ users' = [users EXCEPT ![req[r].email] =
       [@ EXCEPT !.proof = r, !.proofExpiresAt = now + CodeTtl,
                 !.hash = NoSecret, !.expiresAt = now + CodeTtl,
                 !.attempts = 0, !.blockedUntil = Never]]
  /\ req' = [req EXCEPT ![r].at = "clear", ![r].born = req[req[r].token].born]
  /\ spent' = spent \cup {req[r].token}
  /\ Limiter!Begin(r, "clear", KeyOf(r))
  /\ UNCHANGED delivered

\* validate-code exchanges the code for a reset proof that expires with it.
BurnCode(r) ==
  /\ req[r].at = "burn"
  /\ req[r].kind = "validate"
  /\ users' = [users EXCEPT ![req[r].email] =
       [@ EXCEPT !.proof = r, !.proofExpiresAt = req[r].snap.expiresAt,
                 !.hash = NoSecret, !.expiresAt = req[r].snap.expiresAt,
                 !.attempts = 0, !.blockedUntil = Never]]
  /\ req' = [req EXCEPT ![r].at = "clear", ![r].born = req[req[r].token].born]
  /\ spent' = spent \cup {req[r].token}
  /\ Limiter!Begin(r, "clear", KeyOf(r))
  /\ UNCHANGED delivered

\* change-password sets the password and removes code and proof.
ChangePassword(r) ==
  /\ req[r].at = "burn"
  /\ req[r].kind = "change"
  /\ users' = [users EXCEPT ![req[r].email] = [NewUser EXCEPT !.password = r]]
  /\ Goto(r, "clear")
  /\ spent' = spent \cup {req[r].token}
  /\ Limiter!Begin(r, "clear", KeyOf(r))
  /\ UNCHANGED delivered

\* Mutants of FailureRegistered and FailuresCleared: the limiter's outcome is
\* answered as it is; the 503 of the limiter is not handled.
FailureRegisteredRaw(r) ==
  /\ req[r].at = "register"
  /\ call[r].at \in {"counted", "locked", "unavailable"}
  /\ Answer(r, call[r].at)
  /\ UNCHANGED <<limiterVars, users, delivered, spent>>
FailuresClearedOnly(r) ==
  /\ req[r].at = "clear"
  /\ call[r].at = "cleared"
  /\ Answer(r, "ok")
  /\ delivered' =
       IF req[r].kind = "validate" THEN delivered \cup {r} ELSE delivered
  /\ UNCHANGED <<limiterVars, users, spent>>

\* The failure is registered: 401, 429 when it was one too many, or 503.
FailureRegistered(r) ==
  /\ req[r].at = "register"
  /\ call[r].at \in {"counted", "locked", "unavailable"}
  /\ Answer(r, CASE call[r].at = "counted" -> "unauthorized"
                 [] call[r].at = "locked" -> "lockout"
                 [] OTHER -> "unavailable")
  /\ UNCHANGED <<limiterVars, users, delivered, spent>>

\* The failures are cleared and the request succeeds, validate-code with the
\* reset token; when Redis fails the answer is 503 although all is written.
FailuresCleared(r) ==
  /\ req[r].at = "clear"
  /\ call[r].at \in {"cleared", "unavailable"}
  /\ Answer(r, IF call[r].at = "cleared" THEN "ok" ELSE "unavailable")
  /\ delivered' =
       IF call[r].at = "cleared" /\ req[r].kind = "validate"
         THEN delivered \cup {r} ELSE delivered
  /\ UNCHANGED <<limiterVars, users, spent>>

\* MongoDB rejects the update or the process restarts: the request ends and
\* what it has not written is never written.  A command in flight has run or
\* has not.
Abort(r) ==
  /\ req[r].at \in Pending
  /\ faults < MaxFaults
  /\ Answer(r, "error")
  /\ IF Limiter!InFlight(r) THEN Limiter!Fail(r) ELSE UNCHANGED limiterVars
  /\ UNCHANGED <<users, delivered, spent>>

LimiterStep(r) == Limiter!CallStep(r) /\ UNCHANGED recoveryVars

Tick == Limiter!Tick /\ UNCHANGED recoveryVars

---------------------------------------------------------------------------

Init ==
  /\ Limiter!Init
  /\ users = [u \in Accounts |-> NewUser]
  /\ req = [r \in Requests |-> NewRequest]
  /\ delivered = {}
  /\ spent = {}

\* Someone sends a request: with a secret that was delivered or a wrong one.
Arrive(r) ==
  \E kind \in Kinds, email \in Emails :
    \E token \in IF kind = "generate" THEN {Wrong}
                 ELSE delivered \cup {Wrong} :
      Start(r, kind, email, token)

ServiceStep(r) ==
  \/ Refused(r) \/ GenerateUnknown(r) \/ DrawCode(r) \/ StoreCode(r)
  \/ Mail(r) \/ TokenForUnknown(r) \/ Judge(r) \/ Miss(r) \/ BurnCode(r)
  \/ ChangePassword(r) \/ FailureRegistered(r) \/ FailuresCleared(r)

Next ==
  \/ Tick
  \/ \E r \in Requests : Arrive(r) \/ ServiceStep(r) \/ Abort(r) \/ LimiterStep(r)

Spec == Init /\ [][Next]_vars

\* Continuations run, and MongoDB, Redis and the mail service answer or fail.
FairSpec ==
  Spec /\ \A r \in Requests :
            WF_vars(ServiceStep(r) \/ (Limiter!CommandStep(r)
                                       /\ UNCHANGED recoveryVars))

---------------------------------------------------------------------------
(* Properties. *)

Times == Nat \cup {Never}
Secrets == Requests \cup {NoSecret}

UserRecord ==
  [password : Requests \cup {Original}, proof : Secrets,
   proofExpiresAt : Times, hash : Secrets, expiresAt : Times,
   attempts : Nat, blockedUntil : Times]

RequestRecord ==
  [kind : Kinds, email : Emails \cup {NoEmail},
   token : Requests \cup {Wrong}, at : {"idle"} \cup Pending \cup Answers,
   snap : UserRecord, expiresAt : Times, born : Nat]

\* The variables have their types, and a request that has started has an
\* address.  Those of the limiter have the types it gives them (TypeOK there).
TypeOK ==
  /\ now \in Nat
  /\ users \in [Accounts -> UserRecord]
  /\ req \in [Requests -> RequestRecord]
  /\ \A r \in Requests : req[r].at # "idle" => req[r].email \in Emails
  /\ delivered \subseteq Requests
  /\ spent \subseteq Requests

\* A document holds a code or a reset proof, never both: the change-password
\* service looks at the proof first, so a proof left behind would shadow a
\* fresh code.
OneSecretAtATime ==
  \A u \in Accounts : users[u].hash = NoSecret \/ users[u].proof = NoSecret

\* A secret that was consumed is in no document any more, so no request that
\* reads after the burn is accepted with it, whatever requests overlapped.
SpentIsGone ==
  \A u \in Accounts : users[u].hash \notin spent /\ users[u].proof \notin spent

\* What a document holds expires CodeTtl after its code was drawn, the reset
\* proof included: exchanging a code buys no time.
SecretsExpireWithTheirCode ==
  \A u \in Accounts :
    /\ users[u].hash # NoSecret
         => users[u].expiresAt = req[users[u].hash].born + CodeTtl
    /\ users[u].proof # NoSecret
         => users[u].proofExpiresAt = req[users[u].proof].born + CodeTtl

\* A token is accepted only before CodeTtl has passed since its code was
\* drawn, and only for the account it was drawn for.
AcceptedInTime ==
  [][\A r \in Requests :
       req[r].at # "burn" /\ req'[r].at = "burn"
         => LET s == req[r].token
            IN /\ s \in delivered
               /\ now < req[s].born + CodeTtl
               /\ req[s].email = req[r].email]_vars

\* A lockout ends early only when a request that presented a valid secret of
\* an account with that key has been written.
LockLiftedBySuccess ==
  [][\A k \in Keys :
       LET lock == redis[<<"lock", k>>]
           next == redis'[<<"lock", k>>]
       IN (lock.value # 0 /\ now' < lock.expiresAt)
            => \/ next.value # 0 /\ next.expiresAt >= lock.expiresAt
               \/ \E r \in Requests : /\ req[r].at = "clear"
                                      /\ KeyOf(r) = k
                                      /\ req[r].token \in spent]_vars

\* Every token that is judged went through the gate of its key: the judged
\* requests never outnumber what the validate counter let through.
JudgedAreCounted ==
  \A k \in Keys :
    Cardinality({r \in Requests : /\ req[r].email \in Accounts
                                  /\ KeyOf(r) = k
                                  /\ req[r].at \in {"miss", "burn", "register",
                                                    "clear", "unauthorized"}})
      <= Len(granted[<<"validate", k>>])

\* The requests whose own secret has not been written yet, and those whose
\* secret the owner has or may still be given.
Undrawn == {r \in Requests : req[r].at \in {"idle", "admit", "store", "burn"}}
Given ==
  delivered \cup {r \in Requests : \/ req[r].at = "mail"
                                   \/ req[r].at = "clear" /\ req[r].kind = "validate"}

\* What a document accepts, and until when.
Accepts(user) ==
  {[secret |-> user.hash, until |-> user.expiresAt],
   [secret |-> user.proof, until |-> user.proofExpiresAt]}
    \ [secret : {NoSecret}, until : Times]

Secrecy == INSTANCE SecretExchange WITH
  Secrets <- Requests,
  Ttl <- CodeTtl,
  accepts <- [u \in Accounts |-> Accepts(users[u])],
  password <- [u \in Accounts |-> users[u].password],
  undrawn <- Undrawn,
  terms <- [s \in Requests |->
    IF s \in Given THEN {[account |-> req[s].email, until |-> req[s].born + CodeTtl]}
    ELSE {}]

\* Recovery keeps the promise of SecretExchange: whatever requests and faults
\* overlap, a document accepts one secret at a time, none comes back, exchanging
\* one buys no time, and only its owner's secret changes a password.
KeepsSecrets == Secrecy!Spec

\* "Single-use OTP: burn hash and exchange for one-time reset proof": two
\* validations of one code never both succeed.
CodeUsedOnce ==
  \A r, s \in Requests :
    r # s /\ req[r].kind = "validate" /\ req[s].kind = "validate"
      /\ req[r].at = "ok" /\ req[s].at = "ok"
      => req[r].token # req[s].token

\* Every request is answered.
RequestsAnswered ==
  \A r \in Requests : req[r].at \in Pending ~> req[r].at \in Answers

===========================================================================
