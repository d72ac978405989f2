--------------------------- MODULE OtpRateLimit ---------------------------
(***************************************************************************)
(* The OTP rate limiter of src/recovery/services/otp-rate-limit.service.ts *)
(* and the Redis store it keeps its counters in.                           *)
(*                                                                         *)
(* The store maps <<kind, key>> to a value and a deadline: "gen" and "val" *)
(* count the generate and the validate calls of a key (a document or an    *)
(* e-mail address), "fail" its failed validations, "lock" is its lockout.  *)
(* A call of the service is a process.  Each of its steps is one awaited   *)
(* Redis command with the synchronous code that follows it up to the next  *)
(* one; commands are atomic and calls interleave between them.             *)
(*                                                                         *)
(* A command can fail before it runs, run and lose its answer, or be sent  *)
(* again after it ran (the client reconnects and resends what has no       *)
(* answer).  MaxFaults bounds how often; 0 is a Redis that never fails.    *)
(***************************************************************************)
EXTENDS Naturals, Sequences

CONSTANTS
  Keys,         \* throttle keys
  Calls,        \* processes calling the service
  MaxGenerate, MaxValidate, MaxFailures,
  Window,       \* WINDOW_SECONDS
  Lockout,      \* LOCKOUT_SECONDS
  FailureTtl,   \* FAILURE_TTL_SECONDS
  Never,        \* the deadline of an entry that has none
  NoKey,        \* the key of a process that has made no call
  MaxFaults,    \* bound: faults of Redis
  MaxTime       \* bound: the clock

ASSUME LimitsAssumption ==
  /\ MaxGenerate \in Nat \ {0}
  /\ MaxValidate \in Nat \ {0}
  /\ MaxFailures \in Nat \ {0}

ASSUME TimesAssumption ==
  /\ Window \in Nat \ {0}
  /\ Lockout \in Nat \ {0}
  /\ FailureTtl \in Nat \ {0}
  /\ MaxTime \in Nat
  /\ MaxFaults \in Nat
  /\ Never \notin Nat
  /\ NoKey \notin Keys

VARIABLES
  now,      \* the clock, in units that divide the constants
  redis,    \* the store
  call,     \* what each process is doing
  granted,  \* history: when a counter drew a number within its limit
  faults    \* faults so far

vars == <<now, redis, call, granted, faults>>

---------------------------------------------------------------------------

Gates == {"generate", "validate"}
Ops == Gates \cup {"failure", "clear"}
Commands == {"get", "incr", "expire", "set", "del"}
Outcomes ==
  {"allowed", "throttled", "locked", "counted", "cleared", "unavailable"}

Counters == {"gen", "val", "fail"}
RedisKeys == (Counters \cup {"lock"}) \X Keys

Absent == [value |-> 0, expiresAt |-> Never]

\* The counter that an operation increments.
Counter(op) == IF op = "generate" THEN "gen"
               ELSE IF op = "validate" THEN "val" ELSE "fail"

\* Mutant of Ttl: the gates' counters live as long as a lockout.
TtlOfLockout(op) == IF op \in Gates THEN Lockout ELSE FailureTtl

Ttl(op) == IF op \in Gates THEN Window ELSE FailureTtl

Limit(gate) == IF gate = "generate" THEN MaxGenerate ELSE MaxValidate

\* The first command of an operation.
FirstCommand(op) == IF op = "validate" THEN "get"
                    ELSE IF op = "clear" THEN "del" ELSE "incr"

\* Mutant of AfterCount: the limit is off by one.
AfterCountLocksLate(op, n) ==
  IF op = "failure"
    THEN IF n > MaxFailures THEN "set" ELSE "counted"
    ELSE IF n > Limit(op) THEN "throttled" ELSE "allowed"

\* What a call does once it has drawn n from its counter (and, for n = 1,
\* has set the counter's deadline).
AfterCount(op, n) ==
  IF op = "failure"
    THEN IF n >= MaxFailures THEN "set" ELSE "counted"
    ELSE IF n > Limit(op) THEN "throttled" ELSE "allowed"

---------------------------------------------------------------------------
(* The store. *)

Expired(entry, t) == entry.expiresAt # Never /\ t >= entry.expiresAt

Purged(t) ==
  [rk \in RedisKeys |-> IF Expired(redis[rk], t) THEN Absent ELSE redis[rk]]

Incremented(rk) == [redis EXCEPT ![rk].value = @ + 1]

\* Mutants of Expiring: no check that the key exists; the wrong unit.
ExpiringUnchecked(rk, ttl) == [redis EXCEPT ![rk].expiresAt = now + ttl]
ExpiringLate(rk, ttl) ==
  IF redis[rk].value = 0 THEN redis
  ELSE [redis EXCEPT ![rk].expiresAt = now + 2 * ttl]

Expiring(rk, ttl) ==
  IF redis[rk].value = 0 THEN redis
  ELSE [redis EXCEPT ![rk].expiresAt = now + ttl]

Locked(k) ==
  [redis EXCEPT ![<<"lock", k>>] = [value |-> 1, expiresAt |-> now + Lockout]]

Deleted(kinds, k) ==
  [rk \in RedisKeys |->
     IF rk[1] \in kinds /\ rk[2] = k THEN Absent ELSE redis[rk]]

\* The counter of the call that process c is making.
CounterOf(c) == <<Counter(call[c].op), call[c].key>>

\* Mutant of DelKinds: a failure's DEL takes the lockout with it.
DelKindsBoth(op) == {"fail", "lock"}

\* DEL names the failures after a lockout, and the lockout too after a success.
DelKinds(op) == IF op = "clear" THEN {"fail", "lock"} ELSE {"fail"}

\* The store after the command that process c is at.
Executed(c) ==
  LET k == call[c].key
  IN CASE call[c].at = "incr" -> Incremented(CounterOf(c))
       [] call[c].at = "expire" -> Expiring(CounterOf(c), Ttl(call[c].op))
       [] call[c].at = "set" -> Locked(k)
       [] call[c].at = "del" -> Deleted(DelKinds(call[c].op), k)
       [] OTHER -> redis

---------------------------------------------------------------------------
(* The calls. *)

InFlight(c) == call[c].at \in Commands

\* A process makes a call: assertGenerateAllowed, assertValidateAllowed,
\* registerValidateFailure or clearValidateFailures.
Begin(c, op, k) ==
  /\ ~ InFlight(c)
  /\ call' = [call EXCEPT ![c] =
                [op |-> op, key |-> k, at |-> FirstCommand(op)]]
  /\ UNCHANGED <<now, redis, granted, faults>>

Goto(c, at) == call' = [call EXCEPT ![c].at = at]

\* GET of the lockout, before the validate counter is touched.
GetLock(c) ==
  /\ call[c].at = "get"
  /\ Goto(c, IF redis[<<"lock", call[c].key>>].value # 0
               THEN "locked" ELSE "incr")
  /\ UNCHANGED <<now, redis, granted, faults>>

\* Mutant of Incr: only a call that is let through sets the deadline, and it
\* does so when it is the last one the limit allows.
IncrExpiresLast(c) ==
  LET n == redis[CounterOf(c)].value + 1
  IN /\ call[c].at = "incr"
     /\ redis' = Executed(c)
     /\ Goto(c, IF n = Limit(call[c].op) THEN "expire"
                ELSE AfterCount(call[c].op, n))
     /\ UNCHANGED <<now, granted, faults>>

Incr(c) ==
  LET n == redis[CounterOf(c)].value + 1
  IN /\ call[c].at = "incr"
     /\ redis' = Executed(c)
     /\ Goto(c, IF n = 1 THEN "expire" ELSE AfterCount(call[c].op, n))
     /\ granted' =
          IF AfterCount(call[c].op, n) = "allowed"
            THEN [granted EXCEPT ![<<call[c].op, call[c].key>>] =
                    Append(@, now)]
            ELSE granted
     /\ UNCHANGED <<now, faults>>

\* EXPIRE, sent only by the call that drew 1.
Expire(c) ==
  /\ call[c].at = "expire"
  /\ redis' = Executed(c)
  /\ Goto(c, AfterCount(call[c].op, 1))
  /\ UNCHANGED <<now, granted, faults>>

SetLock(c) ==
  /\ call[c].at = "set"
  /\ redis' = Executed(c)
  /\ Goto(c, "del")
  /\ UNCHANGED <<now, granted, faults>>

Del(c) ==
  /\ call[c].at = "del"
  /\ redis' = Executed(c)
  /\ Goto(c, IF call[c].op = "clear" THEN "cleared" ELSE "locked")
  /\ UNCHANGED <<now, granted, faults>>

CommandStep(c) == GetLock(c) \/ Incr(c) \/ Expire(c) \/ SetLock(c) \/ Del(c)

\* The command of c fails: it ran or it did not, and withRedis answers 503.
Fail(c) ==
  /\ InFlight(c)
  /\ faults < MaxFaults
  /\ faults' = faults + 1
  /\ redis' \in {redis, Executed(c)}
  /\ Goto(c, "unavailable")
  /\ UNCHANGED <<now, granted>>

\* The command of c ran, its answer is lost, and the client sends it again.
Resend(c) ==
  /\ InFlight(c)
  /\ faults < MaxFaults
  /\ faults' = faults + 1
  /\ redis' = Executed(c)
  /\ UNCHANGED <<now, call, granted>>

CallStep(c) == CommandStep(c) \/ Fail(c) \/ Resend(c)

Tick ==
  /\ now < MaxTime
  /\ now' = now + 1
  /\ redis' = Purged(now + 1)
  /\ UNCHANGED <<call, granted, faults>>

---------------------------------------------------------------------------

Init ==
  /\ now = 0
  /\ redis = [rk \in RedisKeys |-> Absent]
  /\ call = [c \in Calls |-> [op |-> "clear", key |-> NoKey, at |-> "idle"]]
  /\ granted = [g \in Gates \X Keys |-> <<>>]
  /\ faults = 0

Next ==
  \/ Tick
  \/ \E c \in Calls :
       \/ \E op \in Ops, k \in Keys : Begin(c, op, k)
       \/ CallStep(c)

Spec == Init /\ [][Next]_vars

\* Bound of the model-checked instances: every process makes one call.
FirstCall(c) ==
  /\ call[c].at = "idle"
  /\ \E op \in Ops, k \in Keys : Begin(c, op, k)

OneShotNext ==
  \/ Tick
  \/ \E c \in Calls : FirstCall(c) \/ CallStep(c)

OneShotSpec == Init /\ [][OneShotNext]_vars

---------------------------------------------------------------------------
(* Properties. *)

Deadlines == Nat \cup {Never}

\* The variables have their types; a value that is absent has no deadline and
\* a lockout always has one.
TypeOK ==
  /\ now \in Nat
  /\ redis \in [RedisKeys -> [value : Nat, expiresAt : Deadlines]]
  /\ \A rk \in RedisKeys : redis[rk].value = 0 => redis[rk].expiresAt = Never
  /\ \A k \in Keys : redis[<<"lock", k>>].value # 0
                       => redis[<<"lock", k>>].expiresAt # Never
  /\ call \in [Calls -> [op : Ops, key : Keys \cup {NoKey},
                         at : {"idle"} \cup Commands \cup Outcomes]]
  /\ \A c \in Calls : call[c].at # "idle" => call[c].key \in Keys
  /\ granted \in [Gates \X Keys -> Seq(Nat)]
  /\ faults \in 0 .. MaxFaults

\* In no interval shorter than Window do more than 2 * Limit - 1 calls of one
\* key get past a gate, however they interleave and whatever Redis loses: a
\* fixed window lets Limit - 1 calls through just before it ends and Limit
\* just after (assertThrottle).
BoundedBurst ==
  \A gate \in Gates, k \in Keys :
    LET log == granted[<<gate, k>>]
    IN \A i \in DOMAIN log :
         i + (2 * Limit(gate) - 1) \in DOMAIN log
           => log[i + (2 * Limit(gate) - 1)] >= log[i] + Window

\* Some call in flight is about to give counter rk its deadline.
DeadlineOwed(rk) ==
  \E c \in Calls : call[c].at = "expire" /\ CounterOf(c) = rk

\* While Redis answers, a counter never lives on without a deadline: the call
\* that drew 1 sets it, also when other calls count, lock or clear between its
\* INCR and its EXPIRE.
CountersExpire ==
  faults = 0 =>
    \A rk \in Counters \X Keys :
      redis[rk].value # 0 /\ redis[rk].expiresAt = Never => DeadlineOwed(rk)

\* "Tente novamente em ate 1 hora": a counter that refuses calls stops
\* refusing them within one Window.
RefusalIsTemporary ==
  \A gate \in Gates, k \in Keys :
    LET rk == <<Counter(gate), k>>
    IN redis[rk].value >= Limit(gate)
         => \/ DeadlineOwed(rk)
            \/ /\ redis[rk].expiresAt # Never
               /\ redis[rk].expiresAt <= now + Window

\* So it is as long as Redis answers.
RefusalIsTemporaryWithRedis == faults = 0 => RefusalIsTemporary

\* While Redis answers, MaxFailures failures never lie in the counter unless
\* a call is on its way to lock the key and to start the count again.
FailuresLock ==
  faults = 0 =>
    \A k \in Keys :
      redis[<<"fail", k>>].value >= MaxFailures
        => \E c \in Calls : /\ call[c].op = "failure" /\ call[c].key = k
                            /\ call[c].at \in {"expire", "set", "del"}

\* A lockout ends early only because a successful call clears it; a second
\* lockout may extend it and nothing shortens it.
LockHolds ==
  [][\A k \in Keys :
       LET lock == redis[<<"lock", k>>]
           next == redis'[<<"lock", k>>]
       IN (lock.value # 0 /\ now' < lock.expiresAt)
            => \/ next.value # 0 /\ next.expiresAt >= lock.expiresAt
               \/ \E c \in Calls : /\ call[c].op = "clear"
                                   /\ call[c].key = k
                                   /\ call[c].at = "del"]_vars

===========================================================================
