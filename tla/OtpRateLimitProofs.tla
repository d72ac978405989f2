------------------------- MODULE OtpRateLimitProofs -------------------------
(***************************************************************************)
(* Proofs about OtpRateLimit for every set of keys and calls and every     *)
(* value of the limits and times.                                          *)
(***************************************************************************)
EXTENDS OtpRateLimit, TLAPS

Store == [RedisKeys -> [value : Nat, expiresAt : Deadlines]]

\* A store whose absent entries have no deadline and whose lockouts have one.
GoodStore(store) ==
  /\ store \in Store
  /\ \A rk \in RedisKeys : store[rk].value = 0 => store[rk].expiresAt = Never
  /\ \A k \in Keys : store[<<"lock", k>>].value # 0
                     => store[<<"lock", k>>].expiresAt # Never

\* The four commands that write, and the clock, keep the store good.
LEMMA StoreCommands ==
  ASSUME GoodStore(redis), now \in Nat
  PROVE  /\ \A rk \in RedisKeys : rk[1] # "lock" => GoodStore(Incremented(rk))
         /\ \A rk \in RedisKeys, ttl \in Nat : GoodStore(Expiring(rk, ttl))
         /\ \A k \in Keys : GoodStore(Locked(k))
         /\ \A kinds, k : GoodStore(Deleted(kinds, k))
         /\ \A t : GoodStore(Purged(t))
<1> USE TimesAssumption DEF GoodStore, Store, Deadlines
<1>1. ASSUME NEW rk \in RedisKeys, rk[1] # "lock"
      PROVE  GoodStore(Incremented(rk))
  <2>1. Incremented(rk) \in Store
    BY DEF Incremented
  <2>2. Incremented(rk)[rk].value # 0
    BY DEF Incremented
  <2>3. \A q \in RedisKeys : q # rk => Incremented(rk)[q] = redis[q]
    BY DEF Incremented
  <2>4. ASSUME NEW k \in Keys
        PROVE  <<"lock", k>> \in RedisKeys /\ <<"lock", k>> # rk
    <3>1. <<"lock", k>>[1] = "lock"
      OBVIOUS
    <3> QED
      BY <1>1, <3>1 DEF RedisKeys
  <2> QED
    BY <2>1, <2>2, <2>3, <2>4
<1>2. ASSUME NEW rk \in RedisKeys, NEW ttl \in Nat
      PROVE  GoodStore(Expiring(rk, ttl))
  <2>1. CASE redis[rk].value = 0
    BY <2>1 DEF Expiring
  <2>2. CASE redis[rk].value # 0
    <3>1. Expiring(rk, ttl) = [redis EXCEPT ![rk].expiresAt = now + ttl]
      BY <2>2 DEF Expiring
    <3>2. Expiring(rk, ttl) \in Store
      BY <3>1
    <3>3. /\ Expiring(rk, ttl)[rk].value = redis[rk].value
          /\ Expiring(rk, ttl)[rk].expiresAt = now + ttl
      BY <3>1
    <3>4. \A q \in RedisKeys : q # rk => Expiring(rk, ttl)[q] = redis[q]
      BY <3>1
    <3>5. \A k \in Keys : <<"lock", k>> \in RedisKeys
      BY DEF RedisKeys
    <3> QED
      BY <2>2, <3>2, <3>3, <3>4, <3>5
  <2> QED
    BY <2>1, <2>2
<1>3. ASSUME NEW k \in Keys PROVE GoodStore(Locked(k))
  <2> DEFINE lk == <<"lock", k>>
  <2>1. lk \in RedisKeys
    BY DEF RedisKeys
  <2> HIDE DEF lk
  <2>2. Locked(k) = [redis EXCEPT ![lk] =
                       [value |-> 1, expiresAt |-> now + Lockout]]
    BY DEF Locked, lk
  <2>3. Locked(k) \in Store
    BY <2>1, <2>2
  <2>4. \A q \in RedisKeys : \/ Locked(k)[q] = redis[q]
                             \/ /\ Locked(k)[q].value = 1
                                /\ Locked(k)[q].expiresAt \in Nat
    BY <2>1, <2>2
  <2>5. \A q \in Keys : <<"lock", q>> \in RedisKeys
    BY DEF RedisKeys
  <2> QED
    BY <2>3, <2>4, <2>5
<1>4. ASSUME NEW kinds, NEW k PROVE GoodStore(Deleted(kinds, k))
  <2>1. \A q \in RedisKeys :
          Deleted(kinds, k)[q] \in {redis[q], Absent}
    BY DEF Deleted
  <2>2. Absent.value = 0 /\ Absent.expiresAt = Never
    BY DEF Absent
  <2>3. Deleted(kinds, k) \in Store
    BY DEF Deleted, Absent
  <2>4. \A q \in Keys : <<"lock", q>> \in RedisKeys
    BY DEF RedisKeys
  <2> QED
    BY <2>1, <2>2, <2>3, <2>4
<1>5. ASSUME NEW t PROVE GoodStore(Purged(t))
  <2>1. \A q \in RedisKeys : Purged(t)[q] \in {redis[q], Absent}
    BY DEF Purged
  <2>2. Absent.value = 0 /\ Absent.expiresAt = Never
    BY DEF Absent
  <2>3. Purged(t) \in Store
    BY DEF Purged, Absent
  <2>4. \A q \in Keys : <<"lock", q>> \in RedisKeys
    BY DEF RedisKeys
  <2> QED
    BY <2>1, <2>2, <2>3, <2>4
<1> QED
  BY <1>1, <1>2, <1>3, <1>4, <1>5

---------------------------------------------------------------------------
(* The pace of a gate. *)

\* A counter at v with deadline e, its limit M, the log L of the numbers it
\* drew within the limit, at time t.  With b the draws of the present window
\* (at most v, at most M): what was drawn before the window that preceded it,
\* or first in that one, is a Window old; and the counter's deadline is a
\* Window after every draw but the last b - 1.
Paced(M, v, e, L, t) ==
  LET b == IF v < M THEN v ELSE M
  IN /\ \A i \in 1 .. Len(L) : L[i] <= t
     /\ \A i \in 1 .. Len(L) :
          i + (2 * M - 1) \in 1 .. Len(L) => L[i + (2 * M - 1)] >= L[i] + Window
     /\ \A i \in 1 .. Len(L) : i + b + M <= Len(L) + 1 => L[i] + Window <= t
     /\ e # Never
          => \A i \in 1 .. Len(L) : i + b <= Len(L) + 1 => L[i] + Window <= e

\* A draw within the limit keeps the pace.
LEMMA PacedDraw ==
  ASSUME NEW M \in Nat \ {0}, NEW v \in Nat, NEW e \in Deadlines,
         NEW L \in Seq(Nat), NEW t \in Nat,
         Paced(M, v, e, L, t), v + 1 <= M, v = 0 => e = Never
  PROVE  Paced(M, v + 1, e, Append(L, t), t)
<1> DEFINE A == Append(L, t)
           len == Len(L)
<1>1. len \in Nat /\ Len(A) = len + 1
  OBVIOUS
<1>2. /\ A[len + 1] = t
      /\ \A i \in 1 .. len : A[i] = L[i] /\ L[i] \in Nat
  OBVIOUS
<1> USE TimesAssumption DEF Deadlines
<1>3. /\ \A i \in 1 .. len : L[i] <= t
      /\ \A i \in 1 .. len :
           i + (2 * M - 1) \in 1 .. len => L[i + (2 * M - 1)] >= L[i] + Window
      /\ \A i \in 1 .. len : i + v + M <= len + 1 => L[i] + Window <= t
      /\ e # Never
           => \A i \in 1 .. len : i + v <= len + 1 => L[i] + Window <= e
  BY DEF Paced
<1> HIDE DEF A, len
<1>4. \A i \in 1 .. len + 1 : A[i] <= t
  BY <1>1, <1>2, <1>3
<1>5. ASSUME NEW i \in 1 .. len + 1, i + (2 * M - 1) \in 1 .. len + 1
      PROVE  A[i + (2 * M - 1)] >= A[i] + Window
  <2>1. i \in 1 .. len
    BY <1>1, <1>5
  <2>2. CASE i + (2 * M - 1) \in 1 .. len
    BY <1>2, <1>3, <2>1, <2>2
  <2>3. CASE i + (2 * M - 1) = len + 1
    <3>1. i + v + M <= len + 1
      BY <1>1, <2>3
    <3>2. L[i] + Window <= t
      BY <1>3, <2>1, <3>1
    <3> QED
      BY <1>2, <2>1, <2>3, <3>2
  <2> QED
    BY <1>1, <1>5, <2>2, <2>3
<1>6. ASSUME NEW i \in 1 .. len + 1, i + (v + 1) + M <= len + 2
      PROVE  A[i] + Window <= t
  <2>1. i \in 1 .. len /\ i + v + M <= len + 1
    BY <1>1, <1>6
  <2> QED
    BY <1>2, <1>3, <2>1
<1>7. ASSUME e # Never, NEW i \in 1 .. len + 1, i + (v + 1) <= len + 2
      PROVE  A[i] + Window <= e
  <2>1. v # 0
    BY <1>7
  <2>2. i \in 1 .. len /\ i + v <= len + 1
    BY <1>1, <1>7, <2>1
  <2> QED
    BY <1>2, <1>3, <1>7, <2>2
<1>8. (IF v + 1 < M THEN v + 1 ELSE M) = v + 1 /\ (len + 1) + 1 = len + 2
  BY <1>1
<1> QED
  BY <1>1, <1>4, <1>5, <1>6, <1>7, <1>8 DEF Paced, A

\* So do a draw that is not logged, a new deadline, the passing of time and
\* the end of the window.
LEMMA PacedOther ==
  ASSUME NEW M \in Nat \ {0}, NEW v \in Nat, NEW e \in Deadlines,
         NEW L \in Seq(Nat), NEW t \in Nat, Paced(M, v, e, L, t)
  PROVE  /\ Paced(M, v + 1, e, L, t)
         /\ Paced(M, v, t + Window, L, t)
         /\ Paced(M, v, e, L, t + 1)
         /\ e # Never /\ t + 1 >= e => Paced(M, 0, Never, L, t + 1)
<1> USE TimesAssumption DEF Deadlines
<1>1. \A i \in 1 .. Len(L) : L[i] \in Nat
  OBVIOUS
<1>2. Len(L) \in Nat
  OBVIOUS
<1>3. Paced(M, v + 1, e, L, t)
  <2> DEFINE b == IF v < M THEN v ELSE M
             c == IF v + 1 < M THEN v + 1 ELSE M
  <2>1. b \in Nat /\ c \in Nat /\ b <= c
    OBVIOUS
  <2> HIDE DEF b, c
  <2>2. /\ \A i \in 1 .. Len(L) : i + b + M <= Len(L) + 1 => L[i] + Window <= t
        /\ e # Never => \A i \in 1 .. Len(L) :
                          i + b <= Len(L) + 1 => L[i] + Window <= e
    BY DEF Paced, b
  <2>3. /\ \A i \in 1 .. Len(L) : i + c + M <= Len(L) + 1 => L[i] + Window <= t
        /\ e # Never => \A i \in 1 .. Len(L) :
                          i + c <= Len(L) + 1 => L[i] + Window <= e
    BY <1>2, <2>1, <2>2
  <2> QED
    BY <2>3 DEF Paced, c
<1>4. Paced(M, v, t + Window, L, t)
  BY <1>1, <1>2 DEF Paced
<1>5. Paced(M, v, e, L, t + 1)
  BY <1>1, <1>2 DEF Paced
<1>6. ASSUME e # Never, t + 1 >= e PROVE Paced(M, 0, Never, L, t + 1)
  <2>1. ASSUME NEW i \in 1 .. Len(L), i + 0 + M <= Len(L) + 1
        PROVE  L[i] + Window <= t + 1
    BY <1>1, <1>2, <1>6, <2>1 DEF Paced
  <2> QED
    BY <1>1, <1>2, <2>1 DEF Paced
<1> QED
  BY <1>3, <1>4, <1>5, <1>6

---------------------------------------------------------------------------
(* Types. *)

CallRecord == [op : Ops, key : Keys \cup {NoKey},
               at : {"idle"} \cup Commands \cup Outcomes]

\* A call is only ever at a command of its operation.
Coherent ==
  \A c \in Calls :
    /\ call[c].at = "get" => call[c].op = "validate"
    /\ call[c].at \in {"incr", "expire"} => call[c].op # "clear"
    /\ call[c].at = "set" => call[c].op = "failure"
    /\ call[c].at = "del" => call[c].op \in {"failure", "clear"}

TypeInv == TypeOK /\ Coherent

\* The good store is what TypeOK says of redis.
LEMMA TypeOKStore ==
  TypeOK <=> /\ now \in Nat
             /\ GoodStore(redis)
             /\ call \in [Calls -> CallRecord]
             /\ \A c \in Calls : call[c].at # "idle" => call[c].key \in Keys
             /\ granted \in [Gates \X Keys -> Seq(Nat)]
             /\ faults \in 0 .. MaxFaults
BY DEF TypeOK, GoodStore, Store, CallRecord

\* The counter of a call in flight is an entry of the store, and no lockout.
LEMMA CounterType ==
  ASSUME TypeOK, NEW c \in Calls, call[c].at # "idle"
  PROVE  /\ CounterOf(c) \in RedisKeys
         /\ CounterOf(c)[1] # "lock"
         /\ CounterOf(c) = <<Counter(call[c].op), call[c].key>>
         /\ Ttl(call[c].op) \in Nat
BY TimesAssumption DEF TypeOK, CounterOf, Counter, Counters, RedisKeys, Ttl

\* Every command leaves a good store.
LEMMA ExecutedGood ==
  ASSUME TypeOK, NEW c \in Calls, call[c].at # "idle"
  PROVE  GoodStore(Executed(c))
<1>1. GoodStore(redis) /\ now \in Nat /\ call[c].key \in Keys
  BY TypeOKStore
<1> DEFINE rk == CounterOf(c)
<1>2. rk \in RedisKeys /\ rk[1] # "lock" /\ Ttl(call[c].op) \in Nat
  BY CounterType
<1> HIDE DEF rk
<1>3. /\ GoodStore(Incremented(rk))
      /\ GoodStore(Expiring(rk, Ttl(call[c].op)))
      /\ GoodStore(Locked(call[c].key))
      /\ GoodStore(Deleted(DelKinds(call[c].op), call[c].key))
  BY <1>1, <1>2, StoreCommands
<1>4. Executed(c) \in {redis, Incremented(rk), Expiring(rk, Ttl(call[c].op)),
                       Locked(call[c].key),
                       Deleted(DelKinds(call[c].op), call[c].key)}
  BY DEF Executed, rk
<1> QED
  BY <1>1, <1>3, <1>4

\* Where a call goes next is a place of its operation.
LEMMA GotoType ==
  ASSUME TypeInv, NEW c \in Calls, call[c].at # "idle", NEW at, Goto(c, at),
         at \in Commands \cup Outcomes,
         at \in Commands =>
           \/ at = "incr" /\ call[c].op = "validate"
           \/ at = "expire" /\ call[c].op # "clear"
           \/ at \in {"set", "del"} /\ call[c].op = "failure"
  PROVE  /\ call' \in [Calls -> CallRecord]
         /\ \A d \in Calls : call'[d].at # "idle" => call'[d].key \in Keys
         /\ Coherent'
<1>1. /\ call \in [Calls -> CallRecord]
      /\ \A d \in Calls : call[d].at # "idle" => call[d].key \in Keys
  BY TypeOKStore DEF TypeInv
<1>2. call' = [call EXCEPT ![c].at = at]
  BY DEF Goto
<1>3. call' \in [Calls -> CallRecord]
  BY <1>1, <1>2 DEF CallRecord
<1>4. /\ call'[c].op = call[c].op /\ call'[c].key = call[c].key
      /\ call'[c].at = at
      /\ \A d \in Calls : d # c => call'[d] = call[d]
  BY <1>1, <1>2 DEF CallRecord
<1>5. \A d \in Calls : call'[d].at # "idle" => call'[d].key \in Keys
  BY <1>1, <1>4
<1>6. Coherent'
  BY <1>1, <1>4 DEF Coherent, TypeInv, Commands, Outcomes
<1> QED
  BY <1>3, <1>5, <1>6

\* AfterCount leads a call on or ends it.
LEMMA AfterCountType ==
  ASSUME NEW op \in Ops \ {"clear"}, NEW n \in Nat
  PROVE  /\ AfterCount(op, n) \in Outcomes \cup {"set"}
         /\ AfterCount(op, n) = "set" => op = "failure"
         /\ AfterCount(op, n) = "allowed"
              <=> op \in Gates /\ n <= Limit(op)
BY LimitsAssumption DEF AfterCount, Outcomes, Ops, Gates, Limit

LEMMA InitTypeInv == Init => TypeInv
BY TimesAssumption
   DEF Init, TypeInv, TypeOK, Coherent, Absent, RedisKeys, Deadlines, Ops,
       Gates, Commands

\* One command and what follows it, one step per command.
LEMMA CommandTypeInv ==
  ASSUME TypeInv, NEW c \in Calls, CommandStep(c)
  PROVE  TypeInv'
<1> USE DEF TypeInv
<1>1. /\ now \in Nat /\ GoodStore(redis)
      /\ granted \in [Gates \X Keys -> Seq(Nat)]
      /\ faults \in 0 .. MaxFaults
      /\ call[c] \in CallRecord
  BY TypeOKStore
<1>2. call[c].at \in Commands
  BY DEF CommandStep, GetLock, Incr, Expire, SetLock, Del, Commands
<1>3. call[c].at # "idle" /\ call[c].key \in Keys
  BY <1>2, TypeOKStore DEF Commands
<1>4. ASSUME GoodStore(redis'), UNCHANGED <<now, faults>>,
             granted' \in [Gates \X Keys -> Seq(Nat)],
             NEW at \in Commands \cup Outcomes, Goto(c, at),
             at \in Commands =>
               \/ at = "incr" /\ call[c].op = "validate"
               \/ at = "expire" /\ call[c].op # "clear"
               \/ at \in {"set", "del"} /\ call[c].op = "failure"
      PROVE  TypeInv'
  <2>1. /\ call' \in [Calls -> CallRecord]
        /\ \A d \in Calls : call'[d].at # "idle" => call'[d].key \in Keys
        /\ Coherent'
    BY <1>3, <1>4, GotoType
  <2>2. /\ now' \in Nat /\ faults' \in 0 .. MaxFaults
    BY <1>1, <1>4
  <2> QED
    BY <1>4, <2>1, <2>2 DEF TypeOK, GoodStore, Store, CallRecord
<1>5. CASE GetLock(c)
  <2> DEFINE at == IF redis[<<"lock", call[c].key>>].value # 0
                     THEN "locked" ELSE "incr"
  <2>1. Goto(c, at) /\ call[c].op = "validate"
    BY <1>5 DEF GetLock, Coherent
  <2>2. /\ at \in Commands \cup Outcomes
        /\ at \in Commands => at = "incr"
    BY DEF Commands, Outcomes
  <2>3. GoodStore(redis') /\ UNCHANGED <<now, faults>> /\ granted' = granted
    BY <1>1, <1>5 DEF GetLock
  <2> HIDE DEF at
  <2> QED
    BY <1>1, <1>4, <2>1, <2>2, <2>3
<1>6. CASE Incr(c)
  <2> DEFINE n == redis[CounterOf(c)].value + 1
             at == IF n = 1 THEN "expire" ELSE AfterCount(call[c].op, n)
  <2>1. Goto(c, at) /\ call[c].op \in Ops \ {"clear"}
    BY <1>1, <1>6 DEF Incr, Coherent, CallRecord
  <2>2. n \in Nat
    BY <1>1, <1>3, CounterType DEF GoodStore, Store
  <2>3. /\ at \in Commands \cup Outcomes
        /\ at \in Commands => \/ at = "expire"
                              \/ at = "set" /\ call[c].op = "failure"
    BY <2>1, <2>2, AfterCountType DEF Commands, Outcomes
  <2>4. GoodStore(redis') /\ UNCHANGED <<now, faults>>
    BY <1>3, <1>6, ExecutedGood DEF Incr
  <2>5. granted' \in [Gates \X Keys -> Seq(Nat)]
    <3>1. granted' \in
            {granted, [granted EXCEPT ![<<call[c].op, call[c].key>>] =
                                        Append(@, now)]}
      BY <1>6 DEF Incr
    <3>2. ASSUME NEW g
          PROVE  [granted EXCEPT ![g] = Append(@, now)]
                   \in [Gates \X Keys -> Seq(Nat)]
      <4>1. g \in Gates \X Keys => Append(granted[g], now) \in Seq(Nat)
        BY <1>1
      <4> QED
        BY <1>1, <4>1
    <3> QED
      BY <1>1, <3>1, <3>2
  <2> HIDE DEF at, n
  <2> QED
    BY <1>4, <2>1, <2>3, <2>4, <2>5
<1>7. CASE Expire(c)
  <2> DEFINE at == AfterCount(call[c].op, 1)
  <2>1. Goto(c, at) /\ call[c].op \in Ops \ {"clear"}
    BY <1>1, <1>7 DEF Expire, Coherent, CallRecord
  <2>2. /\ at \in Commands \cup Outcomes
        /\ at \in Commands => at = "set" /\ call[c].op = "failure"
    BY <2>1, AfterCountType DEF Commands, Outcomes
  <2>3. /\ GoodStore(redis') /\ UNCHANGED <<now, faults>>
        /\ granted' = granted
    BY <1>3, <1>7, ExecutedGood DEF Expire
  <2> HIDE DEF at
  <2> QED
    BY <1>1, <1>4, <2>1, <2>2, <2>3
<1>8. CASE SetLock(c)
  <2>1. Goto(c, "del") /\ call[c].op = "failure"
    BY <1>8 DEF SetLock, Coherent
  <2>2. /\ GoodStore(redis') /\ UNCHANGED <<now, faults>>
        /\ granted' = granted
    BY <1>3, <1>8, ExecutedGood DEF SetLock
  <2> QED
    BY <1>1, <1>4, <2>1, <2>2 DEF Commands
<1>9. CASE Del(c)
  <2> DEFINE at == IF call[c].op = "clear" THEN "cleared" ELSE "locked"
  <2>1. Goto(c, at) /\ at \in Outcomes /\ at \notin Commands
    BY <1>9 DEF Del, Outcomes, Commands
  <2>2. /\ GoodStore(redis') /\ UNCHANGED <<now, faults>>
        /\ granted' = granted
    BY <1>3, <1>9, ExecutedGood DEF Del
  <2> HIDE DEF at
  <2> QED
    BY <1>1, <1>4, <2>1, <2>2
<1> QED
  BY <1>5, <1>6, <1>7, <1>8, <1>9 DEF CommandStep

\* Starting a call, a fault, the clock and stuttering.
LEMMA StepTypeInv == TypeInv /\ [Next]_vars => TypeInv'
<1> SUFFICES ASSUME TypeInv, [Next]_vars PROVE TypeInv'
  OBVIOUS
<1>1. /\ now \in Nat /\ GoodStore(redis) /\ call \in [Calls -> CallRecord]
      /\ \A d \in Calls : call[d].at # "idle" => call[d].key \in Keys
      /\ granted \in [Gates \X Keys -> Seq(Nat)]
      /\ faults \in 0 .. MaxFaults /\ Coherent
  BY TypeOKStore DEF TypeInv
<1>2. CASE Tick
  <2>1. now' \in Nat /\ GoodStore(redis')
    BY <1>1, <1>2, StoreCommands DEF Tick
  <2>2. UNCHANGED <<call, granted, faults>>
    BY <1>2 DEF Tick
  <2> QED
    BY <1>1, <2>1, <2>2
       DEF TypeInv, TypeOK, Coherent, GoodStore, Store, CallRecord
<1>3. ASSUME NEW c \in Calls, NEW op \in Ops, NEW k \in Keys, Begin(c, op, k)
      PROVE  TypeInv'
  <2>1. UNCHANGED <<now, redis, granted, faults>>
    BY <1>3 DEF Begin
  <2>2. call' = [call EXCEPT ![c] =
                   [op |-> op, key |-> k, at |-> FirstCommand(op)]]
    BY <1>3 DEF Begin
  <2>3. /\ FirstCommand(op) \in {"get", "incr", "del"}
        /\ FirstCommand(op) = "get" => op = "validate"
        /\ FirstCommand(op) = "incr" => op # "clear"
        /\ FirstCommand(op) = "del" => op = "clear"
    BY DEF FirstCommand, Ops, Gates
  <2>4. call' \in [Calls -> CallRecord]
    BY <1>1, <2>2, <2>3 DEF CallRecord, Commands
  <2>5. /\ call'[c] = [op |-> op, key |-> k, at |-> FirstCommand(op)]
        /\ \A d \in Calls : d # c => call'[d] = call[d]
    BY <1>1, <2>2
  <2>6. \A d \in Calls : call'[d].at # "idle" => call'[d].key \in Keys
    BY <1>1, <2>5
  <2>7. Coherent'
    BY <1>1, <2>3, <2>5 DEF Coherent
  <2> QED
    BY <1>1, <2>1, <2>4, <2>6, <2>7
       DEF TypeInv, TypeOK, GoodStore, Store, CallRecord
<1>4. ASSUME NEW c \in Calls, Fail(c) \/ Resend(c) PROVE TypeInv'
  <2>1. call[c].at # "idle"
    BY <1>4 DEF Fail, Resend, InFlight, Commands
  <2>2. GoodStore(redis') /\ UNCHANGED <<now, granted>>
    BY <1>1, <1>4, <2>1, ExecutedGood DEF Fail, Resend, TypeInv
  <2>3. faults' \in 0 .. MaxFaults
    BY <1>1, <1>4, TimesAssumption DEF Fail, Resend
  <2>4. /\ call' \in [Calls -> CallRecord]
        /\ \A d \in Calls : call'[d].at # "idle" => call'[d].key \in Keys
        /\ Coherent'
    <3>1. CASE Fail(c)
      <4>1. Goto(c, "unavailable")
        BY <3>1 DEF Fail
      <4> QED
        BY <2>1, <4>1, GotoType DEF Commands, Outcomes
    <3>2. CASE Resend(c)
      BY <1>1, <3>2 DEF Resend, Coherent
    <3> QED
      BY <1>4, <3>1, <3>2
  <2> QED
    BY <1>1, <2>2, <2>3, <2>4
       DEF TypeInv, TypeOK, GoodStore, Store, CallRecord
<1>5. CASE UNCHANGED vars
  BY <1>5 DEF vars, TypeInv, TypeOK, Coherent
<1> QED
  BY <1>2, <1>3, <1>4, <1>5, CommandTypeInv DEF Next, CallStep

\* The instances TLC checks, one call per process, are instances of Spec.
THEOREM OneShotIsSpec == OneShotSpec => Spec
<1>1. Init => Init
  OBVIOUS
<1>2. [OneShotNext]_vars => [Next]_vars
  BY DEF OneShotNext, Next, FirstCall
<1> QED
  BY <1>1, <1>2, PTL DEF OneShotSpec, Spec

\* Type correctness: for every Keys, Calls, limits and times the variables
\* keep their types and a lockout keeps its deadline, whatever Redis loses.
THEOREM TypeCorrect == Spec => []TypeOK
<1>1. TypeInv => TypeOK
  BY DEF TypeInv
<1> QED
  BY <1>1, InitTypeInv, StepTypeInv, PTL DEF Spec

---------------------------------------------------------------------------
(* The burst bound. *)

GateCounter(gate, k) == redis[<<Counter(gate), k>>]

PaceInv ==
  \A gate \in Gates, k \in Keys :
    Paced(Limit(gate), GateCounter(gate, k).value,
          GateCounter(gate, k).expiresAt, granted[<<gate, k>>], now)

BurstInv == TypeInv /\ PaceInv

LEMMA GateTypes ==
  ASSUME TypeOK, NEW gate \in Gates, NEW k \in Keys
  PROVE  /\ Limit(gate) \in Nat \ {0}
         /\ <<Counter(gate), k>> \in RedisKeys
         /\ GateCounter(gate, k).value \in Nat
         /\ GateCounter(gate, k).expiresAt \in Deadlines
         /\ GateCounter(gate, k).value = 0
              => GateCounter(gate, k).expiresAt = Never
         /\ granted[<<gate, k>>] \in Seq(Nat)
         /\ now \in Nat
BY LimitsAssumption
   DEF TypeOK, Gates, Limit, Counter, RedisKeys, Counters, GateCounter

\* What a command does to the counter of a gate: nothing, or its own INCR or
\* EXPIRE.
LEMMA ExecutedGate ==
  ASSUME TypeInv, NEW c \in Calls, call[c].at # "idle",
         NEW gate \in Gates, NEW k \in Keys
  PROVE  LET old == GateCounter(gate, k)
             new == Executed(c)[<<Counter(gate), k>>]
         IN \/ new = old
            \/ /\ call[c].at = "incr" /\ call[c].op = gate
               /\ call[c].key = k
               /\ new.value = old.value + 1 /\ new.expiresAt = old.expiresAt
            \/ new.value = old.value /\ new.expiresAt = now + Window
<1> DEFINE rk == <<Counter(gate), k>>
<1>1. /\ rk \in RedisKeys /\ rk[1] \in {"gen", "val"} /\ rk[2] = k
      /\ redis \in Store
  <2>1. Counter(gate) \in {"gen", "val"}
    BY DEF Counter, Gates
  <2>2. rk \in RedisKeys
    BY <2>1 DEF RedisKeys, Counters
  <2>3. rk[1] = Counter(gate) /\ rk[2] = k
    OBVIOUS
  <2>4. redis \in Store
    BY TypeOKStore DEF TypeInv, GoodStore
  <2> QED
    BY <2>1, <2>2, <2>3, <2>4
<1>2. call[c].at \in {"incr", "expire"} /\ CounterOf(c) = rk
        => call[c].op = gate /\ call[c].key = k
  BY TypeOKStore
     DEF TypeInv, Coherent, CounterOf, Counter, Gates, Ops, CallRecord
<1>3. CounterOf(c) \in RedisKeys
  BY CounterType DEF TypeInv
<1> USE DEF Store, GateCounter
<1>4. CASE call[c].at = "incr"
  <2>1. Executed(c) = [redis EXCEPT ![CounterOf(c)].value = @ + 1]
    BY <1>4 DEF Executed, Incremented
  <2> HIDE DEF rk
  <2>2. CASE CounterOf(c) = rk
    BY <1>1, <1>2, <1>4, <2>1, <2>2 DEF rk
  <2>3. CASE CounterOf(c) # rk
    <3>1. Executed(c)[rk] = redis[rk]
      BY <1>1, <1>3, <2>1, <2>3
    <3> QED
      BY <3>1 DEF rk
  <2> QED
    BY <2>2, <2>3
<1>5. CASE call[c].at = "expire"
  <2>1. Executed(c) = Expiring(CounterOf(c), Ttl(call[c].op))
    BY <1>5 DEF Executed
  <2>2. CASE redis[CounterOf(c)].value = 0
    BY <2>1, <2>2 DEF Expiring
  <2>3. CASE redis[CounterOf(c)].value # 0
    <3>1. Executed(c) =
            [redis EXCEPT ![CounterOf(c)].expiresAt = now + Ttl(call[c].op)]
      BY <2>1, <2>3 DEF Expiring
    <3> HIDE DEF rk
    <3>2. CASE CounterOf(c) = rk
      <4>1. Ttl(call[c].op) = Window
        BY <1>2, <1>5, <3>2 DEF Ttl
      <4> QED
        BY <1>1, <3>1, <3>2, <4>1 DEF rk
    <3>3. CASE CounterOf(c) # rk
      <4>1. Executed(c)[rk] = redis[rk]
        BY <1>1, <1>3, <3>1, <3>3
      <4> QED
        BY <4>1 DEF rk
    <3> QED
      BY <3>2, <3>3
  <2> QED
    BY <2>2, <2>3
<1>6. CASE call[c].at = "set"
  <2>1. <<"lock", call[c].key>>[1] = "lock"
    OBVIOUS
  <2>2. rk # <<"lock", call[c].key>>
    BY <1>1, <2>1
  <2>3. Executed(c) = [redis EXCEPT ![<<"lock", call[c].key>>] =
                         [value |-> 1, expiresAt |-> now + Lockout]]
    BY <1>6 DEF Executed, Locked
  <2> HIDE DEF rk
  <2>4. Executed(c)[rk] = redis[rk]
    BY <1>1, <2>2, <2>3
  <2> QED
    BY <2>4 DEF rk
<1>7. CASE call[c].at = "del"
  <2>1. Executed(c) = Deleted(DelKinds(call[c].op), call[c].key)
    BY <1>7 DEF Executed
  <2>2. rk[1] \notin DelKinds(call[c].op)
    BY <1>1 DEF DelKinds
  <2>3. Executed(c)[rk] = redis[rk]
    BY <1>1, <2>1, <2>2 DEF Deleted
  <2> QED
    BY <2>3
<1>8. CASE call[c].at \notin {"incr", "expire", "set", "del"}
  BY <1>8 DEF Executed
<1> QED
  BY <1>4, <1>5, <1>6, <1>7, <1>8

\* A command whose draw is not logged keeps the pace: an EXPIRE, a draw above
\* the limit, or any command that failed after it ran.
LEMMA UnloggedPace ==
  ASSUME BurstInv, NEW c \in Calls, call[c].at # "idle",
         redis' \in {redis, Executed(c)}, UNCHANGED <<now, granted>>
  PROVE  PaceInv'
<1> SUFFICES ASSUME NEW gate \in Gates, NEW k \in Keys
             PROVE  Paced(Limit(gate), GateCounter(gate, k)'.value,
                          GateCounter(gate, k)'.expiresAt,
                          granted[<<gate, k>>], now)
  BY DEF PaceInv, GateCounter
<1> DEFINE old == GateCounter(gate, k)
           new == GateCounter(gate, k)'
<1>1. /\ Limit(gate) \in Nat \ {0} /\ old.value \in Nat
      /\ old.expiresAt \in Deadlines
      /\ granted[<<gate, k>>] \in Seq(Nat) /\ now \in Nat
  BY GateTypes DEF BurstInv, TypeInv
<1>2. Paced(Limit(gate), old.value, old.expiresAt, granted[<<gate, k>>], now)
  BY DEF BurstInv, PaceInv
<1>3. \/ new = old
      \/ new.value = old.value + 1 /\ new.expiresAt = old.expiresAt
      \/ new.value = old.value /\ new.expiresAt = now + Window
  BY ExecutedGate DEF BurstInv, GateCounter
<1> HIDE DEF old, new
<1>4. /\ Paced(Limit(gate), old.value + 1, old.expiresAt,
               granted[<<gate, k>>], now)
      /\ Paced(Limit(gate), old.value, now + Window, granted[<<gate, k>>], now)
  BY <1>1, <1>2, PacedOther
<1>5. Paced(Limit(gate), new.value, new.expiresAt, granted[<<gate, k>>], now)
  BY <1>2, <1>3, <1>4
<1> QED
  BY <1>5 DEF new

\* An INCR logs its draw exactly when the draw is within the limit.
LEMMA IncrPace ==
  ASSUME BurstInv, NEW c \in Calls, Incr(c)
  PROVE  PaceInv'
<1> DEFINE op == call[c].op
           n == redis[CounterOf(c)].value + 1
<1>1. /\ call[c].at = "incr" /\ redis' = Executed(c) /\ now' = now
      /\ granted' = IF AfterCount(op, n) = "allowed"
                      THEN [granted EXCEPT ![<<op, call[c].key>>] =
                              Append(@, now)]
                      ELSE granted
  BY DEF Incr
<1>2. CASE AfterCount(op, n) # "allowed"
  <2>1. granted' = granted
    BY <1>1, <1>2
  <2> QED
    BY <1>1, <2>1, UnloggedPace
<1>3. CASE AfterCount(op, n) = "allowed"
  <2>1. /\ op \in Ops \ {"clear"} /\ call[c].key \in Keys
        /\ CounterOf(c) \in RedisKeys /\ redis \in Store
        /\ CounterOf(c) = <<Counter(op), call[c].key>>
    BY <1>1, CounterType, TypeOKStore
       DEF BurstInv, TypeInv, Coherent, CallRecord, GoodStore
  <2>2. n \in Nat
    BY <2>1 DEF Store
  <2>3. op \in Gates /\ n <= Limit(op)
    BY <1>3, <2>1, <2>2, AfterCountType
  <2> SUFFICES ASSUME NEW gate \in Gates, NEW k \in Keys
               PROVE  Paced(Limit(gate), GateCounter(gate, k)'.value,
                            GateCounter(gate, k)'.expiresAt,
                            granted'[<<gate, k>>], now)
    BY <1>1 DEF PaceInv, GateCounter
  <2> DEFINE old == GateCounter(gate, k)
             new == GateCounter(gate, k)'
             L == granted[<<gate, k>>]
  <2>4. /\ Limit(gate) \in Nat \ {0} /\ old.value \in Nat
        /\ old.expiresAt \in Deadlines /\ L \in Seq(Nat) /\ now \in Nat
        /\ old.value = 0 => old.expiresAt = Never
    BY GateTypes DEF BurstInv, TypeInv
  <2>5. Paced(Limit(gate), old.value, old.expiresAt, L, now)
    BY DEF BurstInv, PaceInv
  <2>6. granted \in [Gates \X Keys -> Seq(Nat)]
    BY DEF BurstInv, TypeInv, TypeOK
  <2>7. granted' = [granted EXCEPT ![<<op, call[c].key>>] = Append(@, now)]
    BY <1>1, <1>3
  <2> HIDE DEF op, n
  <2>8. CASE gate = op /\ k = call[c].key
    <3>1. granted'[<<gate, k>>] = Append(L, now)
      BY <2>6, <2>7, <2>8
    <3>2. Executed(c) = [redis EXCEPT ![CounterOf(c)].value = @ + 1]
      BY <1>1 DEF Executed, Incremented
    <3>3. CounterOf(c) = <<Counter(gate), k>> /\ n = old.value + 1
      BY <2>1, <2>8 DEF GateCounter, n
    <3>4. new.value = old.value + 1 /\ new.expiresAt = old.expiresAt
      <4> DEFINE rk == <<Counter(gate), k>>
      <4>1. redis' = [redis EXCEPT ![rk].value = @ + 1] /\ rk \in RedisKeys
        BY <1>1, <2>1, <3>2, <3>3
      <4> HIDE DEF rk
      <4>2. /\ redis'[rk].value = redis[rk].value + 1
            /\ redis'[rk].expiresAt = redis[rk].expiresAt
        BY <2>1, <4>1 DEF Store
      <4> QED
        BY <4>2 DEF GateCounter, rk
    <3> HIDE DEF old, new, L
    <3>5. Paced(Limit(gate), old.value + 1, old.expiresAt, Append(L, now), now)
      BY <2>3, <2>4, <2>5, <2>8, <3>3, PacedDraw
    <3> QED
      BY <3>1, <3>4, <3>5 DEF new
  <2>9. CASE ~ (gate = op /\ k = call[c].key)
    <3>1. granted'[<<gate, k>>] = L
      BY <2>6, <2>7, <2>9
    <3>2. \/ new = old
          \/ new.value = old.value + 1 /\ new.expiresAt = old.expiresAt
          \/ new.value = old.value /\ new.expiresAt = now + Window
      BY <1>1, ExecutedGate DEF BurstInv, GateCounter
    <3> HIDE DEF old, new, L
    <3>3. /\ Paced(Limit(gate), old.value + 1, old.expiresAt, L, now)
          /\ Paced(Limit(gate), old.value, now + Window, L, now)
      BY <2>4, <2>5, PacedOther
    <3>4. Paced(Limit(gate), new.value, new.expiresAt, L, now)
      BY <2>5, <3>2, <3>3
    <3> QED
      BY <3>1, <3>4 DEF new
  <2> QED
    BY <2>8, <2>9
<1> QED
  BY <1>2, <1>3

\* Time passes: counters end their window or not.
LEMMA TickPace ==
  ASSUME BurstInv, Tick
  PROVE  PaceInv'
<1> SUFFICES ASSUME NEW gate \in Gates, NEW k \in Keys
             PROVE  Paced(Limit(gate), GateCounter(gate, k)'.value,
                          GateCounter(gate, k)'.expiresAt,
                          granted[<<gate, k>>], now + 1)
  BY DEF PaceInv, GateCounter, Tick
<1> DEFINE old == GateCounter(gate, k)
           new == GateCounter(gate, k)'
           L == granted[<<gate, k>>]
<1>1. /\ Limit(gate) \in Nat \ {0} /\ old.value \in Nat
      /\ old.expiresAt \in Deadlines /\ L \in Seq(Nat) /\ now \in Nat
      /\ <<Counter(gate), k>> \in RedisKeys
  BY GateTypes DEF BurstInv, TypeInv
<1>2. Paced(Limit(gate), old.value, old.expiresAt, L, now)
  BY DEF BurstInv, PaceInv
<1>3. \/ new = old
      \/ /\ old.expiresAt # Never /\ now + 1 >= old.expiresAt
         /\ new.value = 0 /\ new.expiresAt = Never
  BY <1>1 DEF Tick, Purged, Expired, Absent, GateCounter
<1> HIDE DEF old, new, L
<1>4. /\ Paced(Limit(gate), old.value, old.expiresAt, L, now + 1)
      /\ old.expiresAt # Never /\ now + 1 >= old.expiresAt
           => Paced(Limit(gate), 0, Never, L, now + 1)
  BY <1>1, <1>2, PacedOther
<1>5. Paced(Limit(gate), new.value, new.expiresAt, L, now + 1)
  BY <1>3, <1>4
<1> QED
  BY <1>5 DEF new, L

LEMMA InitPace == Init => PaceInv
<1> SUFFICES ASSUME Init, NEW gate \in Gates, NEW k \in Keys
             PROVE  Paced(Limit(gate), GateCounter(gate, k).value,
                          GateCounter(gate, k).expiresAt,
                          granted[<<gate, k>>], now)
  BY DEF PaceInv
<1>1. granted[<<gate, k>>] = <<>> /\ Len(granted[<<gate, k>>]) = 0
  BY DEF Init
<1>2. <<Counter(gate), k>> \in RedisKeys
  BY DEF Counter, RedisKeys, Counters
<1> QED
  BY <1>1, <1>2, \A i : i \notin 1 .. 0 DEF Paced

LEMMA StepPace == BurstInv /\ [Next]_vars => PaceInv'
<1> SUFFICES ASSUME BurstInv, [Next]_vars PROVE PaceInv'
  OBVIOUS
<1>1. CASE Tick
  BY <1>1, TickPace
<1>2. ASSUME NEW c, NEW op, NEW k, Begin(c, op, k) PROVE PaceInv'
  BY <1>2 DEF Begin, BurstInv, PaceInv, GateCounter
<1>3. ASSUME NEW c \in Calls, CallStep(c) PROVE PaceInv'
  <2>1. call[c].at # "idle"
    BY <1>3 DEF CallStep, CommandStep, GetLock, Incr, Expire, SetLock, Del,
                Fail, Resend, InFlight, Commands
  <2>2. CASE Incr(c)
    BY <2>2, IncrPace
  <2>3. CASE GetLock(c) \/ Expire(c) \/ SetLock(c) \/ Del(c)
    BY <2>1, <2>3, UnloggedPace DEF GetLock, Expire, SetLock, Del
  <2>4. CASE Fail(c) \/ Resend(c)
    BY <2>1, <2>4, UnloggedPace DEF Fail, Resend
  <2> QED
    BY <1>3, <2>2, <2>3, <2>4 DEF CallStep, CommandStep
<1>4. CASE UNCHANGED vars
  BY <1>4 DEF vars, BurstInv, PaceInv, GateCounter
<1> QED
  BY <1>1, <1>2, <1>3, <1>4 DEF Next

\* The burst bound of the rate limiter: for every limit and window, however
\* calls interleave and whatever Redis loses, at most 2 * Limit - 1 calls of
\* a key pass a gate in any interval shorter than Window.
THEOREM BurstIsBounded == Spec => []BoundedBurst
<1>1. BurstInv => BoundedBurst
  <2> SUFFICES ASSUME BurstInv, NEW gate \in Gates, NEW k \in Keys,
                      NEW i \in DOMAIN granted[<<gate, k>>],
                      i + (2 * Limit(gate) - 1) \in DOMAIN granted[<<gate, k>>]
               PROVE  granted[<<gate, k>>][i + (2 * Limit(gate) - 1)]
                        >= granted[<<gate, k>>][i] + Window
    BY DEF BoundedBurst
  <2>1. DOMAIN granted[<<gate, k>>] = 1 .. Len(granted[<<gate, k>>])
    BY GateTypes DEF BurstInv, TypeInv
  <2> QED
    BY <2>1 DEF BurstInv, PaceInv, Paced
<1>2. Init => BurstInv
  BY InitTypeInv, InitPace DEF BurstInv
<1>3. BurstInv /\ [Next]_vars => BurstInv'
  BY StepTypeInv, StepPace DEF BurstInv
<1> QED
  BY <1>1, <1>2, <1>3, PTL DEF Spec

---------------------------------------------------------------------------
(* Lockouts. *)

LockOf(k) == redis[<<"lock", k>>]

\* Deadlines lie at most one period ahead.
DeadlineInv ==
  /\ \A gate \in Gates, k \in Keys :
       GateCounter(gate, k).expiresAt # Never
         => GateCounter(gate, k).expiresAt <= now + Window
  /\ \A k \in Keys :
       LockOf(k).expiresAt # Never => LockOf(k).expiresAt <= now + Lockout

LockInv == TypeInv /\ DeadlineInv

\* What a command does to a lockout: nothing, the SET, or the DEL of a clear.
LEMMA ExecutedLock ==
  ASSUME TypeInv, NEW c \in Calls, call[c].at # "idle", NEW k \in Keys
  PROVE  LET new == Executed(c)[<<"lock", k>>]
         IN \/ new = LockOf(k)
            \/ new.value = 1 /\ new.expiresAt = now + Lockout
            \/ /\ call[c].at = "del" /\ call[c].op = "clear"
               /\ call[c].key = k
               /\ new.value = 0 /\ new.expiresAt = Never
<1> DEFINE lk == <<"lock", k>>
<1>1. lk \in RedisKeys /\ lk[1] = "lock" /\ lk[2] = k /\ redis \in Store
  BY TypeOKStore DEF TypeInv, GoodStore, RedisKeys
<1>2. CounterOf(c) \in RedisKeys /\ CounterOf(c) # lk
  BY <1>1, CounterType DEF TypeInv
<1> USE DEF Store
<1>3. CASE call[c].at = "incr"
  <2>1. Executed(c) = [redis EXCEPT ![CounterOf(c)].value = @ + 1]
    BY <1>3 DEF Executed, Incremented
  <2> HIDE DEF lk
  <2>2. Executed(c)[lk] = redis[lk]
    BY <1>1, <1>2, <2>1
  <2> QED
    BY <2>2 DEF lk, LockOf
<1>4. CASE call[c].at = "expire"
  <2>1. Executed(c) = Expiring(CounterOf(c), Ttl(call[c].op))
    BY <1>4 DEF Executed
  <2> HIDE DEF lk
  <2>2. Executed(c)[lk] = redis[lk]
    BY <1>1, <1>2, <2>1 DEF Expiring
  <2> QED
    BY <2>2 DEF lk, LockOf
<1>5. CASE call[c].at = "set"
  <2> DEFINE mine == <<"lock", call[c].key>>
             entry == [value |-> 1, expiresAt |-> now + Lockout]
  <2>1. Executed(c) = [redis EXCEPT ![mine] = entry]
    BY <1>5 DEF Executed, Locked
  <2>2. entry.value = 1 /\ entry.expiresAt = now + Lockout
    OBVIOUS
  <2> HIDE DEF lk, mine, entry
  <2>3. Executed(c)[lk] \in {redis[lk], entry}
    BY <1>1, <2>1
  <2> QED
    BY <2>2, <2>3 DEF lk, LockOf
<1>6. CASE call[c].at = "del"
  <2>1. Executed(c)[lk] =
          IF lk[1] \in DelKinds(call[c].op) /\ lk[2] = call[c].key
            THEN Absent ELSE redis[lk]
    BY <1>1, <1>6 DEF Executed, Deleted
  <2>2. CASE call[c].op = "clear" /\ call[c].key = k
    BY <1>1, <1>6, <2>1, <2>2 DEF DelKinds, Absent
  <2>3. CASE ~ (call[c].op = "clear" /\ call[c].key = k)
    BY <1>1, <2>1, <2>3 DEF DelKinds, LockOf
  <2> QED
    BY <2>2, <2>3
<1>7. CASE call[c].at \notin {"incr", "expire", "set", "del"}
  BY <1>7 DEF Executed, LockOf
<1> QED
  BY <1>3, <1>4, <1>5, <1>6, <1>7

LEMMA LockTypes ==
  ASSUME TypeOK, NEW k \in Keys
  PROVE  /\ <<"lock", k>> \in RedisKeys
         /\ LockOf(k).value \in Nat /\ LockOf(k).expiresAt \in Deadlines
         /\ LockOf(k).value # 0 => LockOf(k).expiresAt \in Nat
         /\ now \in Nat
BY DEF TypeOK, RedisKeys, LockOf, Deadlines

\* Where a step comes from: the clock, a command that took effect, or neither.
LEMMA StoreSteps ==
  ASSUME TypeInv, [Next]_vars
  PROVE  \/ Tick
         \/ /\ now' = now
            /\ \/ redis' = redis
               \/ \E c \in Calls : call[c].at # "idle" /\ redis' = Executed(c)
<1>1. ASSUME NEW c \in Calls, CallStep(c)
      PROVE  /\ call[c].at # "idle" /\ now' = now
             /\ redis' \in {redis, Executed(c)}
  BY <1>1 DEF CallStep, CommandStep, GetLock, Incr, Expire, SetLock, Del,
              Fail, Resend, InFlight, Commands
<1>2. ASSUME NEW c, NEW op, NEW k, Begin(c, op, k)
      PROVE  UNCHANGED <<now, redis>>
  BY <1>2 DEF Begin
<1>3. CASE UNCHANGED vars
  BY <1>3 DEF vars
<1> QED
  BY <1>1, <1>2, <1>3 DEF Next

LEMMA InitDeadlines == Init => DeadlineInv
<1>1. \A gate \in Gates, k \in Keys : <<Counter(gate), k>> \in RedisKeys
  BY DEF Counter, RedisKeys, Counters
<1>2. \A k \in Keys : <<"lock", k>> \in RedisKeys
  BY DEF RedisKeys
<1> QED
  BY <1>1, <1>2 DEF Init, DeadlineInv, GateCounter, LockOf, Absent

LEMMA StepDeadlines == LockInv /\ [Next]_vars => DeadlineInv'
<1> SUFFICES ASSUME LockInv, [Next]_vars PROVE DeadlineInv'
  OBVIOUS
<1> USE TimesAssumption DEF LockInv, Deadlines
<1>1. ASSUME NEW gate \in Gates, NEW k \in Keys,
             GateCounter(gate, k)'.expiresAt # Never
      PROVE  GateCounter(gate, k)'.expiresAt <= now' + Window
  <2>1. /\ GateCounter(gate, k).expiresAt \in Deadlines
        /\ <<Counter(gate), k>> \in RedisKeys /\ now \in Nat
    BY GateTypes DEF TypeInv
  <2>2. CASE Tick
    BY <1>1, <2>1, <2>2
       DEF DeadlineInv, Tick, Purged, Absent, GateCounter
  <2>3. CASE now' = now /\ redis' = redis
    BY <1>1, <2>3 DEF DeadlineInv, GateCounter
  <2>4. ASSUME NEW c \in Calls, call[c].at # "idle", redis' = Executed(c),
               now' = now
        PROVE  GateCounter(gate, k)'.expiresAt <= now' + Window
    <3>1. GateCounter(gate, k)'.expiresAt
            \in {GateCounter(gate, k).expiresAt, now + Window}
      BY <2>4, ExecutedGate DEF GateCounter
    <3> QED
      BY <1>1, <2>1, <2>4, <3>1 DEF DeadlineInv
  <2> QED
    BY <2>2, <2>3, <2>4, StoreSteps
<1>2. ASSUME NEW k \in Keys, LockOf(k)'.expiresAt # Never
      PROVE  LockOf(k)'.expiresAt <= now' + Lockout
  <2>1. /\ LockOf(k).expiresAt \in Deadlines
        /\ <<"lock", k>> \in RedisKeys /\ now \in Nat
    BY LockTypes DEF TypeInv
  <2>2. CASE Tick
    BY <1>2, <2>1, <2>2 DEF DeadlineInv, Tick, Purged, Absent, LockOf
  <2>3. CASE now' = now /\ redis' = redis
    BY <1>2, <2>3 DEF DeadlineInv, LockOf
  <2>4. ASSUME NEW c \in Calls, call[c].at # "idle", redis' = Executed(c),
               now' = now
        PROVE  LockOf(k)'.expiresAt <= now' + Lockout
    <3>1. LockOf(k)'.expiresAt
            \in {LockOf(k).expiresAt, now + Lockout, Never}
      BY <2>4, ExecutedLock DEF LockOf
    <3> QED
      BY <1>2, <2>1, <2>4, <3>1 DEF DeadlineInv
  <2> QED
    BY <2>2, <2>3, <2>4, StoreSteps
<1> QED
  BY <1>1, <1>2 DEF DeadlineInv

\* One step and a lockout.
LEMMA StepLock ==
  ASSUME LockInv, [Next]_vars, NEW k \in Keys,
         LockOf(k).value # 0, now' < LockOf(k).expiresAt
  PROVE  \/ LockOf(k)'.value # 0 /\ LockOf(k)'.expiresAt >= LockOf(k).expiresAt
         \/ \E c \in Calls : /\ call[c].op = "clear" /\ call[c].key = k
                             /\ call[c].at = "del"
<1> USE TimesAssumption DEF LockInv
<1>1. /\ LockOf(k).expiresAt \in Nat /\ now \in Nat
      /\ <<"lock", k>> \in RedisKeys
  BY LockTypes DEF TypeInv
<1>2. LockOf(k).expiresAt <= now + Lockout
  BY <1>1 DEF DeadlineInv
<1>3. CASE Tick
  <2>1. ~ Expired(LockOf(k), now + 1)
    BY <1>1, <1>3 DEF Tick, Expired
  <2>2. LockOf(k)' = LockOf(k)
    BY <1>1, <1>3, <2>1 DEF Tick, Purged, LockOf
  <2> QED
    BY <1>1, <2>2
<1>4. CASE now' = now /\ redis' = redis
  BY <1>1, <1>4 DEF LockOf
<1>5. ASSUME NEW c \in Calls, call[c].at # "idle", redis' = Executed(c)
      PROVE  \/ /\ LockOf(k)'.value # 0
                /\ LockOf(k)'.expiresAt >= LockOf(k).expiresAt
             \/ /\ call[c].op = "clear" /\ call[c].key = k
                /\ call[c].at = "del"
  <2>1. \/ LockOf(k)' = LockOf(k)
        \/ LockOf(k)'.value = 1 /\ LockOf(k)'.expiresAt = now + Lockout
        \/ call[c].op = "clear" /\ call[c].key = k /\ call[c].at = "del"
    BY <1>5, ExecutedLock DEF LockOf
  <2> QED
    BY <1>1, <1>2, <2>1
<1> QED
  BY <1>3, <1>4, <1>5, StoreSteps

\* A lockout holds: until its deadline nothing shortens or removes it but the
\* DEL of a successful call, also when Redis fails or repeats a command.
THEOREM LockoutHolds == Spec => LockHolds
<1>1. Init => LockInv
  BY InitTypeInv, InitDeadlines DEF LockInv
<1>2. LockInv /\ [Next]_vars => LockInv'
  BY StepTypeInv, StepDeadlines DEF LockInv
<1> DEFINE Held ==
      \A k \in Keys :
        LET lock == redis[<<"lock", k>>]
            next == redis'[<<"lock", k>>]
        IN (lock.value # 0 /\ now' < lock.expiresAt)
             => \/ next.value # 0 /\ next.expiresAt >= lock.expiresAt
                \/ \E c \in Calls : /\ call[c].op = "clear"
                                    /\ call[c].key = k
                                    /\ call[c].at = "del"
<1>3. LockInv /\ [Next]_vars => [Held]_vars
  BY StepLock DEF LockOf
<1>4. Spec => [][Held]_vars
  BY <1>1, <1>2, <1>3, PTL DEF Spec
<1> QED
  BY <1>4 DEF LockHolds

---------------------------------------------------------------------------
(* What holds while Redis answers (faults = 0). *)

\* The call that drew 1 has not set the deadline yet.
OwesDeadline(c, rk) == call[c].at = "expire" /\ CounterOf(c) = rk

\* A registration that is about to lock the key.  One that drew 1 is so only
\* when a single failure locks.
OwesLock(c, k) ==
  /\ call[c].op = "failure" /\ call[c].key = k
  /\ \/ call[c].at \in {"set", "del"}
     \/ call[c].at = "expire" /\ MaxFailures = 1

OwedInv ==
  /\ \A rk \in Counters \X Keys :
       redis[rk].value # 0 /\ redis[rk].expiresAt = Never
         => \E c \in Calls : OwesDeadline(c, rk)
  /\ \A k \in Keys :
       redis[<<"fail", k>>].value >= MaxFailures
         => \E c \in Calls : OwesLock(c, k)

ReliableInv == TypeInv /\ OwedInv

\* A call that a step leaves alone still owes what it owed.
LEMMA StillOwes ==
  ASSUME NEW c, call'[c] = call[c]
  PROVE  /\ \A rk : OwesDeadline(c, rk) => OwesDeadline(c, rk)'
         /\ \A k : OwesLock(c, k) => OwesLock(c, k)'
BY DEF OwesDeadline, OwesLock, CounterOf

\* A step that only lets entries alone or removes them, and no call that owes.
LEMMA OwedByOthers ==
  ASSUME OwedInv,
         \A rk \in Counters \X Keys :
           redis'[rk] = redis[rk] \/ redis'[rk] = Absent,
         \A c \in Calls : \/ call'[c] = call[c]
                          \/ call[c].at \notin {"expire", "set", "del"}
  PROVE  OwedInv'
<1>1. ASSUME NEW rk \in Counters \X Keys,
             redis'[rk].value # 0 /\ redis'[rk].expiresAt = Never
      PROVE  \E c \in Calls : OwesDeadline(c, rk)'
  <2>1. redis'[rk] = redis[rk]
    BY <1>1 DEF Absent
  <2>2. PICK c \in Calls : OwesDeadline(c, rk)
    BY <1>1, <2>1 DEF OwedInv
  <2>3. call'[c] = call[c]
    BY <2>2 DEF OwesDeadline
  <2> QED
    BY <2>2, <2>3, StillOwes
<1>2. ASSUME NEW k \in Keys, redis'[<<"fail", k>>].value >= MaxFailures
      PROVE  \E c \in Calls : OwesLock(c, k)'
  <2>1. <<"fail", k>> \in Counters \X Keys
    BY DEF Counters
  <2>2. redis'[<<"fail", k>>] = redis[<<"fail", k>>]
    BY <1>2, <2>1, LimitsAssumption DEF Absent
  <2>3. PICK c \in Calls : OwesLock(c, k)
    BY <1>2, <2>2 DEF OwedInv
  <2>4. call'[c] = call[c]
    BY <2>3 DEF OwesLock
  <2> QED
    BY <2>3, <2>4, StillOwes
<1> QED
  BY <1>1, <1>2 DEF OwedInv

LEMMA CounterKey ==
  ASSUME TypeInv, NEW c \in Calls, call[c].at \in {"incr", "expire"}
  PROVE  /\ CounterOf(c) \in Counters \X Keys /\ CounterOf(c) \in RedisKeys
         /\ redis \in Store /\ call \in [Calls -> CallRecord]
         /\ call[c].op \in Ops \ {"clear"} /\ call[c].key \in Keys
         /\ \A k : CounterOf(c) = <<"fail", k>>
                    <=> call[c].op = "failure" /\ call[c].key = k
BY TypeOKStore
   DEF TypeInv, Coherent, GoodStore, CounterOf, Counter, Counters, RedisKeys,
       Gates, Ops, CallRecord

\* INCR: the call that draws 1 owes the deadline, the one that draws
\* MaxFailures or more owes the lock.
LEMMA IncrOwed ==
  ASSUME ReliableInv, NEW c \in Calls, Incr(c)
  PROVE  OwedInv'
<1> DEFINE mine == CounterOf(c)
           n == redis[mine].value + 1
           at == IF n = 1 THEN "expire" ELSE AfterCount(call[c].op, n)
<1>1. /\ call[c].at = "incr"
      /\ redis' = [redis EXCEPT ![mine].value = @ + 1]
      /\ call' = [call EXCEPT ![c].at = at]
  BY DEF Incr, Goto, Executed, Incremented
<1>2. /\ mine \in Counters \X Keys /\ mine \in RedisKeys /\ redis \in Store
      /\ call \in [Calls -> CallRecord]
      /\ call[c].op \in Ops \ {"clear"} /\ call[c].key \in Keys
      /\ \A k : mine = <<"fail", k>>
                 <=> call[c].op = "failure" /\ call[c].key = k
  BY <1>1, CounterKey DEF ReliableInv
<1>3. /\ call'[c].at = at /\ call'[c].op = call[c].op
      /\ call'[c].key = call[c].key /\ CounterOf(c)' = mine
      /\ \A d \in Calls : d # c => call'[d] = call[d]
  BY <1>1, <1>2 DEF CallRecord, CounterOf
<1>4. redis[mine].value \in Nat
  BY <1>2 DEF Store
<1>5. /\ redis'[mine].value = n
      /\ redis'[mine].expiresAt = redis[mine].expiresAt
      /\ \A rk \in RedisKeys : rk # mine => redis'[rk] = redis[rk]
  BY <1>1, <1>2 DEF Store
<1> HIDE DEF mine
<1>6. ASSUME NEW rk \in Counters \X Keys,
             redis'[rk].value # 0 /\ redis'[rk].expiresAt = Never
      PROVE  \E d \in Calls : OwesDeadline(d, rk)'
  <2>1. CASE rk = mine /\ n = 1
    BY <1>3, <2>1 DEF OwesDeadline
  <2>2. CASE ~ (rk = mine /\ n = 1)
    <3>1. rk \in RedisKeys
      BY DEF RedisKeys
    <3>2. redis[rk].value # 0 /\ redis[rk].expiresAt = Never
      BY <1>4, <1>5, <1>6, <2>2, <3>1
    <3>3. PICK d \in Calls : OwesDeadline(d, rk)
      BY <3>2 DEF ReliableInv, OwedInv
    <3>4. d # c
      BY <1>1, <3>3 DEF OwesDeadline
    <3> QED
      BY <1>3, <3>3, <3>4, StillOwes
  <2> QED
    BY <2>1, <2>2
<1>7. ASSUME NEW k \in Keys, redis'[<<"fail", k>>].value >= MaxFailures
      PROVE  \E d \in Calls : OwesLock(d, k)'
  <2>1. CASE mine = <<"fail", k>>
    <3>1. n >= MaxFailures /\ call[c].op = "failure" /\ call[c].key = k
      BY <1>2, <1>5, <1>7, <2>1
    <3>2. at = "set" \/ (at = "expire" /\ MaxFailures = 1)
      BY <1>4, <3>1, LimitsAssumption DEF AfterCount
    <3> HIDE DEF at
    <3> QED
      BY <1>3, <3>1, <3>2 DEF OwesLock
  <2>2. CASE mine # <<"fail", k>>
    <3>1. <<"fail", k>> \in RedisKeys
      BY DEF RedisKeys, Counters
    <3>2. PICK d \in Calls : OwesLock(d, k)
      BY <1>5, <1>7, <2>2, <3>1 DEF ReliableInv, OwedInv
    <3>3. d # c
      BY <1>1, <3>2 DEF OwesLock
    <3> QED
      BY <1>3, <3>2, <3>3, StillOwes
  <2> QED
    BY <2>1, <2>2
<1> QED
  BY <1>6, <1>7 DEF OwedInv

\* EXPIRE pays the deadline.
LEMMA ExpireOwed ==
  ASSUME ReliableInv, NEW c \in Calls, Expire(c)
  PROVE  OwedInv'
<1> DEFINE mine == CounterOf(c)
           at == AfterCount(call[c].op, 1)
<1>1. /\ call[c].at = "expire"
      /\ redis' = Expiring(mine, Ttl(call[c].op))
      /\ call' = [call EXCEPT ![c].at = at]
  BY DEF Expire, Goto, Executed
<1>2. /\ mine \in RedisKeys /\ redis \in Store
      /\ call \in [Calls -> CallRecord]
      /\ \A k : mine = <<"fail", k>>
                 <=> call[c].op = "failure" /\ call[c].key = k
  BY <1>1, CounterKey DEF ReliableInv
<1>3. /\ call'[c].at = at /\ call'[c].op = call[c].op
      /\ call'[c].key = call[c].key
      /\ \A d \in Calls : d # c => call'[d] = call[d]
  BY <1>1, <1>2 DEF CallRecord
<1>4. now + Ttl(call[c].op) \in Nat
  BY TimesAssumption DEF ReliableInv, TypeInv, TypeOK, Ttl
<1> HIDE DEF mine
<1>5. /\ \A rk \in RedisKeys : redis'[rk].value = redis[rk].value
      /\ \A rk \in RedisKeys : rk # mine => redis'[rk] = redis[rk]
      /\ redis[mine].value # 0 => redis'[mine].expiresAt # Never
  BY <1>1, <1>2, <1>4, TimesAssumption DEF Expiring, Store
<1>6. ASSUME NEW rk \in Counters \X Keys,
             redis'[rk].value # 0 /\ redis'[rk].expiresAt = Never
      PROVE  \E d \in Calls : OwesDeadline(d, rk)'
  <2>1. rk \in RedisKeys
    BY DEF RedisKeys
  <2>2. rk # mine
    BY <1>5, <1>6, <2>1
  <2>3. PICK d \in Calls : OwesDeadline(d, rk)
    BY <1>5, <1>6, <2>1, <2>2 DEF ReliableInv, OwedInv
  <2>4. d # c
    BY <2>2, <2>3 DEF OwesDeadline, mine
  <2> QED
    BY <1>3, <2>3, <2>4, StillOwes
<1>7. ASSUME NEW k \in Keys, redis'[<<"fail", k>>].value >= MaxFailures
      PROVE  \E d \in Calls : OwesLock(d, k)'
  <2>1. <<"fail", k>> \in RedisKeys
    BY DEF RedisKeys, Counters
  <2>2. PICK d \in Calls : OwesLock(d, k)
    BY <1>5, <1>7, <2>1 DEF ReliableInv, OwedInv
  <2>3. CASE d # c
    BY <1>3, <2>2, <2>3, StillOwes
  <2>4. CASE d = c
    <3>1. call[c].op = "failure" /\ call[c].key = k /\ MaxFailures = 1
      BY <1>1, <2>2, <2>4 DEF OwesLock
    <3>2. at = "set"
      BY <3>1 DEF AfterCount
    <3> HIDE DEF at
    <3> QED
      BY <1>3, <3>1, <3>2 DEF OwesLock
  <2> QED
    BY <2>3, <2>4
<1> QED
  BY <1>6, <1>7 DEF OwedInv

\* SET leaves the counters alone and its call still owes the DEL.
LEMMA SetOwed ==
  ASSUME ReliableInv, NEW c \in Calls, SetLock(c)
  PROVE  OwedInv'
<1>1. /\ call[c].at = "set" /\ redis' = Locked(call[c].key)
      /\ call' = [call EXCEPT ![c].at = "del"]
  BY DEF SetLock, Goto, Executed
<1>2. call \in [Calls -> CallRecord] /\ redis \in Store
  BY TypeOKStore DEF ReliableInv, TypeInv, GoodStore
<1>3. /\ call'[c].at = "del" /\ call'[c].op = call[c].op
      /\ call'[c].key = call[c].key
      /\ \A d \in Calls : d # c => call'[d] = call[d]
  BY <1>1, <1>2 DEF CallRecord
<1>4. ASSUME NEW rk \in Counters \X Keys PROVE redis'[rk] = redis[rk]
  <2>1. rk \in RedisKeys /\ rk[1] # "lock"
    BY DEF RedisKeys, Counters
  <2>2. <<"lock", call[c].key>>[1] = "lock"
    OBVIOUS
  <2>3. rk # <<"lock", call[c].key>>
    BY <2>1, <2>2
  <2> QED
    BY <1>1, <1>2, <2>1, <2>3 DEF Locked, Store
<1>5. ASSUME NEW rk \in Counters \X Keys,
             redis'[rk].value # 0 /\ redis'[rk].expiresAt = Never
      PROVE  \E d \in Calls : OwesDeadline(d, rk)'
  <2>1. PICK d \in Calls : OwesDeadline(d, rk)
    BY <1>4, <1>5 DEF ReliableInv, OwedInv
  <2>2. d # c
    BY <1>1, <2>1 DEF OwesDeadline
  <2> QED
    BY <1>3, <2>1, <2>2, StillOwes
<1>6. ASSUME NEW k \in Keys, redis'[<<"fail", k>>].value >= MaxFailures
      PROVE  \E d \in Calls : OwesLock(d, k)'
  <2>1. <<"fail", k>> \in Counters \X Keys
    BY DEF Counters
  <2>2. PICK d \in Calls : OwesLock(d, k)
    BY <1>4, <1>6, <2>1 DEF ReliableInv, OwedInv
  <2>3. CASE d # c
    BY <1>3, <2>2, <2>3, StillOwes
  <2>4. CASE d = c
    BY <1>3, <2>2, <2>4 DEF OwesLock
  <2> QED
    BY <2>3, <2>4
<1> QED
  BY <1>5, <1>6 DEF OwedInv

\* DEL removes the failures that its call owed the lock for.
LEMMA DelOwed ==
  ASSUME ReliableInv, NEW c \in Calls, Del(c)
  PROVE  OwedInv'
<1> DEFINE kinds == DelKinds(call[c].op)
<1>1. /\ call[c].at = "del" /\ redis' = Deleted(kinds, call[c].key)
      /\ \E at : call' = [call EXCEPT ![c].at = at]
  BY DEF Del, Goto, Executed
<1>2. call \in [Calls -> CallRecord] /\ redis \in Store
  BY TypeOKStore DEF ReliableInv, TypeInv, GoodStore
<1>3. \A d \in Calls : d # c => call'[d] = call[d]
  BY <1>1, <1>2
<1>4. "fail" \in kinds
  BY DEF DelKinds
<1> HIDE DEF kinds
<1>5. \A rk \in RedisKeys :
        redis'[rk] = IF rk[1] \in kinds /\ rk[2] = call[c].key
                       THEN Absent ELSE redis[rk]
  BY <1>1 DEF Deleted
<1>6. ASSUME NEW rk \in Counters \X Keys,
             redis'[rk].value # 0 /\ redis'[rk].expiresAt = Never
      PROVE  \E d \in Calls : OwesDeadline(d, rk)'
  <2>1. rk \in RedisKeys
    BY DEF RedisKeys
  <2>2. redis'[rk] = redis[rk]
    BY <1>5, <1>6, <2>1 DEF Absent
  <2>3. PICK d \in Calls : OwesDeadline(d, rk)
    BY <1>6, <2>2 DEF ReliableInv, OwedInv
  <2>4. d # c
    BY <1>1, <2>3 DEF OwesDeadline
  <2> QED
    BY <1>3, <2>3, <2>4, StillOwes
<1>7. ASSUME NEW k \in Keys, redis'[<<"fail", k>>].value >= MaxFailures
      PROVE  \E d \in Calls : OwesLock(d, k)'
  <2>1. /\ <<"fail", k>> \in RedisKeys /\ <<"fail", k>>[1] = "fail"
        /\ <<"fail", k>>[2] = k
    BY DEF RedisKeys, Counters
  <2>2. /\ k # call[c].key
        /\ redis'[<<"fail", k>>] = redis[<<"fail", k>>]
    BY <1>4, <1>5, <1>7, <2>1, LimitsAssumption DEF Absent
  <2>3. PICK d \in Calls : OwesLock(d, k)
    BY <1>7, <2>2 DEF ReliableInv, OwedInv
  <2>4. d # c
    BY <2>2, <2>3 DEF OwesLock
  <2> QED
    BY <1>3, <2>3, <2>4, StillOwes
<1> QED
  BY <1>6, <1>7 DEF OwedInv

LEMMA StepOwed ==
  ASSUME ReliableInv, [Next]_vars, faults' = 0
  PROVE  OwedInv'
<1>1. call \in [Calls -> CallRecord] /\ faults \in Nat
  BY TypeOKStore DEF ReliableInv, TypeInv, TypeOK
<1>2. CASE Tick
  <2>1. ASSUME NEW rk \in Counters \X Keys
        PROVE  redis'[rk] = redis[rk] \/ redis'[rk] = Absent
    <3>1. rk \in RedisKeys
      BY DEF RedisKeys
    <3> QED
      BY <1>2, <3>1 DEF Tick, Purged
  <2>2. call' = call
    BY <1>2 DEF Tick
  <2> QED
    BY <2>1, <2>2, OwedByOthers DEF ReliableInv
<1>3. ASSUME NEW c \in Calls, NEW op \in Ops, NEW k \in Keys, Begin(c, op, k)
      PROVE  OwedInv'
  <2>1. call' = [call EXCEPT ![c] =
                   [op |-> op, key |-> k, at |-> FirstCommand(op)]]
    BY <1>3 DEF Begin
  <2>2. call[c].at \notin {"expire", "set", "del"} /\ redis' = redis
    BY <1>3 DEF Begin, InFlight, Commands
  <2>3. \A d \in Calls : d # c => call'[d] = call[d]
    BY <1>1, <2>1
  <2> QED
    BY <2>2, <2>3, OwedByOthers DEF ReliableInv
<1>4. ASSUME NEW c \in Calls, GetLock(c) PROVE OwedInv'
  <2>1. call[c].at = "get" /\ redis' = redis
    BY <1>4 DEF GetLock
  <2>2. \A d \in Calls : d # c => call'[d] = call[d]
    BY <1>1, <1>4 DEF GetLock, Goto
  <2> QED
    BY <2>1, <2>2, OwedByOthers DEF ReliableInv
<1>5. ASSUME NEW c \in Calls, Fail(c) \/ Resend(c) PROVE FALSE
  BY <1>1, <1>5 DEF Fail, Resend
<1>6. CASE UNCHANGED vars
  BY <1>6, OwedByOthers DEF vars, ReliableInv
<1> QED
  BY <1>2, <1>3, <1>4, <1>5, <1>6, IncrOwed, ExpireOwed, SetOwed, DelOwed
     DEF Next, CallStep, CommandStep

\* Faults are never forgotten.
LEMMA FaultsCount ==
  ASSUME TypeInv, [Next]_vars, faults' = 0
  PROVE  faults = 0
<1>1. faults \in Nat
  BY DEF TypeInv, TypeOK
<1>2. faults' \in {faults, faults + 1}
  BY DEF Next, vars, Tick, Begin, CallStep, CommandStep, GetLock, Incr, Expire,
         SetLock, Del, Fail, Resend
<1> QED
  BY <1>1, <1>2

WhileReliable == TypeInv /\ DeadlineInv /\ (faults = 0 => OwedInv)

LEMMA ReliableInvariant == Spec => []WhileReliable
<1>1. Init => WhileReliable
  <2>1. ASSUME Init PROVE OwedInv
    <3>1. /\ \A rk \in Counters \X Keys : rk \in RedisKeys
          /\ \A k \in Keys : <<"fail", k>> \in RedisKeys
      BY DEF RedisKeys, Counters
    <3> QED
      BY <2>1, <3>1, LimitsAssumption DEF Init, OwedInv, Absent
  <2> QED
    BY <2>1, InitTypeInv, InitDeadlines DEF WhileReliable
<1>2. WhileReliable /\ [Next]_vars => WhileReliable'
  <2> SUFFICES ASSUME WhileReliable, [Next]_vars PROVE WhileReliable'
    OBVIOUS
  <2>1. TypeInv' /\ DeadlineInv'
    BY StepTypeInv, StepDeadlines DEF WhileReliable, LockInv
  <2>2. ASSUME faults' = 0 PROVE OwedInv'
    BY <2>2, FaultsCount, StepOwed DEF WhileReliable, ReliableInv
  <2>3. QED
    BY <2>1, <2>2 DEF WhileReliable
<1> QED
  BY <1>1, <1>2, PTL DEF Spec

\* As long as Redis answers, no counter is left without a deadline.
THEOREM ReliableCountersExpire == Spec => []CountersExpire
<1>1. WhileReliable => CountersExpire
  BY DEF WhileReliable, OwedInv, CountersExpire, DeadlineOwed, OwesDeadline
<1> QED
  BY <1>1, ReliableInvariant, PTL

\* As long as Redis answers, a gate that refuses calls opens within one Window.
THEOREM ReliableRefusal == Spec => []RefusalIsTemporaryWithRedis
<1>1. WhileReliable => RefusalIsTemporaryWithRedis
  <2> SUFFICES ASSUME TypeInv, DeadlineInv, OwedInv,
                      NEW gate \in Gates, NEW k \in Keys,
                      GateCounter(gate, k).value >= Limit(gate)
               PROVE  \/ DeadlineOwed(<<Counter(gate), k>>)
                      \/ /\ GateCounter(gate, k).expiresAt # Never
                         /\ GateCounter(gate, k).expiresAt <= now + Window
    BY DEF WhileReliable, RefusalIsTemporaryWithRedis, RefusalIsTemporary, GateCounter
  <2>1. GateCounter(gate, k).value # 0
    <3>1. Limit(gate) \in Nat \ {0} /\ GateCounter(gate, k).value \in Nat
      BY GateTypes DEF TypeInv
    <3> QED
      BY <3>1
  <2>2. <<Counter(gate), k>> \in Counters \X Keys
    BY DEF Counter, Counters
  <2>3. CASE GateCounter(gate, k).expiresAt = Never
    BY <2>1, <2>2, <2>3
       DEF OwedInv, GateCounter, DeadlineOwed, OwesDeadline
  <2>4. CASE GateCounter(gate, k).expiresAt # Never
    BY <2>4 DEF DeadlineInv
  <2> QED
    BY <2>3, <2>4
<1> QED
  BY <1>1, ReliableInvariant, PTL

\* As long as Redis answers, MaxFailures failures always lead to a lockout:
\* some call is on its way to set it.
THEOREM ReliableFailuresLock == Spec => []FailuresLock
<1>1. WhileReliable => FailuresLock
  BY DEF WhileReliable, OwedInv, FailuresLock, OwesLock
<1> QED
  BY <1>1, ReliableInvariant, PTL

=============================================================================
