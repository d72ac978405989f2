--------------------------- MODULE AccountsProofs ---------------------------
(***************************************************************************)
(* What module Accounts keeps for every number of users, requests, values, *)
(* payloads and faults.                                                    *)
(***************************************************************************)
EXTENDS Accounts, FiniteSetTheorems, SequenceTheorems, WellFoundedInduction, TLAPS

---------------------------------------------------------------------------
(* Numbers of a finite collection have a greatest one. *)

LEMMA Least ==
  ASSUME NEW T \in SUBSET Nat, T # {}
  PROVE  \E m \in T : \A k \in T : ~ (k < m)
<1>1. IsWellFoundedOn(OpToRel(<, Nat), Nat)
  BY NatLessThanWellFounded
<1>2. \E m \in T : \A k \in T : ~ (<<k, m>> \in OpToRel(<, Nat))
  BY <1>1, WFMin
<1>3. \A k, m \in Nat : k < m => <<k, m>> \in OpToRel(<, Nat)
  BY DEF OpToRel
<1>4. QED
  BY <1>2, <1>3, Zenon

\* A finite set of numbers is bounded: the shortest beginning of an enumeration
\* without a bound would be longer, by one, than one that has a bound.
LEMMA FiniteIsBounded ==
  ASSUME NEW S \in SUBSET Nat, IsFiniteSet(S)
  PROVE  \E b \in Nat : \A x \in S : x <= b
<1>1. PICK n \in Nat : ExistsBijection(1..n, S)
  BY FS_NatBijection
<1>2. PICK f \in [1..n -> S] : \A x \in S : \E i \in 1..n : f[i] = x
  BY <1>1 DEF ExistsBijection, Bijection, Surjection
<1> DEFINE T == {k \in 0..n : ~ \E b \in Nat : \A i \in 1..k : f[i] <= b}
<1>3. SUFFICES ASSUME T # {} PROVE FALSE
  <2>1. n \notin T => \E b \in Nat : \A i \in 1..n : f[i] <= b
    OBVIOUS
  <2>2. QED
    BY <1>2, <1>3, <2>1
<1>4. PICK m \in T : \A k \in T : ~ (k < m)
  <2>1. T \in SUBSET Nat
    OBVIOUS
  <2> HIDE DEF T
  <2>2. QED
    BY <1>3, <2>1, Least
<1>5. m \in 0..n /\ ~ \E b \in Nat : \A i \in 1..m : f[i] <= b
  BY <1>4
<1>6. m # 0
  <2>1. m = 0 => \A i \in 1..m : f[i] <= 0
    OBVIOUS
  <2>2. QED
    BY <1>5, <2>1
<1>7. PICK b \in Nat : \A i \in 1..(m - 1) : f[i] <= b
  <2>1. m - 1 \in 0..n /\ m - 1 < m
    BY <1>5, <1>6
  <2>2. m - 1 \notin T
    BY <1>4, <2>1
  <2>3. QED
    BY <2>1, <2>2
<1> HIDE DEF T
<1>8. m \in 1..n /\ \A i \in 1..n : f[i] \in Nat
  <2>1. \A i \in 1..n : f[i] \in S
    OBVIOUS
  <2>2. \A i \in 1..n : f[i] \in Nat
    BY <2>1
  <2>3. m \in 0..n
    BY <1>5
  <2>4. m \in 1..n
    BY <1>6, <2>3
  <2>5. QED
    BY <2>2, <2>4
<1>9. b + f[m] \in Nat /\ \A i \in 1..m : f[i] <= b + f[m]
  <2> SUFFICES ASSUME NEW i \in 1..m PROVE f[i] <= b + f[m]
    BY <1>8
  <2>1. i \in 1..n /\ f[i] \in Nat
    BY <1>8
  <2>2. CASE i = m
    BY <2>1, <2>2, <1>8
  <2>3. CASE i # m
    BY <2>1, <2>3, <1>7, <1>8
  <2>4. QED
    BY <2>2, <2>3
<1>10. QED
  BY <1>5, <1>9

LEMMA MaxIsGreatest ==
  ASSUME NEW S \in SUBSET Nat, S # {}, IsFiniteSet(S)
  PROVE  Max(S) \in S /\ \A x \in S : x <= Max(S)
<1> DEFINE T == {b \in Nat : \A x \in S : x <= b}
<1>1. T # {}
  BY FiniteIsBounded
<1>2. PICK m \in T : \A k \in T : ~ (k < m)
  BY <1>1, Least
<1>3. m \in S
  <2> SUFFICES ASSUME m \notin S PROVE FALSE
    OBVIOUS
  <2>1. PICK y \in S : TRUE
    OBVIOUS
  <2>2. \A x \in S : x < m
    OBVIOUS
  <2>3. m - 1 \in T
    BY <2>1, <2>2
  <2>4. QED
    BY <1>2, <2>3
<1>4. \A y \in S : m >= y
  BY <1>2
<1>5. QED
  BY <1>3, <1>4 DEF Max

LEMMA ImageIsFinite ==
  ASSUME NEW S, IsFiniteSet(S), NEW f \in [S -> Nat], NEW T \in SUBSET {f[x] : x \in S}
  PROVE  IsFiniteSet(T)
<1>1. f \in Surjection(S, {f[x] : x \in S})
  BY DEF Surjection
<1>2. IsFiniteSet({f[x] : x \in S})
  BY <1>1, FS_Surjection
<1>3. QED
  BY <1>2, FS_Subset

---------------------------------------------------------------------------
(* Type correctness. *)

RequestRecord ==
  [kind : Kinds, at : {"idle"} \cup Pending \cup Answers,
   target : Ids \cup {NoId}, given : [Fields -> Values \cup {None}],
   extra : {None, "phone", "document"}, snap : UserRecord,
   todo : Seq(SUBSET Fields), order : Seq(Ids), number : Nat,
   met : SUBSET Requests]

Numbered(user) == user.has["index"] \in Nat \cup {None}

\* Where a request of each kind can be; before it inserts there is no user of
\* its name.
Shaped(us, x, r) ==
  /\ x.at = "idle" => x.kind = "register" /\ x.met = {}
  /\ x.at = "check" => x.kind \in {"register", "create", "update", "edit"}
  /\ x.at \in {"number", "insert"} => x.kind \in {"register", "create", "event"}
  /\ x.at = "profile" => x.kind = "create"
  /\ x.at = "write" => x.kind \in {"update", "edit", "event"}
  /\ x.at \in {"lookup", "writeProfile"} => x.kind = "edit"
  /\ x.at \in {"removeProfiles", "removeUser"} => x.kind = "remove"
  /\ x.at \in {"max", "assign"} => x.kind = "migrate" /\ x.order # <<>>
  /\ x.at = "upsert" => x.kind = "put"
  /\ x.at \in {"idle", "check", "lookup", "number", "insert"} => us[r] = NoUser
  /\ \A i, j \in DOMAIN x.order : i # j => x.order[i] # x.order[j]
  /\ Numbered(x.snap)
  /\ x.kind \in {"update", "edit", "remove", "put"} /\ x.at \in Pending => x.target \in Ids
  /\ x.at = "write" => x.target \in Ids

TypeInv == TypeOK /\ \A r \in Requests : Shaped(users, req[r], r)

LEMMA Known ==
  ASSUME TypeInv
  PROVE  /\ users \in [Ids -> UserRecord \cup {NoUser}]
         /\ req \in [Requests -> RequestRecord]
         /\ \A r \in Requests : req[r] \in RequestRecord /\ Shaped(users, req[r], r)
         /\ \A u \in Ids : users[u] # NoUser => users[u] \in UserRecord /\ Numbered(users[u])
         /\ Live \subseteq Ids /\ Running \subseteq Requests
         /\ profiles \subseteq Ids
  BY DEF TypeInv, TypeOK, RequestRecord, Numbered, Live, Running

LEMMA PayloadType ==
  \A given \in Payloads : given \in [Fields -> Values \cup {None}]
<1>1. Payloads \subseteq [Fields -> Values \cup {None}]
  BY AccountsAssumption, Zenon
<1>2. QED
  BY <1>1

LEMMA BlankType == Blank \in UserRecord /\ Numbered(Blank)
  BY DEF Blank, UserRecord, Numbered, Attributes

LEMMA NewRequestType == NewRequest \in RequestRecord
  BY BlankType DEF NewRequest, RequestRecord, Kinds

LEMMA InitType == Init => TypeInv
<1> SUFFICES ASSUME Init PROVE TypeInv
  OBVIOUS
<1> USE AccountsAssumption
<1>1. users \in [Ids -> UserRecord \cup {NoUser}] /\ \A u \in Live : Numbered(users[u])
  <2> DEFINE seed(u) == [has |-> Seeded[u], by |-> [a \in Attributes |-> {}]]
  <2>1. \A u \in Seeds : seed(u) \in UserRecord /\ Numbered(seed(u))
    BY DEF UserRecord, Numbered
  <2>2. \A u \in Ids : users[u] = IF u \in Seeds THEN seed(u) ELSE NoUser
    BY DEF Init
  <2>3. users = [u \in Ids |-> users[u]]
    BY DEF Init
  <2> HIDE DEF seed
  <2>4. QED
    BY <2>1, <2>2, <2>3 DEF Live
<1>2. TypeOK
  <2>1. req \in [Requests -> RequestRecord]
    BY NewRequestType DEF Init
  <2>2. profiles \subseteq Ids /\ faults \in 0..MaxFaults
    BY DEF Init, Ids
  <2>3. QED
    BY <1>1, <2>1, <2>2 DEF TypeOK, RequestRecord, Numbered
<1>3. \A r \in Requests : Shaped(users, req[r], r)
  BY BlankType DEF Init, Shaped, NewRequest, Pending, Answers, Ids
<1>4. QED
  BY <1>2, <1>3 DEF TypeInv

LEMMA EndedType ==
  ASSUME NEW x \in RequestRecord, NEW at \in Answers, NEW us, NEW r
  PROVE  /\ Ended(x, at) \in RequestRecord /\ Shaped(us, Ended(x, at), r)
         /\ Ended(x, at).kind = x.kind /\ Ended(x, at).at = at
         /\ Ended(x, at).met = x.met /\ Ended(x, at).snap = Blank
         /\ x.kind \in {"put", "remove"} => Ended(x, at).target = x.target
<1> DEFINE y == Ended(x, at)
           target == IF x.kind \in {"put", "remove"} THEN x.target ELSE NoId
<1>1. /\ target \in Ids \cup {NoId}
      /\ x.kind \in {"put", "remove"} => target = x.target
  BY DEF RequestRecord
<1>2. y = [NewRequest EXCEPT !.kind = x.kind, !.at = at, !.met = x.met, !.target = target]
  BY DEF Ended
<1> HIDE DEF target, y
<1>3. y \in RequestRecord
  BY <1>1, <1>2, NewRequestType DEF RequestRecord, Answers
<1>4. /\ y.kind = x.kind /\ y.at = at /\ y.met = x.met
      /\ y.snap = Blank /\ y.order = <<>> /\ y.target = target
  BY <1>2, NewRequestType DEF RequestRecord, NewRequest
<1>5. DOMAIN y.order = {}
  BY <1>4
<1>6. Shaped(us, y, r)
  BY <1>4, <1>5, BlankType DEF Shaped, Answers, Pending
<1>7. QED
  BY <1>1, <1>3, <1>4, <1>6 DEF y

\* Another request has begun.
LEMMA MetType ==
  ASSUME NEW x \in RequestRecord, NEW met \in SUBSET Requests, NEW us, NEW r,
         x.at # "idle", Shaped(us, x, r)
  PROVE  /\ [x EXCEPT !.met = met] \in RequestRecord
         /\ Shaped(us, [x EXCEPT !.met = met], r)
<1> DEFINE y == [x EXCEPT !.met = met]
<1>1. y \in RequestRecord
  BY DEF RequestRecord
<1>2. /\ y.kind = x.kind /\ y.at = x.at /\ y.snap = x.snap /\ y.order = x.order
      /\ y.target = x.target
  BY DEF RequestRecord
<1> HIDE DEF y
<1>3. Shaped(us, y, r)
  BY <1>2 DEF Shaped
<1>4. QED
  BY <1>1, <1>3 DEF y

\* A step of one request, other than its arrival.
LEMMA StepType ==
  ASSUME TypeInv, NEW r \in Requests, NEW next \in RequestRecord,
         Shaped(users', next, r), req' = [req EXCEPT ![r] = next],
         users' \in [Ids -> UserRecord \cup {NoUser}],
         \A u \in Ids : users'[u] # NoUser => Numbered(users'[u]),
         \A u \in Ids \ {r} : users[u] = NoUser => users'[u] = NoUser,
         profiles' \subseteq Ids, faults' \in 0..MaxFaults
  PROVE  TypeInv'
<1>1. req' \in [Requests -> RequestRecord]
  BY Known
<1>2. TypeOK'
  BY <1>1 DEF TypeOK, RequestRecord, Numbered, Live
<1>3. ASSUME NEW q \in Requests PROVE Shaped(users', req'[q], q)
  <2>1. CASE q = r
    BY <2>1, Known
  <2>2. CASE q # r
    BY <2>2, Known DEF Shaped, Ids
  <2>3. QED
    BY <2>1, <2>2
<1>4. QED
  BY <1>2, <1>3 DEF TypeInv

\* The arrival of one.
LEMMA EnterType ==
  ASSUME TypeInv, NEW r \in Requests, NEW entered \in RequestRecord,
         req[r].at = "idle", entered.at # "idle", entered.met = {},
         Shaped(users, entered, r), Enter(r, entered),
         UNCHANGED <<users, profiles, faults>>
  PROVE  /\ TypeInv'
         /\ entered.at \in Pending => req'[r] = [entered EXCEPT !.met = Running]
         /\ entered.at \in Answers => req'[r] = Ended(entered, entered.at)
         /\ \A q \in Requests \ {r} :
              req'[q] = IF q \in Running /\ entered.at \in Pending
                          THEN [req[q] EXCEPT !.met = @ \cup {r}] ELSE req[q]
<1> DEFINE first == IF entered.at \in Pending THEN [entered EXCEPT !.met = Running]
                    ELSE Ended(entered, entered.at)
           later(q) == IF q \in Running /\ entered.at \in Pending
                          THEN [req[q] EXCEPT !.met = @ \cup {r}] ELSE req[q]
<1>1. first \in RequestRecord /\ Shaped(users, first, r)
  <2>1. CASE entered.at \in Pending
    BY <2>1, MetType, Known
  <2>2. CASE entered.at \notin Pending
    BY <2>2, EndedType DEF RequestRecord
  <2>3. QED
    BY <2>1, <2>2
<1>2. ASSUME NEW q \in Requests
      PROVE  later(q) \in RequestRecord /\ Shaped(users, later(q), q)
  <2>1. CASE q \in Running /\ entered.at \in Pending
    <3>1. req[q].at # "idle" /\ req[q].met \cup {r} \in SUBSET Requests
      BY <2>1, Known DEF Running, Pending, RequestRecord
    <3>2. QED
      BY <2>1, <3>1, MetType, Known
  <2>2. CASE ~ (q \in Running /\ entered.at \in Pending)
    BY <2>2, Known
  <2>3. QED
    BY <2>1, <2>2
<1>3. req' = [q \in Requests |-> IF q = r THEN first ELSE later(q)]
  BY DEF Enter
<1>4. entered.at \in Answers => entered.at \notin Pending
  BY DEF Answers, Pending
<1> HIDE DEF first, later
<1>5. TypeInv'
  BY <1>1, <1>2, <1>3 DEF TypeInv, TypeOK, RequestRecord, Live
<1>6. QED
  BY <1>3, <1>4, <1>5 DEF first, later

---------------------------------------------------------------------------
(* Arrivals. *)

\* The sequences of SetToSeqs enumerate the set.
LEMMA Enumeration ==
  ASSUME NEW S, IsFiniteSet(S), NEW order \in SetToSeqs(S)
  PROVE  /\ order \in Seq(S) /\ (order = <<>> <=> S = {})
         /\ \A i, j \in DOMAIN order : i # j => order[i] # order[j]
         /\ \A u \in S : \E i \in DOMAIN order : order[i] = u
<1> DEFINE n == Cardinality(S)
<1>1. n \in Nat /\ (n = 0 <=> S = {})
  BY FS_CardinalityType, FS_EmptySet
<1>2. /\ order \in [1..n -> S]
      /\ \A i, j \in 1..n : i # j => order[i] # order[j]
  BY DEF SetToSeqs
<1>3. IsFiniteSet(1..n) /\ Cardinality(1..n) = n
  BY <1>1, FS_Interval
<1>4. order \in Injection(1..n, S)
  BY <1>2 DEF Injection, IsInjective
<1>5. order \in Surjection(1..n, S)
  BY <1>3, <1>4, FS_Injection
<1> HIDE DEF n
<1>6. order \in Seq(S) /\ DOMAIN order = 1..n /\ Len(order) = n
  BY <1>1, <1>2
<1>7. order = <<>> <=> n = 0
  BY <1>1, <1>6
<1>8. QED
  BY <1>1, <1>2, <1>5, <1>6, <1>7 DEF Surjection

LEMMA FiniteIds == IsFiniteSet(Ids)
  BY AccountsAssumption, FS_Union DEF Ids

ToNumber(x) == {x.order[i] : i \in DOMAIN x.order}

\* A sequence of look-ups has one of field f.
Covers(s, f) == \E i \in DOMAIN s : f \in s[i]

\* What request x is about to do when it arrives.
Starts(us, x) ==
  /\ x.kind \in {"update", "edit"} /\ x.at \in Pending
       => /\ x.target \in Ids /\ us[x.target] # NoUser /\ x.snap = us[x.target]
          /\ x.at \in {"check", "lookup"}
  /\ x.at = "check" =>
       /\ x.kind # "edit"
       /\ \A f \in Identifiers : x.given[f] # None
            => Covers(x.todo, f)
  /\ x.at \in {"number", "write"} => x.kind = "event"
  /\ x.kind = "event" /\ x.at = "write"
       => us[x.target] # NoUser /\ x.snap = us[x.target]
  /\ x.kind = "event" /\ x.at # "write" => x.snap = Blank
  /\ x.at \notin {"insert", "assign", "profile", "removeUser", "writeProfile"}
  /\ x.kind = "migrate"
       => /\ x.at = "max"
               => \A u \in Ids : u \in ToNumber(x) <=>
                                 us[u] # NoUser /\ us[u].has["index"] = None
          /\ x.at = "ok" => \A u \in Ids : us[u] # NoUser => us[u].has["index"] # None

Arrival(r, x) ==
  /\ x \in RequestRecord /\ Shaped(users, x, r) /\ x.met = {}
  /\ req[r].at = "idle" /\ x.at # "idle"
  /\ Enter(r, x)
  /\ UNCHANGED <<users, profiles, faults>>

LEMMA Joined ==
  ASSUME NEW s \in Seq(SUBSET Fields), NEW t \in Seq(SUBSET Fields)
  PROVE  /\ s \o t \in Seq(SUBSET Fields)
         /\ \A f : Covers(s, f) \/ Covers(t, f) => Covers(s \o t, f)
<1> DEFINE st == s \o t
           m == Len(s)
           n == Len(t)
<1>1. m \in Nat /\ n \in Nat /\ DOMAIN s = 1..m /\ DOMAIN t = 1..n
  BY LenProperties
<1>2. /\ st \in Seq(SUBSET Fields) /\ Len(st) = m + n
      /\ \A i \in 1..(m + n) : st[i] = IF i <= m THEN s[i] ELSE t[i - m]
  BY ConcatProperties
<1>3. DOMAIN st = 1..(m + n)
  BY <1>2, LenProperties
<1> HIDE DEF st, m, n
<1>4. ASSUME NEW i \in 1..m PROVE i \in 1..(m + n) /\ st[i] = s[i]
  BY <1>1, <1>2
<1>5. ASSUME NEW i \in 1..n PROVE i + m \in 1..(m + n) /\ st[i + m] = t[i]
  <2>1. i + m \in 1..(m + n) /\ ~ (i + m <= m) /\ (i + m) - m = i
    BY <1>1
  <2>2. QED
    BY <1>2, <2>1
<1>6. \A f : Covers(s, f) \/ Covers(t, f) => Covers(st, f)
  BY <1>1, <1>3, <1>4, <1>5 DEF Covers
<1>7. QED
  BY <1>2, <1>6 DEF st

LEMMA QueryType ==
  ASSUME NEW given \in [Fields -> Values \cup {None}], NEW f \in Identifiers
  PROVE  /\ Query(given, f) \in Seq(SUBSET Fields)
         /\ given[f] # None => Covers(Query(given, f), f)
<1>1. CASE given[f] = None
  BY <1>1 DEF Query
<1>2. CASE given[f] # None
  <2>1. Query(given, f) = <<{f}>> /\ {f} \in SUBSET Fields
    BY <1>2 DEF Query, Fields
  <2>2. <<{f}>> \in Seq(SUBSET Fields) /\ DOMAIN <<{f}>> = {1} /\ <<{f}>>[1] = {f}
    BY <2>1
  <2>3. QED
    BY <2>1, <2>2 DEF Covers
<1>3. QED
  BY <1>1, <1>2

LEMMA TodoType ==
  ASSUME NEW given \in [Fields -> Values \cup {None}]
  PROVE  LET todo == Query(given, "document") \o Query(given, "email") \o Query(given, "phone")
         IN /\ todo \in Seq(SUBSET Fields)
            /\ \A f \in Identifiers : given[f] # None => Covers(todo, f)
<1>1. "document" \in Identifiers /\ "email" \in Identifiers /\ "phone" \in Identifiers
  BY DEF Identifiers
<1>2. /\ Query(given, "document") \in Seq(SUBSET Fields)
      /\ Query(given, "email") \in Seq(SUBSET Fields)
      /\ Query(given, "phone") \in Seq(SUBSET Fields)
      /\ given["document"] # None => Covers(Query(given, "document"), "document")
      /\ given["email"] # None => Covers(Query(given, "email"), "email")
      /\ given["phone"] # None => Covers(Query(given, "phone"), "phone")
  BY <1>1, QueryType
<1> DEFINE first == Query(given, "document") \o Query(given, "email")
<1>3. /\ first \in Seq(SUBSET Fields)
      /\ given["document"] # None => Covers(first, "document")
      /\ given["email"] # None => Covers(first, "email")
  BY <1>2, Joined, Zenon
<1> DEFINE todo == first \o Query(given, "phone")
<1>4. /\ todo \in Seq(SUBSET Fields)
      /\ given["document"] # None => Covers(todo, "document")
      /\ given["email"] # None => Covers(todo, "email")
      /\ given["phone"] # None => Covers(todo, "phone")
  <2> HIDE DEF first
  <2>1. QED
    BY <1>2, <1>3, Joined, Zenon
<1>5. \A f \in Identifiers : given[f] # None => Covers(todo, f)
  <2> HIDE DEF todo
  <2>1. QED
    BY <1>4 DEF Identifiers
<1>6. QED
  BY <1>4, <1>5, Zenon

\* A request that arrives and is answered at once has a type whatever it read.
LEMMA NewFields ==
  /\ NewRequest \in RequestRecord /\ NewRequest.met = {} /\ NewRequest.snap = Blank
  /\ NewRequest.order = <<>> /\ DOMAIN NewRequest.order = {}
  /\ NewRequest.kind = "register" /\ NewRequest.at = "idle"
  BY NewRequestType DEF NewRequest

LEMMA RegisterStarts ==
  ASSUME TypeInv, NEW r \in Requests, NEW given \in Payloads, Register(r, given)
  PROVE  \E x \in RequestRecord : Arrival(r, x) /\ Starts(users, x)
<1> DEFINE todo == Query(given, "document") \o Query(given, "email") \o Query(given, "phone")
           x == [NewRequest EXCEPT !.kind = "register", !.given = given,
                                   !.at = "check", !.todo = todo]
<1>1. /\ given \in [Fields -> Values \cup {None}] /\ todo \in Seq(SUBSET Fields)
      /\ \A f \in Identifiers : given[f] # None => Covers(todo, f)
  BY TodoType, AccountsAssumption
<1>2. Enter(r, x) /\ req[r].at = "idle" /\ UNCHANGED <<users, profiles, faults>>
  BY DEF Register, Arrives
<1> HIDE DEF todo
<1>3. x \in RequestRecord
  BY <1>1, NewFields DEF RequestRecord, Kinds, Pending
<1>4. /\ x.kind = "register" /\ x.at = "check" /\ x.given = given /\ x.todo = todo
      /\ x.met = {} /\ x.snap = Blank /\ x.order = <<>> /\ DOMAIN x.order = {}
  BY NewFields DEF RequestRecord
<1> HIDE DEF x
<1>5. users[r] = NoUser
  BY <1>2, Known DEF Shaped
<1>6. Shaped(users, x, r)
  BY <1>4, <1>5, BlankType DEF Shaped
<1>7. Starts(users, x)
  BY <1>1, <1>4 DEF Starts
<1>8. QED
  BY <1>2, <1>3, <1>4, <1>6, <1>7 DEF Arrival

LEMMA CreateStarts ==
  ASSUME TypeInv, NEW r \in Requests, NEW given \in Payloads, Create(r, given)
  PROVE  \E x \in RequestRecord : Arrival(r, x) /\ Starts(users, x)
<1> DEFINE at == IF GivenIn(given) = {} THEN "error" ELSE "check"
           todo == <<GivenIn(given)>>
           x == [NewRequest EXCEPT !.kind = "create", !.given = given,
                                   !.at = at, !.todo = todo]
<1>1. given \in [Fields -> Values \cup {None}]
  BY PayloadType
<1>2. /\ todo \in Seq(SUBSET Fields) /\ at \in {"error", "check"}
      /\ \A f \in Identifiers : given[f] # None => Covers(todo, f)
  <2>1. GivenIn(given) \in SUBSET Fields /\ DOMAIN todo = {1} /\ todo[1] = GivenIn(given)
    BY DEF GivenIn, Fields
  <2>2. QED
    BY <2>1 DEF GivenIn, Covers
<1>3. Enter(r, x) /\ req[r].at = "idle" /\ UNCHANGED <<users, profiles, faults>>
  BY DEF Create, Arrives
<1> HIDE DEF todo, at
<1>4. x \in RequestRecord
  BY <1>1, <1>2, NewFields DEF RequestRecord, Kinds, Pending, Answers
<1>5. /\ x.kind = "create" /\ x.at = at /\ x.given = given /\ x.todo = todo
      /\ x.met = {} /\ x.snap = Blank /\ x.order = <<>> /\ DOMAIN x.order = {}
  BY NewFields DEF RequestRecord
<1> HIDE DEF x
<1>6. users[r] = NoUser
  BY <1>3, Known DEF Shaped
<1>7. Shaped(users, x, r)
  BY <1>2, <1>5, <1>6, BlankType DEF Shaped
<1>8. Starts(users, x)
  BY <1>2, <1>5 DEF Starts
<1>9. QED
  BY <1>2, <1>3, <1>4, <1>5, <1>7, <1>8 DEF Arrival

LEMMA UpdateStarts ==
  ASSUME TypeInv, NEW r \in Requests, NEW given \in Payloads, NEW u \in Ids,
         NEW extra \in {None, "phone", "document"}, Update(r, u, given, extra)
  PROVE  \E x \in RequestRecord : Arrival(r, x) /\ Starts(users, x)
<1> DEFINE snap == IF u \in Live THEN users[u] ELSE Blank
           at == IF u \notin Live THEN "notFound"
                 ELSE IF GivenIn(given) = {} THEN "error" ELSE "check"
           todo == <<GivenIn(given)>>
           x == [NewRequest EXCEPT !.kind = "update", !.given = given, !.target = u,
                   !.extra = extra, !.snap = snap, !.at = at, !.todo = todo]
<1>1. given \in [Fields -> Values \cup {None}]
  BY PayloadType
<1>2. /\ todo \in Seq(SUBSET Fields) /\ at \in {"notFound", "error", "check"}
      /\ \A f \in Identifiers : given[f] # None => Covers(todo, f)
  <2>1. GivenIn(given) \in SUBSET Fields /\ DOMAIN todo = {1} /\ todo[1] = GivenIn(given)
    BY DEF GivenIn, Fields
  <2>2. QED
    BY <2>1 DEF GivenIn, Covers
<1>3. /\ snap \in UserRecord /\ Numbered(snap)
      /\ at = "check" => users[u] # NoUser /\ snap = users[u]
  BY BlankType, Known DEF Live
<1>4. Enter(r, x) /\ req[r].at = "idle" /\ UNCHANGED <<users, profiles, faults>>
  BY DEF Update, Arrives
<1> HIDE DEF todo, at, snap
<1>5. x \in RequestRecord
  BY <1>1, <1>2, <1>3, NewFields DEF RequestRecord, Kinds, Pending, Answers
<1>6. /\ x.kind = "update" /\ x.at = at /\ x.given = given /\ x.todo = todo
      /\ x.snap = snap /\ x.target = u
      /\ x.met = {} /\ x.order = <<>> /\ DOMAIN x.order = {}
  BY NewFields DEF RequestRecord
<1> HIDE DEF x
<1>7. users[r] = NoUser
  BY <1>4, Known DEF Shaped
<1>8. Shaped(users, x, r)
  BY <1>2, <1>3, <1>6, <1>7 DEF Shaped
<1>9. Starts(users, x)
  BY <1>2, <1>3, <1>6 DEF Starts, Pending
<1>10. QED
  BY <1>2, <1>4, <1>5, <1>6, <1>8, <1>9 DEF Arrival

LEMMA EditStarts ==
  ASSUME TypeInv, NEW r \in Requests, NEW given \in Payloads, NEW u \in Ids, Edit(r, u, given)
  PROVE  \E x \in RequestRecord : Arrival(r, x) /\ Starts(users, x)
<1> DEFINE snap == IF u \in Live THEN users[u] ELSE Blank
           at == IF u \in Live THEN "lookup" ELSE "notFound"
           x == [NewRequest EXCEPT !.kind = "edit", !.given = given, !.target = u,
                                   !.snap = snap, !.at = at]
<1>1. given \in [Fields -> Values \cup {None}]
  BY PayloadType
<1>2. /\ snap \in UserRecord /\ Numbered(snap) /\ at \in {"notFound", "lookup"}
      /\ at = "lookup" => users[u] # NoUser /\ snap = users[u]
  BY BlankType, Known DEF Live
<1>3. Enter(r, x) /\ req[r].at = "idle" /\ UNCHANGED <<users, profiles, faults>>
  BY DEF Edit, Arrives
<1> HIDE DEF at, snap
<1>4. x \in RequestRecord
  BY <1>1, <1>2, NewFields DEF RequestRecord, Kinds, Pending, Answers
<1>5. /\ x.kind = "edit" /\ x.at = at /\ x.snap = snap /\ x.target = u
      /\ x.met = {} /\ x.order = <<>> /\ DOMAIN x.order = {}
  BY NewFields DEF RequestRecord
<1> HIDE DEF x
<1>6. users[r] = NoUser
  BY <1>3, Known DEF Shaped
<1>7. Shaped(users, x, r)
  BY <1>2, <1>5, <1>6 DEF Shaped
<1>8. Starts(users, x)
  BY <1>2, <1>5 DEF Starts, Pending
<1>9. QED
  BY <1>2, <1>3, <1>4, <1>5, <1>7, <1>8 DEF Arrival

LEMMA EventStarts ==
  ASSUME TypeInv, NEW r \in Requests, NEW given \in Payloads, NEW password \in BOOLEAN,
         Event(r, given, password)
  PROVE  \E x \in RequestRecord : Arrival(r, x) /\ Starts(users, x)
<1> DEFINE entered == [NewRequest EXCEPT !.kind = "event", !.given = given]
<1>1. given \in [Fields -> Values \cup {None}]
  BY PayloadType
<1>2. PICK at \in {"write", "number", "ignored"}, target \in Ids \cup {NoId},
           snap \in UserRecord :
        /\ Numbered(snap)
        /\ at = "write" => target \in Ids /\ users[target] # NoUser /\ snap = users[target]
        /\ at # "write" => snap = Blank
        /\ Enter(r, [entered EXCEPT !.at = at, !.target = target, !.snap = snap])
  <2>1. CASE \E u \in Matching(given, Fields) :
               Enter(r, [entered EXCEPT !.at = "write", !.target = u, !.snap = users[u]])
    BY <2>1, Known DEF Matching, Live
  <2>2. CASE Enter(r, [entered EXCEPT !.at =
               IF password /\ \E f \in Fields : given[f] # None THEN "number" ELSE "ignored"])
    <3>1. PICK at \in {"number", "ignored"} : Enter(r, [entered EXCEPT !.at = at])
      BY <2>2
    <3>2. NewRequest.target = NoId /\ NewRequest.snap = Blank
      BY DEF NewRequest
    <3>3. entered \in RequestRecord /\ entered.target = NoId /\ entered.snap = Blank
      BY <1>1, <3>2, NewFields DEF RequestRecord, Kinds
    <3> HIDE DEF entered
    <3>4. [entered EXCEPT !.at = at]
            = [entered EXCEPT !.at = at, !.target = NoId, !.snap = Blank]
      BY <3>3 DEF RequestRecord
    <3>5. QED
      BY <3>1, <3>4, BlankType
  <2>3. QED
    BY <2>1, <2>2 DEF Event
<1>3. req[r].at = "idle" /\ UNCHANGED <<users, profiles, faults>>
  BY DEF Event, Arrives
<1> DEFINE x == [entered EXCEPT !.at = at, !.target = target, !.snap = snap]
<1>4. x \in RequestRecord
  BY <1>1, <1>2, NewFields DEF RequestRecord, Kinds, Pending, Answers
<1>5. /\ x.kind = "event" /\ x.at = at /\ x.snap = snap /\ x.target = target
      /\ x.met = {} /\ x.order = <<>> /\ DOMAIN x.order = {}
  BY NewFields DEF RequestRecord
<1>6. Enter(r, x)
  BY <1>2
<1> HIDE DEF x, entered
<1>7. users[r] = NoUser
  BY <1>3, Known DEF Shaped
<1>8. Shaped(users, x, r)
  BY <1>2, <1>5, <1>7 DEF Shaped
<1>9. Starts(users, x)
  BY <1>2, <1>5 DEF Starts
<1>10. QED
  BY <1>3, <1>4, <1>5, <1>6, <1>8, <1>9 DEF Arrival

LEMMA RemoveStarts ==
  ASSUME TypeInv, NEW r \in Requests, NEW u \in Ids, RemoveAccount(r, u)
  PROVE  \E x \in RequestRecord : Arrival(r, x) /\ Starts(users, x)
<1> DEFINE x == [NewRequest EXCEPT !.kind = "remove", !.target = u, !.at = "removeProfiles"]
<1>1. Enter(r, x) /\ req[r].at = "idle" /\ UNCHANGED <<users, profiles, faults>>
  BY DEF RemoveAccount, Arrives
<1>2. x \in RequestRecord
  BY NewFields DEF RequestRecord, Kinds, Pending
<1>3. /\ x.kind = "remove" /\ x.at = "removeProfiles" /\ x.met = {} /\ x.snap = Blank
      /\ x.target = u
      /\ x.order = <<>> /\ DOMAIN x.order = {}
  BY NewFields DEF RequestRecord
<1> HIDE DEF x
<1>4. Shaped(users, x, r)
  BY <1>3, BlankType DEF Shaped
<1>5. Starts(users, x)
  BY <1>3 DEF Starts
<1>6. QED
  BY <1>1, <1>2, <1>3, <1>4, <1>5 DEF Arrival

LEMMA PutStarts ==
  ASSUME TypeInv, NEW r \in Requests, NEW u \in Ids, PutProfile(r, u)
  PROVE  \E x \in RequestRecord : Arrival(r, x) /\ Starts(users, x)
<1> DEFINE x == [NewRequest EXCEPT !.kind = "put", !.target = u, !.at = "upsert"]
<1>1. Enter(r, x) /\ req[r].at = "idle" /\ UNCHANGED <<users, profiles, faults>>
  BY DEF PutProfile, Arrives
<1>2. x \in RequestRecord
  BY NewFields DEF RequestRecord, Kinds, Pending
<1>3. /\ x.kind = "put" /\ x.at = "upsert" /\ x.met = {} /\ x.snap = Blank
      /\ x.target = u
      /\ x.order = <<>> /\ DOMAIN x.order = {}
  BY NewFields DEF RequestRecord
<1> HIDE DEF x
<1>4. Shaped(users, x, r)
  BY <1>3, BlankType DEF Shaped
<1>5. Starts(users, x)
  BY <1>3 DEF Starts
<1>6. QED
  BY <1>1, <1>2, <1>3, <1>4, <1>5 DEF Arrival

LEMMA MigrateStarts ==
  ASSUME TypeInv, NEW r \in Requests, NEW order, Migrate(r, order)
  PROVE  \E x \in RequestRecord : Arrival(r, x) /\ Starts(users, x)
<1> DEFINE at == IF order = <<>> THEN "ok" ELSE "max"
           x == [NewRequest EXCEPT !.kind = "migrate", !.order = order, !.at = at]
<1>1. /\ Enter(r, x) /\ req[r].at = "idle" /\ UNCHANGED <<users, profiles, faults>>
      /\ order \in SetToSeqs(Unnumbered)
  BY DEF Migrate, Arrives
<1>2. Unnumbered \subseteq Ids /\ IsFiniteSet(Unnumbered)
  BY FiniteIds, FS_Subset DEF Unnumbered, Live
<1>3. /\ order \in Seq(Unnumbered) /\ (order = <<>> <=> Unnumbered = {})
      /\ \A i, j \in DOMAIN order : i # j => order[i] # order[j]
      /\ \A u \in Unnumbered : \E i \in DOMAIN order : order[i] = u
  BY <1>1, <1>2, Enumeration
<1>4. order \in Seq(Ids) /\ \A i \in DOMAIN order : order[i] \in Unnumbered
  BY <1>2, <1>3
<1>5. at \in {"ok", "max"}
  OBVIOUS
<1>6. x \in RequestRecord
  BY <1>4, <1>5, NewFields DEF RequestRecord, Kinds, Pending, Answers
<1>7. /\ x.kind = "migrate" /\ x.at = at /\ x.met = {} /\ x.snap = Blank /\ x.order = order
  BY NewFields DEF RequestRecord
<1> HIDE DEF x
<1>8. Shaped(users, x, r)
  BY <1>3, <1>7, BlankType DEF Shaped
<1>9. \A u \in Ids : u \in Unnumbered <=> users[u] # NoUser /\ users[u].has["index"] = None
  BY DEF Unnumbered, Live
<1>10. ToNumber(x) = Unnumbered
  BY <1>3, <1>4, <1>7 DEF ToNumber
<1>11. Starts(users, x)
  BY <1>3, <1>5, <1>7, <1>9, <1>10 DEF Starts
<1>12. QED
  BY <1>1, <1>6, <1>7, <1>8, <1>11 DEF Arrival

LEMMA ArriveStarts ==
  ASSUME TypeInv, NEW r \in Requests, Arrive(r)
  PROVE  \E x \in RequestRecord : Arrival(r, x) /\ Starts(users, x)
  BY RegisterStarts, CreateStarts, UpdateStarts, EditStarts, EventStarts,
     RemoveStarts, PutStarts, MigrateStarts DEF Arrive

---------------------------------------------------------------------------
(* The invariant. *)

IdAttributes == Identifiers \cup {"index"}

Overlaps(rq, R, S) == \E r \in R, s \in S : s \in rq[r].met

\* What explains that a value of attribute a written by R equals one written
\* by S.
Excused(rq, a, R, S) ==
  Overlaps(rq, R, S) \/ (a \in Identifiers /\ \E r \in R \cup S : rq[r].kind = "event")

Holds(user, a, x) == user # NoUser /\ x # None /\ user.has[a] = x

\* Requests that run overlap, and overlapping is symmetric.
MetInv ==
  /\ \A r, s \in Requests : s \in req[r].met => r \in req[s].met
  /\ \A r, s \in Running : r # s => s \in req[r].met

Unique(us, rq) ==
  \A u, v \in Ids, a \in IdAttributes :
    u # v /\ us[u] # NoUser /\ Holds(us[v], a, us[u].has[a])
      => Excused(rq, a, us[u].by[a], us[v].by[a])

\* What an update has read may be written back: it is as unique as it was.
SnapUnique(us, rq, q) ==
  rq[q].kind \in {"update", "edit"} /\ rq[q].at \in Pending =>
    \A a \in IdAttributes, v \in Ids :
      v # rq[q].target /\ Holds(us[v], a, rq[q].snap.has[a])
        => Excused(rq, a, {q} \cup rq[q].snap.by[a], us[v].by[a])

\* An identifier is looked up, and will be written unless the request fails.
LookedUp(x, f) ==
  /\ x.kind \in {"register", "create", "update", "edit"}
  /\ x.kind = "edit" => x.given[f] # x.snap.has[f]
  /\ \/ x.at \in {"number", "insert", "write"}
     \/ x.at = "check" /\ ~ Covers(x.todo, f)

LookedUpFree(us, rq, q) ==
  \A f \in Identifiers, v \in Ids :
    /\ LookedUp(rq[q], f)
    /\ rq[q].kind = "edit" => v # rq[q].target
    /\ Holds(us[v], f, rq[q].given[f])
    => Excused(rq, f, {q}, us[v].by[f])

\* Numbers above the one a request has read were given since.
Fresh(us, rq, q) ==
  \A v \in Ids :
    /\ us[v] # NoUser /\ us[v].has["index"] \in Nat
    /\ \/ rq[q].at = "insert" /\ us[v].has["index"] >= rq[q].number
       \/ rq[q].at = "assign" /\ us[v].has["index"] > rq[q].number
    => Overlaps(rq, {q}, us[v].by["index"])

\* Users that are still to be numbered had no number when the migration began.
OrderStale(us, rq, q) ==
  rq[q].at \in {"max", "assign"} =>
    \A u \in ToNumber(rq[q]) :
      us[u] # NoUser /\ us[u].has["index"] # None => Overlaps(rq, {q}, us[u].by["index"])

\* A request that may write back what it has read.
Copies(x) ==
  \/ x.kind = "update" /\ x.at \in Pending
  \/ x.kind = "event" /\ x.at = "write"

\* What such a request finds changed was changed since it read it.
SnapStale(us, rq, q) ==
  Copies(rq[q]) =>
    \A a \in Attributes :
      LET user == us[rq[q].target]
      IN user # NoUser /\ user.has[a] \notin {None, rq[q].snap.has[a]}
           => Overlaps(rq, {q}, user.by[a])

Claims(us, rq, q) ==
  /\ SnapUnique(us, rq, q) /\ LookedUpFree(us, rq, q) /\ Fresh(us, rq, q)
  /\ OrderStale(us, rq, q) /\ SnapStale(us, rq, q)

\* A user without a number is one a migration that runs will number.
Numbering(us, x) ==
  x.kind = "migrate" =>
    \A u \in Ids : us[u] # NoUser /\ us[u].has["index"] = None
      => x.at # "ok" /\ (x.at \in {"max", "assign"} => u \in ToNumber(x))

\* The requests that write a participant of u, and those that remove u.
WritersOf(rq, u) ==
  {r \in Requests : \/ rq[r].kind = "put" /\ rq[r].target = u
                    \/ rq[r].kind = "create" /\ r = u}
RemoversOf(rq, u) == {r \in Requests : rq[r].kind = "remove" /\ rq[r].target = u}

RemovedBeside(rq, u) == Overlaps(rq, {u}, RemoversOf(rq, u))
PutBeside(rq, r) == Overlaps(rq, WritersOf(rq, rq[r].target), {r})

\* A user that is gone before its participant is written was removed meanwhile;
\* a participant that is there after a removal has deleted them was written
\* meanwhile.
Orphans(us, rq, ps) ==
  /\ \A u \in Requests : rq[u].at = "profile" /\ us[u] = NoUser => RemovedBeside(rq, u)
  /\ \A r \in Requests : rq[r].at = "removeUser" /\ rq[r].target \in ps => PutBeside(rq, r)

AccountsInv ==
  /\ TypeInv /\ MetInv
  /\ Unique(users, req)
  /\ \A q \in Requests : Claims(users, req, q) /\ Numbering(users, req[q])
  /\ Orphans(users, req, profiles)

---------------------------------------------------------------------------
(* What a step leaves as it is. *)

\* Overlaps are never forgotten, nor are the kinds of the requests, nor who
\* was removed or put a profile of.
Grown(rq, nx) ==
  \A q \in Requests :
    /\ rq[q].met \subseteq nx[q].met
    /\ rq[q].kind # "register" => nx[q].kind = rq[q].kind
    /\ rq[q].kind \in {"put", "remove"} => nx[q].target = rq[q].target

LEMMA ExcusedGrows ==
  ASSUME NEW rq, NEW nx, Grown(rq, nx), NEW a, NEW R \in SUBSET Requests,
         NEW S \in SUBSET Requests, NEW T \in SUBSET Requests, R \subseteq T,
         Excused(rq, a, R, S)
  PROVE  Excused(nx, a, T, S)
  BY DEF Excused, Overlaps, Grown

LEMMA ExcusedSymmetric ==
  ASSUME MetInv, NEW a, NEW R \in SUBSET Requests, NEW S \in SUBSET Requests,
         Excused(req, a, R, S)
  PROVE  Excused(req, a, S, R)
  BY DEF Excused, Overlaps, MetInv

LEMMA OverlapsGrow ==
  ASSUME NEW rq, NEW nx, Grown(rq, nx), NEW R \in SUBSET Requests, NEW S,
         Overlaps(rq, R, S)
  PROVE  Overlaps(nx, R, S)
  BY DEF Overlaps, Grown

\* But for the overlaps a request is as it was.
Same(x, y) ==
  /\ y.kind = x.kind /\ y.at = x.at /\ y.target = x.target /\ y.given = x.given
  /\ y.snap = x.snap /\ y.todo = x.todo /\ y.order = x.order /\ y.number = x.number

\* A request that learns of an arrival keeps everything but its overlaps.
LEMMA MetGrows ==
  ASSUME NEW x \in RequestRecord, NEW r
  PROVE  /\ Same(x, [x EXCEPT !.met = @ \cup {r}])
         /\ [x EXCEPT !.met = @ \cup {r}].met = x.met \cup {r}
<1> DEFINE y == [x EXCEPT !.met = @ \cup {r}]
<1>1. x = [kind |-> x.kind, at |-> x.at, target |-> x.target, given |-> x.given,
           extra |-> x.extra, snap |-> x.snap, todo |-> x.todo, order |-> x.order,
           number |-> x.number, met |-> x.met]
  BY DEF RequestRecord
<1>2. y = [kind |-> x.kind, at |-> x.at, target |-> x.target, given |-> x.given,
           extra |-> x.extra, snap |-> x.snap, todo |-> x.todo, order |-> x.order,
           number |-> x.number, met |-> x.met \cup {r}]
  BY <1>1
<1>3. QED
  BY <1>2 DEF Same

\* What request q sees written was written by a request it overlaps.
WrittenBeside(us, next, nx, q) ==
  \A v \in Ids, a \in Attributes :
    next[v] # NoUser /\ next[v].has[a] # None =>
      \/ us[v] # NoUser /\ next[v].has[a] = us[v].has[a] /\ next[v].by[a] = us[v].by[a]
      \/ \E s \in next[v].by[a] : s \in nx[q].met

LEMMA ByType ==
  ASSUME TypeInv, NEW v \in Ids, users[v] # NoUser, NEW a \in Attributes
  PROVE  users[v].by[a] \in SUBSET Requests
  BY Known DEF UserRecord

LEMMA SnapByType ==
  ASSUME TypeInv, NEW q \in Requests, NEW a \in Attributes
  PROVE  req[q].snap.by[a] \in SUBSET Requests
<1>1. req[q].snap \in UserRecord
  BY Known DEF RequestRecord
<1>2. QED
  BY <1>1 DEF UserRecord

LEMMA StaleOverlaps ==
  ASSUME NEW us, NEW rq, NEW q, SnapStale(us, rq, q), Copies(rq[q]),
         NEW a \in Attributes, NEW user, user = us[rq[q].target],
         user # NoUser, user.has[a] \notin {None, rq[q].snap.has[a]}
  PROVE  Overlaps(rq, {q}, user.by[a])
  BY DEF SnapStale

LEMMA OtherClaims ==
  ASSUME TypeInv, NEW q \in Requests, Claims(users, req, q),
         Grown(req, req'), Same(req[q], req'[q]),
         WrittenBeside(users, users', req', q)
  PROVE  Claims(users', req', q)
<1> USE DEF IdAttributes, Attributes, Fields
<1>1. SnapUnique(users', req', q)
  <2> SUFFICES ASSUME req[q].kind \in {"update", "edit"}, req[q].at \in Pending,
                      NEW a \in IdAttributes, NEW v \in Ids, v # req[q].target,
                      Holds(users'[v], a, req[q].snap.has[a])
               PROVE  Excused(req', a, {q} \cup req[q].snap.by[a], users'[v].by[a])
    BY DEF SnapUnique, Same
  <2>1. CASE \E s \in users'[v].by[a] : s \in req'[q].met
    BY <2>1 DEF Excused, Overlaps
  <2>2. CASE users[v] # NoUser /\ users'[v].has[a] = users[v].has[a]
               /\ users'[v].by[a] = users[v].by[a]
    <3>1. Excused(req, a, {q} \cup req[q].snap.by[a], users[v].by[a])
      BY <2>2 DEF Claims, SnapUnique, Holds
    <3>2. QED
      BY <2>2, <3>1, ExcusedGrows, ByType, SnapByType
  <2>3. QED
    BY <2>1, <2>2 DEF WrittenBeside, Holds
<1>2. LookedUpFree(users', req', q)
  <2> SUFFICES ASSUME NEW f \in Identifiers, NEW v \in Ids, LookedUp(req[q], f),
                      req[q].kind = "edit" => v # req[q].target,
                      Holds(users'[v], f, req[q].given[f])
               PROVE  Excused(req', f, {q}, users'[v].by[f])
    BY DEF LookedUpFree, LookedUp, Same
  <2>1. CASE \E s \in users'[v].by[f] : s \in req'[q].met
    BY <2>1 DEF Excused, Overlaps
  <2>2. CASE users[v] # NoUser /\ users'[v].has[f] = users[v].has[f]
               /\ users'[v].by[f] = users[v].by[f]
    <3>1. Excused(req, f, {q}, users[v].by[f])
      BY <2>2 DEF Claims, LookedUpFree, Holds
    <3>2. QED
      BY <2>2, <3>1, ExcusedGrows, ByType
  <2>3. QED
    BY <2>1, <2>2 DEF WrittenBeside, Holds
<1>3. Fresh(users', req', q)
  <2> SUFFICES ASSUME NEW v \in Ids, users'[v] # NoUser, users'[v].has["index"] \in Nat,
                      \/ req[q].at = "insert" /\ users'[v].has["index"] >= req[q].number
                      \/ req[q].at = "assign" /\ users'[v].has["index"] > req[q].number
               PROVE  Overlaps(req', {q}, users'[v].by["index"])
    BY DEF Fresh, Same
  <2>1. CASE \E s \in users'[v].by["index"] : s \in req'[q].met
    BY <2>1 DEF Overlaps
  <2>2. CASE users[v] # NoUser /\ users'[v].has["index"] = users[v].has["index"]
               /\ users'[v].by["index"] = users[v].by["index"]
    BY <2>2, OverlapsGrow DEF Claims, Fresh
  <2>3. QED
    BY <2>1, <2>2, AccountsAssumption DEF WrittenBeside
<1>4. OrderStale(users', req', q)
  <2> SUFFICES ASSUME req[q].at \in {"max", "assign"}, NEW u \in ToNumber(req[q]),
                      users'[u] # NoUser, users'[u].has["index"] # None
               PROVE  Overlaps(req', {q}, users'[u].by["index"])
    BY DEF OrderStale, ToNumber, Same
  <2>1. u \in Ids
    BY Known DEF ToNumber, RequestRecord
  <2>2. CASE \E s \in users'[u].by["index"] : s \in req'[q].met
    BY <2>2 DEF Overlaps
  <2>3. CASE users[u] # NoUser /\ users'[u].has["index"] = users[u].has["index"]
               /\ users'[u].by["index"] = users[u].by["index"]
    <3>1. OrderStale(users, req, q)
      BY DEF Claims
    <3>2. Overlaps(req, {q}, users[u].by["index"])
      BY <2>3, <3>1 DEF OrderStale
    <3>3. QED
      BY <2>3, <3>2, OverlapsGrow
  <2>4. QED
    BY <2>1, <2>2, <2>3 DEF WrittenBeside
<1>5. SnapStale(users', req', q)
  <2> DEFINE u == req[q].target
  <2> HIDE DEF IdAttributes, Attributes, Fields
  <2> SUFFICES ASSUME Copies(req[q]), NEW a \in Attributes,
                      users'[u] # NoUser, users'[u].has[a] \notin {None, req[q].snap.has[a]}
               PROVE  Overlaps(req', {q}, users'[u].by[a])
    BY DEF SnapStale, Same, Copies
  <2> u \in Ids
    BY Known DEF Shaped, Copies
  <2> HIDE DEF u
  <2>1. CASE \E s \in users'[u].by[a] : s \in req'[q].met
    BY <2>1 DEF Overlaps
  <2>2. CASE users[u] # NoUser /\ users'[u].has[a] = users[u].has[a]
               /\ users'[u].by[a] = users[u].by[a]
    <3>1. SnapStale(users, req, q)
      BY DEF Claims
    <3>2. Overlaps(req, {q}, users[u].by[a])
      <4>1. users[u] = users[req[q].target]
        BY DEF u
      <4>2. users[u].has[a] \notin {None, req[q].snap.has[a]}
        BY <2>2
      <4>3. QED
        BY <2>2, <3>1, <4>1, <4>2, StaleOverlaps
    <3>3. QED
      BY <2>2, <3>2, OverlapsGrow
  <2>3. QED
    BY <2>1, <2>2 DEF WrittenBeside
<1>6. QED
  BY <1>1, <1>2, <1>3, <1>4, <1>5 DEF Claims

LEMMA RestingClaims ==
  ASSUME NEW us, NEW rq, NEW q, rq[q].at \notin Pending
  PROVE  Claims(us, rq, q)
  BY DEF Claims, SnapUnique, LookedUpFree, LookedUp, Fresh, OrderStale, SnapStale, Copies, Pending

LEMMA UniqueGrows ==
  ASSUME TypeInv, Unique(users, req), Grown(req, req'), users' = users
  PROVE  Unique(users', req')
<1> SUFFICES ASSUME NEW u \in Ids, NEW v \in Ids, NEW a \in IdAttributes, u # v,
                    users[u] # NoUser, Holds(users[v], a, users[u].has[a])
             PROVE  Excused(req', a, users[u].by[a], users[v].by[a])
  BY DEF Unique
<1>1. a \in Attributes
  BY DEF IdAttributes, Attributes, Fields
<1>2. /\ Excused(req, a, users[u].by[a], users[v].by[a])
      /\ users[u].by[a] \in SUBSET Requests /\ users[v].by[a] \in SUBSET Requests
  BY <1>1, ByType DEF Unique, Holds
<1>3. QED
  BY <1>2, ExcusedGrows

LEMMA RemovedBesideGrows ==
  ASSUME Grown(req, req'), NEW u \in Requests, RemovedBeside(req, u)
  PROVE  RemovedBeside(req', u)
<1>1. PICK s \in RemoversOf(req, u) : s \in req[u].met
  BY DEF RemovedBeside, Overlaps
<1>2. s \in RemoversOf(req', u)
  BY <1>1 DEF RemoversOf, Grown
<1>3. QED
  BY <1>1, <1>2 DEF RemovedBeside, Overlaps, Grown

LEMMA PutBesideGrows ==
  ASSUME Grown(req, req'), NEW r \in Requests, req'[r].target = req[r].target,
         PutBeside(req, r)
  PROVE  PutBeside(req', r)
<1>1. PICK s \in WritersOf(req, req[r].target) : r \in req[s].met
  BY DEF PutBeside, Overlaps
<1>2. s \in WritersOf(req', req'[r].target)
  BY <1>1 DEF WritersOf, Grown
<1>3. QED
  BY <1>1, <1>2 DEF PutBeside, Overlaps, Grown, WritersOf

\* A request arrives: it overlaps those that run.
LEMMA ArrivalMet ==
  ASSUME AccountsInv, NEW r \in Requests, NEW x \in RequestRecord, Arrival(r, x)
  PROVE  /\ TypeInv' /\ MetInv' /\ Grown(req, req')
         /\ \A q \in Requests \ {r} : Same(req[q], req'[q])
         /\ Same(x, req'[r]) \/ (x.at \in Answers /\ req'[r].at = x.at /\ req'[r].kind = x.kind)
<1>1. /\ TypeInv'
      /\ x.at \in Pending => req'[r] = [x EXCEPT !.met = Running]
      /\ x.at \in Answers => req'[r] = Ended(x, x.at)
      /\ \A q \in Requests \ {r} :
           req'[q] = IF q \in Running /\ x.at \in Pending
                       THEN [req[q] EXCEPT !.met = @ \cup {r}] ELSE req[q]
  BY EnterType DEF Arrival, AccountsInv
<1>2. /\ req[r].met = {} /\ req[r].kind = "register" /\ r \notin Running
      /\ \A q \in Requests : r \notin req[q].met
  BY Known DEF AccountsInv, MetInv, Arrival, Shaped, Running, Pending
<1>3. \A q \in Requests : req[q] \in RequestRecord
  BY Known DEF AccountsInv
<1>4. ASSUME NEW q \in Requests \ {r}
      PROVE  /\ Same(req[q], req'[q])
             /\ req'[q].met = IF q \in Running /\ x.at \in Pending
                                THEN req[q].met \cup {r} ELSE req[q].met
  <2>1. CASE q \in Running /\ x.at \in Pending
    <3>1. req'[q] = [req[q] EXCEPT !.met = @ \cup {r}]
      BY <1>1, <2>1
    <3>2. QED
      BY <1>3, <2>1, <3>1, MetGrows
  <2>2. CASE ~ (q \in Running /\ x.at \in Pending)
    <3>1. req'[q] = req[q]
      BY <1>1, <2>2
    <3>2. QED
      BY <2>2, <3>1 DEF Same
  <2>3. QED
    BY <2>1, <2>2
<1>5. MetInv /\ \A q, s \in Requests : s \in req[q].met => q \in req[s].met
  BY DEF AccountsInv, MetInv
<1>6. CASE x.at \in Pending
  <2>1. req'[r] = [x EXCEPT !.met = Running]
    BY <1>1, <1>6
  <2>2. Same(x, req'[r]) /\ req'[r].met = Running
    BY <2>1 DEF Same, RequestRecord
  <2>3. \A q \in Requests : q # r =>
          \A s : s \in req'[q].met <=> s \in req[q].met \/ (s = r /\ q \in Running)
    BY <1>4, <1>6
  <2>4. \A q \in Requests : q \in Running' <=> q \in Running \/ q = r
    BY <1>4, <1>6, <2>2 DEF Same, Running
  <2>5. ASSUME NEW q \in Requests, NEW s \in Requests, s \in req'[q].met
        PROVE  q \in req'[s].met
    <3>1. CASE q = r
      BY <1>2, <1>4, <1>6, <2>2, <2>5, <3>1
    <3>2. CASE q # r /\ s = r
      BY <1>2, <2>3, <2>2, <2>5, <3>2
    <3>3. CASE q # r /\ s # r
      <4>1. s \in req[q].met
        BY <2>3, <2>5, <3>3
      <4>2. q \in req[s].met
        BY <1>5, <4>1
      <4>3. QED
        BY <2>3, <3>3, <4>2
    <3>4. QED
      BY <3>1, <3>2, <3>3
  <2>6. ASSUME NEW q \in Running', NEW s \in Running', q # s
        PROVE  s \in req'[q].met
    <3>1. q \in Requests /\ s \in Requests
      BY DEF Running
    <3>2. CASE q = r
      BY <2>2, <2>4, <2>6, <3>1, <3>2
    <3>3. CASE q # r
      <4>1. q \in Running
        BY <2>4, <3>1, <3>3
      <4>2. CASE s = r
        BY <2>3, <3>1, <3>3, <4>1, <4>2
      <4>3. CASE s # r
        <5>1. s \in Running
          BY <2>4, <3>1, <4>3
        <5>2. s \in req[q].met
          BY <1>5, <2>6, <4>1, <5>1, Zenon DEF MetInv
        <5>3. QED
          BY <2>3, <3>1, <3>3, <5>2
      <4>4. QED
        BY <4>2, <4>3
    <3>4. QED
      BY <3>2, <3>3
  <2>7. Grown(req, req')
    BY <1>2, <1>4 DEF Grown, Same
  <2>8. QED
    BY <1>1, <1>4, <2>2, <2>5, <2>6, <2>7 DEF MetInv
<1>7. CASE x.at \notin Pending
  <2>1. x.at \in Answers
    BY <1>7 DEF Arrival, RequestRecord
  <2>2. /\ req'[r].at = x.at /\ req'[r].kind = x.kind /\ req'[r].met = {}
    BY <1>1, <2>1, EndedType DEF Arrival
  <2>3. \A q \in Requests : req'[q].met = req[q].met
    BY <1>2, <1>4, <1>7, <2>2
  <2>4. \A q \in Requests : q \in Running' <=> q \in Running
    BY <1>2, <1>4, <1>7, <2>2 DEF Same, Running
  <2>5. MetInv'
    BY <2>3, <2>4 DEF MetInv, AccountsInv, Running
  <2>6. Grown(req, req')
    BY <1>2, <1>4, <2>3 DEF Grown, Same
  <2>7. QED
    BY <1>1, <1>4, <2>1, <2>2, <2>5, <2>6
<1>8. QED
  BY <1>6, <1>7

\* What the arriving request claims, it has just read.
LEMMA ArrivalClaims ==
  ASSUME AccountsInv, NEW r \in Requests, NEW x \in RequestRecord, Arrival(r, x),
         Starts(users, x), TypeInv', Grown(req, req'), Same(x, req'[r]), x.at \in Pending
  PROVE  Claims(users', req', r)
<1> USE DEF IdAttributes, Attributes, Fields
<1>1. TypeInv /\ Unique(users, req) /\ users' = users
  BY DEF AccountsInv, Arrival
<1>2. SnapUnique(users', req', r)
  <2> SUFFICES ASSUME x.kind \in {"update", "edit"}, NEW a \in IdAttributes, NEW v \in Ids,
                      v # x.target, Holds(users[v], a, x.snap.has[a])
               PROVE  Excused(req', a, {r} \cup x.snap.by[a], users[v].by[a])
    BY <1>1 DEF SnapUnique, Same
  <2>1. x.target \in Ids /\ users[x.target] # NoUser /\ x.snap = users[x.target]
    BY DEF Starts
  <2>2. Excused(req, a, x.snap.by[a], users[v].by[a])
    BY <1>1, <2>1 DEF Unique
  <2>3. x.snap.by[a] \in SUBSET Requests /\ users[v].by[a] \in SUBSET Requests
    BY <1>1, <2>1, ByType DEF Holds
  <2>4. QED
    BY <2>2, <2>3, ExcusedGrows
<1>3. LookedUpFree(users', req', r)
  BY <1>1 DEF LookedUpFree, LookedUp, Starts, Same, Holds
<1>4. Fresh(users', req', r)
  BY <1>1 DEF Fresh, Starts, Same
<1>5. OrderStale(users', req', r)
  <2>1. Shaped(users, x, r)
    BY DEF Arrival
  <2>2. QED
    BY <1>1, <2>1, Known DEF OrderStale, Starts, Same, Shaped, ToNumber, RequestRecord
<1>6. SnapStale(users', req', r)
  BY <1>1 DEF SnapStale, Starts, Same, Copies
<1>7. QED
  BY <1>2, <1>3, <1>4, <1>5, <1>6 DEF Claims

LEMMA ArrivalKeeps ==
  ASSUME AccountsInv, NEW r \in Requests, NEW x \in RequestRecord, Arrival(r, x),
         Starts(users, x)
  PROVE  AccountsInv'
<1>1. /\ TypeInv /\ Unique(users, req) /\ Orphans(users, req, profiles)
      /\ \A q \in Requests : Claims(users, req, q) /\ Numbering(users, req[q])
      /\ users' = users /\ profiles' = profiles
  BY DEF AccountsInv, Arrival
<1>2. /\ TypeInv' /\ MetInv' /\ Grown(req, req')
      /\ \A q \in Requests \ {r} : Same(req[q], req'[q])
      /\ Same(x, req'[r]) \/ (x.at \in Answers /\ req'[r].at = x.at /\ req'[r].kind = x.kind)
  BY ArrivalMet
<1>3. Unique(users', req')
  BY <1>1, <1>2, UniqueGrows
<1>4. ASSUME NEW q \in Requests PROVE Claims(users', req', q)
  <2>1. CASE q # r
    <3>1. WrittenBeside(users, users', req', q)
      BY <1>1 DEF WrittenBeside
    <3>2. QED
      BY <1>1, <1>2, <2>1, <3>1, OtherClaims
  <2>2. CASE q = r /\ x.at \in Pending
    <3>1. x.at \notin Answers
      BY <2>2 DEF Pending, Answers
    <3>2. QED
      BY <1>2, <2>2, <3>1, ArrivalClaims
  <2>3. CASE q = r /\ x.at \notin Pending
    BY <1>2, <2>3, RestingClaims DEF Same
  <2>4. QED
    BY <2>1, <2>2, <2>3
<1>5. ASSUME NEW q \in Requests PROVE Numbering(users', req'[q])
  <2>1. CASE q # r
    BY <1>1, <1>2, <2>1 DEF Numbering, Same, ToNumber
  <2>2. CASE q = r
    <3>1. Numbering(users, x)
      BY DEF Starts, Numbering
    <3>2. CASE Same(x, req'[r])
      BY <1>1, <2>2, <3>1, <3>2 DEF Numbering, Same, ToNumber
    <3>3. CASE x.at \in Answers /\ req'[r].at = x.at /\ req'[r].kind = x.kind
      BY <1>1, <2>2, <3>1, <3>3 DEF Numbering, Answers
    <3>4. QED
      BY <1>2, <3>2, <3>3
  <2>3. QED
    BY <2>1, <2>2
<1>6. Orphans(users', req', profiles')
  <2>1. req'[r].at \notin {"profile", "removeUser"}
    BY <1>2 DEF Starts, Same, Answers
  <2>2. ASSUME NEW u \in Requests, req'[u].at = "profile", users'[u] = NoUser
        PROVE  RemovedBeside(req', u)
    BY <1>1, <1>2, <2>1, <2>2, RemovedBesideGrows DEF Orphans, Same
  <2>3. ASSUME NEW q \in Requests, req'[q].at = "removeUser", req'[q].target \in profiles'
        PROVE  PutBeside(req', q)
    BY <1>1, <1>2, <2>1, <2>3, PutBesideGrows DEF Orphans, Same
  <2>4. QED
    BY <2>2, <2>3 DEF Orphans
<1>7. QED
  BY <1>2, <1>3, <1>4, <1>5, <1>6 DEF AccountsInv

---------------------------------------------------------------------------
(* A step of a request that runs. *)

\* Request r goes on, or ends, with the given record.
Steps(r, next) ==
  /\ next \in RequestRecord /\ Shaped(users', next, r)
  /\ req[r].at \in Pending
  /\ next.kind = req[r].kind /\ next.met = req[r].met /\ next.at # "idle"
  /\ next.kind \in {"put", "remove"} => next.target = req[r].target
  /\ req' = [req EXCEPT ![r] = next]

\* It writes document w alone: an attribute that gets another value is its own,
\* equals another user's only with an excuse, and is no number erased.
Writes(us, new, rq, w, r) ==
  /\ \A v \in Ids \ {w} : new[v] = us[v]
  /\ us[w] = NoUser /\ w # r => new[w] = NoUser
  /\ new[w] # NoUser =>
       /\ Numbered(new[w])
       /\ new[w].has["index"] = None => us[w] # NoUser /\ us[w].has["index"] = None
       /\ \A a \in Attributes :
            \/ new[w].has[a] = None
            \/ us[w] # NoUser /\ new[w].has[a] = us[w].has[a] /\ new[w].by[a] = us[w].by[a]
            \/ /\ r \in new[w].by[a]
               /\ a \in IdAttributes => \A v \in Ids \ {w} :
                    Holds(us[v], a, new[w].has[a])
                      => Excused(rq, a, new[w].by[a], us[v].by[a])

LEMMA StepFrame ==
  ASSUME TypeInv, MetInv, NEW r \in Requests, NEW next, Steps(r, next)
  PROVE  /\ Grown(req, req') /\ MetInv' /\ req'[r] = next
         /\ \A q \in Requests \ {r} : Same(req[q], req'[q]) /\ req'[q].met = req[q].met
         /\ \A q \in Running \ {r} : r \in req'[q].met
<1>1. /\ req'[r] = next /\ \A q \in Requests \ {r} : req'[q] = req[q]
      /\ \A q \in Requests : req'[q].met = req[q].met /\ req'[q].kind = req[q].kind
  BY Known DEF Steps
<1>2. r \in Running /\ \A q \in Requests : q \in Running' => q \in Running
  BY <1>1 DEF Running, Steps
<1>3. Grown(req, req') /\ \A q \in Requests \ {r} : Same(req[q], req'[q])
  BY <1>1 DEF Grown, Same, Steps
<1>4. MetInv'
  <2>1. \A q, s \in Requests : s \in req'[q].met => q \in req'[s].met
    BY <1>1 DEF MetInv
  <2>2. ASSUME NEW q \in Running', NEW s \in Running', q # s PROVE s \in req'[q].met
    <3>1. q \in Requests /\ q \in Running /\ s \in Running
      BY <1>2 DEF Running
    <3>2. QED
      BY <1>1, <2>2, <3>1, Zenon DEF MetInv
  <2>3. QED
    BY <2>1, <2>2 DEF MetInv
<1>5. ASSUME NEW q \in Running \ {r} PROVE r \in req'[q].met
  BY <1>1, <1>2, Zenon DEF MetInv, Running
<1>6. QED
  BY <1>1, <1>3, <1>4, <1>5

LEMMA UniqueKept ==
  ASSUME TypeInv, MetInv', Unique(users, req), Grown(req, req'), TypeInv',
         NEW r \in Requests, NEW w \in Ids, Writes(users, users', req', w, r)
  PROVE  Unique(users', req')
<1> USE DEF IdAttributes, Attributes, Fields
<1>1. ASSUME NEW v \in Ids \ {w}, NEW a \in IdAttributes,
             users'[w] # NoUser, Holds(users'[v], a, users'[w].has[a])
      PROVE  Excused(req', a, users'[w].by[a], users'[v].by[a])
  <2>1. users'[v] = users[v] /\ users'[w].has[a] # None
    BY <1>1 DEF Writes, Holds
  <2>2. CASE users[w] # NoUser /\ users'[w].has[a] = users[w].has[a]
               /\ users'[w].by[a] = users[w].by[a]
    <3>1. Excused(req, a, users[w].by[a], users[v].by[a])
      BY <1>1, <2>1, <2>2 DEF Unique
    <3>2. users[w].by[a] \in SUBSET Requests /\ users[v].by[a] \in SUBSET Requests
      BY <1>1, <2>1, <2>2, ByType DEF Holds
    <3>3. QED
      BY <2>1, <2>2, <3>1, <3>2, ExcusedGrows
  <2>3. CASE Holds(users[v], a, users'[w].has[a])
               => Excused(req', a, users'[w].by[a], users[v].by[a])
    BY <1>1, <2>1, <2>3
  <2>4. QED
    BY <1>1, <2>1, <2>2, <2>3 DEF Writes
<1>2. SUFFICES ASSUME NEW u \in Ids, NEW v \in Ids, NEW a \in IdAttributes, u # v,
                      users'[u] # NoUser, Holds(users'[v], a, users'[u].has[a])
               PROVE  Excused(req', a, users'[u].by[a], users'[v].by[a])
  BY DEF Unique
<1>3. CASE u = w
  BY <1>1, <1>2, <1>3
<1>4. CASE v = w
  <2>1. Holds(users'[u], a, users'[w].has[a]) /\ users'[w] # NoUser
    BY <1>2, <1>4 DEF Holds
  <2>2. Excused(req', a, users'[v].by[a], users'[u].by[a])
    BY <1>1, <1>2, <1>4, <2>1
  <2>3. users' \in [Ids -> UserRecord \cup {NoUser}]
    BY DEF TypeInv, TypeOK
  <2>4. users'[u].by[a] \in SUBSET Requests /\ users'[v].by[a] \in SUBSET Requests
    BY <1>2, <1>4, <2>1, <2>3 DEF UserRecord
  <2>5. QED
    BY <2>2, <2>4 DEF Excused, Overlaps, MetInv
<1>5. CASE u # w /\ v # w
  <2>1. users'[u] = users[u] /\ users'[v] = users[v]
    BY <1>5 DEF Writes
  <2>2. Excused(req, a, users[u].by[a], users[v].by[a])
    BY <1>2, <2>1 DEF Unique
  <2>3. users[u].by[a] \in SUBSET Requests /\ users[v].by[a] \in SUBSET Requests
    BY <1>2, <2>1, ByType DEF Holds
  <2>4. QED
    BY <2>1, <2>2, <2>3, ExcusedGrows
<1>6. QED
  BY <1>3, <1>4, <1>5

\* What a step of r has to show besides its own writes.
LEMMA StepKeeps ==
  ASSUME AccountsInv, NEW r \in Requests, NEW next, Steps(r, next),
         NEW w \in Ids, Writes(users, users', req', w, r),
         users' \in [Ids -> UserRecord \cup {NoUser}],
         profiles' \subseteq Ids, faults' \in 0..MaxFaults,
         next.at \in Pending => Claims(users', req', r),
         Numbering(users', next),
         Orphans(users', req', profiles')
  PROVE  AccountsInv'
<1>1. /\ TypeInv /\ MetInv /\ Unique(users, req)
      /\ \A q \in Requests : Claims(users, req, q) /\ Numbering(users, req[q])
  BY DEF AccountsInv
<1>2. /\ Grown(req, req') /\ MetInv' /\ req'[r] = next
      /\ \A q \in Requests \ {r} : Same(req[q], req'[q])
      /\ \A q \in Running \ {r} : r \in req'[q].met
  BY <1>1, StepFrame
<1>3. TypeInv'
  <2>1. \A u \in Ids : users'[u] # NoUser => Numbered(users'[u])
    BY <1>1, Known DEF Writes
  <2>2. \A u \in Ids \ {r} : users[u] = NoUser => users'[u] = NoUser
    BY DEF Writes
  <2>3. QED
    BY <1>1, <2>1, <2>2, StepType DEF Steps
<1>4. Unique(users', req')
  BY <1>1, <1>2, <1>3, UniqueKept
<1>5. ASSUME NEW q \in Requests PROVE Claims(users', req', q)
  <2>1. CASE q = r
    BY <1>2, <2>1, RestingClaims
  <2>2. CASE q # r /\ q \in Running
    <3>1. WrittenBeside(users, users', req', q)
      BY <1>2, <2>2 DEF WrittenBeside, Writes
    <3>2. QED
      BY <1>1, <1>2, <2>2, <3>1, OtherClaims
  <2>3. CASE q # r /\ q \notin Running
    BY <1>2, <2>3, RestingClaims DEF Same, Running
  <2>4. QED
    BY <2>1, <2>2, <2>3
<1>6. ASSUME NEW q \in Requests PROVE Numbering(users', req'[q])
  <2>1. CASE q = r
    BY <1>2, <2>1
  <2>2. CASE q # r
    <3>1. \A u \in Ids : users'[u] # NoUser /\ users'[u].has["index"] = None
                           => users[u] # NoUser /\ users[u].has["index"] = None
      BY DEF Writes
    <3>2. QED
      BY <1>1, <1>2, <2>2, <3>1 DEF Numbering, Same, ToNumber
  <2>3. QED
    BY <2>1, <2>2
<1>7. QED
  BY <1>2, <1>3, <1>4, <1>5, <1>6 DEF AccountsInv

LEMMA NothingWritten ==
  ASSUME TypeInv, users' = users, NEW rq, NEW r \in Requests
  PROVE  /\ Writes(users, users', rq, r, r) /\ r \in Ids
         /\ users' \in [Ids -> UserRecord \cup {NoUser}]
  BY Known DEF Writes, Ids

\* Users and participants are kept, and the request is not where one of them
\* hangs on it.
LEMMA OrphansKept ==
  ASSUME TypeInv, Orphans(users, req, profiles), NEW r \in Requests, NEW next,
         MetInv, Steps(r, next), next.at \notin {"profile", "removeUser"},
         \A u \in Ids : users[u] # NoUser => users'[u] # NoUser,
         profiles' \subseteq profiles
  PROVE  Orphans(users', req', profiles')
<1>1. /\ Grown(req, req') /\ req'[r] = next
      /\ \A q \in Requests \ {r} : Same(req[q], req'[q])
  BY StepFrame
<1>2. ASSUME NEW u \in Requests, req'[u].at = "profile", users'[u] = NoUser
      PROVE  RemovedBeside(req', u)
  <2>1. u \in Ids
    BY DEF Ids
  <2>2. QED
    BY <1>1, <1>2, <2>1, RemovedBesideGrows DEF Orphans, Same
<1>3. ASSUME NEW q \in Requests, req'[q].at = "removeUser", req'[q].target \in profiles'
      PROVE  PutBeside(req', q)
  BY <1>1, <1>3, PutBesideGrows DEF Orphans, Same
<1>4. QED
  BY <1>2, <1>3 DEF Orphans

\* A request that ends writes nothing more.
LEMMA AnswerSteps ==
  ASSUME TypeInv, NEW r \in Requests, NEW at \in Answers, req[r].at \in Pending, Answer(r, at)
  PROVE  /\ Steps(r, Ended(req[r], at)) /\ Ended(req[r], at).at \notin Pending
         /\ Ended(req[r], at).at = at /\ Ended(req[r], at).kind = req[r].kind
<1>1. req[r] \in RequestRecord
  BY Known
<1>2. /\ Ended(req[r], at) \in RequestRecord /\ Shaped(users', Ended(req[r], at), r)
      /\ Ended(req[r], at).kind = req[r].kind /\ Ended(req[r], at).at = at
      /\ Ended(req[r], at).met = req[r].met
      /\ req[r].kind \in {"put", "remove"} => Ended(req[r], at).target = req[r].target
  BY <1>1, EndedType
<1>3. at # "idle" /\ at \notin Pending
  BY DEF Answers, Pending
<1>4. req' = [req EXCEPT ![r] = Ended(req[r], at)]
  BY Known DEF Answer
<1>5. QED
  BY <1>2, <1>3, <1>4 DEF Steps

\* An answer without a write.
LEMMA AnswerKeeps ==
  ASSUME AccountsInv, NEW r \in Requests, NEW at \in Answers, req[r].at \in Pending,
         at = "ok" => req[r].kind # "migrate",
         Answer(r, at), UNCHANGED <<users, profiles>>, faults' \in 0..MaxFaults
  PROVE  AccountsInv'
<1> DEFINE next == Ended(req[r], at)
<1>1. TypeInv /\ MetInv /\ Orphans(users, req, profiles)
  BY DEF AccountsInv
<1>2. Steps(r, next) /\ next.at \notin Pending /\ next.at = at /\ next.kind = req[r].kind
  BY <1>1, AnswerSteps
<1> HIDE DEF next
<1>3. Orphans(users', req', profiles')
  <2>1. next.at \notin {"profile", "removeUser"}
    BY <1>2 DEF Answers
  <2>2. QED
    BY <1>1, <1>2, <2>1, OrphansKept
<1>4. Numbering(users', next)
  BY <1>2 DEF Numbering, Answers
<1>5. profiles' \subseteq Ids
  BY <1>1, Known
<1>6. QED
  BY <1>1, <1>2, <1>3, <1>4, <1>5, NothingWritten, StepKeeps

---------------------------------------------------------------------------
(* The steps that only read. *)

\* What the request was asked for and what it has read at the start it keeps.
Keeps(x, y) == y.kind = x.kind /\ y.target = x.target /\ y.given = x.given /\ y.snap = x.snap

LEMMA ReadingKeeps ==
  ASSUME AccountsInv, NEW r \in Requests, NEW next, Steps(r, next), Keeps(req[r], next),
         UNCHANGED <<users, profiles, faults>>,
         next.at \notin {"profile", "removeUser"},
         next.kind = "event" => next.at # "write",
         LookedUpFree(users, req', r), Fresh(users, req', r), OrderStale(users, req', r),
         Numbering(users, next)
  PROVE  AccountsInv'
<1> USE DEF IdAttributes, Attributes, Fields
<1>1. /\ TypeInv /\ MetInv /\ Orphans(users, req, profiles) /\ Claims(users, req, r)
      /\ users' = users
  BY DEF AccountsInv
<1>2. Grown(req, req') /\ req'[r] = next
  BY <1>1, StepFrame
<1>3. SnapUnique(users, req', r)
  <2> SUFFICES ASSUME req[r].kind \in {"update", "edit"}, NEW a \in IdAttributes, NEW v \in Ids,
                      v # req[r].target, Holds(users[v], a, req[r].snap.has[a])
               PROVE  Excused(req', a, {r} \cup req[r].snap.by[a], users[v].by[a])
    BY <1>2 DEF SnapUnique, Keeps
  <2>1. Excused(req, a, {r} \cup req[r].snap.by[a], users[v].by[a])
    BY <1>1 DEF Claims, SnapUnique, Steps
  <2>2. users[v].by[a] \in SUBSET Requests /\ req[r].snap.by[a] \in SUBSET Requests
    BY <1>1, ByType, SnapByType DEF Holds
  <2>3. QED
    BY <1>2, <2>1, <2>2, ExcusedGrows
<1>4. SnapStale(users, req', r)
  <2> DEFINE u == req[r].target
  <2> HIDE DEF IdAttributes, Attributes, Fields
  <2> SUFFICES ASSUME Copies(req[r]), NEW a \in Attributes, users[u] # NoUser,
                      users[u].has[a] \notin {None, req[r].snap.has[a]}
               PROVE  Overlaps(req', {r}, users[u].by[a])
    <3>1. req'[r].kind = req[r].kind /\ req'[r].target = u /\ req'[r].snap = req[r].snap
      BY <1>2 DEF Keeps
    <3>2. Copies(req'[r]) => Copies(req[r])
      BY <1>2, <3>1 DEF Copies, Steps
    <3>3. QED
      BY <3>1, <3>2 DEF SnapStale
  <2>1. Overlaps(req, {r}, users[u].by[a])
    BY <1>1 DEF Claims, SnapStale
  <2>2. QED
    BY <1>2, <2>1, OverlapsGrow
<1>5. Claims(users', req', r)
  BY <1>1, <1>3, <1>4 DEF Claims
<1>6. Orphans(users', req', profiles')
  BY <1>1, OrphansKept
<1>7. faults' \in 0..MaxFaults /\ profiles' \subseteq Ids
  BY <1>1 DEF TypeInv, TypeOK
<1>8. QED
  BY <1>1, <1>5, <1>6, <1>7, NothingWritten, StepKeeps

LEMMA LookupKeeps ==
  ASSUME AccountsInv, NEW r \in Requests, Lookup(r)
  PROVE  AccountsInv'
<1>1. TypeInv /\ req[r] \in RequestRecord /\ Shaped(users, req[r], r)
  BY Known DEF AccountsInv
<1>2. /\ req[r].at = "lookup" /\ req[r].at \in Pending /\ req[r].kind = "edit"
      /\ UNCHANGED <<users, profiles, faults>>
  BY <1>1 DEF Lookup, Shaped, Pending
<1>3. CASE Answer(r, "notFound")
  <2>1. "notFound" \in Answers /\ faults' \in 0..MaxFaults
    BY <1>1, <1>2 DEF Answers, TypeInv, TypeOK
  <2>2. QED
    BY <1>2, <1>3, <2>1, AnswerKeeps
<1>4. CASE req' = [req EXCEPT ![r].at = "check", ![r].todo =
                     IF Changed(r) = {} THEN <<>> ELSE <<Changed(r)>>]
  <2> DEFINE todo == IF Changed(r) = {} THEN <<>> ELSE <<Changed(r)>>
             next == [req[r] EXCEPT !.at = "check", !.todo = todo]
  <2>1. Changed(r) \in SUBSET Fields /\ todo \in Seq(SUBSET Fields)
    <3>1. Changed(r) \in SUBSET Fields
      BY DEF Changed, GivenIn, Fields
    <3> HIDE DEF todo
    <3>2. <<Changed(r)>> \in Seq(SUBSET Fields) /\ <<>> \in Seq(SUBSET Fields)
      BY <3>1
    <3>3. QED
      BY <3>1, <3>2 DEF todo
  <2>2. ASSUME NEW f \in Identifiers, req[r].given[f] # None, req[r].given[f] # req[r].snap.has[f]
        PROVE  Covers(todo, f)
    <3>1. f \in Changed(r) /\ Changed(r) # {}
      BY <2>2 DEF Changed, GivenIn
    <3>2. DOMAIN todo = {1} /\ todo[1] = Changed(r)
      BY <3>1
    <3>3. QED
      BY <3>1, <3>2 DEF Covers
  <2>3. req' = [req EXCEPT ![r] = next]
    BY <1>4
  <2> HIDE DEF todo
  <2>4. /\ next \in RequestRecord /\ next.at = "check" /\ next.todo = todo
        /\ Keeps(req[r], next) /\ next.met = req[r].met /\ next.order = req[r].order
    BY <1>1, <2>1 DEF RequestRecord, Keeps, Pending
  <2> HIDE DEF next
  <2>5. Shaped(users', next, r)
    BY <1>1, <1>2, <2>4 DEF Shaped, Keeps, Pending
  <2>6. Steps(r, next)
    BY <1>2, <2>3, <2>4, <2>5 DEF Steps, Keeps
  <2>7. req'[r] = next
    BY <1>1, <2>3, Known
  <2>8. LookedUpFree(users, req', r)
    BY <1>2, <2>2, <2>4, <2>7 DEF LookedUpFree, LookedUp, Keeps, Holds
  <2>9. Fresh(users, req', r) /\ OrderStale(users, req', r) /\ Numbering(users, next)
    BY <1>2, <2>4, <2>7 DEF Fresh, OrderStale, Numbering, Keeps
  <2>10. QED
    BY <1>2, <2>4, <2>6, <2>8, <2>9, ReadingKeeps DEF Keeps
<1>5. QED
  BY <1>3, <1>4 DEF Lookup

\* A look-up that finds nobody frees its fields.
LEMMA CheckKeeps ==
  ASSUME AccountsInv, NEW r \in Requests, Check(r)
  PROVE  AccountsInv'
<1>1. /\ TypeInv /\ MetInv /\ req[r] \in RequestRecord /\ Shaped(users, req[r], r)
      /\ Claims(users, req, r)
  BY Known DEF AccountsInv
<1>2. /\ req[r].at = "check" /\ req[r].at \in Pending
      /\ req[r].kind \in {"register", "create", "update", "edit"}
      /\ UNCHANGED <<users, profiles, faults>>
  BY <1>1 DEF Check, Shaped, Pending
<1>3. CASE req[r].todo # <<>> /\ Found(r, Head(req[r].todo)) # {}
  <2>1. Answer(r, "conflict") /\ "conflict" \in Answers /\ faults' \in 0..MaxFaults
    BY <1>1, <1>2, <1>3 DEF Check, Answers, TypeInv, TypeOK
  <2>2. QED
    BY <1>2, <2>1, AnswerKeeps
<1>4. CASE req[r].todo = <<>> \/ Found(r, Head(req[r].todo)) = {}
  <2> DEFINE at == IF req[r].todo # <<>> THEN "check"
                   ELSE IF req[r].kind \in {"register", "create"} THEN "number" ELSE "write"
             todo == IF req[r].todo # <<>> THEN Tail(req[r].todo) ELSE req[r].todo
             next == [req[r] EXCEPT !.at = at, !.todo = todo]
  <2>1. /\ at \in {"check", "number", "write"} /\ at \in Pending
        /\ at = "number" => req[r].kind \in {"register", "create"}
        /\ at = "write" => req[r].kind \in {"update", "edit"}
    BY <1>2 DEF Pending
  <2>2. req[r].todo \in Seq(SUBSET Fields)
    BY <1>1 DEF RequestRecord
  <2>3. todo \in Seq(SUBSET Fields)
    BY <2>2, HeadTailProperties
  <2>4. req' = [req EXCEPT ![r] = next]
    <3> DEFINE x == req[r]
    <3>1. CASE req[r].todo = <<>>
      <4>1. next = [x EXCEPT !.at = at] /\ req' = [req EXCEPT ![r].at = at]
        BY <1>1, <3>1 DEF Check, Goto, RequestRecord
      <4>2. QED
        BY <4>1
    <3>2. CASE req[r].todo # <<>>
      <4>1. at = x.at /\ todo = Tail(x.todo)
        BY <1>2, <3>2
      <4>2. next = [x EXCEPT !.todo = Tail(x.todo)]
        BY <1>1, <4>1 DEF RequestRecord
      <4>3. req' = [req EXCEPT ![r].todo = Tail(@)]
        BY <1>4, <3>2 DEF Check
      <4>4. QED
        BY <4>2, <4>3
    <3>3. QED
      BY <3>1, <3>2
  <2>5. ASSUME NEW f \in Identifiers, ~ Covers(todo, f), at = "check"
        PROVE  f \in Head(req[r].todo) \/ ~ Covers(req[r].todo, f)
    <3>1. req[r].todo # <<>> /\ todo = Tail(req[r].todo)
      BY <2>1, <2>5
    <3>2. /\ Len(todo) \in Nat /\ DOMAIN todo = 1..Len(todo)
          /\ Len(todo) = Len(req[r].todo) - 1 /\ Len(req[r].todo) \in Nat
          /\ DOMAIN req[r].todo = 1..Len(req[r].todo)
          /\ \A i \in 1..Len(todo) : todo[i] = req[r].todo[i + 1]
      BY <2>2, <2>3, <3>1, HeadTailProperties, LenProperties
    <3>3. ASSUME NEW i \in DOMAIN req[r].todo, i # 1 PROVE f \notin req[r].todo[i]
      <4>1. i - 1 \in 1..Len(todo) /\ (i - 1) + 1 = i
        BY <3>2, <3>3
      <4>2. req[r].todo[i] = todo[i - 1] /\ f \notin todo[i - 1]
        BY <2>5, <3>2, <4>1 DEF Covers
      <4>3. QED
        BY <4>2
    <3>4. Head(req[r].todo) = req[r].todo[1]
      BY <2>2, <3>1
    <3>5. QED
      BY <3>3, <3>4 DEF Covers
  <2>6. at # "check" => req[r].todo = <<>> /\ \A f : ~ Covers(req[r].todo, f)
    BY DEF Covers
  <2>7. at = "check" => Found(r, Head(req[r].todo)) = {}
    BY <1>4
  <2> HIDE DEF at, todo
  <2>8. /\ next \in RequestRecord /\ next.at = at /\ next.todo = todo
        /\ Keeps(req[r], next) /\ next.met = req[r].met /\ next.order = req[r].order
    BY <1>1, <2>1, <2>3 DEF RequestRecord, Keeps
  <2> HIDE DEF next
  <2>9. Shaped(users', next, r)
    BY <1>1, <1>2, <2>1, <2>8 DEF Shaped, Keeps, Pending
  <2>10. Steps(r, next)
    BY <1>2, <2>1, <2>4, <2>8, <2>9 DEF Steps, Keeps
  <2>11. Grown(req, req') /\ req'[r] = next
    BY <1>1, <2>10, StepFrame
  <2>12. LookedUpFree(users, req', r)
    <3> SUFFICES ASSUME NEW f \in Identifiers, NEW v \in Ids, LookedUp(next, f),
                        req[r].kind = "edit" => v # req[r].target,
                        Holds(users[v], f, req[r].given[f])
                 PROVE  Excused(req', f, {r}, users[v].by[f])
      BY <2>8, <2>11 DEF LookedUpFree, Keeps
    <3>1. f \notin Head(req[r].todo) \/ at # "check"
      BY <2>7 DEF Found, Matching, Live, Holds
    <3>2. LookedUp(req[r], f)
      BY <1>2, <2>1, <2>5, <2>6, <2>8, <3>1 DEF LookedUp, Keeps
    <3>3. Excused(req, f, {r}, users[v].by[f])
      BY <1>1, <3>2 DEF Claims, LookedUpFree
    <3>4. users[v].by[f] \in SUBSET Requests
      BY <1>1, ByType DEF Holds, Attributes, Fields
    <3>5. QED
      BY <2>11, <3>3, <3>4, ExcusedGrows
  <2>13. Fresh(users, req', r) /\ OrderStale(users, req', r) /\ Numbering(users, next)
    BY <1>2, <2>1, <2>8, <2>11 DEF Fresh, OrderStale, Numbering, Keeps
  <2>14. QED
    BY <1>2, <2>1, <2>8, <2>10, <2>12, <2>13, ReadingKeeps DEF Keeps
<1>5. QED
  BY <1>3, <1>4

---------------------------------------------------------------------------
(* The numbers. *)

\* No number is above the last one.
LEMMA LastIsGreatest ==
  ASSUME TypeInv
  PROVE  /\ LastNumber \in Nat
         /\ \A v \in Ids : users[v] # NoUser /\ users[v].has["index"] \in Nat
              => users[v].has["index"] <= LastNumber
<1> DEFINE S == Numbers \cup {0}
           number == [v \in Live |-> IF users[v].has["index"] = None THEN 0
                                     ELSE users[v].has["index"]]
<1>1. \A v \in Live : v \in Ids /\ users[v].has["index"] \in Nat \cup {None}
  BY DEF TypeInv, TypeOK, Live
<1>2. number \in [Live -> Nat]
  BY <1>1
<1>3. IsFiniteSet(Live)
  BY FiniteIds, FS_Subset DEF Live
<1>4. Numbers \subseteq {number[v] : v \in Live} /\ Numbers \subseteq Nat
  BY <1>1 DEF Numbers
<1>5. IsFiniteSet(Numbers)
  <2>1. Numbers \in SUBSET {number[v] : v \in Live}
    BY <1>4
  <2> HIDE DEF number
  <2>2. QED
    BY <1>2, <1>3, <2>1, ImageIsFinite
<1>6. IsFiniteSet({0}) /\ IsFiniteSet(S)
  BY <1>5, FS_Singleton, FS_Union
<1>7. S \in SUBSET Nat /\ S # {}
  BY <1>4
<1>8. \A v \in Ids : users[v] # NoUser /\ users[v].has["index"] \in Nat
                       => users[v].has["index"] \in S
  BY AccountsAssumption DEF Numbers, Live
<1> HIDE DEF S
<1>9. Max(S) \in S /\ \A x \in S : x <= Max(S)
  BY <1>6, <1>7, MaxIsGreatest
<1>10. QED
  BY <1>7, <1>8, <1>9 DEF LastNumber, S

LEMMA NumberKeeps ==
  ASSUME AccountsInv, NEW r \in Requests, Number(r)
  PROVE  AccountsInv'
<1> DEFINE number == LastNumber + 1
           next == [req[r] EXCEPT !.at = "insert", !.number = number]
<1>1. /\ TypeInv /\ MetInv /\ req[r] \in RequestRecord /\ Shaped(users, req[r], r)
      /\ Claims(users, req, r)
  BY Known DEF AccountsInv
<1>2. /\ req[r].at = "number" /\ req[r].at \in Pending
      /\ req[r].kind \in {"register", "create", "event"}
      /\ UNCHANGED <<users, profiles, faults>>
  BY <1>1 DEF Number, Shaped, Pending
<1>3. /\ number \in Nat
      /\ \A v \in Ids : users[v] # NoUser /\ users[v].has["index"] \in Nat
           => ~ (users[v].has["index"] >= number)
  <2>1. /\ LastNumber \in Nat
        /\ \A v \in Ids : users[v] # NoUser /\ users[v].has["index"] \in Nat
             => users[v].has["index"] <= LastNumber
    BY <1>1, LastIsGreatest
  <2> HIDE DEF LastNumber
  <2>2. QED
    BY <2>1
<1>4. req' = [req EXCEPT ![r] = next]
  BY DEF Number
<1> HIDE DEF number
<1>5. /\ next \in RequestRecord /\ next.at = "insert" /\ next.number = number
      /\ Keeps(req[r], next) /\ next.met = req[r].met /\ next.order = req[r].order
      /\ next.todo = req[r].todo
  BY <1>1, <1>3 DEF RequestRecord, Keeps, Pending
<1> HIDE DEF next
<1>6. Shaped(users', next, r)
  BY <1>1, <1>2, <1>5 DEF Shaped, Keeps, Pending
<1>7. Steps(r, next)
  BY <1>2, <1>4, <1>5, <1>6 DEF Steps, Keeps
<1>8. Grown(req, req') /\ req'[r] = next
  BY <1>1, <1>7, StepFrame
<1>9. LookedUpFree(users, req', r)
  <2> SUFFICES ASSUME NEW f \in Identifiers, NEW v \in Ids, LookedUp(next, f),
                      Holds(users[v], f, req[r].given[f])
               PROVE  Excused(req', f, {r}, users[v].by[f])
    BY <1>2, <1>5, <1>8 DEF LookedUpFree, Keeps
  <2>1. LookedUp(req[r], f)
    BY <1>2, <1>5 DEF LookedUp, Keeps
  <2>2. Excused(req, f, {r}, users[v].by[f])
    BY <1>1, <1>2, <2>1 DEF Claims, LookedUpFree
  <2>3. users[v].by[f] \in SUBSET Requests
    BY <1>1, ByType DEF Holds, Attributes, Fields
  <2>4. QED
    BY <1>8, <2>2, <2>3, ExcusedGrows
<1>10. Fresh(users, req', r)
  BY <1>3, <1>5, <1>8 DEF Fresh
<1>11. OrderStale(users, req', r) /\ Numbering(users, next)
  BY <1>2, <1>5, <1>8 DEF OrderStale, Numbering, Keeps
<1>12. QED
  BY <1>2, <1>5, <1>7, <1>9, <1>10, <1>11, ReadingKeeps

LEMMA ReadMaxKeeps ==
  ASSUME AccountsInv, NEW r \in Requests, ReadMax(r)
  PROVE  AccountsInv'
<1> DEFINE next == [req[r] EXCEPT !.at = "assign", !.number = LastNumber]
<1>1. /\ TypeInv /\ MetInv /\ req[r] \in RequestRecord /\ Shaped(users, req[r], r)
      /\ Claims(users, req, r) /\ Numbering(users, req[r])
  BY Known DEF AccountsInv
<1>2. /\ req[r].at = "max" /\ req[r].at \in Pending /\ req[r].kind = "migrate"
      /\ UNCHANGED <<users, profiles, faults>>
  BY <1>1 DEF ReadMax, Shaped, Pending
<1>3. /\ LastNumber \in Nat
      /\ \A v \in Ids : users[v] # NoUser /\ users[v].has["index"] \in Nat
           => ~ (users[v].has["index"] > LastNumber)
  <2>1. /\ LastNumber \in Nat
        /\ \A v \in Ids : users[v] # NoUser /\ users[v].has["index"] \in Nat
             => users[v].has["index"] <= LastNumber
    BY <1>1, LastIsGreatest
  <2> HIDE DEF LastNumber
  <2>2. QED
    BY <2>1
<1>4. req' = [req EXCEPT ![r] = next]
  BY DEF ReadMax
<1>5. /\ next \in RequestRecord /\ next.at = "assign" /\ next.number = LastNumber
      /\ Keeps(req[r], next) /\ next.met = req[r].met /\ next.order = req[r].order
  BY <1>1, <1>3 DEF RequestRecord, Keeps, Pending
<1> HIDE DEF next
<1>6. Shaped(users', next, r)
  BY <1>1, <1>2, <1>5 DEF Shaped, Keeps, Pending
<1>7. Steps(r, next)
  BY <1>2, <1>4, <1>5, <1>6 DEF Steps, Keeps
<1>8. Grown(req, req') /\ req'[r] = next
  BY <1>1, <1>7, StepFrame
<1>9. LookedUpFree(users, req', r)
  BY <1>2, <1>5, <1>8 DEF LookedUpFree, LookedUp, Keeps
<1>10. Fresh(users, req', r)
  BY <1>3, <1>5, <1>8 DEF Fresh
<1>11. OrderStale(users, req', r)
  <2> SUFFICES ASSUME NEW u \in ToNumber(req[r]), users[u] # NoUser,
                      users[u].has["index"] # None
               PROVE  Overlaps(req', {r}, users[u].by["index"])
    BY <1>5, <1>8 DEF OrderStale, ToNumber
  <2>1. Overlaps(req, {r}, users[u].by["index"])
    BY <1>1, <1>2 DEF Claims, OrderStale
  <2>2. QED
    BY <1>8, <2>1, OverlapsGrow
<1>12. Numbering(users, next)
  BY <1>1, <1>2, <1>5 DEF Numbering, ToNumber
<1>13. QED
  BY <1>2, <1>5, <1>7, <1>9, <1>10, <1>11, <1>12, ReadingKeeps

---------------------------------------------------------------------------
(* Writes. *)

Writers(r, from, a) == {r} \cup (IF a \in DOMAIN from THEN from[a] ELSE {})

LEMMA AssignedFields ==
  ASSUME NEW user \in UserRecord, NEW r \in Requests, NEW new, NEW from,
         \A a \in DOMAIN new : new[a] \in Values \cup Nat \cup {None},
         \A a \in DOMAIN from : from[a] \in SUBSET Requests
  PROVE  LET doc == Assigned(user, r, new, from)
         IN /\ doc \in UserRecord
            /\ \A a \in Attributes :
                 /\ a \in DOMAIN new => doc.has[a] = new[a]
                 /\ a \notin DOMAIN new => doc.has[a] = user.has[a]
                 /\ doc.has[a] = user.has[a] => doc.by[a] = user.by[a]
                 /\ doc.has[a] # user.has[a] => doc.by[a] = Writers(r, from, a)
<1> DEFINE has == [a \in Attributes |-> IF a \in DOMAIN new THEN new[a] ELSE user.has[a]]
           by == [a \in Attributes |->
                    IF a \in DOMAIN new /\ new[a] # user.has[a]
                      THEN Writers(r, from, a) ELSE user.by[a]]
           doc == Assigned(user, r, new, from)
<1>1. doc = [has |-> has, by |-> by]
  BY DEF Assigned, Writers
<1>2. \A a \in Attributes : Writers(r, from, a) \in SUBSET Requests
  BY DEF Writers
<1>3. has \in [Attributes -> Values \cup Nat \cup {None}]
  BY DEF UserRecord
<1>4. by \in [Attributes -> SUBSET Requests]
  BY <1>2 DEF UserRecord
<1>5. \A a \in Attributes :
        /\ a \in DOMAIN new => has[a] = new[a]
        /\ a \notin DOMAIN new => has[a] = user.has[a]
        /\ has[a] = user.has[a] => by[a] = user.by[a]
        /\ has[a] # user.has[a] => by[a] = Writers(r, from, a)
  OBVIOUS
<1> HIDE DEF has, by, doc
<1>6. doc.has = has /\ doc.by = by /\ doc \in UserRecord
  BY <1>1, <1>3, <1>4 DEF UserRecord
<1>7. QED
  BY <1>5, <1>6 DEF doc

\* Request r sets attributes of document w, or inserts it.
LEMMA AssignWrites ==
  ASSUME TypeInv, NEW r \in Requests, NEW w \in Ids, NEW base \in UserRecord, NEW new, NEW from,
         Grown(req, req'), Numbered(base),
         base = users[w] \/ (base = Blank /\ w = r /\ "index" \in DOMAIN new),
         \A a \in DOMAIN new : new[a] \in Values \cup Nat \cup {None},
         "index" \in DOMAIN new => new["index"] \in Nat,
         \A a \in DOMAIN from : from[a] \in SUBSET Requests,
         users' = [users EXCEPT ![w] = Assigned(base, r, new, from)],
         \A a \in IdAttributes \cap DOMAIN new, v \in Ids \ {w} :
           new[a] # base.has[a] /\ Holds(users[v], a, new[a])
             => Excused(req, a, Writers(r, from, a), users[v].by[a])
  PROVE  /\ Writes(users, users', req', w, r)
         /\ users' \in [Ids -> UserRecord \cup {NoUser}]
         /\ \A v \in Ids : users[v] # NoUser => users'[v] # NoUser
         /\ users'[w] # NoUser
<1> USE DEF IdAttributes, Attributes, Fields
<1> DEFINE doc == Assigned(base, r, new, from)
<1>1. /\ doc \in UserRecord
      /\ \A a \in Attributes :
           /\ a \in DOMAIN new => doc.has[a] = new[a]
           /\ a \notin DOMAIN new => doc.has[a] = base.has[a]
           /\ doc.has[a] = base.has[a] => doc.by[a] = base.by[a]
           /\ doc.has[a] # base.has[a] => doc.by[a] = Writers(r, from, a)
  BY AssignedFields
<1> HIDE DEF doc
<1>2. /\ users' = [users EXCEPT ![w] = doc]
      /\ users' \in [Ids -> UserRecord \cup {NoUser}] /\ users'[w] = doc
      /\ \A v \in Ids \ {w} : users'[v] = users[v]
  BY <1>1, Known DEF doc
<1>3. doc # NoUser /\ NoUser \notin UserRecord
  BY <1>1, AccountsAssumption
<1>4. users[w] # NoUser => base = users[w] \/ base = Blank
  OBVIOUS
<1>5. Numbered(doc)
  BY <1>1 DEF Numbered
<1>6. doc.has["index"] = None => users[w] # NoUser /\ users[w].has["index"] = None
  <2>1. "index" \in DOMAIN new => doc.has["index"] # None
    BY <1>1, AccountsAssumption
  <2>2. QED
    BY <1>1, <1>3, <2>1
<1>7. ASSUME NEW a \in Attributes
      PROVE  \/ doc.has[a] = None
             \/ users[w] # NoUser /\ doc.has[a] = users[w].has[a] /\ doc.by[a] = users[w].by[a]
             \/ /\ r \in doc.by[a]
                /\ a \in IdAttributes => \A v \in Ids \ {w} :
                     Holds(users[v], a, doc.has[a])
                       => Excused(req', a, doc.by[a], users[v].by[a])
  <2>1. CASE doc.has[a] = base.has[a]
    <3>1. base = Blank => base.has[a] = None
      BY DEF Blank
    <3>2. base = users[w] => users[w] # NoUser
      BY <1>3
    <3>3. QED
      BY <1>1, <2>1, <3>1, <3>2
  <2>2. CASE doc.has[a] # base.has[a]
    <3>1. /\ a \in DOMAIN new /\ doc.has[a] = new[a] /\ doc.by[a] = Writers(r, from, a)
          /\ doc.by[a] \in SUBSET Requests /\ r \in doc.by[a]
      BY <1>1, <2>2 DEF UserRecord, Writers
    <3>2. ASSUME a \in IdAttributes, NEW v \in Ids \ {w}, Holds(users[v], a, doc.has[a])
          PROVE  Excused(req', a, doc.by[a], users[v].by[a])
      <4>1. Excused(req, a, doc.by[a], users[v].by[a])
        BY <2>2, <3>1, <3>2
      <4>2. users[v].by[a] \in SUBSET Requests
        BY <3>2, ByType DEF Holds
      <4>3. QED
        BY <3>1, <4>1, <4>2, ExcusedGrows
    <3>3. QED
      BY <3>1, <3>2
  <2>3. QED
    BY <2>1, <2>2
<1>8. users[w] = NoUser /\ w # r => users'[w] = NoUser
  BY <1>3
<1>9. Writes(users, users', req', w, r)
  BY <1>2, <1>5, <1>6, <1>7, <1>8 DEF Writes
<1>10. QED
  BY <1>2, <1>3, <1>9

LEMMA AskedFields ==
  ASSUME NEW given \in [Fields -> Values \cup {None}], NEW fields \in SUBSET Fields
  PROVE  /\ DOMAIN Asked(given, fields) = {f \in fields : given[f] # None}
         /\ \A f \in DOMAIN Asked(given, fields) :
              Asked(given, fields)[f] = given[f] /\ given[f] \in Values /\ f \in Fields
  BY DEF Asked

LEMMA OverFields ==
  ASSUME NEW set, NEW read
  PROVE  /\ DOMAIN Over(set, read) = DOMAIN set \cup DOMAIN read
         /\ \A a \in DOMAIN set : Over(set, read)[a] = set[a]
         /\ \A a \in DOMAIN read : a \notin DOMAIN set => Over(set, read)[a] = read[a]
  BY DEF Over

LEMMA InsertKeeps ==
  ASSUME AccountsInv, NEW r \in Requests, Insert(r)
  PROVE  AccountsInv'
<1> USE DEF IdAttributes, Attributes, Fields
<1> DEFINE given == req[r].given
           asked == Asked(given, Fields)
           new == Over(Index(req[r].number), asked)
           next == IF req[r].kind = "create" THEN [req[r] EXCEPT !.at = "profile"]
                   ELSE Ended(req[r], "ok")
<1>1. /\ TypeInv /\ MetInv /\ Orphans(users, req, profiles)
      /\ req[r] \in RequestRecord /\ Shaped(users, req[r], r) /\ Claims(users, req, r)
  BY Known DEF AccountsInv
<1>2. /\ req[r].at = "insert" /\ req[r].at \in Pending /\ users[r] = NoUser
      /\ req[r].kind \in {"register", "create", "event"}
      /\ UNCHANGED <<profiles, faults>>
      /\ users' = [users EXCEPT ![r] = Assigned(Blank, r, new, <<>>)]
  BY <1>1 DEF Insert, Shaped, Pending
<1>3. /\ given \in [Fields -> Values \cup {None}] /\ req[r].number \in Nat
  BY <1>1 DEF RequestRecord
<1>4. /\ DOMAIN asked \subseteq Fields
      /\ \A f \in DOMAIN asked : asked[f] = given[f] /\ given[f] \in Values /\ given[f] # None
  <2> HIDE DEF given, Fields
  <2>1. Fields \in SUBSET Fields /\ None \notin Values
    BY AccountsAssumption
  <2>2. /\ DOMAIN Asked(given, Fields) = {f \in Fields : given[f] # None}
        /\ \A f \in DOMAIN Asked(given, Fields) :
             Asked(given, Fields)[f] = given[f] /\ given[f] \in Values /\ f \in Fields
    BY <1>3, <2>1, AskedFields
  <2>3. QED
    BY <2>1, <2>2
<1>5. /\ DOMAIN new = DOMAIN asked \cup {"index"} /\ new["index"] = req[r].number
      /\ \A f \in DOMAIN asked : new[f] = asked[f]
      /\ \A a \in DOMAIN new : new[a] \in Values \cup Nat \cup {None}
  <2> HIDE DEF given, asked
  <2>1. /\ DOMAIN Index(req[r].number) = {"index"}
        /\ Index(req[r].number)["index"] = req[r].number
    BY DEF Index
  <2>2. "index" \notin DOMAIN asked
    BY <1>4 DEF Identifiers
  <2>3. /\ DOMAIN new = DOMAIN Index(req[r].number) \cup DOMAIN asked
        /\ \A a \in DOMAIN Index(req[r].number) : new[a] = Index(req[r].number)[a]
        /\ \A f \in DOMAIN asked : f \notin DOMAIN Index(req[r].number) => new[f] = asked[f]
    BY OverFields, Zenon
  <2> HIDE DEF new
  <2>4. /\ DOMAIN new = DOMAIN asked \cup {"index"} /\ new["index"] = req[r].number
        /\ \A f \in DOMAIN asked : new[f] = asked[f]
    BY <2>1, <2>2, <2>3
  <2>5. QED
    BY <1>3, <1>4, <2>4
<1>6. /\ Steps(r, next) /\ next.kind = req[r].kind
      /\ next.at = (IF req[r].kind = "create" THEN "profile" ELSE "ok")
  <2>1. CASE req[r].kind = "create"
    <3> DEFINE on == [req[r] EXCEPT !.at = "profile"]
    <3>1. /\ on \in RequestRecord /\ on.at = "profile" /\ Keeps(req[r], on)
          /\ on.met = req[r].met /\ on.order = req[r].order
      BY <1>1 DEF RequestRecord, Keeps, Pending
    <3>2. req' = [req EXCEPT ![r] = on]
      BY <2>1 DEF Insert, Goto
    <3>3. next = on
      BY <2>1
    <3> HIDE DEF on, next
    <3>4. Shaped(users', on, r)
      BY <1>1, <2>1, <3>1 DEF Shaped, Keeps, Pending
    <3>5. QED
      BY <1>2, <2>1, <3>1, <3>2, <3>3, <3>4 DEF Steps, Keeps
  <2>2. CASE req[r].kind # "create"
    <3>1. Answer(r, "ok") /\ "ok" \in Answers
      BY <2>2 DEF Insert, Answers
    <3>2. QED
      BY <1>1, <1>2, <2>2, <3>1, AnswerSteps
  <2>3. QED
    BY <2>1, <2>2
<1> HIDE DEF given, asked, new, next
<1>7. Grown(req, req') /\ req'[r] = next
      /\ \A q \in Requests \ {r} : Same(req[q], req'[q])
  BY <1>1, <1>6, StepFrame
<1>8. ASSUME NEW a \in IdAttributes \cap DOMAIN new, NEW v \in Ids \ {r},
             Holds(users[v], a, new[a])
      PROVE  Excused(req, a, Writers(r, <<>>, a), users[v].by[a])
  <2>1. r \in Writers(r, <<>>, a)
    BY DEF Writers
  <2>2. CASE a = "index"
    <3>1. users[v] # NoUser /\ users[v].has["index"] = req[r].number
      BY <1>5, <1>8, <2>2 DEF Holds
    <3>2. users[v].has["index"] \in Nat /\ users[v].has["index"] >= req[r].number
      BY <1>3, <3>1
    <3>3. Overlaps(req, {r}, users[v].by["index"])
      BY <1>1, <1>2, <3>1, <3>2 DEF Claims, Fresh
    <3>4. QED
      BY <2>1, <2>2, <3>3 DEF Excused, Overlaps
  <2>3. CASE a \in Identifiers
    <3>1. a # "index"
      BY <2>3 DEF Identifiers
    <3>2. Holds(users[v], a, given[a]) /\ given[a] # None
      BY <1>4, <1>5, <1>8, <3>1
    <3>3. CASE req[r].kind = "event"
      BY <2>1, <2>3, <3>3 DEF Excused
    <3>4. CASE req[r].kind # "event"
      <4>1. LookedUp(req[r], a) /\ req[r].kind # "edit"
        BY <1>2, <3>4 DEF LookedUp
      <4>2. Excused(req, a, {r}, users[v].by[a])
        BY <1>1, <2>3, <3>2, <4>1 DEF Claims, LookedUpFree, given
      <4>3. QED
        BY <2>1, <4>2 DEF Excused, Overlaps
    <3>5. QED
      BY <3>3, <3>4
  <2>4. QED
    BY <2>2, <2>3
<1>9. /\ Writes(users, users', req', r, r)
      /\ users' \in [Ids -> UserRecord \cup {NoUser}]
      /\ \A v \in Ids : users[v] # NoUser => users'[v] # NoUser
      /\ users'[r] # NoUser /\ r \in Ids
  <2>1. r \in Ids
    BY DEF Ids
  <2>2. DOMAIN <<>> = {}
    OBVIOUS
  <2>3. QED
    BY <1>1, <1>2, <1>3, <1>5, <1>7, <1>8, <2>1, <2>2, BlankType, AssignWrites
<1>10. next.at \in Pending => Claims(users', req', r)
  BY <1>6, <1>7 DEF Claims, SnapUnique, LookedUpFree, LookedUp, Fresh, OrderStale, SnapStale,
                    Copies, Pending
<1>11. Numbering(users', next)
  BY <1>2, <1>6 DEF Numbering
<1>12. Orphans(users', req', profiles')
  <2>1. ASSUME NEW u \in Requests, req'[u].at = "profile", users'[u] = NoUser
        PROVE  RemovedBeside(req', u)
    BY <1>1, <1>7, <1>9, <2>1, RemovedBesideGrows DEF Orphans, Same, Ids
  <2>2. ASSUME NEW q \in Requests, req'[q].at = "removeUser", req'[q].target \in profiles'
        PROVE  PutBeside(req', q)
    BY <1>1, <1>2, <1>6, <1>7, <2>2, PutBesideGrows DEF Orphans, Same
  <2>3. QED
    BY <2>1, <2>2 DEF Orphans
<1>13. profiles' \subseteq Ids /\ faults' \in 0..MaxFaults
  BY <1>1, <1>2 DEF TypeInv, TypeOK
<1>14. QED
  BY <1>6, <1>9, <1>10, <1>11, <1>12, <1>13, StepKeeps

\* A participant is written, whether its user is still there or not.
LEMMA ProfileWritten ==
  ASSUME AccountsInv, NEW r \in Requests, NEW w \in Ids, r \in WritersOf(req, w),
         req[r].at \in {"profile", "upsert"}, Answer(r, "ok"),
         users' = users, profiles' = profiles \cup {w}, faults' = faults
  PROVE  AccountsInv'
<1> DEFINE next == Ended(req[r], "ok")
<1>1. /\ TypeInv /\ MetInv /\ Orphans(users, req, profiles)
      /\ req[r].at \in Pending /\ "ok" \in Answers /\ req[r].kind \in {"put", "create"}
  BY DEF AccountsInv, Pending, Answers, WritersOf
<1>2. Steps(r, next) /\ next.at \notin Pending /\ next.at = "ok" /\ next.kind = req[r].kind
  BY <1>1, AnswerSteps
<1> HIDE DEF next
<1>3. /\ Grown(req, req') /\ req'[r] = next
      /\ \A q \in Requests \ {r} : Same(req[q], req'[q])
      /\ \A q \in Running \ {r} : r \in req'[q].met
      /\ \A s, q \in Requests : s \in req'[q].met => q \in req'[s].met
  BY <1>1, <1>2, StepFrame DEF MetInv
<1>4. Numbering(users', next)
  BY <1>1, <1>2 DEF Numbering
<1>5. Orphans(users', req', profiles')
  <2>1. ASSUME NEW u \in Requests, req'[u].at = "profile", users'[u] = NoUser
        PROVE  RemovedBeside(req', u)
    BY <1>1, <1>2, <1>3, <2>1, RemovedBesideGrows DEF Orphans, Same
  <2>2. ASSUME NEW q \in Requests, req'[q].at = "removeUser", req'[q].target \in profiles'
        PROVE  PutBeside(req', q)
    <3>1. q # r /\ req[q].at = "removeUser" /\ req'[q].target = req[q].target
      BY <1>2, <1>3, <2>2 DEF Same
    <3>2. CASE req[q].target = w
      <4>1. q \in Running
        BY <3>1 DEF Running, Pending
      <4>2. q \in req'[r].met
        BY <1>3, <3>1, <4>1
      <4>3. r \in WritersOf(req', w)
        BY <1>3 DEF WritersOf, Grown
      <4>4. QED
        BY <3>1, <3>2, <4>2, <4>3 DEF PutBeside, Overlaps
    <3>3. CASE req[q].target # w
      BY <1>1, <1>3, <2>2, <3>1, <3>3, PutBesideGrows DEF Orphans
    <3>4. QED
      BY <3>2, <3>3
  <2>3. QED
    BY <2>1, <2>2 DEF Orphans
<1>6. profiles' \subseteq Ids /\ faults' \in 0..MaxFaults
  BY <1>1, Known DEF TypeInv, TypeOK
<1>7. QED
  BY <1>1, <1>2, <1>4, <1>5, <1>6, NothingWritten, StepKeeps

LEMMA InsertProfileKeeps ==
  ASSUME AccountsInv, NEW r \in Requests, InsertProfile(r)
  PROVE  AccountsInv'
<1>1. Shaped(users, req[r], r)
  BY Known DEF AccountsInv
<1>2. r \in WritersOf(req, r) /\ r \in Ids
  BY <1>1 DEF InsertProfile, Shaped, WritersOf, Ids
<1>3. QED
  BY <1>2, ProfileWritten DEF InsertProfile

LEMMA UpsertProfileKeeps ==
  ASSUME AccountsInv, NEW r \in Requests, UpsertProfile(r)
  PROVE  AccountsInv'
<1>1. Shaped(users, req[r], r)
  BY Known DEF AccountsInv
<1>2. r \in WritersOf(req, req[r].target) /\ req[r].target \in Ids
  BY <1>1 DEF UpsertProfile, Shaped, Pending, WritersOf
<1>3. QED
  BY <1>2, ProfileWritten DEF UpsertProfile

LEMMA WriteProfileKeeps ==
  ASSUME AccountsInv, NEW r \in Requests, WriteProfile(r)
  PROVE  AccountsInv'
<1>1. TypeInv /\ Shaped(users, req[r], r)
  BY Known DEF AccountsInv
<1>2. /\ req[r].at \in Pending /\ req[r].kind = "edit" /\ "ok" \in Answers /\ Answer(r, "ok")
      /\ UNCHANGED <<users, profiles>> /\ faults' \in 0..MaxFaults
  BY <1>1 DEF WriteProfile, Shaped, Pending, Answers, TypeInv, TypeOK
<1>3. QED
  BY <1>2, AnswerKeeps

\* A write to a user that is there, or not any more.
LEMMA SetsKeeps ==
  ASSUME AccountsInv, NEW r \in Requests, NEW next, Steps(r, next), NEW w \in Ids,
         NEW new, NEW from,
         \A a \in DOMAIN new : new[a] \in Values \cup Nat \cup {None},
         "index" \in DOMAIN new => new["index"] \in Nat,
         \A a \in DOMAIN from : from[a] \in SUBSET Requests,
         users' = [users EXCEPT ![w] = IF @ = NoUser THEN @ ELSE Assigned(@, r, new, from)],
         \A a \in IdAttributes \cap DOMAIN new, v \in Ids \ {w} :
           new[a] # users[w].has[a] /\ Holds(users[v], a, new[a])
             => Excused(req, a, Writers(r, from, a), users[v].by[a]),
         profiles' = profiles, faults' = faults, next.at \notin {"profile", "removeUser"},
         next.at \in Pending => Claims(users', req', r),
         Numbering(users', next)
  PROVE  AccountsInv'
<1>1. TypeInv /\ MetInv /\ Orphans(users, req, profiles)
  BY DEF AccountsInv
<1>2. Grown(req, req')
  BY <1>1, StepFrame
<1>3. /\ Writes(users, users', req', w, r)
      /\ users' \in [Ids -> UserRecord \cup {NoUser}]
      /\ \A v \in Ids : users[v] # NoUser => users'[v] # NoUser
  <2>1. CASE users[w] = NoUser
    <3>1. users' = users
      BY <1>1, <2>1, Known
    <3>2. QED
      BY <1>1, <2>1, <3>1, Known DEF Writes
  <2>2. CASE users[w] # NoUser
    <3>1. users[w] \in UserRecord /\ Numbered(users[w])
      BY <1>1, <2>2, Known
    <3>2. users' = [users EXCEPT ![w] = Assigned(users[w], r, new, from)]
      BY <1>1, <2>2, Known
    <3>3. QED
      BY <1>1, <1>2, <3>1, <3>2, AssignWrites
  <2>3. QED
    BY <2>1, <2>2
<1>4. Orphans(users', req', profiles')
  BY <1>1, <1>3, OrphansKept
<1>5. profiles' \subseteq Ids /\ faults' \in 0..MaxFaults
  BY <1>1 DEF TypeInv, TypeOK
<1>6. QED
  BY <1>3, <1>4, <1>5, StepKeeps

LEMMA WriteBackKeeps ==
  ASSUME AccountsInv, NEW r \in Requests, WriteBack(r)
  PROVE  AccountsInv'
<1> USE DEF IdAttributes, Attributes, Fields
<1> DEFINE given == req[r].given
           snap == req[r].snap
           w == req[r].target
           fields == {"email"} \cup ({req[r].extra} \ {None})
           asked == Asked(given, fields)
           copied == [a \in {b \in Attributes \ {"email"} : snap.has[b] # None} |-> snap.has[a]]
           new == Over(asked, copied)
           from == [a \in DOMAIN copied \ DOMAIN asked |-> snap.by[a]]
           next == Ended(req[r], "ok")
<1>1. /\ TypeInv /\ MetInv /\ req[r] \in RequestRecord /\ Shaped(users, req[r], r)
      /\ Claims(users, req, r)
  BY Known DEF AccountsInv
<1>2. /\ req[r].at = "write" /\ req[r].at \in Pending /\ req[r].kind = "update"
      /\ w \in Ids /\ profiles' = profiles /\ faults' = faults
      /\ Answer(r, "ok") /\ "ok" \in Answers
      /\ users' = [users EXCEPT ![w] = IF @ = NoUser THEN @ ELSE Assigned(@, r, new, from)]
  BY <1>1 DEF WriteBack, Shaped, Pending, Answers
<1>3. Steps(r, next) /\ next.at \notin Pending /\ next.at = "ok" /\ next.kind = "update"
  BY <1>1, <1>2, AnswerSteps
<1>4. /\ given \in [Fields -> Values \cup {None}] /\ snap \in UserRecord /\ Numbered(snap)
      /\ fields \in SUBSET Identifiers
  BY <1>1 DEF RequestRecord, Shaped, Identifiers
<1>5. /\ DOMAIN asked \subseteq Identifiers
      /\ \A f \in DOMAIN asked : asked[f] = given[f] /\ given[f] \in Values /\ given[f] # None
  <2> HIDE DEF given, fields, Fields
  <2>1. fields \in SUBSET Fields /\ fields \in SUBSET Identifiers /\ None \notin Values
    BY <1>4, AccountsAssumption DEF Fields
  <2>2. given \in [Fields -> Values \cup {None}]
    BY <1>4
  <2>3. /\ DOMAIN asked = {f \in fields : given[f] # None}
        /\ \A f \in DOMAIN asked : asked[f] = given[f] /\ given[f] \in Values
    BY <2>1, <2>2, AskedFields, Zenon
  <2> HIDE DEF asked
  <2>4. QED
    BY <2>1, <2>3
<1>6. /\ DOMAIN copied \subseteq Attributes
      /\ \A a \in DOMAIN copied : copied[a] = snap.has[a] /\ copied[a] # None
  OBVIOUS
<1> HIDE DEF given, asked, copied, fields, next, w
<1>7. /\ DOMAIN new = DOMAIN asked \cup DOMAIN copied
      /\ \A a \in DOMAIN asked : new[a] = asked[a]
      /\ \A a \in DOMAIN copied : a \notin DOMAIN asked => new[a] = copied[a]
  BY OverFields, Zenon
<1>8. /\ DOMAIN from = DOMAIN copied \ DOMAIN asked
      /\ \A a \in DOMAIN from : from[a] = snap.by[a] /\ from[a] \in SUBSET Requests
  BY <1>4, <1>6 DEF UserRecord
<1> HIDE DEF new, from
<1>9. \A a \in DOMAIN new : new[a] \in Values \cup Nat \cup {None}
  <2> HIDE DEF snap
  <2>1. \A a \in Attributes : snap.has[a] \in Values \cup Nat \cup {None}
    BY <1>4 DEF UserRecord
  <2>2. QED
    BY <1>5, <1>6, <1>7, <2>1
<1>10. "index" \in DOMAIN new => new["index"] \in Nat
  BY <1>4, <1>5, <1>6, <1>7 DEF Numbered, Identifiers
<1>11. ASSUME NEW a \in IdAttributes \cap DOMAIN new, NEW v \in Ids \ {w},
              Holds(users[v], a, new[a])
       PROVE  Excused(req, a, Writers(r, from, a), users[v].by[a])
  <2>1. CASE a \in DOMAIN asked
    <3>1. Holds(users[v], a, given[a]) /\ a \in Identifiers
      BY <1>5, <1>7, <1>11, <2>1
    <3>2. LookedUp(req[r], a)
      BY <1>2 DEF LookedUp
    <3>3. Excused(req, a, {r}, users[v].by[a])
      BY <1>1, <1>2, <3>1, <3>2 DEF Claims, LookedUpFree, given
    <3>4. QED
      BY <3>3 DEF Excused, Overlaps, Writers
  <2>2. CASE a \notin DOMAIN asked
    <3>1. a \in DOMAIN copied /\ Holds(users[v], a, snap.has[a])
      BY <1>6, <1>7, <1>11, <2>2
    <3>2. Excused(req, a, {r} \cup snap.by[a], users[v].by[a])
      BY <1>1, <1>2, <1>11, <3>1 DEF Claims, SnapUnique, w
    <3>3. Writers(r, from, a) = {r} \cup snap.by[a]
      BY <1>8, <2>2, <3>1 DEF Writers
    <3>4. QED
      BY <3>2, <3>3
  <2>3. QED
    BY <2>1, <2>2
<1>12. Numbering(users', next)
  BY <1>3 DEF Numbering
<1>13. QED
  BY <1>2, <1>3, <1>8, <1>9, <1>10, <1>11, <1>12, SetsKeeps

LEMMA WriteGivenKeeps ==
  ASSUME AccountsInv, NEW r \in Requests, WriteGiven(r)
  PROVE  AccountsInv'
<1> USE DEF IdAttributes, Attributes, Fields
<1> DEFINE given == req[r].given
           snap == req[r].snap
           w == req[r].target
           new == Asked(given, Identifiers)
           from == [f \in GivenIn(given) \ Changed(r) |-> snap.by[f]]
           next == [req[r] EXCEPT !.at = "writeProfile"]
<1>1. /\ TypeInv /\ MetInv /\ req[r] \in RequestRecord /\ Shaped(users, req[r], r)
      /\ Claims(users, req, r)
  BY Known DEF AccountsInv
<1>2. /\ req[r].at = "write" /\ req[r].at \in Pending /\ req[r].kind = "edit"
      /\ w \in Ids /\ profiles' = profiles /\ faults' = faults
      /\ req' = [req EXCEPT ![r] = next]
      /\ users' = [users EXCEPT ![w] = IF @ = NoUser THEN @ ELSE Assigned(@, r, new, from)]
  BY <1>1 DEF WriteGiven, Goto, Shaped, Pending
<1>3. /\ next \in RequestRecord /\ next.at = "writeProfile" /\ Keeps(req[r], next)
      /\ next.met = req[r].met /\ next.order = req[r].order
  BY <1>1 DEF RequestRecord, Keeps, Pending
<1>4. /\ given \in [Fields -> Values \cup {None}] /\ snap \in UserRecord
  BY <1>1 DEF RequestRecord
<1>5. /\ DOMAIN new = {f \in Identifiers : given[f] # None}
      /\ \A f \in DOMAIN new : new[f] = given[f] /\ given[f] \in Values
  <2> HIDE DEF given, Fields
  <2>1. Identifiers \in SUBSET Fields
    BY DEF Fields
  <2>2. given \in [Fields -> Values \cup {None}]
    BY <1>4
  <2>3. QED
    BY <2>1, <2>2, AskedFields, Zenon
<1> HIDE DEF next
<1>6. Shaped(users', next, r)
  BY <1>1, <1>2, <1>3 DEF Shaped, Keeps, Pending
<1>7. Steps(r, next)
  BY <1>2, <1>3, <1>6 DEF Steps, Keeps
<1>8. /\ Grown(req, req') /\ req'[r] = next
  BY <1>1, <1>7, StepFrame
<1>9. /\ DOMAIN from \subseteq Identifiers
      /\ \A f \in DOMAIN from : from[f] = snap.by[f] /\ from[f] \in SUBSET Requests
      /\ \A f \in DOMAIN new : f \in DOMAIN from <=> given[f] = snap.has[f]
  BY <1>4, <1>5 DEF GivenIn, Changed, UserRecord
<1> HIDE DEF given, new, from, w, snap
<1>10. "index" \notin DOMAIN new /\ \A a \in DOMAIN new : new[a] \in Values \cup Nat \cup {None}
  BY <1>5 DEF Identifiers
<1>11. ASSUME NEW a \in IdAttributes \cap DOMAIN new, NEW v \in Ids \ {w},
              Holds(users[v], a, new[a])
       PROVE  Excused(req, a, Writers(r, from, a), users[v].by[a])
  <2>1. a \in Identifiers /\ Holds(users[v], a, given[a])
    BY <1>5, <1>11
  <2>2. CASE given[a] # snap.has[a]
    <3>1. LookedUp(req[r], a)
      BY <1>2, <2>2 DEF LookedUp, given, snap
    <3>2. Excused(req, a, {r}, users[v].by[a])
      BY <1>1, <1>11, <2>1, <3>1 DEF Claims, LookedUpFree, given, w
    <3>3. QED
      BY <3>2 DEF Excused, Overlaps, Writers
  <2>3. CASE given[a] = snap.has[a]
    <3>1. Excused(req, a, {r} \cup snap.by[a], users[v].by[a])
      BY <1>1, <1>2, <1>11, <2>1, <2>3 DEF Claims, SnapUnique, snap, w
    <3>2. Writers(r, from, a) = {r} \cup snap.by[a]
      BY <1>9, <2>3 DEF Writers
    <3>3. QED
      BY <3>1, <3>2
  <2>4. QED
    BY <2>2, <2>3
<1>12. Claims(users', req', r)
  <2>1. SnapUnique(users', req', r)
    <3> SUFFICES ASSUME NEW a \in IdAttributes, NEW v \in Ids, v # w,
                        Holds(users'[v], a, snap.has[a])
                 PROVE  Excused(req', a, {r} \cup snap.by[a], users'[v].by[a])
      BY <1>3, <1>8 DEF SnapUnique, Keeps, snap, w
    <3>1. users'[v] = users[v]
      BY <1>1, <1>2, Known
    <3>2. Excused(req, a, {r} \cup snap.by[a], users[v].by[a])
      BY <1>1, <1>2, <3>1 DEF Claims, SnapUnique, snap, w
    <3>3. users[v].by[a] \in SUBSET Requests /\ snap.by[a] \in SUBSET Requests
      BY <1>1, <1>4, <3>1, ByType DEF Holds, UserRecord
    <3>4. QED
      BY <1>8, <3>1, <3>2, <3>3, ExcusedGrows
  <2>2. /\ LookedUpFree(users', req', r) /\ Fresh(users', req', r)
        /\ OrderStale(users', req', r) /\ SnapStale(users', req', r)
    BY <1>2, <1>3, <1>8 DEF LookedUpFree, LookedUp, Fresh, OrderStale, SnapStale, Copies, Keeps
  <2>3. QED
    BY <2>1, <2>2 DEF Claims
<1>13. Numbering(users', next)
  BY <1>2, <1>3 DEF Numbering, Keeps
<1>14. QED
  BY <1>2, <1>3, <1>7, <1>9, <1>10, <1>11, <1>12, <1>13, SetsKeeps

\* A customer event that finds its user sets what it was given, and may copy
\* the customer id it has read.
LEMMA CustomerSets ==
  ASSUME TypeInv, NEW r \in Requests, SaveCustomer(r), users[req[r].target] # NoUser
  PROVE  \E new, from :
           /\ users' = [users EXCEPT ![req[r].target] =
                IF @ = NoUser THEN @ ELSE Assigned(@, r, new, from)]
           /\ DOMAIN new \subseteq Fields \ {"email"}
           /\ \A a \in DOMAIN new :
                /\ new[a] \in Values \cup Nat \cup {None}
                /\ a \in DOMAIN from => new[a] = req[r].snap.has[a]
                /\ a \notin DOMAIN from => new[a] = req[r].given[a] /\ new[a] # None
           /\ DOMAIN from \subseteq {"customerId"}
           /\ \A a \in DOMAIN from :
                from[a] = req[r].snap.by[a] /\ from[a] \in SUBSET Requests
<1> DEFINE w == req[r].target
           snap == req[r].snap
           fields == Fields \ {"email"}
           given == Asked(req[r].given, fields)
           read == [f \in {"customerId"} |-> snap.has[f]]
           set == Over(given, read)
           changed == {f \in DOMAIN set : set[f] # snap.has[f]}
           from == [f \in {"customerId"} \ DOMAIN given |-> snap.by[f]]
<1>1. /\ req[r].given \in [Fields -> Values \cup {None}] /\ snap \in UserRecord
      /\ None \notin Values
  BY Known, AccountsAssumption DEF RequestRecord
<1>2. PICK saved \in {changed, changed \cup {"customerId"}} :
        users' = [users EXCEPT ![w] = Assigned(@, r, Restrict(set, saved), from)]
  BY DEF SaveCustomer
<1> DEFINE new == Restrict(set, saved)
<1>3. /\ DOMAIN given \subseteq fields
      /\ \A f \in DOMAIN given :
           given[f] = req[r].given[f] /\ given[f] \in Values /\ given[f] # None
  <2> HIDE DEF given
  <2>1. fields \in SUBSET Fields
    OBVIOUS
  <2> HIDE DEF fields
  <2>2. /\ DOMAIN given = {f \in fields : req[r].given[f] # None}
        /\ \A f \in DOMAIN given : given[f] = req[r].given[f] /\ req[r].given[f] \in Values
    BY <1>1, <2>1, AskedFields, Zenon DEF given
  <2>3. QED
    BY <1>1, <2>2
<1>4. DOMAIN read = {"customerId"} /\ \A f \in DOMAIN read : read[f] = snap.has[f]
  OBVIOUS
<1>5. /\ \A f \in {"customerId"} : snap.has[f] \in Values \cup Nat \cup {None}
      /\ \A f \in {"customerId"} : snap.by[f] \in SUBSET Requests
  BY <1>1 DEF UserRecord, Attributes, Fields
<1>6. /\ DOMAIN from = {"customerId"} \ DOMAIN given
      /\ \A f \in DOMAIN from : from[f] = snap.by[f] /\ from[f] \in SUBSET Requests
  BY <1>5
<1> HIDE DEF given, read, from
<1>7. /\ DOMAIN set = DOMAIN given \cup DOMAIN read
      /\ \A f \in DOMAIN given : set[f] = given[f]
      /\ \A f \in DOMAIN read : f \notin DOMAIN given => set[f] = read[f]
  BY OverFields, Zenon
<1>8. DOMAIN set \subseteq fields
  BY <1>3, <1>4, <1>7 DEF Fields
<1>9. saved \subseteq DOMAIN set
  BY <1>2, <1>4, <1>7
<1> HIDE DEF set, changed
<1>10. DOMAIN new = saved /\ \A a \in saved : new[a] = set[a]
  BY <1>9 DEF Restrict
<1> HIDE DEF new
<1>11. users' = [users EXCEPT ![w] = IF @ = NoUser THEN @ ELSE Assigned(@, r, new, from)]
  BY <1>2 DEF new
<1> HIDE DEF w
<1>12. \A a \in DOMAIN new :
         /\ new[a] \in Values \cup Nat \cup {None}
         /\ a \in DOMAIN from => new[a] = snap.has[a]
         /\ a \notin DOMAIN from => new[a] = req[r].given[a] /\ new[a] # None
  <2> SUFFICES ASSUME NEW a \in saved
               PROVE  /\ set[a] \in Values \cup Nat \cup {None}
                      /\ a \in DOMAIN from => set[a] = snap.has[a]
                      /\ a \notin DOMAIN from => set[a] = req[r].given[a] /\ set[a] # None
    BY <1>10
  <2> HIDE DEF snap
  <2>1. CASE a \in DOMAIN given
    <3>1. set[a] = given[a] /\ a \notin DOMAIN from
      BY <1>6, <1>7, <2>1
    <3>2. QED
      BY <1>3, <2>1, <3>1
  <2>2. CASE a \notin DOMAIN given
    <3>1. a \in DOMAIN read /\ a = "customerId"
      BY <1>4, <1>7, <1>9, <2>2
    <3>2. set[a] = snap.has[a] /\ a \in DOMAIN from
      BY <1>4, <1>6, <1>7, <2>2, <3>1
    <3>3. QED
      BY <1>5, <3>1, <3>2
  <2>3. QED
    BY <2>1, <2>2
<1>13. DOMAIN new \subseteq fields /\ DOMAIN from \subseteq {"customerId"}
  BY <1>6, <1>8, <1>9, <1>10
<1> HIDE DEF snap, from
<1>14. users' = [users EXCEPT ![req[r].target] =
         IF @ = NoUser THEN @ ELSE Assigned(@, r, new, from)]
  BY <1>11, Zenon DEF w
<1>15. /\ \A a \in DOMAIN new :
            /\ new[a] \in Values \cup Nat \cup {None}
            /\ a \in DOMAIN from => new[a] = req[r].snap.has[a]
            /\ a \notin DOMAIN from => new[a] = req[r].given[a] /\ new[a] # None
       /\ \A a \in DOMAIN from :
            from[a] = req[r].snap.by[a] /\ from[a] \in SUBSET Requests
  BY <1>6, <1>12, Zenon DEF snap
<1>16. DOMAIN new \subseteq Fields \ {"email"} /\ DOMAIN from \subseteq {"customerId"}
  BY <1>13
<1>17. QED
  BY <1>14, <1>15, <1>16, Zenon

LEMMA SaveCustomerKeeps ==
  ASSUME AccountsInv, NEW r \in Requests, SaveCustomer(r)
  PROVE  AccountsInv'
<1> DEFINE w == req[r].target
<1>1. /\ TypeInv /\ MetInv /\ req[r] \in RequestRecord /\ Shaped(users, req[r], r)
  BY Known DEF AccountsInv
<1>2. /\ req[r].at = "write" /\ req[r].at \in Pending /\ req[r].kind = "event"
      /\ w \in Ids /\ profiles' = profiles /\ faults' = faults /\ faults' \in 0..MaxFaults
      /\ "ok" \in Answers /\ "error" \in Answers
  BY <1>1 DEF SaveCustomer, Shaped, Pending, Answers, TypeInv, TypeOK
<1>3. CASE users[w] = NoUser
  <2>1. Answer(r, "error") /\ users' = users
    BY <1>3 DEF SaveCustomer
  <2>2. QED
    BY <1>2, <2>1, AnswerKeeps
<1>4. CASE users[w] # NoUser
  <2> DEFINE next == Ended(req[r], "ok")
  <2>1. Answer(r, "ok")
    BY <1>4 DEF SaveCustomer
  <2>2. PICK new, from :
          /\ users' = [users EXCEPT ![w] = IF @ = NoUser THEN @ ELSE Assigned(@, r, new, from)]
          /\ DOMAIN new \subseteq Fields \ {"email"}
          /\ \A a \in DOMAIN new : new[a] \in Values \cup Nat \cup {None}
          /\ \A a \in DOMAIN from : from[a] \in SUBSET Requests
    BY <1>1, <1>4, CustomerSets
  <2>3. Steps(r, next) /\ next.at \notin Pending /\ next.at = "ok" /\ next.kind = "event"
    BY <1>1, <1>2, <2>1, AnswerSteps
  <2> HIDE DEF next, w
  <2>4. "index" \notin DOMAIN new
    BY <2>2 DEF Fields, Identifiers
  <2>5. ASSUME NEW a \in IdAttributes \cap DOMAIN new, NEW v \in Ids \ {w}
        PROVE  Excused(req, a, Writers(r, from, a), users[v].by[a])
    <3>1. a \in Identifiers /\ r \in Writers(r, from, a)
      BY <2>4 DEF Writers, IdAttributes
    <3>2. QED
      BY <1>2, <3>1 DEF Excused
  <2>6. Numbering(users', next)
    BY <2>3 DEF Numbering
  <2>7. next.at \notin {"profile", "removeUser"}
    BY <2>3
  <2>8. QED
    BY <1>2, <2>2, <2>3, <2>4, <2>5, <2>6, <2>7, SetsKeeps
<1>5. QED
  BY <1>3, <1>4

---------------------------------------------------------------------------
(* Removal, the numbering of the old users, and failures. *)

LEMMA RemoveProfilesKeeps ==
  ASSUME AccountsInv, NEW r \in Requests, RemoveProfiles(r)
  PROVE  AccountsInv'
<1> DEFINE next == [req[r] EXCEPT !.at = "removeUser"]
<1>1. /\ TypeInv /\ MetInv /\ req[r] \in RequestRecord /\ Shaped(users, req[r], r)
      /\ Orphans(users, req, profiles)
  BY Known DEF AccountsInv
<1>2. /\ req[r].at = "removeProfiles" /\ req[r].at \in Pending /\ req[r].kind = "remove"
      /\ users' = users /\ profiles' = profiles \ {req[r].target} /\ faults' = faults
      /\ req' = [req EXCEPT ![r] = next]
  BY <1>1 DEF RemoveProfiles, Goto, Shaped, Pending
<1>3. /\ next \in RequestRecord /\ next.at = "removeUser" /\ Keeps(req[r], next)
      /\ next.met = req[r].met /\ next.order = req[r].order
  BY <1>1 DEF RequestRecord, Keeps, Pending
<1> HIDE DEF next
<1>4. Shaped(users', next, r)
  BY <1>1, <1>2, <1>3 DEF Shaped, Keeps, Pending
<1>5. Steps(r, next)
  BY <1>2, <1>3, <1>4 DEF Steps, Keeps
<1>6. /\ Grown(req, req') /\ req'[r] = next
      /\ \A q \in Requests \ {r} : Same(req[q], req'[q])
  BY <1>1, <1>5, StepFrame
<1>7. Claims(users', req', r) /\ Numbering(users', next)
  BY <1>2, <1>3, <1>6 DEF Claims, SnapUnique, LookedUpFree, LookedUp, Fresh, OrderStale,
                          SnapStale, Copies, Numbering, Keeps
<1>8. Orphans(users', req', profiles')
  <2>1. ASSUME NEW u \in Requests, req'[u].at = "profile", users'[u] = NoUser
        PROVE  RemovedBeside(req', u)
    BY <1>1, <1>2, <1>3, <1>6, <2>1, RemovedBesideGrows DEF Orphans, Same
  <2>2. ASSUME NEW q \in Requests, req'[q].at = "removeUser", req'[q].target \in profiles'
        PROVE  PutBeside(req', q)
    <3>1. q # r
      BY <1>2, <1>3, <1>6, <2>2 DEF Keeps
    <3>2. req[q].at = "removeUser" /\ req[q].target = req'[q].target
      BY <1>6, <2>2, <3>1 DEF Same
    <3>3. PutBeside(req, q)
      BY <1>1, <1>2, <2>2, <3>2 DEF Orphans
    <3>4. QED
      BY <1>6, <3>2, <3>3, PutBesideGrows
  <2>3. QED
    BY <2>1, <2>2 DEF Orphans
<1>9. profiles' \subseteq Ids /\ faults' \in 0..MaxFaults
  BY <1>1, <1>2, Known DEF TypeInv, TypeOK
<1>10. QED
  BY <1>1, <1>2, <1>5, <1>7, <1>8, <1>9, NothingWritten, StepKeeps

LEMMA RemoveUserKeeps ==
  ASSUME AccountsInv, NEW r \in Requests, RemoveUser(r)
  PROVE  AccountsInv'
<1> DEFINE next == Ended(req[r], "ok")
           w == req[r].target
<1>1. /\ TypeInv /\ MetInv /\ Shaped(users, req[r], r) /\ Orphans(users, req, profiles)
  BY Known DEF AccountsInv
<1>2. /\ req[r].at = "removeUser" /\ req[r].at \in Pending /\ req[r].kind = "remove"
      /\ w \in Ids /\ users' = [users EXCEPT ![w] = NoUser]
      /\ profiles' = profiles /\ faults' = faults
      /\ Answer(r, "ok") /\ "ok" \in Answers
  BY <1>1 DEF RemoveUser, Shaped, Pending, Answers
<1>3. Steps(r, next) /\ next.at \notin Pending /\ next.at = "ok" /\ next.kind = "remove"
  BY <1>1, <1>2, AnswerSteps
<1> HIDE DEF next
<1>4. /\ Grown(req, req') /\ req'[r] = next /\ r \in Running
      /\ \A q \in Requests \ {r} : Same(req[q], req'[q])
      /\ \A q \in Running \ {r} : r \in req'[q].met
  BY <1>1, <1>2, <1>3, StepFrame DEF Running
<1>5. /\ Writes(users, users', req', w, r)
      /\ users' \in [Ids -> UserRecord \cup {NoUser}]
      /\ users'[w] = NoUser /\ \A v \in Ids \ {w} : users'[v] = users[v]
  BY <1>1, <1>2, Known DEF Writes
<1>6. Numbering(users', next)
  BY <1>3 DEF Numbering
<1>7. Orphans(users', req', profiles')
  <2>1. ASSUME NEW u \in Requests, req'[u].at = "profile", users'[u] = NoUser
        PROVE  RemovedBeside(req', u)
    <3>1. u # r /\ req[u].at = "profile" /\ u \in Ids
      BY <1>3, <1>4, <2>1 DEF Same, Ids
    <3>2. CASE u # w
      BY <1>1, <1>4, <1>5, <2>1, <3>1, <3>2, RemovedBesideGrows DEF Orphans
    <3>3. CASE u = w
      <4>1. r \in req'[u].met
        BY <1>4, <3>1 DEF Running, Pending
      <4>2. r \in RemoversOf(req', u)
        BY <1>2, <1>4, <3>3 DEF RemoversOf, Grown
      <4>3. QED
        BY <4>1, <4>2 DEF RemovedBeside, Overlaps
    <3>4. QED
      BY <3>2, <3>3
  <2>2. ASSUME NEW q \in Requests, req'[q].at = "removeUser", req'[q].target \in profiles'
        PROVE  PutBeside(req', q)
    BY <1>1, <1>2, <1>3, <1>4, <2>2, PutBesideGrows DEF Orphans, Same
  <2>3. QED
    BY <2>1, <2>2 DEF Orphans
<1>8. profiles' \subseteq Ids /\ faults' \in 0..MaxFaults
  BY <1>1, <1>2, Known DEF TypeInv, TypeOK
<1>9. QED
  BY <1>2, <1>3, <1>5, <1>6, <1>7, <1>8, StepKeeps

LEMMA AbortKeeps ==
  ASSUME AccountsInv, NEW r \in Requests, Abort(r)
  PROVE  AccountsInv'
<1>1. TypeInv
  BY DEF AccountsInv
<1>2. /\ req[r].at \in Pending /\ "error" \in Answers /\ Answer(r, "error")
      /\ UNCHANGED <<users, profiles>>
  BY DEF Abort, Answers
<1>3. faults' \in 0..MaxFaults
  BY <1>1, AccountsAssumption DEF Abort, TypeInv, TypeOK
<1>4. QED
  BY <1>2, <1>3, AnswerKeeps

\* The migration numbers the next user.
LEMMA AssignNumberKeeps ==
  ASSUME AccountsInv, NEW r \in Requests, AssignNumber(r)
  PROVE  AccountsInv'
<1> USE DEF IdAttributes, Attributes, Fields
<1> DEFINE order == req[r].order
           rest == Tail(order)
           w == Head(order)
           number == req[r].number + 1
           new == Index(number)
           on == [req[r] EXCEPT !.number = number, !.order = rest]
           next == IF rest = <<>> THEN Ended(req[r], "ok") ELSE on
<1>1. /\ TypeInv /\ MetInv /\ req[r] \in RequestRecord /\ Shaped(users, req[r], r)
      /\ Claims(users, req, r) /\ Numbering(users, req[r])
  BY Known DEF AccountsInv
<1>2. /\ req[r].at = "assign" /\ req[r].at \in Pending /\ req[r].kind = "migrate"
      /\ order # <<>> /\ profiles' = profiles /\ faults' = faults
      /\ users' = [users EXCEPT ![w] = IF @ = NoUser THEN @ ELSE Assigned(@, r, new, <<>>)]
  BY <1>1 DEF AssignNumber, Shaped, Pending
<1>3. /\ req[r].number \in Nat /\ number \in Nat /\ number > req[r].number
      /\ order \in Seq(Ids)
      /\ \A i, j \in DOMAIN order : i # j => order[i] # order[j]
  BY <1>1 DEF RequestRecord, Shaped
<1>4. /\ w \in Ids /\ rest \in Seq(Ids) /\ Len(order) \in Nat /\ DOMAIN order = 1..Len(order)
      /\ Len(rest) = Len(order) - 1 /\ DOMAIN rest = 1..Len(rest) /\ w = order[1]
      /\ Len(order) # 0
      /\ \A i \in 1..Len(rest) : rest[i] = order[i + 1]
  BY <1>2, <1>3, HeadTailProperties, LenProperties
<1> HIDE DEF order, rest, w, number
<1>5. /\ \A i, j \in DOMAIN rest : i # j => rest[i] # rest[j]
      /\ \A i \in DOMAIN rest : rest[i] # w /\ \E j \in DOMAIN order : order[j] = rest[i]
      /\ \A i \in DOMAIN order : order[i] # w => \E j \in DOMAIN rest : rest[j] = order[i]
  <2>1. \A i \in DOMAIN rest : i + 1 \in DOMAIN order /\ i + 1 # 1 /\ rest[i] = order[i + 1]
    BY <1>4
  <2>2. 1 \in DOMAIN order
    BY <1>4
  <2>3. ASSUME NEW i \in DOMAIN order, order[i] # w
        PROVE  i - 1 \in DOMAIN rest /\ rest[i - 1] = order[i]
    <3>1. i # 1
      BY <1>4, <2>3
    <3>2. i - 1 \in 1..Len(rest) /\ (i - 1) + 1 = i
      BY <1>4, <3>1
    <3>3. QED
      BY <1>4, <3>2
  <2>4. \A i, j \in DOMAIN rest : i # j => rest[i] # rest[j]
    <3> SUFFICES ASSUME NEW i \in DOMAIN rest, NEW j \in DOMAIN rest, i # j
                 PROVE  rest[i] # rest[j]
      OBVIOUS
    <3>1. i + 1 # j + 1
      BY <1>4
    <3>2. QED
      BY <1>3, <2>1, <3>1
  <2>5. \A i \in DOMAIN rest : rest[i] # w
    BY <1>3, <1>4, <2>1, <2>2
  <2>6. QED
    BY <2>1, <2>3, <2>4, <2>5
<1>6. Steps(r, next) /\ next.kind = "migrate"
      /\ \/ next.at = "ok" /\ rest = <<>>
         \/ next.at = "assign" /\ next.number = number /\ next.order = rest
  <2>1. CASE rest = <<>>
    <3>1. Answer(r, "ok") /\ "ok" \in Answers
      BY <2>1 DEF AssignNumber, Answers, rest, order
    <3>2. QED
      BY <1>1, <1>2, <2>1, <3>1, AnswerSteps
  <2>2. CASE rest # <<>>
    <3>1. /\ on \in RequestRecord /\ on.at = "assign" /\ Keeps(req[r], on)
          /\ on.met = req[r].met /\ on.order = rest /\ on.number = number
      BY <1>1, <1>2, <1>3, <1>4 DEF RequestRecord, Keeps
    <3>2. req' = [req EXCEPT ![r] = on]
      BY <2>2, Known, <1>1 DEF AssignNumber, rest, order, number
    <3> HIDE DEF on
    <3>3. Shaped(users', on, r)
      BY <1>1, <1>2, <1>5, <2>2, <3>1 DEF Shaped, Keeps, Pending
    <3>4. Steps(r, on)
      BY <1>2, <3>1, <3>2, <3>3 DEF Steps, Keeps
    <3>5. QED
      BY <1>2, <2>2, <3>1, <3>4 DEF Keeps
  <2>3. QED
    BY <2>1, <2>2
<1> HIDE DEF on, next
<1>7. Grown(req, req') /\ req'[r] = next
  BY <1>1, <1>6, StepFrame
<1>8. /\ DOMAIN new = {"index"} /\ new["index"] = number
      /\ \A a \in DOMAIN new : new[a] \in Values \cup Nat \cup {None}
  BY <1>3 DEF Index
<1> HIDE DEF new
<1>9. ASSUME NEW a \in IdAttributes \cap DOMAIN new, NEW v \in Ids \ {w},
             Holds(users[v], a, new[a])
      PROVE  Excused(req, a, Writers(r, <<>>, a), users[v].by[a])
  <2>1. a = "index" /\ users[v] # NoUser /\ users[v].has["index"] = number
    BY <1>8, <1>9 DEF Holds
  <2>2. users[v].has["index"] \in Nat /\ users[v].has["index"] > req[r].number
    BY <1>3, <2>1
  <2>3. Overlaps(req, {r}, users[v].by["index"])
    BY <1>1, <1>2, <2>1, <2>2 DEF Claims, Fresh
  <2>4. QED
    BY <2>1, <2>3 DEF Excused, Overlaps, Writers
<1>10. /\ \A v \in Ids \ {w} : users'[v] = users[v]
       /\ users[w] = NoUser => users'[w] = NoUser
       /\ users[w] # NoUser => users'[w].has["index"] = number
  <2>1. \A v \in Ids \ {w} : users'[v] = users[v]
    BY <1>1, <1>2, Known
  <2>2. CASE users[w] = NoUser
    BY <1>1, <1>2, <1>4, <2>1, <2>2, Known
  <2>3. CASE users[w] # NoUser
    <3>1. users[w] \in UserRecord /\ DOMAIN <<>> = {}
      BY <1>1, <1>4, <2>3, Known
    <3>2. Assigned(users[w], r, new, <<>>).has["index"] = number
      BY <1>8, <3>1, AssignedFields
    <3>3. users'[w] = Assigned(users[w], r, new, <<>>)
      BY <1>1, <1>2, <1>4, <2>3, Known
    <3>4. QED
      BY <2>1, <2>3, <3>2, <3>3
  <2>4. QED
    BY <2>2, <2>3
<1>11. ASSUME next.at = "assign" PROVE ToNumber(next) = ToNumber(req[r]) \ {w}
  <2>1. next.order = rest
    BY <1>6, <1>11
  <2>2. QED
    BY <1>5, <2>1 DEF ToNumber, order
<1>12. ASSUME next.at \in Pending PROVE Claims(users', req', r)
  <2>1. next.at = "assign" /\ next.number = number
    BY <1>6, <1>12 DEF Pending
  <2>2. ASSUME NEW v \in Ids, users'[v] # NoUser, users'[v].has["index"] \in Nat,
               users'[v].has["index"] > number
        PROVE  Overlaps(req', {r}, users'[v].by["index"])
    <3>1. v # w
      BY <1>3, <1>10, <2>2
    <3>2. users'[v] = users[v] /\ users[v].has["index"] > req[r].number
      BY <1>3, <1>10, <2>2, <3>1
    <3>3. Overlaps(req, {r}, users[v].by["index"])
      BY <1>1, <1>2, <2>2, <3>2 DEF Claims, Fresh
    <3>4. QED
      BY <1>7, <3>2, <3>3, OverlapsGrow
  <2>3. Fresh(users', req', r)
    BY <1>7, <2>1, <2>2 DEF Fresh
  <2>4. OrderStale(users', req', r)
    <3> SUFFICES ASSUME NEW u \in ToNumber(next), users'[u] # NoUser,
                        users'[u].has["index"] # None
                 PROVE  Overlaps(req', {r}, users'[u].by["index"])
      BY <1>7 DEF OrderStale
    <3>1. u \in ToNumber(req[r]) /\ u # w /\ u \in Ids
      <4>1. u \in ToNumber(req[r]) /\ u # w
        BY <1>11, <2>1
      <4>2. ToNumber(req[r]) \subseteq Ids
        BY <1>1 DEF ToNumber, RequestRecord
      <4>3. QED
        BY <4>1, <4>2
    <3>2. Overlaps(req, {r}, users[u].by["index"])
      BY <1>1, <1>2, <1>10, <3>1 DEF Claims, OrderStale
    <3>3. QED
      BY <1>7, <1>10, <3>1, <3>2, OverlapsGrow
  <2>5. /\ SnapUnique(users', req', r) /\ LookedUpFree(users', req', r)
        /\ SnapStale(users', req', r)
    BY <1>6, <1>7 DEF SnapUnique, LookedUpFree, LookedUp, SnapStale, Copies
  <2>6. QED
    BY <2>3, <2>4, <2>5 DEF Claims
<1>13. Numbering(users', next)
  <2> SUFFICES ASSUME NEW u \in Ids, users'[u] # NoUser, users'[u].has["index"] = None
               PROVE  next.at # "ok" /\ (next.at \in {"max", "assign"} => u \in ToNumber(next))
    BY DEF Numbering
  <2>1. u # w /\ users'[u] = users[u]
    BY <1>3, <1>10, AccountsAssumption
  <2>2. u \in ToNumber(req[r])
    BY <1>1, <1>2, <2>1 DEF Numbering
  <2>3. rest # <<>>
    BY <1>5, <2>1, <2>2 DEF ToNumber, order
  <2>4. QED
    BY <1>6, <1>11, <2>1, <2>2, <2>3
<1>14. next.at \notin {"profile", "removeUser"} /\ DOMAIN <<>> = {}
  BY <1>6
<1>15. QED
  BY <1>2, <1>3, <1>4, <1>6, <1>8, <1>9, <1>12, <1>13, <1>14, SetsKeeps

---------------------------------------------------------------------------
(* The theorems. *)

\* At the start the users are Seeds, who share nothing.
LEMMA InitKeeps == Init => AccountsInv
<1> SUFFICES ASSUME Init PROVE AccountsInv
  OBVIOUS
<1>1. TypeInv
  BY InitType
<1>2. \A r \in Requests : req[r] = NewRequest
  BY DEF Init
<1>3. \A r \in Requests : req[r].at = "idle" /\ req[r].met = {} /\ req[r].kind = "register"
  BY <1>2, NewFields
<1>4. MetInv
  BY <1>3 DEF MetInv, Running, Pending
<1>5. Unique(users, req)
  <2> SUFFICES ASSUME NEW u \in Ids, NEW v \in Ids, NEW a \in IdAttributes, u # v,
                      users[u] # NoUser, Holds(users[v], a, users[u].has[a])
               PROVE  FALSE
    BY DEF Unique
  <2>1. u \in Seeds /\ v \in Seeds /\ a \in Attributes
    BY DEF Init, Holds, IdAttributes, Attributes, Fields
  <2>2. users[u].has[a] = Seeded[u][a] /\ users[v].has[a] = Seeded[v][a]
    <3>1. /\ users[u] = [has |-> Seeded[u], by |-> [b \in Attributes |-> {}]]
          /\ users[v] = [has |-> Seeded[v], by |-> [b \in Attributes |-> {}]]
      BY <2>1 DEF Init
    <3>2. QED
      BY <3>1
  <2>3. QED
    BY <2>1, <2>2, AccountsAssumption DEF Holds
<1>6. \A q \in Requests : Claims(users, req, q) /\ Numbering(users, req[q])
  BY <1>3, RestingClaims DEF Numbering, Pending
<1>7. Orphans(users, req, profiles)
  BY <1>3 DEF Orphans
<1>8. QED
  BY <1>1, <1>4, <1>5, <1>6, <1>7 DEF AccountsInv

LEMMA NextKeeps == AccountsInv /\ [Next]_vars => AccountsInv'
<1> SUFFICES ASSUME AccountsInv, [Next]_vars PROVE AccountsInv'
  OBVIOUS
<1>1. TypeInv
  BY DEF AccountsInv
<1>2. ASSUME NEW r \in Requests, Arrive(r) PROVE AccountsInv'
  BY <1>1, <1>2, ArriveStarts, ArrivalKeeps
<1>3. ASSUME NEW r \in Requests, Step(r) PROVE AccountsInv'
  BY <1>3, LookupKeeps, CheckKeeps, NumberKeeps, InsertKeeps, InsertProfileKeeps,
     UpsertProfileKeeps,
     WriteBackKeeps, WriteGivenKeeps, WriteProfileKeeps, SaveCustomerKeeps,
     RemoveProfilesKeeps, RemoveUserKeeps, ReadMaxKeeps, AssignNumberKeeps DEF Step
<1>4. CASE UNCHANGED vars
  <2>1. users' = users /\ profiles' = profiles /\ req' = req /\ faults' = faults
    BY <1>4 DEF vars
  <2>2. Live' = Live /\ Running' = Running
    BY <2>1 DEF Live, Running
  <2>3. TypeInv'
    BY <1>1, <2>1, <2>2 DEF TypeInv, TypeOK
  <2>4. MetInv'
    BY <2>1, <2>2 DEF AccountsInv, MetInv
  <2>5. QED
    BY <2>1, <2>3, <2>4 DEF AccountsInv
<1>5. QED
  BY <1>2, <1>3, <1>4, AbortKeeps DEF Next

LEMMA Always == Spec => []AccountsInv
  BY InitKeeps, NextKeeps, PTL DEF Spec

\* The users, the requests and what they have read keep their types: a number
\* is a number, and no step makes one of a user that has none.
THEOREM TypeCorrect == Spec => []TypeOK
<1>1. AccountsInv => TypeOK
  BY DEF AccountsInv, TypeInv
<1>2. QED
  BY <1>1, Always, PTL

\* Two users come to the same e-mail, document or phone only through requests
\* that overlapped or a customer event, however many users and requests there
\* are: look-up and write are apart in every operation of the users' service.
THEOREM DuplicatesOnlyByOverlap == Spec => []DuplicatesNeedOverlap
<1>1. ASSUME AccountsInv, NEW u \in Ids, NEW v \in Ids, NEW a \in Identifiers, Shared(u, v, a)
      PROVE  \/ Overlapped(users[u].by[a], users[v].by[a])
             \/ \E r \in users[u].by[a] \cup users[v].by[a] : req[r].kind = "event"
  <2>1. u # v /\ users[u] # NoUser /\ Holds(users[v], a, users[u].has[a])
    BY <1>1 DEF Shared, Live, Holds
  <2>2. Excused(req, a, users[u].by[a], users[v].by[a])
    BY <1>1, <2>1 DEF AccountsInv, Unique, IdAttributes
  <2>3. QED
    BY <2>2 DEF Excused, Overlaps, Overlapped
<1>2. AccountsInv => DuplicatesNeedOverlap
  BY <1>1 DEF DuplicatesNeedOverlap
<1>3. QED
  BY <1>2, Always, PTL

\* Two users come to the same number only through creations or migrations that
\* overlapped: each counts on from the greatest number it has read.
THEOREM NumbersOnlyByOverlap == Spec => []NumbersNeedOverlap
<1>1. ASSUME AccountsInv, NEW u \in Ids, NEW v \in Ids, Shared(u, v, "index")
      PROVE  Overlapped(users[u].by["index"], users[v].by["index"])
  <2>1. u # v /\ users[u] # NoUser /\ Holds(users[v], "index", users[u].has["index"])
    BY <1>1 DEF Shared, Live, Holds
  <2>2. Excused(req, "index", users[u].by["index"], users[v].by["index"])
    BY <1>1, <2>1 DEF AccountsInv, Unique, IdAttributes
  <2>3. QED
    BY <2>2 DEF Excused, Overlaps, Overlapped, Identifiers
<1>2. AccountsInv => NumbersNeedOverlap
  BY <1>1 DEF NumbersNeedOverlap
<1>3. QED
  BY <1>2, Always, PTL

\* A migration that has ended leaves nobody without a number, whatever else
\* ran.
THEOREM NumberedAfterAnyMigration == Spec => []NumberedAfterMigration
<1>1. AccountsInv => NumberedAfterMigration
  BY DEF AccountsInv, Numbering, NumberedAfterMigration, Live
<1>2. QED
  BY <1>1, Always, PTL

\* What a write does to an attribute it was not asked to write; it removes
\* nobody.
Explained(r, us, new) ==
  /\ \A u \in Ids : us[u] # NoUser => new[u] # NoUser
  /\ \A u \in Ids, a \in Attributes :
       us[u] # NoUser /\ us[u].has[a] \notin {None, new[u].has[a]}
         => \/ a \in Fields /\ req[r].given[a] # None /\ req[r].given[a] = new[u].has[a]
            \/ Overlaps(req, {r}, us[u].by[a])

\* It is enough to explain what is set.
LEMMA SetsExplained ==
  ASSUME TypeInv, NEW r \in Requests, NEW w \in Ids, NEW new, NEW from,
         \A a \in DOMAIN new : new[a] \in Values \cup Nat \cup {None},
         \A a \in DOMAIN from : from[a] \in SUBSET Requests,
         users' = [users EXCEPT ![w] = IF @ = NoUser THEN @ ELSE Assigned(@, r, new, from)],
         users[w] # NoUser => \A a \in DOMAIN new \cap Attributes :
           users[w].has[a] \notin {None, new[a]}
             => \/ a \in Fields /\ req[r].given[a] # None /\ req[r].given[a] = new[a]
                \/ Overlaps(req, {r}, users[w].by[a])
  PROVE  Explained(r, users, users')
<1>1. \A u \in Ids \ {w} : users'[u] = users[u]
  BY Known
<1>2. CASE users[w] = NoUser
  <2>1. \A u \in Ids : users'[u] = users[u]
    BY <1>1, <1>2, Known
  <2>2. QED
    BY <2>1 DEF Explained
<1>3. CASE users[w] # NoUser
  <2>1. users[w] \in UserRecord /\ users'[w] = Assigned(users[w], r, new, from)
    BY <1>3, Known
  <2>2. /\ Assigned(users[w], r, new, from) \in UserRecord
        /\ \A a \in Attributes :
             /\ a \in DOMAIN new => Assigned(users[w], r, new, from).has[a] = new[a]
             /\ a \notin DOMAIN new =>
                  Assigned(users[w], r, new, from).has[a] = users[w].has[a]
    BY <2>1, AssignedFields
  <2>3. users'[w] # NoUser
    BY <2>1, <2>2, AccountsAssumption
  <2>4. ASSUME NEW a \in Attributes, users[w].has[a] \notin {None, users'[w].has[a]}
        PROVE  \/ a \in Fields /\ req[r].given[a] # None /\ req[r].given[a] = users'[w].has[a]
               \/ Overlaps(req, {r}, users[w].by[a])
    <3>1. a \in DOMAIN new /\ users'[w].has[a] = new[a]
      BY <2>1, <2>2, <2>4
    <3>2. QED
      BY <1>3, <2>4, <3>1
  <2>5. QED
    BY <1>1, <2>3, <2>4 DEF Explained
<1>4. QED
  BY <1>2, <1>3

LEMMA WriteBackExplained ==
  ASSUME AccountsInv, NEW r \in Requests, WriteBack(r)
  PROVE  Explained(r, users, users')
<1> DEFINE given == req[r].given
           snap == req[r].snap
           w == req[r].target
           fields == {"email"} \cup ({req[r].extra} \ {None})
           asked == Asked(given, fields)
           copied == [a \in {b \in Attributes \ {"email"} : snap.has[b] # None} |-> snap.has[a]]
           new == Over(asked, copied)
           from == [a \in DOMAIN copied \ DOMAIN asked |-> snap.by[a]]
<1>1. /\ TypeInv /\ req[r] \in RequestRecord /\ Shaped(users, req[r], r)
      /\ Claims(users, req, r)
  BY Known DEF AccountsInv
<1>2. /\ req[r].at = "write" /\ req[r].at \in Pending /\ req[r].kind = "update"
      /\ w \in Ids
      /\ users' = [users EXCEPT ![w] = IF @ = NoUser THEN @ ELSE Assigned(@, r, new, from)]
  BY <1>1 DEF WriteBack, Shaped, Pending
<1>3. /\ given \in [Fields -> Values \cup {None}] /\ snap \in UserRecord
      /\ fields \in SUBSET Fields
  BY <1>1 DEF RequestRecord, Fields, Identifiers
<1>4. \A f \in DOMAIN asked : asked[f] = given[f] /\ given[f] \in Values /\ f \in Fields
  <2> HIDE DEF given, fields
  <2>1. QED
    BY <1>3, AskedFields, Zenon
<1>5. /\ DOMAIN copied \subseteq Attributes
      /\ \A a \in DOMAIN copied : copied[a] = snap.has[a]
  OBVIOUS
<1> HIDE DEF given, asked, copied, fields, w
<1>6. /\ DOMAIN new = DOMAIN asked \cup DOMAIN copied
      /\ \A a \in DOMAIN asked : new[a] = asked[a]
      /\ \A a \in DOMAIN copied : a \notin DOMAIN asked => new[a] = copied[a]
  BY OverFields, Zenon
<1>7. \A a \in DOMAIN from : from[a] \in SUBSET Requests
  BY <1>3, <1>5 DEF UserRecord
<1> HIDE DEF new, from
<1>8. \A a \in DOMAIN new : new[a] \in Values \cup Nat \cup {None}
  <2> HIDE DEF snap
  <2>1. \A a \in Attributes : snap.has[a] \in Values \cup Nat \cup {None}
    BY <1>3 DEF UserRecord
  <2>2. QED
    BY <1>4, <1>5, <1>6, <2>1
<1>9. ASSUME users[w] # NoUser, NEW a \in DOMAIN new \cap Attributes,
             users[w].has[a] \notin {None, new[a]}
      PROVE  \/ a \in Fields /\ given[a] # None /\ given[a] = new[a]
             \/ Overlaps(req, {r}, users[w].by[a])
  <2>1. CASE a \in DOMAIN asked
    BY <1>4, <1>6, <2>1, AccountsAssumption
  <2>2. CASE a \notin DOMAIN asked
    <3>1. new[a] = snap.has[a]
      BY <1>5, <1>6, <1>9, <2>2
    <3>2. QED
      BY <1>1, <1>2, <1>9, <3>1 DEF Claims, SnapStale, Copies, w
  <2>3. QED
    BY <2>1, <2>2
<1>10. QED
  BY <1>1, <1>2, <1>7, <1>8, <1>9, SetsExplained DEF given

LEMMA WriteGivenExplained ==
  ASSUME AccountsInv, NEW r \in Requests, WriteGiven(r)
  PROVE  Explained(r, users, users')
<1> DEFINE given == req[r].given
           w == req[r].target
           new == Asked(given, Identifiers)
           from == [f \in GivenIn(given) \ Changed(r) |-> req[r].snap.by[f]]
<1>1. TypeInv /\ req[r] \in RequestRecord /\ Shaped(users, req[r], r)
  BY Known DEF AccountsInv
<1>2. /\ w \in Ids
      /\ users' = [users EXCEPT ![w] = IF @ = NoUser THEN @ ELSE Assigned(@, r, new, from)]
  BY <1>1 DEF WriteGiven, Shaped, Pending
<1>3. /\ given \in [Fields -> Values \cup {None}] /\ req[r].snap \in UserRecord
      /\ Identifiers \in SUBSET Fields
  BY <1>1 DEF RequestRecord, Fields
<1>4. \A f \in DOMAIN new : new[f] = given[f] /\ given[f] \in Values /\ f \in Fields
  <2> HIDE DEF given
  <2>1. QED
    BY <1>3, AskedFields, Zenon
<1>5. \A f \in DOMAIN from : from[f] \in SUBSET Requests
  BY <1>3 DEF GivenIn, UserRecord, Attributes, Fields
<1> HIDE DEF given, new, from, w
<1>6. \A a \in DOMAIN new : new[a] \in Values \cup Nat \cup {None}
  BY <1>4
<1>7. \A a \in DOMAIN new \cap Attributes :
        a \in Fields /\ req[r].given[a] # None /\ req[r].given[a] = new[a]
  BY <1>4, AccountsAssumption DEF given
<1>8. QED
  BY <1>1, <1>2, <1>5, <1>6, <1>7, SetsExplained

LEMMA SaveCustomerExplained ==
  ASSUME AccountsInv, NEW r \in Requests, SaveCustomer(r)
  PROVE  Explained(r, users, users')
<1> DEFINE w == req[r].target
<1>1. TypeInv /\ Shaped(users, req[r], r) /\ Claims(users, req, r)
  BY Known DEF AccountsInv
<1>2. w \in Ids /\ Copies(req[r])
  BY <1>1 DEF SaveCustomer, Shaped, Copies
<1>3. CASE users[w] = NoUser
  BY <1>3 DEF SaveCustomer, Explained
<1>4. CASE users[w] # NoUser
  <2>1. PICK new, from :
          /\ users' = [users EXCEPT ![w] = IF @ = NoUser THEN @ ELSE Assigned(@, r, new, from)]
          /\ DOMAIN new \subseteq Fields \ {"email"}
          /\ \A a \in DOMAIN new :
               /\ new[a] \in Values \cup Nat \cup {None}
               /\ a \in DOMAIN from => new[a] = req[r].snap.has[a]
               /\ a \notin DOMAIN from => new[a] = req[r].given[a] /\ new[a] # None
          /\ DOMAIN from \subseteq {"customerId"}
          /\ \A a \in DOMAIN from :
               from[a] = req[r].snap.by[a] /\ from[a] \in SUBSET Requests
    BY <1>1, <1>4, CustomerSets, Zenon
  <2>2. ASSUME NEW a \in DOMAIN new \cap Attributes, users[w].has[a] \notin {None, new[a]}
        PROVE  \/ a \in Fields /\ req[r].given[a] # None /\ req[r].given[a] = new[a]
               \/ Overlaps(req, {r}, users[w].by[a])
    <3>1. CASE a \notin DOMAIN from
      BY <2>1, <3>1
    <3>2. CASE a \in DOMAIN from
      <4>1. users[w].has[a] \notin {None, req[r].snap.has[a]}
        BY <2>1, <2>2, <3>2
      <4>2. QED
        BY <1>1, <1>2, <1>4, <4>1, StaleOverlaps DEF Claims
    <3>3. QED
      BY <3>1, <3>2
  <2> HIDE DEF w
  <2>3. QED
    BY <1>1, <1>2, <2>1, <2>2, SetsExplained
<1>5. QED
  BY <1>3, <1>4

LEMMA AssignNumberExplained ==
  ASSUME AccountsInv, NEW r \in Requests, AssignNumber(r)
  PROVE  Explained(r, users, users')
<1> DEFINE order == req[r].order
           w == Head(order)
           number == req[r].number + 1
           new == Index(number)
<1>1. /\ TypeInv /\ req[r] \in RequestRecord /\ Shaped(users, req[r], r)
      /\ Claims(users, req, r)
  BY Known DEF AccountsInv
<1>2. /\ req[r].at = "assign" /\ order # <<>> /\ order \in Seq(Ids) /\ number \in Nat
      /\ users' = [users EXCEPT ![w] = IF @ = NoUser THEN @ ELSE Assigned(@, r, new, <<>>)]
  BY <1>1 DEF AssignNumber, Shaped, RequestRecord
<1>3. w \in Ids /\ w \in ToNumber(req[r])
  BY <1>2, LenProperties DEF ToNumber
<1> HIDE DEF order, w, number
<1>4. /\ DOMAIN new = {"index"} /\ new["index"] = number /\ DOMAIN <<>> = {}
      /\ \A a \in DOMAIN new : new[a] \in Values \cup Nat \cup {None}
  BY <1>2 DEF Index
<1> HIDE DEF new
<1>5. ASSUME users[w] # NoUser, users[w].has["index"] # None
      PROVE  Overlaps(req, {r}, users[w].by["index"])
  BY <1>1, <1>2, <1>3, <1>5 DEF Claims, OrderStale
<1>6. QED
  BY <1>1, <1>2, <1>3, <1>4, <1>5, SetsExplained

LEMMA InsertExplained ==
  ASSUME AccountsInv, NEW r \in Requests, Insert(r)
  PROVE  Explained(r, users, users')
<1>1. TypeInv /\ users[r] = NoUser
  BY Known DEF AccountsInv, Insert, Shaped
<1>2. \A u \in Ids \ {r} : users'[u] = users[u]
  BY <1>1, Known DEF Insert
<1>3. QED
  BY <1>1, <1>2 DEF Explained

\* A step of a request leaves the users alone, removes one, or writes one as
\* its kind may.
LEMMA StepExplained ==
  ASSUME AccountsInv, NEW r \in Requests, Step(r)
  PROVE  \/ users' = users
         \/ RemoveUser(r)
         \/ /\ req[r].at \in Pending /\ req[r].kind \notin {"remove", "put"}
            /\ Explained(r, users, users')
<1>1. Shaped(users, req[r], r)
  BY Known DEF AccountsInv
<1>2. CASE Insert(r)
  <2>1. req[r].at = "insert"
    BY <1>2, Zenon DEF Insert
  <2>2. QED
    BY <1>1, <1>2, <2>1, InsertExplained DEF Shaped, Pending
<1>3. CASE WriteBack(r)
  <2>1. req[r].at = "write" /\ req[r].kind = "update"
    BY <1>3, Zenon DEF WriteBack
  <2>2. QED
    BY <1>3, <2>1, WriteBackExplained DEF Pending
<1>4. CASE WriteGiven(r)
  <2>1. req[r].at = "write" /\ req[r].kind = "edit"
    BY <1>4, Zenon DEF WriteGiven
  <2>2. QED
    BY <1>4, <2>1, WriteGivenExplained DEF Pending
<1>5. CASE SaveCustomer(r)
  <2>1. req[r].at = "write" /\ req[r].kind = "event"
    BY <1>5, Zenon DEF SaveCustomer
  <2>2. QED
    BY <1>5, <2>1, SaveCustomerExplained DEF Pending
<1>6. CASE AssignNumber(r)
  <2>1. req[r].at = "assign"
    BY <1>6, Zenon DEF AssignNumber
  <2>2. QED
    BY <1>1, <1>6, <2>1, AssignNumberExplained DEF Shaped, Pending
<1>7. CASE \/ Lookup(r) \/ Check(r) \/ Number(r) \/ InsertProfile(r) \/ WriteProfile(r)
           \/ UpsertProfile(r) \/ RemoveProfiles(r) \/ ReadMax(r)
  <2>1. users' = users
    BY <1>7, Zenon
    DEF Lookup, Check, Number, InsertProfile, WriteProfile, UpsertProfile, RemoveProfiles,
        ReadMax
  <2>2. QED
    BY <2>1
<1>8. QED
  BY <1>2, <1>3, <1>4, <1>5, <1>6, <1>7, Zenon DEF Step

LEMMA OthersWriteNoUser ==
  ASSUME NEW r, Arrive(r) \/ Abort(r)
  PROVE  users' = users /\ profiles' = profiles
<1>1. CASE Arrive(r)
  BY <1>1, Zenon
  DEF Arrive, Register, Create, Update, Edit, Event, RemoveAccount, PutProfile, Migrate
<1>2. CASE Abort(r)
  BY <1>2, Zenon DEF Abort
<1>3. QED
  BY <1>1, <1>2

\* Only three writes can leave a participant without its user.
LEMMA ProfileSteps ==
  ASSUME AccountsInv, NEW r \in Requests, Step(r)
  PROVE  \/ InsertProfile(r) \/ UpsertProfile(r) \/ RemoveUser(r)
         \/ profiles' \subseteq profiles /\ Live \subseteq Live'
<1>1. users' = users \/ RemoveUser(r) \/ Explained(r, users, users')
  BY StepExplained
<1>2. RemoveUser(r) \/ Live \subseteq Live'
  BY <1>1 DEF Live, Explained
<1>3. CASE RemoveProfiles(r)
  <2>1. profiles' \subseteq profiles
    BY <1>3 DEF RemoveProfiles
  <2>2. QED
    BY <1>2, <2>1
<1>4. InsertProfile(r) \/ UpsertProfile(r) \/ RemoveProfiles(r) \/ profiles' = profiles
  BY Zenon DEF Step, Lookup, Check, Number, Insert, WriteBack, WriteGiven, WriteProfile,
     SaveCustomer, RemoveUser, ReadMax, AssignNumber
<1>5. QED
  BY <1>2, <1>3, <1>4

\* How a participant comes to be without its user.
LEMMA OrphanExplained ==
  ASSUME AccountsInv, [Next]_vars, NEW u \in profiles' \ Live', u \in profiles => u \in Live
  PROVE  \E r \in Running :
           \/ req[r].at = "upsert" /\ req[r].target = u /\ u \notin Live
           \/ req[r].at = "profile" /\ r = u /\ Overlapped({r}, Removers(u))
           \/ /\ req[r].at = "removeUser" /\ req[r].target = u
              /\ Overlapped(ProfileWriters(u), {r})
<1>1. users' = users => Live' = Live
  BY DEF Live
<1>2. CASE UNCHANGED vars
  BY <1>1, <1>2 DEF vars
<1>3. CASE \E r \in Requests : Arrive(r) \/ Abort(r)
  BY <1>1, <1>3, OthersWriteNoUser
<1>4. ASSUME NEW r \in Requests, Step(r)
      PROVE  /\ r \in Running
             /\ \/ req[r].at = "upsert" /\ req[r].target = u /\ u \notin Live
                \/ req[r].at = "profile" /\ r = u /\ Overlapped({r}, Removers(u))
                \/ /\ req[r].at = "removeUser" /\ req[r].target = u
                   /\ Overlapped(ProfileWriters(u), {r})
  <2>1. /\ users \in [Ids -> UserRecord \cup {NoUser}] /\ profiles \subseteq Ids
        /\ Orphans(users, req, profiles)
    BY Known DEF AccountsInv
  <2>2. CASE InsertProfile(r)
    <3>1. /\ req[r].at = "profile" /\ profiles' = profiles \cup {r} /\ Live' = Live
      BY <1>1, <2>2 DEF InsertProfile
    <3>2. u = r /\ users[r] = NoUser
      BY <3>1 DEF Live, Ids
    <3>3. Overlaps(req, {r}, RemoversOf(req, r))
      BY <2>1, <3>1, <3>2 DEF Orphans, RemovedBeside
    <3>4. Overlapped({r}, Removers(u))
      BY <3>2, <3>3 DEF Overlaps, RemoversOf, Overlapped, Removers
    <3>5. QED
      BY <3>1, <3>2, <3>4 DEF Running, Pending
  <2>3. CASE UpsertProfile(r)
    <3>1. /\ req[r].at = "upsert" /\ profiles' = profiles \cup {req[r].target} /\ Live' = Live
      BY <1>1, <2>3 DEF UpsertProfile
    <3>2. QED
      BY <3>1 DEF Running, Pending
  <2>4. CASE RemoveUser(r)
    <3>1. /\ req[r].at = "removeUser" /\ profiles' = profiles
          /\ \A v \in Ids \ {req[r].target} : users'[v] = users[v]
      BY <2>1, <2>4 DEF RemoveUser
    <3>2. u = req[r].target /\ u \in profiles
      BY <2>1, <3>1 DEF Live
    <3>3. Overlaps(req, WritersOf(req, u), {r})
      BY <2>1, <3>1, <3>2 DEF Orphans, PutBeside
    <3>4. Overlapped(ProfileWriters(u), {r})
      BY <3>3 DEF Overlaps, WritersOf, Overlapped, ProfileWriters
    <3>5. QED
      BY <3>1, <3>2, <3>4 DEF Running, Pending
  <2>5. QED
    BY <1>4, <2>2, <2>3, <2>4, ProfileSteps
<1>5. QED
  BY <1>2, <1>3, <1>4 DEF Next

\* A participant comes to be without its user in three ways only, however many
\* requests run: PUT profiles writes one of a user that is gone, a create adds
\* one to a user removed meanwhile, or one is written back between the two
\* deletions of a removal.
THEOREM OrphansOnlyByOverlap == Spec => OrphansNeedOverlap
<1> DEFINE A == \A u \in profiles' \ Live' : (u \in profiles => u \in Live) =>
       \E r \in Running :
         \/ req[r].at = "upsert" /\ req[r].target = u /\ u \notin Live
         \/ req[r].at = "profile" /\ r = u /\ Overlapped({r}, Removers(u))
         \/ /\ req[r].at = "removeUser" /\ req[r].target = u
            /\ Overlapped(ProfileWriters(u), {r})
<1>1. AccountsInv /\ [Next]_vars => A
  BY OrphanExplained
<1> HIDE DEF A
<1>2. AccountsInv /\ [Next]_vars => [A]_vars
  BY <1>1
<1> USE DEF A
<1>3. QED
  BY <1>2, Always, PTL DEF Spec, OrphansNeedOverlap

\* An attribute that has a value gets another one only because a request that
\* runs asks for it, or because the request that puts an older one back, or
\* numbers anew, overlapped the one that wrote it.
THEOREM OnlyAskedChanges == Spec => ChangesAreAskedFor
<1> DEFINE A == \A u \in Live, a \in Attributes :
       users'[u] # NoUser /\ users[u].has[a] \notin {None, users'[u].has[a]}
         => \E r \in Running :
              \/ /\ a \in Fields /\ req[r].given[a] # None
                 /\ req[r].given[a] = users'[u].has[a]
              \/ Overlapped({r}, users[u].by[a])
<1>1. ASSUME NEW r \in Requests, req[r].at \in Pending, Explained(r, users, users') PROVE A
  BY <1>1 DEF Explained, Running, Live, Overlaps, Overlapped
<1>2. ASSUME users' = users PROVE A
  BY <1>2
<1>3. ASSUME AccountsInv, NEW r \in Requests, RemoveUser(r) PROVE A
  <2>1. \A u \in Ids : users'[u] = users[u] \/ users'[u] = NoUser
    BY <1>3, Known DEF RemoveUser, AccountsInv
  <2>2. QED
    BY <2>1 DEF Live
<1>4. ASSUME AccountsInv, NEW r \in Requests, Step(r) PROVE A
  BY <1>1, <1>2, <1>3, <1>4, StepExplained
<1>5. ASSUME NEW r \in Requests, Arrive(r) \/ Abort(r) PROVE A
  BY <1>2, <1>5, OthersWriteNoUser
<1>6. AccountsInv /\ [Next]_vars => [A]_vars
  BY <1>4, <1>5 DEF Next
<1>7. QED
  BY <1>6, Always, PTL DEF Spec, ChangesAreAskedFor

---------------------------------------------------------------------------
(* Which requests have to be kept apart. *)

\* No request of a kind in K runs beside another one of a kind in L.
Apart(K, L) ==
  \A r, s \in Running : r # s => ~ (req[r].kind \in K /\ req[s].kind \in L)

NeverMet(K, L) ==
  \A r, s \in Requests : s \in req[r].met => ~ (req[r].kind \in K /\ req[s].kind \in L)

\* The kinds that write a number, and those that write an identifier.
NumberKinds == {"register", "create", "event", "migrate", "update"}
IdentifierKinds == {"register", "create", "event", "update", "edit"}
AuthorKinds(a) == IF a = "index" THEN NumberKinds ELSE IdentifierKinds

IsAuthor(rq, s, a) == s \in Requests /\ rq[s].at # "idle" /\ rq[s].kind \in AuthorKinds(a)

\* Who wrote an attribute of a document, or of what an update has read, is of a
\* kind that writes it.
Authored(rq, user) == \A a \in Attributes : \A s \in user.by[a] : IsAuthor(rq, s, a)

DocsAuthored(us, rq) == \A u \in Ids : us[u] # NoUser => Authored(rq, us[u])

SnapAuthored(rq, q) ==
  rq[q].kind \in {"update", "edit", "event"} /\ rq[q].at \in Pending
    => Authored(rq, rq[q].snap)

AuthorsInv == DocsAuthored(users, req) /\ \A q \in Requests : SnapAuthored(req, q)

\* A request that has started keeps its kind.
KindsStay(rq, nx) ==
  \A q \in Requests : rq[q].at # "idle" => nx[q].at # "idle" /\ nx[q].kind = rq[q].kind

LEMMA AuthoredStays ==
  ASSUME NEW rq, NEW nx, KindsStay(rq, nx), NEW user, Authored(rq, user)
  PROVE  Authored(nx, user)
  BY DEF KindsStay, Authored, IsAuthor

\* A step of one request changes nobody's kind and adds no overlap.
LEMMA RunningStep ==
  ASSUME TypeInv, NEW r \in Requests, Step(r) \/ Abort(r)
  PROVE  /\ req[r].at \in Pending /\ req'[r].at # "idle"
         /\ req'[r].kind = req[r].kind /\ req'[r].met = req[r].met
         /\ req'[r].at \in Pending => req'[r].snap = req[r].snap
         /\ \A q \in Requests \ {r} : req'[q] = req[q]
<1> USE DEF Pending
<1>1. req[r] \in RequestRecord
  BY Known
<1>2. ASSUME NEW at \in Answers, Answer(r, at)
      PROVE  /\ req'[r].at = at /\ at \notin Pending /\ at # "idle"
             /\ req'[r].kind = req[r].kind /\ req'[r].met = req[r].met
             /\ \A q \in Requests \ {r} : req'[q] = req[q]
  <2>1. req' = [req EXCEPT ![r] = Ended(req[r], at)]
    BY <1>2 DEF Answer
  <2>2. req'[r] = Ended(req[r], at)
    BY <2>1, Known
  <2>3. /\ Ended(req[r], at).at = at /\ Ended(req[r], at).kind = req[r].kind
        /\ Ended(req[r], at).met = req[r].met
    BY <1>1, <1>2, EndedType
  <2>4. at \notin Pending /\ at # "idle"
    BY <1>2 DEF Answers
  <2>5. QED
    BY <2>1, <2>2, <2>3, <2>4, Known
<1>3. ASSUME NEW next \in RequestRecord, req' = [req EXCEPT ![r] = next], next.at \in Pending,
             next.kind = req[r].kind, next.met = req[r].met, next.snap = req[r].snap
      PROVE  /\ req'[r].at # "idle"
             /\ req'[r].kind = req[r].kind /\ req'[r].met = req[r].met
             /\ req'[r].at \in Pending => req'[r].snap = req[r].snap
             /\ \A q \in Requests \ {r} : req'[q] = req[q]
  BY <1>3, Known
<1>4. ASSUME NEW at \in Pending, Goto(r, at)
      PROVE  /\ req'[r].at # "idle"
             /\ req'[r].kind = req[r].kind /\ req'[r].met = req[r].met
             /\ req'[r].at \in Pending => req'[r].snap = req[r].snap
             /\ \A q \in Requests \ {r} : req'[q] = req[q]
  BY <1>4, Known DEF Goto, RequestRecord
<1>5. {"ok", "conflict", "notFound", "error"} \subseteq Answers
  BY DEF Answers
<1>6. CASE Abort(r)
  BY <1>2, <1>5, <1>6 DEF Abort
<1>7. CASE Lookup(r)
  <2>1. CASE Answer(r, "notFound")
    BY <1>2, <1>5, <1>7, <2>1 DEF Lookup
  <2>2. CASE req' = [req EXCEPT ![r].at = "check", ![r].todo =
                       IF Changed(r) = {} THEN <<>> ELSE <<Changed(r)>>]
    BY <1>1, <1>7, <2>2, Known DEF Lookup, RequestRecord
  <2>3. QED
    BY <1>7, <2>1, <2>2 DEF Lookup
<1>8. CASE Check(r)
  <2>1. CASE req[r].todo = <<>>
    BY <1>4, <1>8, <2>1 DEF Check
  <2>2. CASE req[r].todo # <<>> /\ Found(r, Head(req[r].todo)) # {}
    BY <1>2, <1>5, <1>8, <2>2 DEF Check
  <2>3. CASE req[r].todo # <<>> /\ ~ (Found(r, Head(req[r].todo)) # {})
    <3>1. req' = [req EXCEPT ![r].todo = Tail(@)] /\ req[r].at = "check"
      BY <1>8, <2>3 DEF Check
    <3>2. QED
      BY <1>1, <3>1, Known DEF RequestRecord
  <2>4. QED
    BY <2>1, <2>2, <2>3
<1>9. CASE Number(r) \/ ReadMax(r)
  BY <1>1, <1>9, Known DEF Number, ReadMax, RequestRecord
<1>10. CASE Insert(r)
  <2>1. Goto(r, "profile") \/ Answer(r, "ok")
    BY <1>10 DEF Insert
  <2>2. QED
    BY <1>2, <1>4, <1>5, <1>10, <2>1 DEF Insert
<1>11. CASE \/ InsertProfile(r) \/ UpsertProfile(r) \/ WriteBack(r) \/ WriteProfile(r)
            \/ RemoveUser(r)
  BY <1>2, <1>5, <1>11 DEF InsertProfile, UpsertProfile, WriteBack, WriteProfile, RemoveUser
<1>12. CASE WriteGiven(r) \/ RemoveProfiles(r)
  BY <1>4, <1>12 DEF WriteGiven, RemoveProfiles
<1>13. CASE SaveCustomer(r)
  <2>1. Answer(r, "error") \/ Answer(r, "ok")
    BY <1>13 DEF SaveCustomer
  <2>2. QED
    BY <1>2, <1>5, <1>13, <2>1 DEF SaveCustomer
<1>14. CASE AssignNumber(r)
  <2>1. CASE Tail(req[r].order) = <<>>
    BY <1>2, <1>5, <1>14, <2>1 DEF AssignNumber
  <2>2. CASE Tail(req[r].order) # <<>>
    <3>1. /\ req' = [req EXCEPT ![r].number = req[r].number + 1, ![r].order = Tail(@)]
          /\ req[r].at = "assign"
      BY <1>14, <2>2 DEF AssignNumber
    <3>2. QED
      BY <1>1, <3>1, Known DEF RequestRecord
  <2>3. QED
    BY <2>1, <2>2
<1>15. QED
  BY <1>6, <1>7, <1>8, <1>9, <1>10, <1>11, <1>12, <1>13, <1>14 DEF Step

\* An arrival changes the overlaps of the request and of those that run.
LEMMA ArrivalStep ==
  ASSUME TypeInv, NEW r \in Requests, Arrive(r)
  PROVE  /\ req[r].at = "idle" /\ req'[r].at # "idle"
         /\ users' = users /\ profiles' = profiles
         /\ req'[r].at \in Pending => req'[r].met \subseteq Running
         /\ req'[r].at \notin Pending => req'[r].met = {}
         /\ req'[r].kind \in {"update", "edit", "event"} /\ req'[r].at \in Pending
              => \/ req'[r].snap = Blank
                 \/ \E u \in Ids : users[u] # NoUser /\ req'[r].snap = users[u]
         /\ \A q \in Requests \ {r} :
              /\ req'[q].at = req[q].at /\ req'[q].kind = req[q].kind
              /\ req'[q].snap = req[q].snap
              /\ \/ req'[q].met = req[q].met
                 \/ /\ req'[q].met = req[q].met \cup {r}
                    /\ q \in Running /\ req'[r].at \in Pending
<1>1. PICK x \in RequestRecord : Arrival(r, x) /\ Starts(users, x)
  BY ArriveStarts
<1>2. /\ x.at \in Pending => req'[r] = [x EXCEPT !.met = Running]
      /\ x.at \in Answers => req'[r] = Ended(x, x.at)
      /\ \A q \in Requests \ {r} :
           req'[q] = IF q \in Running /\ x.at \in Pending
                       THEN [req[q] EXCEPT !.met = @ \cup {r}] ELSE req[q]
  BY <1>1, EnterType DEF Arrival
<1>3. /\ x.at \in Pending \/ (x.at \in Answers /\ x.at \notin Pending)
      /\ x.met = {} /\ x.at # "idle" /\ req[r].at = "idle"
      /\ users' = users /\ profiles' = profiles
  BY <1>1 DEF Arrival, RequestRecord, Answers, Pending
<1>4. ASSUME NEW q \in Requests \ {r}
      PROVE  /\ req'[q].at = req[q].at /\ req'[q].kind = req[q].kind
             /\ req'[q].snap = req[q].snap
             /\ \/ req'[q].met = req[q].met
                \/ /\ req'[q].met = req[q].met \cup {r}
                   /\ q \in Running /\ x.at \in Pending
  <2>1. CASE q \in Running /\ x.at \in Pending
    <3>1. req'[q] = [req[q] EXCEPT !.met = @ \cup {r}]
      BY <1>2, <2>1
    <3>2. req[q] \in RequestRecord
      BY Known
    <3>3. QED
      BY <2>1, <3>1, <3>2, MetGrows DEF Same
  <2>2. CASE ~ (q \in Running /\ x.at \in Pending)
    <3>1. req'[q] = req[q]
      BY <1>2, <2>2
    <3>2. QED
      BY <3>1
  <2>3. QED
    BY <2>1, <2>2
<1>5. CASE x.at \in Pending
  <2>1. /\ req'[r].at = x.at /\ req'[r].kind = x.kind /\ req'[r].snap = x.snap
        /\ req'[r].met = Running
    BY <1>2, <1>5 DEF RequestRecord
  <2>2. x.at = "write" => x.target \in Ids
    BY <1>1 DEF Arrival, Shaped
  <2>3. QED
    BY <1>1, <1>3, <1>4, <1>5, <2>1, <2>2 DEF Starts
<1>6. CASE x.at \in Answers /\ x.at \notin Pending
  <2>1. /\ req'[r].at = x.at /\ req'[r].kind = x.kind /\ req'[r].met = {}
    BY <1>2, <1>3, <1>6, EndedType
  <2>2. QED
    BY <1>3, <1>4, <1>6, <2>1
<1>7. QED
  BY <1>3, <1>5, <1>6

LEMMA NextStaysApart ==
  ASSUME NEW K, NEW L, AccountsInv, NeverMet(K, L), Apart(K, L)', [Next]_vars
  PROVE  NeverMet(K, L)'
<1> TypeInv
  BY DEF AccountsInv
<1>1. ASSUME NEW r \in Requests, Step(r) \/ Abort(r) PROVE NeverMet(K, L)'
  <2>1. \A q \in Requests : req'[q].met = req[q].met /\ req'[q].kind = req[q].kind
    BY <1>1, RunningStep
  <2>2. QED
    BY <2>1 DEF NeverMet
<1>2. ASSUME NEW r \in Requests, Arrive(r) PROVE NeverMet(K, L)'
  <2>1. /\ req[r].at = "idle"
        /\ req'[r].at \in Pending => req'[r].met \subseteq Running
        /\ req'[r].at \notin Pending => req'[r].met = {}
        /\ \A q \in Requests \ {r} :
             /\ req'[q].at = req[q].at /\ req'[q].kind = req[q].kind
             /\ \/ req'[q].met = req[q].met
                \/ /\ req'[q].met = req[q].met \cup {r}
                   /\ q \in Running /\ req'[r].at \in Pending
    BY <1>2, ArrivalStep
  <2>2. r \notin Running /\ \A q \in Running : q # r /\ q \in Requests /\ q \in Running'
    BY <2>1 DEF Running, Pending
  <2>3. ASSUME NEW p \in Requests, NEW q \in Requests, q \in req'[p].met,
               req'[p].kind \in K, req'[q].kind \in L
        PROVE  FALSE
    <3>1. ASSUME p \in Running', q \in Running', p # q PROVE FALSE
      BY <2>3, <3>1 DEF Apart
    <3>2. CASE p = r
      BY <2>1, <2>2, <2>3, <3>1, <3>2 DEF Running
    <3>3. CASE p # r /\ q = r /\ r \notin req[p].met
      BY <2>1, <2>2, <2>3, <3>1, <3>3 DEF Running
    <3>4. CASE p # r /\ q \in req[p].met
      <4>1. CASE q # r
        BY <2>1, <2>3, <3>4, <4>1 DEF NeverMet
      <4>2. CASE q = r
        <5>1. p \in req[r].met
          BY <3>4, <4>2 DEF AccountsInv, MetInv
        <5>2. req[r].met = {}
          BY <2>1, Known DEF Shaped
        <5>3. QED
          BY <5>1, <5>2
      <4>3. QED
        BY <4>1, <4>2
    <3>5. QED
      BY <2>1, <2>3, <3>2, <3>3, <3>4
  <2>4. QED
    BY <2>3 DEF NeverMet
<1>3. CASE UNCHANGED vars
  BY <1>3 DEF vars, NeverMet
<1>4. QED
  BY <1>1, <1>2, <1>3 DEF Next

LEMMA InitApart ==
  ASSUME NEW K, NEW L
  PROVE  Init => NeverMet(K, L)
  BY DEF Init, NeverMet, NewRequest

\* What request r sets, and what it copies, is of its kind.
Vouched(r, new, from) ==
  \A a \in DOMAIN new \cap Attributes :
    /\ IsAuthor(req, r, a)
    /\ a \in DOMAIN from => \A s \in from[a] : IsAuthor(req, s, a)

\* What a write leaves in the history of a document.
LEMMA AssignAuthors ==
  ASSUME TypeInv, DocsAuthored(users, req), KindsStay(req, req'),
         NEW r \in Requests, NEW w \in Ids, NEW base \in UserRecord, NEW new, NEW from,
         base = Blank \/ (users[w] # NoUser /\ base = users[w]),
         \A a \in DOMAIN new : new[a] \in Values \cup Nat \cup {None},
         \A a \in DOMAIN from : from[a] \in SUBSET Requests,
         Vouched(r, new, from),
         users' = [users EXCEPT ![w] = Assigned(base, r, new, from)]
  PROVE  DocsAuthored(users', req')
<1> DEFINE doc == Assigned(base, r, new, from)
<1>1. ASSUME NEW a \in Attributes
      PROVE  /\ a \notin DOMAIN new => doc.has[a] = base.has[a]
             /\ doc.has[a] = base.has[a] => doc.by[a] = base.by[a]
             /\ doc.has[a] # base.has[a] => doc.by[a] = Writers(r, from, a)
  BY AssignedFields
<1>2. Authored(req, base)
  BY DEF DocsAuthored, Blank, Authored
<1>3. \A u \in Ids : users'[u] = IF u = w THEN doc ELSE users[u]
  BY Known
<1> HIDE DEF doc
<1>4. Authored(req, doc)
  BY <1>1, <1>2 DEF Authored, Writers, Vouched
<1>5. \A u \in Ids : users'[u] # NoUser => Authored(req, users'[u])
  BY <1>3, <1>4 DEF DocsAuthored
<1>6. QED
  BY <1>5, AuthoredStays DEF DocsAuthored

LEMMA InsertAuthors ==
  ASSUME AccountsInv, DocsAuthored(users, req), KindsStay(req, req'),
         NEW r \in Requests, Insert(r)
  PROVE  DocsAuthored(users', req')
<1> DEFINE given == req[r].given
           asked == Asked(given, Fields)
           index == Index(req[r].number)
           new == Over(index, asked)
<1>1. TypeInv /\ req[r] \in RequestRecord /\ Shaped(users, req[r], r)
  BY Known DEF AccountsInv
<1>2. /\ req[r].at = "insert" /\ req[r].kind \in {"register", "create", "event"}
      /\ req[r].number \in Nat /\ given \in [Fields -> Values \cup {None}]
      /\ users' = [users EXCEPT ![r] = Assigned(Blank, r, new, <<>>)]
  BY <1>1 DEF Insert, Shaped, RequestRecord
<1>3. \A f \in DOMAIN asked :
        asked[f] = given[f] /\ given[f] \in Values /\ f \in Fields
  <2> HIDE DEF given
  <2>1. Fields \in SUBSET Fields
    OBVIOUS
  <2>2. QED
    BY <1>2, <2>1, AskedFields, Zenon
<1>4. DOMAIN index = {"index"} /\ index["index"] \in Nat /\ DOMAIN <<>> = {}
  BY <1>2 DEF Index
<1> HIDE DEF given, asked, index
<1>5. /\ DOMAIN new = DOMAIN index \cup DOMAIN asked
      /\ \A a \in DOMAIN index : new[a] = index[a]
      /\ \A a \in DOMAIN asked : a \notin DOMAIN index => new[a] = asked[a]
  BY OverFields, Zenon
<1> HIDE DEF new
<1>6. \A a \in DOMAIN new : new[a] \in Values \cup Nat \cup {None}
  BY <1>3, <1>4, <1>5
<1>7. \A a : IsAuthor(req, r, a)
  BY <1>2 DEF IsAuthor, AuthorKinds, NumberKinds, IdentifierKinds
<1>8. QED
  BY <1>1, <1>2, <1>4, <1>6, <1>7, BlankType, AssignAuthors DEF Ids, Vouched

LEMMA WriteBackAuthors ==
  ASSUME AccountsInv, DocsAuthored(users, req), KindsStay(req, req'),
         NEW r \in Requests, SnapAuthored(req, r), WriteBack(r)
  PROVE  DocsAuthored(users', req')
<1> DEFINE given == req[r].given
           snap == req[r].snap
           w == req[r].target
           fields == {"email"} \cup ({req[r].extra} \ {None})
           asked == Asked(given, fields)
           copied == [a \in {b \in Attributes \ {"email"} : snap.has[b] # None} |-> snap.has[a]]
           new == Over(asked, copied)
           from == [a \in DOMAIN copied \ DOMAIN asked |-> snap.by[a]]
<1>1. TypeInv /\ req[r] \in RequestRecord /\ Shaped(users, req[r], r)
  BY Known DEF AccountsInv
<1>2. /\ req[r].at = "write" /\ req[r].at \in Pending /\ req[r].kind = "update"
      /\ w \in Ids
      /\ users' = [users EXCEPT ![w] = IF @ = NoUser THEN @ ELSE Assigned(@, r, new, from)]
  BY <1>1 DEF WriteBack, Shaped, Pending
<1>3. /\ given \in [Fields -> Values \cup {None}] /\ snap \in UserRecord
      /\ fields \in SUBSET Fields
  BY <1>1 DEF RequestRecord, Fields, Identifiers
<1>4. \A f \in DOMAIN asked :
        asked[f] = given[f] /\ given[f] \in Values /\ f \in Fields
  <2> HIDE DEF given, fields
  <2>1. QED
    BY <1>3, AskedFields, Zenon
<1>5. \A a \in DOMAIN copied : copied[a] \in Values \cup Nat \cup {None}
  BY <1>3 DEF UserRecord
<1>6. /\ \A a \in DOMAIN from : from[a] \in SUBSET Requests
      /\ \A a \in DOMAIN from : \A s \in from[a] : IsAuthor(req, s, a)
  BY <1>2, <1>3 DEF UserRecord, SnapAuthored, Authored
<1> HIDE DEF given, asked, copied, fields, w, from
<1>7. /\ DOMAIN new = DOMAIN asked \cup DOMAIN copied
      /\ \A a \in DOMAIN asked : new[a] = asked[a]
      /\ \A a \in DOMAIN copied : a \notin DOMAIN asked => new[a] = copied[a]
  BY OverFields, Zenon
<1> HIDE DEF new
<1>8. \A a \in DOMAIN new : new[a] \in Values \cup Nat \cup {None}
  BY <1>4, <1>5, <1>7
<1>9. \A a : IsAuthor(req, r, a)
  BY <1>2 DEF IsAuthor, AuthorKinds, NumberKinds, IdentifierKinds
<1>10. CASE users[w] = NoUser
  <2>1. users' = users
    BY <1>1, <1>2, <1>10, Known
  <2>2. QED
    BY <2>1, AuthoredStays DEF DocsAuthored
<1>11. CASE users[w] # NoUser
  <2>1. users' = [users EXCEPT ![w] = Assigned(users[w], r, new, from)] /\ users[w] \in UserRecord
    BY <1>1, <1>2, <1>11, Known
  <2>2. Vouched(r, new, from)
    BY <1>6, <1>9 DEF Vouched
  <2>3. QED
    BY <1>1, <1>2, <1>6, <1>8, <1>11, <2>1, <2>2, AssignAuthors
<1>12. QED
  BY <1>10, <1>11

LEMMA WriteGivenAuthors ==
  ASSUME AccountsInv, DocsAuthored(users, req), KindsStay(req, req'),
         NEW r \in Requests, SnapAuthored(req, r), WriteGiven(r)
  PROVE  DocsAuthored(users', req')
<1> DEFINE given == req[r].given
           w == req[r].target
           new == Asked(given, Identifiers)
           from == [f \in GivenIn(given) \ Changed(r) |-> req[r].snap.by[f]]
<1>1. TypeInv /\ req[r] \in RequestRecord /\ Shaped(users, req[r], r)
  BY Known DEF AccountsInv
<1>2. /\ req[r].at = "write" /\ req[r].at \in Pending /\ req[r].kind = "edit"
      /\ w \in Ids
      /\ users' = [users EXCEPT ![w] = IF @ = NoUser THEN @ ELSE Assigned(@, r, new, from)]
  BY <1>1 DEF WriteGiven, Shaped, Pending
<1>3. /\ given \in [Fields -> Values \cup {None}] /\ req[r].snap \in UserRecord
      /\ Identifiers \in SUBSET Fields
  BY <1>1 DEF RequestRecord, Fields
<1>4. /\ DOMAIN new = {f \in Identifiers : given[f] # None}
      /\ \A f \in DOMAIN new : new[f] = given[f] /\ given[f] \in Values /\ f \in Fields
  <2> HIDE DEF given
  <2>1. QED
    BY <1>3, AskedFields, Zenon
<1>5. /\ \A f \in DOMAIN from : from[f] \in SUBSET Requests
      /\ \A f \in DOMAIN from : \A s \in from[f] : IsAuthor(req, s, f)
  BY <1>2, <1>3 DEF GivenIn, UserRecord, Attributes, Fields, SnapAuthored, Authored
<1> HIDE DEF given, new, from, w
<1>6. \A a \in DOMAIN new : new[a] \in Values \cup Nat \cup {None}
  BY <1>4
<1>7. \A a \in DOMAIN new : IsAuthor(req, r, a)
  BY <1>2, <1>4 DEF IsAuthor, AuthorKinds, IdentifierKinds, Identifiers
<1>8. CASE users[w] = NoUser
  <2>1. users' = users
    BY <1>1, <1>2, <1>8, Known
  <2>2. QED
    BY <2>1, AuthoredStays DEF DocsAuthored
<1>9. CASE users[w] # NoUser
  <2>1. users' = [users EXCEPT ![w] = Assigned(users[w], r, new, from)] /\ users[w] \in UserRecord
    BY <1>1, <1>2, <1>9, Known
  <2>2. Vouched(r, new, from)
    BY <1>5, <1>7 DEF Vouched
  <2>3. QED
    BY <1>1, <1>2, <1>5, <1>6, <1>9, <2>1, <2>2, AssignAuthors
<1>10. QED
  BY <1>8, <1>9

LEMMA SaveCustomerAuthors ==
  ASSUME AccountsInv, DocsAuthored(users, req), KindsStay(req, req'),
         NEW r \in Requests, SnapAuthored(req, r), SaveCustomer(r)
  PROVE  DocsAuthored(users', req')
<1> DEFINE w == req[r].target
<1>1. TypeInv /\ req[r] \in RequestRecord /\ Shaped(users, req[r], r)
  BY Known DEF AccountsInv
<1>2. req[r].at = "write" /\ req[r].at \in Pending /\ req[r].kind = "event" /\ w \in Ids
  BY <1>1 DEF SaveCustomer, Shaped, Pending
<1>3. CASE users[w] = NoUser
  BY <1>3, AuthoredStays DEF SaveCustomer, DocsAuthored
<1>4. CASE users[w] # NoUser
  <2>1. PICK new, from :
          /\ users' = [users EXCEPT ![req[r].target] =
               IF @ = NoUser THEN @ ELSE Assigned(@, r, new, from)]
          /\ DOMAIN new \subseteq Fields \ {"email"}
          /\ \A a \in DOMAIN new :
               /\ new[a] \in Values \cup Nat \cup {None}
               /\ a \in DOMAIN from => new[a] = req[r].snap.has[a]
               /\ a \notin DOMAIN from => new[a] = req[r].given[a] /\ new[a] # None
          /\ DOMAIN from \subseteq {"customerId"}
          /\ \A a \in DOMAIN from :
               from[a] = req[r].snap.by[a] /\ from[a] \in SUBSET Requests
    BY <1>1, <1>4, CustomerSets, Zenon
  <2>2. users' = [users EXCEPT ![w] = IF @ = NoUser THEN @ ELSE Assigned(@, r, new, from)]
    BY <2>1, Zenon
  <2> HIDE DEF w
  <2>3. users' = [users EXCEPT ![w] = Assigned(users[w], r, new, from)] /\ users[w] \in UserRecord
    BY <1>1, <1>2, <1>4, <2>2, Known
  <2>4. \A a : IsAuthor(req, r, a) \/ a = "index"
    BY <1>2 DEF IsAuthor, AuthorKinds, IdentifierKinds
  <2>5. IsAuthor(req, r, "index")
    BY <1>2 DEF IsAuthor, AuthorKinds, NumberKinds
  <2>6. \A a \in DOMAIN from : \A s \in from[a] : IsAuthor(req, s, a)
    BY <1>2, <2>1 DEF SnapAuthored, Authored, Attributes, Fields
  <2>7. Vouched(r, new, from)
    BY <2>4, <2>5, <2>6 DEF Vouched
  <2>8. /\ \A a \in DOMAIN new : new[a] \in Values \cup Nat \cup {None}
        /\ \A a \in DOMAIN from : from[a] \in SUBSET Requests
    BY <2>1
  <2>9. QED
    BY <1>1, <1>2, <1>4, <2>3, <2>7, <2>8, AssignAuthors
<1>5. QED
  BY <1>3, <1>4

LEMMA AssignNumberAuthors ==
  ASSUME AccountsInv, DocsAuthored(users, req), KindsStay(req, req'),
         NEW r \in Requests, AssignNumber(r)
  PROVE  DocsAuthored(users', req')
<1> DEFINE order == req[r].order
           w == Head(order)
           number == req[r].number + 1
           new == Index(number)
<1>1. TypeInv /\ req[r] \in RequestRecord /\ Shaped(users, req[r], r)
  BY Known DEF AccountsInv
<1>2. /\ req[r].at = "assign" /\ req[r].kind = "migrate"
      /\ order # <<>> /\ order \in Seq(Ids) /\ number \in Nat
      /\ users' = [users EXCEPT ![w] = IF @ = NoUser THEN @ ELSE Assigned(@, r, new, <<>>)]
  BY <1>1 DEF AssignNumber, Shaped, RequestRecord
<1>3. w \in Ids
  BY <1>2
<1> HIDE DEF order, w, number
<1>4. /\ DOMAIN new = {"index"} /\ DOMAIN <<>> = {}
      /\ \A a \in DOMAIN new : new[a] \in Values \cup Nat \cup {None}
  BY <1>2 DEF Index
<1> HIDE DEF new
<1>5. \A a \in DOMAIN new : IsAuthor(req, r, a)
  BY <1>2, <1>4 DEF IsAuthor, AuthorKinds, NumberKinds
<1>6. CASE users[w] = NoUser
  <2>1. users' = users
    BY <1>1, <1>2, <1>3, <1>6, Known
  <2>2. QED
    BY <2>1, AuthoredStays DEF DocsAuthored
<1>7. CASE users[w] # NoUser
  <2>1. users' = [users EXCEPT ![w] = Assigned(users[w], r, new, <<>>)] /\ users[w] \in UserRecord
    BY <1>1, <1>2, <1>3, <1>7, Known
  <2>2. QED
    BY <1>1, <1>3, <1>4, <1>5, <1>7, <2>1, AssignAuthors DEF Vouched
<1>8. QED
  BY <1>6, <1>7

LEMMA DocsStayAuthored ==
  ASSUME AccountsInv, AuthorsInv, KindsStay(req, req'), NEW r \in Requests, Step(r)
  PROVE  DocsAuthored(users', req')
<1>1. ASSUME \A u \in Ids : users'[u] \in {users[u], NoUser} PROVE DocsAuthored(users', req')
  BY <1>1, AuthoredStays DEF DocsAuthored, AuthorsInv
<1>2. TypeInv
  BY DEF AccountsInv
<1>3. CASE RemoveUser(r)
  <2>1. \A u \in Ids : users'[u] \in {users[u], NoUser}
    BY <1>2, <1>3, Known DEF RemoveUser
  <2>2. QED
    BY <1>1, <2>1
<1>4. CASE \/ Lookup(r) \/ Check(r) \/ Number(r) \/ InsertProfile(r) \/ WriteProfile(r)
           \/ UpsertProfile(r) \/ RemoveProfiles(r) \/ ReadMax(r)
  BY <1>1, <1>4
  DEF Lookup, Check, Number, InsertProfile, WriteProfile, UpsertProfile, RemoveProfiles, ReadMax
<1>5. CASE Insert(r) \/ WriteBack(r) \/ WriteGiven(r) \/ SaveCustomer(r) \/ AssignNumber(r)
  BY <1>5, InsertAuthors, WriteBackAuthors, WriteGivenAuthors, SaveCustomerAuthors,
     AssignNumberAuthors DEF AuthorsInv
<1>6. QED
  BY <1>3, <1>4, <1>5 DEF Step

LEMMA NextAuthors ==
  ASSUME AccountsInv, AuthorsInv, [Next]_vars
  PROVE  AuthorsInv'
<1>1. TypeInv
  BY DEF AccountsInv
<1>2. ASSUME NEW r \in Requests, Step(r) \/ Abort(r)
      PROVE  AuthorsInv'
  <2>1. /\ req[r].at \in Pending /\ req'[r].at # "idle"
        /\ req'[r].kind = req[r].kind
        /\ req'[r].at \in Pending => req'[r].snap = req[r].snap
        /\ \A q \in Requests \ {r} : req'[q] = req[q]
    BY <1>1, <1>2, RunningStep
  <2>2. KindsStay(req, req')
    BY <2>1 DEF KindsStay
  <2>3. DocsAuthored(users', req')
    <3>1. CASE Step(r)
      BY <2>2, <3>1, DocsStayAuthored
    <3>2. CASE Abort(r)
      BY <2>2, <3>2, AuthoredStays DEF Abort, AuthorsInv, DocsAuthored
    <3>3. QED
      BY <1>2, <3>1, <3>2
  <2>4. ASSUME NEW q \in Requests PROVE SnapAuthored(req', q)
    <3> SUFFICES ASSUME req'[q].kind \in {"update", "edit", "event"}, req'[q].at \in Pending
                 PROVE  Authored(req', req'[q].snap)
      BY DEF SnapAuthored
    <3>1. req[q].kind = req'[q].kind /\ req[q].at \in Pending /\ req'[q].snap = req[q].snap
      BY <2>1
    <3>2. Authored(req, req[q].snap)
      BY <3>1 DEF AuthorsInv, SnapAuthored
    <3>3. QED
      BY <2>2, <3>1, <3>2, AuthoredStays
  <2>5. QED
    BY <2>3, <2>4 DEF AuthorsInv
<1>3. ASSUME NEW r \in Requests, Arrive(r)
      PROVE  AuthorsInv'
  <2>1. /\ req[r].at = "idle" /\ req'[r].at # "idle" /\ users' = users /\ profiles' = profiles
        /\ req'[r].kind \in {"update", "edit", "event"} /\ req'[r].at \in Pending
             => \/ req'[r].snap = Blank
                \/ \E u \in Ids : users[u] # NoUser /\ req'[r].snap = users[u]
        /\ \A q \in Requests \ {r} :
             req'[q].at = req[q].at /\ req'[q].kind = req[q].kind /\ req'[q].snap = req[q].snap
    BY <1>1, <1>3, ArrivalStep
  <2>2. KindsStay(req, req')
    BY <2>1 DEF KindsStay
  <2>3. DocsAuthored(users', req')
    BY <2>1, <2>2, AuthoredStays DEF AuthorsInv, DocsAuthored
  <2>4. ASSUME NEW q \in Requests PROVE SnapAuthored(req', q)
    <3> SUFFICES ASSUME req'[q].kind \in {"update", "edit", "event"}, req'[q].at \in Pending
                 PROVE  Authored(req', req'[q].snap)
      BY DEF SnapAuthored
    <3>1. CASE q = r
      <4>1. Authored(req, req'[r].snap)
        BY <2>1, <3>1 DEF AuthorsInv, DocsAuthored, Authored, Blank
      <4>2. QED
        BY <2>2, <3>1, <4>1, AuthoredStays
    <3>2. CASE q # r
      <4>1. Authored(req, req[q].snap)
        BY <2>1, <3>2 DEF AuthorsInv, SnapAuthored
      <4>2. QED
        BY <2>1, <2>2, <3>2, <4>1, AuthoredStays
    <3>3. QED
      BY <3>1, <3>2
  <2>5. QED
    BY <2>3, <2>4 DEF AuthorsInv
<1>4. CASE UNCHANGED vars
  <2>1. users' = users /\ profiles' = profiles /\ req' = req
    BY <1>4 DEF vars
  <2>2. QED
    BY <2>1 DEF AuthorsInv
<1>5. QED
  BY <1>2, <1>3, <1>4 DEF Next

LEMMA AuthorsAlways == Spec => []AuthorsInv
<1>1. Init => AuthorsInv
  BY AccountsAssumption
  DEF Init, AuthorsInv, DocsAuthored, SnapAuthored, Authored, Pending, NewRequest
<1>2. AccountsInv /\ AuthorsInv /\ [Next]_vars => AuthorsInv'
  BY NextAuthors
<1>3. QED
  BY <1>1, <1>2, Always, PTL DEF Spec

\* The comment of the pre-save hook, "Campo index numerico sequencial (1, 2, 3...)",
\* holds as soon as the requests that write a number take turns: no two users
\* ever share one, whatever else runs beside them and whatever fails.
THEOREM NumbersUniqueInTurn == Spec /\ []Apart(NumberKinds, NumberKinds) => []NumbersUnique
<1>1. ASSUME AccountsInv, AuthorsInv, NeverMet(NumberKinds, NumberKinds), NumbersNeedOverlap
      PROVE  NumbersUnique
  <2> SUFFICES ASSUME NEW u \in Ids, NEW v \in Ids, Shared(u, v, "index")
               PROVE  FALSE
    BY <1>1 DEF NumbersUnique
  <2>1. PICK r \in users[u].by["index"], s \in users[v].by["index"] : s \in req[r].met
    BY <1>1 DEF NumbersNeedOverlap, Overlapped
  <2>2. users[u] # NoUser /\ users[v] # NoUser /\ "index" \in Attributes
    BY DEF Shared, Live, Attributes
  <2>3. IsAuthor(req, r, "index") /\ IsAuthor(req, s, "index")
    BY <1>1, <2>2 DEF AuthorsInv, DocsAuthored, Authored
  <2>4. QED
    BY <1>1, <2>1, <2>3 DEF NeverMet, IsAuthor, AuthorKinds
<1>2. AccountsInv /\ AuthorsInv /\ NeverMet(NumberKinds, NumberKinds) /\ NumbersNeedOverlap
        => NumbersUnique
  BY <1>1
<1>3. Init => NeverMet(NumberKinds, NumberKinds)
  BY InitApart
<1>4. /\ AccountsInv /\ NeverMet(NumberKinds, NumberKinds) /\ Apart(NumberKinds, NumberKinds)' /\ [Next]_vars
      => NeverMet(NumberKinds, NumberKinds)'
  BY NextStaysApart
<1>5. QED
  BY <1>4, <1>2, <1>3, Always, AuthorsAlways, NumbersOnlyByOverlap, PTL DEF Spec

\* The requests that look a value up before they write it; a customer event
\* takes any user that matches.
LookingKinds == IdentifierKinds \ {"event"}

\* E-mail, document and phone are those of one user, unless an event gave them.
IdentifiersUnique ==
  \A u, v \in Ids, a \in Identifiers :
    Shared(u, v, a) => \E r \in users[u].by[a] \cup users[v].by[a] : req[r].kind = "event"

\* If registrations and updates take turns, no two users have the same e-mail,
\* document or phone but through a customer event: the look-ups before a write
\* are enough, and it is only their distance from the write that is not.
THEOREM IdentifiersUniqueInTurn ==
  Spec /\ []Apart(LookingKinds, LookingKinds) => []IdentifiersUnique
<1>1. ASSUME AccountsInv, AuthorsInv, NeverMet(LookingKinds, LookingKinds), DuplicatesNeedOverlap
      PROVE  IdentifiersUnique
  <2> SUFFICES ASSUME NEW u \in Ids, NEW v \in Ids, NEW a \in Identifiers, Shared(u, v, a),
                      \A r \in users[u].by[a] \cup users[v].by[a] : req[r].kind # "event"
               PROVE  FALSE
    BY <1>1 DEF IdentifiersUnique
  <2>1. PICK r \in users[u].by[a], s \in users[v].by[a] : s \in req[r].met
    BY <1>1 DEF DuplicatesNeedOverlap, Overlapped
  <2>2. users[u] # NoUser /\ users[v] # NoUser /\ a \in Attributes /\ a # "index"
    BY DEF Shared, Live, Attributes, Fields, Identifiers
  <2>3. IsAuthor(req, r, a) /\ IsAuthor(req, s, a)
    BY <1>1, <2>2 DEF AuthorsInv, DocsAuthored, Authored
  <2>4. QED
    BY <1>1, <2>1, <2>2, <2>3 DEF NeverMet, IsAuthor, AuthorKinds, LookingKinds
<1>2. AccountsInv /\ AuthorsInv /\ NeverMet(LookingKinds, LookingKinds) /\ DuplicatesNeedOverlap
        => IdentifiersUnique
  BY <1>1
<1>3. Init => NeverMet(LookingKinds, LookingKinds)
  BY InitApart
<1>4. /\ AccountsInv /\ NeverMet(LookingKinds, LookingKinds) /\ Apart(LookingKinds, LookingKinds)' /\ [Next]_vars
      => NeverMet(LookingKinds, LookingKinds)'
  BY NextStaysApart
<1>5. QED
  BY <1>4, <1>2, <1>3, Always, AuthorsAlways, DuplicatesOnlyByOverlap, PTL DEF Spec

\* The requests that write participants.
ProfileKinds == {"create", "put"}

\* A profile is put only while its user is there.
PutsAreOfUsers == \A r \in Running : req[r].at = "upsert" => req[r].target \in Live

\* If no removal runs beside an administrators' create or beside PUT profiles,
\* and profiles are put of users that are there, every participant has its
\* user, at every moment and after every failure: a removal deletes the
\* participants first and a create adds one last.  PUT profiles checks neither.
THEOREM NoOrphansInTurn ==
  Spec /\ []Apart(ProfileKinds, {"remove"}) /\ []PutsAreOfUsers => [](profiles \subseteq Live)
<1>1. Init => NeverMet(ProfileKinds, {"remove"})
  BY InitApart
<1>2. /\ AccountsInv /\ NeverMet(ProfileKinds, {"remove"})
      /\ Apart(ProfileKinds, {"remove"})' /\ [Next]_vars
      => NeverMet(ProfileKinds, {"remove"})'
  BY NextStaysApart
<1>3. Init => profiles \subseteq Live
  <2> SUFFICES ASSUME Init, NEW u \in Seeds PROVE users[u] # NoUser /\ u \in Ids
    BY DEF Init, Live
  <2>1. u \in Ids /\ users[u] = [has |-> Seeded[u], by |-> [a \in Attributes |-> {}]]
    BY DEF Init, Ids
  <2>2. [has |-> Seeded[u], by |-> [a \in Attributes |-> {}]] \in UserRecord
    BY AccountsAssumption DEF UserRecord
  <2>3. QED
    BY <2>1, <2>2, AccountsAssumption
<1>4. /\ AccountsInv /\ NeverMet(ProfileKinds, {"remove"}) /\ PutsAreOfUsers
      /\ profiles \subseteq Live /\ [Next]_vars
      => (profiles \subseteq Live)'
  <2> SUFFICES ASSUME AccountsInv, NeverMet(ProfileKinds, {"remove"}), PutsAreOfUsers,
                      profiles \subseteq Live, [Next]_vars, NEW u \in profiles' \ Live'
               PROVE  FALSE
    OBVIOUS
  <2>1. PICK r \in Running :
          \/ req[r].at = "upsert" /\ req[r].target = u /\ u \notin Live
          \/ req[r].at = "profile" /\ r = u /\ Overlapped({r}, Removers(u))
          \/ req[r].at = "removeUser" /\ Overlapped(ProfileWriters(u), {r})
    BY OrphanExplained
  <2>2. r \in Requests /\ Shaped(users, req[r], r)
    BY Known DEF AccountsInv
  <2>3. CASE req[r].at = "upsert" /\ req[r].target = u /\ u \notin Live
    BY <2>3 DEF PutsAreOfUsers
  <2>4. CASE req[r].at = "profile" /\ Overlapped({r}, Removers(u))
    BY <2>2, <2>4 DEF Shaped, Overlapped, Removers, NeverMet, ProfileKinds
  <2>5. CASE req[r].at = "removeUser" /\ Overlapped(ProfileWriters(u), {r})
    BY <2>2, <2>5 DEF Shaped, Overlapped, ProfileWriters, NeverMet, ProfileKinds
  <2>6. QED
    BY <2>1, <2>3, <2>4, <2>5
<1>5. QED
  BY <1>1, <1>2, <1>3, <1>4, Always, PTL DEF Spec

WritingKinds == Kinds \ {"remove", "put"}

\* If the requests that write users take turns, removals aside, an attribute
\* that has a value gets another one only because a request asks for it: no
\* update puts an old value back and no migration numbers anybody anew.
THEOREM NothingLostInTurn ==
  Spec /\ []Apart(WritingKinds, WritingKinds)
    => [][\A u \in Live, a \in Attributes :
            users'[u] # NoUser /\ users[u].has[a] \notin {None, users'[u].has[a]}
              => \E r \in Running : /\ a \in Fields /\ req[r].given[a] # None
                                    /\ req[r].given[a] = users'[u].has[a]]_vars
<1> DEFINE A == \A u \in Live, a \in Attributes :
            users'[u] # NoUser /\ users[u].has[a] \notin {None, users'[u].has[a]}
              => \E r \in Running : /\ a \in Fields /\ req[r].given[a] # None
                                    /\ req[r].given[a] = users'[u].has[a]
<1>1. ASSUME AccountsInv, AuthorsInv, NeverMet(WritingKinds, WritingKinds), NEW r \in Requests, req[r].at \in Pending,
             req[r].kind \notin {"remove", "put"}, Explained(r, users, users')
      PROVE  A
  <2> SUFFICES ASSUME NEW u \in Live, NEW a \in Attributes, users'[u] # NoUser,
                      users[u].has[a] \notin {None, users'[u].has[a]}
               PROVE  a \in Fields /\ req[r].given[a] # None /\ req[r].given[a] = users'[u].has[a]
    BY <1>1 DEF Running
  <2>1. u \in Ids /\ users[u] # NoUser
    BY DEF Live
  <2>2. ASSUME Overlaps(req, {r}, users[u].by[a]) PROVE FALSE
    <3>1. PICK s \in users[u].by[a] : s \in req[r].met
      BY <2>2 DEF Overlaps
    <3>2. IsAuthor(req, s, a)
      BY <1>1, <2>1, <3>1 DEF AuthorsInv, DocsAuthored, Authored
    <3>3. req[s].kind \in WritingKinds /\ s \in Requests
      BY <3>2 DEF IsAuthor, AuthorKinds, NumberKinds, IdentifierKinds, WritingKinds, Kinds
    <3>4. req[r].kind \in WritingKinds
      BY <1>1, Known DEF AccountsInv, RequestRecord, WritingKinds
    <3>5. QED
      BY <1>1, <3>1, <3>3, <3>4 DEF NeverMet
  <2>3. QED
    BY <1>1, <2>1, <2>2 DEF Explained
<1>2. ASSUME users' = users PROVE A
  BY <1>2
<1>3. ASSUME AccountsInv, NEW r \in Requests, RemoveUser(r) PROVE A
  <2>1. \A u \in Ids : users'[u] = users[u] \/ users'[u] = NoUser
    BY <1>3, Known DEF RemoveUser, AccountsInv
  <2>2. QED
    BY <2>1 DEF Live
<1>4. ASSUME AccountsInv, AuthorsInv, NeverMet(WritingKinds, WritingKinds), NEW r \in Requests, Step(r)
      PROVE  A
  BY <1>1, <1>2, <1>3, <1>4, StepExplained
<1>5. ASSUME NEW r \in Requests, Arrive(r) \/ Abort(r) PROVE A
  BY <1>2, <1>5, OthersWriteNoUser
<1>6. AccountsInv /\ AuthorsInv /\ NeverMet(WritingKinds, WritingKinds) /\ [Next]_vars => [A]_vars
  BY <1>4, <1>5 DEF Next
<1>7. Init => NeverMet(WritingKinds, WritingKinds)
  BY InitApart
<1>8. /\ AccountsInv /\ NeverMet(WritingKinds, WritingKinds) /\ Apart(WritingKinds, WritingKinds)' /\ [Next]_vars
      => NeverMet(WritingKinds, WritingKinds)'
  BY NextStaysApart
<1>9. QED
  BY <1>8, <1>6, <1>7, Always, AuthorsAlways, PTL DEF Spec

=============================================================================
