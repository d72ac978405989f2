----------------------------- MODULE Accounts -----------------------------
(***************************************************************************)
(* The requests that create, change and remove user documents:             *)
(* registration, the administrators' create, update and remove, the update *)
(* of one's own data, customer events, and the migration that numbers old  *)
(* documents; and the writing of a profile, which looks no user up.  The   *)
(* collection has no unique index and no request uses a transaction: each  *)
(* looks identifiers up, awaits, and writes.                               *)
(*                                                                         *)
(* A user is named by the request that created it, or is one of Seeds.     *)
(* Which organization a participant belongs to, and what deletes a single  *)
(* participant, is left to module Participants.                            *)
(***************************************************************************)
EXTENDS Naturals, Sequences, FiniteSets, FiniteSetsExt, SequencesExt

CONSTANTS
  Requests,
  Seeds,       \* users that exist at the start
  Seeded,      \* and their attributes
  Values,      \* of e-mail, document, phone and customer id
  None,        \* an attribute a document or a request does not have
  NoUser, NoId,
  Payloads,    \* the identifiers a request may carry
  Operations,  \* the kinds of request
  MaxFaults

Identifiers == {"email", "document", "phone"}
Fields == Identifiers \cup {"customerId"}
Attributes == Fields \cup {"index"}
Ids == Requests \cup Seeds

UserRecord ==
  [has : [Attributes -> Values \cup Nat \cup {None}],
   by : [Attributes -> SUBSET Requests]]

Kinds == {"register", "create", "update", "edit", "event", "remove", "migrate",
          "put"}

ASSUME AccountsAssumption ==
  /\ IsFiniteSet(Requests) /\ IsFiniteSet(Seeds) /\ Requests \cap Seeds = {}
  /\ Seeded \in [Seeds -> [Attributes -> Values \cup Nat \cup {None}]]
  /\ \A s \in Seeds : Seeded[s]["index"] \in Nat \cup {None}
  /\ \A s, t \in Seeds, a \in Attributes :
       s # t /\ Seeded[s][a] = Seeded[t][a] => Seeded[s][a] = None
  /\ Values \cap Nat = {}
  /\ None \notin Values \cup Nat /\ NoUser \notin UserRecord
  /\ Payloads \subseteq [Fields -> Values \cup {None}]
  /\ Operations \subseteq Kinds
  /\ MaxFaults \in Nat

VARIABLES
  users,     \* the collection; by is a history: who wrote an attribute
  profiles,  \* users with a participant
  req,       \* the requests; met is a history: which requests overlapped
  faults

vars == <<users, profiles, req, faults>>

---------------------------------------------------------------------------

Pending == {"check", "lookup", "number", "insert", "profile", "write",
            "writeProfile", "removeProfiles", "removeUser", "max", "assign",
            "upsert"}
Answers == {"ok", "conflict", "notFound", "ignored", "error"}

Blank == [has |-> [a \in Attributes |-> None], by |-> [a \in Attributes |-> {}]]

\* todo: the look-ups still to be made; order: the users still to be numbered.
NewRequest ==
  [kind |-> "register", at |-> "idle", target |-> NoId, given |-> [f \in Fields |-> None],
   extra |-> None, snap |-> Blank, todo |-> <<>>, order |-> <<>>,
   number |-> 0, met |-> {}]

Live == {u \in Ids : users[u] # NoUser}
Running == {r \in Requests : req[r].at \in Pending}
GivenIn(given) == {f \in Identifiers : given[f] # None}

\* findOne({ $or: ... }): the users that match one of the fields.
Matching(given, fields) ==
  {u \in Live : \E f \in fields : given[f] # None /\ users[u].has[f] = given[f]}

Numbers == {users[u].has["index"] : u \in Live} \ {None}
\* Mutant of Unnumbered: the migration takes every user.
UnnumberedAll == Live
Unnumbered == {u \in Live : users[u].has["index"] = None}
LastNumber == Max(Numbers \cup {0})

\* user after request r has set the attributes in the domain of new; from
\* names the writers of the values that r only copies.
Assigned(user, r, new, from) ==
  [has |-> [a \in Attributes |-> IF a \in DOMAIN new THEN new[a] ELSE user.has[a]],
   by  |-> [a \in Attributes |->
              IF a \in DOMAIN new /\ new[a] # user.has[a]
                THEN {r} \cup (IF a \in DOMAIN from THEN from[a] ELSE {})
                ELSE user.by[a]]]

\* The attributes of set, and those of read that are not set.
Over(set, read) ==
  [a \in DOMAIN set \cup DOMAIN read |-> IF a \in DOMAIN set THEN set[a] ELSE read[a]]

Index(number) == [a \in {"index"} |-> number]

Asked(given, fields) == [f \in {g \in fields : given[g] # None} |-> given[f]]

\* What is kept of a request that has ended: whom it put a profile of or
\* removed, too.
Ended(request, at) ==
  [NewRequest EXCEPT !.kind = request.kind, !.at = at, !.met = request.met,
     !.target = IF request.kind \in {"put", "remove"} THEN request.target ELSE NoId]

\* Request r starts with the given record; it overlaps those that run.
Enter(r, entered) ==
  req' = [s \in Requests |->
    IF s = r THEN IF entered.at \in Pending THEN [entered EXCEPT !.met = Running]
                  ELSE Ended(entered, entered.at)
    ELSE IF s \in Running /\ entered.at \in Pending
           THEN [req[s] EXCEPT !.met = @ \cup {r}]
    ELSE req[s]]

Goto(r, at) == req' = [req EXCEPT ![r].at = at]

Answer(r, at) == req' = [req EXCEPT ![r] = Ended(@, at)]

---------------------------------------------------------------------------
(* The first step of each request. *)

Arrives(r, kind) == req[r].at = "idle" /\ kind \in Operations

\* The look-up of one field, if it is given.
Query(given, f) == IF given[f] = None THEN <<>> ELSE <<{f}>>

\* Up to three look-ups, one after the other.
Register(r, given) ==
  /\ Arrives(r, "register")
  /\ Enter(r, [NewRequest EXCEPT !.kind = "register", !.given = given, !.at = "check",
       !.todo = Query(given, "document") \o Query(given, "email") \o Query(given, "phone")])
  /\ UNCHANGED <<users, profiles, faults>>

\* One look-up of all; MongoDB rejects an empty $or.
Create(r, given) ==
  /\ Arrives(r, "create")
  /\ Enter(r, [NewRequest EXCEPT !.kind = "create", !.given = given,
       !.at = IF GivenIn(given) = {} THEN "error" ELSE "check",
       !.todo = <<GivenIn(given)>>])
  /\ UNCHANGED <<users, profiles, faults>>

\* findById, then one look-up of all that does not leave the user itself out.
\* extra is the option findDuplicates, sent with the field it names.
Update(r, u, given, extra) ==
  /\ Arrives(r, "update")
  /\ extra \in {None} \cup (GivenIn(given) \ {"email"})
  /\ Enter(r, [NewRequest EXCEPT !.kind = "update", !.given = given,
       !.target = u, !.extra = extra,
       !.snap = IF u \in Live THEN users[u] ELSE Blank,
       !.at = IF u \notin Live THEN "notFound"
              ELSE IF GivenIn(given) = {} THEN "error" ELSE "check",
       !.todo = <<GivenIn(given)>>])
  /\ UNCHANGED <<users, profiles, faults>>

\* findById; the participant is looked up next.
Edit(r, u, given) ==
  /\ Arrives(r, "edit")
  /\ Enter(r, [NewRequest EXCEPT !.kind = "edit", !.given = given,
       !.target = u,
       !.snap = IF u \in Live THEN users[u] ELSE Blank,
       !.at = IF u \in Live THEN "lookup" ELSE "notFound"])
  /\ UNCHANGED <<users, profiles, faults>>

\* customer.created and customer.updated: any user that matches the customer
\* id or an identifier is taken; without one a user is created, if the event
\* carries a password.
Event(r, given, password) ==
  /\ Arrives(r, "event")
  /\ LET entered == [NewRequest EXCEPT !.kind = "event", !.given = given]
         found == Matching(given, Fields)
     IN \/ \E u \in found :
             Enter(r, [entered EXCEPT !.at = "write", !.target = u,
                                      !.snap = users[u]])
        \/ found = {}
           /\ Enter(r, [entered EXCEPT !.at =
                IF password /\ \E f \in Fields : given[f] # None
                  THEN "number" ELSE "ignored"])
  /\ UNCHANGED <<users, profiles, faults>>

\* Mutant of RemoveAccount: the participants stay.
RemoveAccountOnly(r, u) ==
  /\ Arrives(r, "remove")
  /\ Enter(r, [NewRequest EXCEPT !.kind = "remove", !.target = u,
                                 !.at = "removeUser"])
  /\ UNCHANGED <<users, profiles, faults>>

\* The participants are read, for the answer only.
RemoveAccount(r, u) ==
  /\ Arrives(r, "remove")
  /\ Enter(r, [NewRequest EXCEPT !.kind = "remove", !.target = u,
                                 !.at = "removeProfiles"])
  /\ UNCHANGED <<users, profiles, faults>>

\* The user is the one of the token, which outlives the user, or any that the
\* body names.  A request for an organization without access to it is refused.
PutProfile(r, u) ==
  /\ Arrives(r, "put")
  /\ Enter(r, [NewRequest EXCEPT !.kind = "put", !.target = u, !.at = "upsert"])
  /\ UNCHANGED <<users, profiles, faults>>

\* The users without a number, the oldest first.
Migrate(r, order) ==
  /\ Arrives(r, "migrate")
  /\ order \in SetToSeqs(Unnumbered)
  /\ Enter(r, [NewRequest EXCEPT !.kind = "migrate", !.order = order,
                                 !.at = IF order = <<>> THEN "ok" ELSE "max"])
  /\ UNCHANGED <<users, profiles, faults>>

---------------------------------------------------------------------------
(* Look-ups. *)

\* Users that a look-up of these fields finds: an administrator's update
\* leaves the user itself out, the user's own update does not.
Found(r, fields) ==
  Matching(req[r].given, fields)
    \ (IF req[r].kind = "edit" THEN {req[r].target} ELSE {})

\* The administrator's update looks up only what differs from the document it
\* has read.
Changed(r) == {f \in GivenIn(req[r].given) : req[r].given[f] # req[r].snap.has[f]}

\* The user may have no participant in the organization it names.
Lookup(r) ==
  /\ req[r].at = "lookup"
  /\ \/ /\ req[r].target \in profiles
        /\ req' = [req EXCEPT ![r].at = "check", ![r].todo =
                     IF Changed(r) = {} THEN <<>> ELSE <<Changed(r)>>]
     \/ Answer(r, "notFound")
  /\ UNCHANGED <<users, profiles, faults>>

\* Mutant of Check: the first look-up decides.
CheckFirst(r) ==
  /\ req[r].at = "check"
  /\ IF req[r].todo # <<>> /\ Found(r, Head(req[r].todo)) # {}
       THEN Answer(r, "conflict")
       ELSE Goto(r, IF req[r].kind \in {"register", "create"} THEN "number"
                    ELSE "write")
  /\ UNCHANGED <<users, profiles, faults>>

Check(r) ==
  /\ req[r].at = "check"
  /\ IF req[r].todo = <<>>
       THEN Goto(r, IF req[r].kind \in {"register", "create"} THEN "number"
                    ELSE "write")
     ELSE IF Found(r, Head(req[r].todo)) # {} THEN Answer(r, "conflict")
     ELSE req' = [req EXCEPT ![r].todo = Tail(@)]
  /\ UNCHANGED <<users, profiles, faults>>

---------------------------------------------------------------------------
(* Writes. *)

\* Mutant of Number: the greatest number is not increased.
NumberAgain(r) ==
  /\ req[r].at = "number"
  /\ req' = [req EXCEPT ![r].at = "insert", ![r].number = LastNumber]
  /\ UNCHANGED <<users, profiles, faults>>

\* The pre-save hook of a new document reads the greatest number.
Number(r) ==
  /\ req[r].at = "number"
  /\ req' = [req EXCEPT ![r].at = "insert", ![r].number = LastNumber + 1]
  /\ UNCHANGED <<users, profiles, faults>>

\* Mutant of Insert: a bulk insert, which runs no pre-save hook.
InsertMany(r) ==
  /\ req[r].at = "insert"
  /\ users' = [users EXCEPT ![r] =
       Assigned(Blank, r, Asked(req[r].given, Fields), <<>>)]
  /\ IF req[r].kind = "create" THEN Goto(r, "profile") ELSE Answer(r, "ok")
  /\ UNCHANGED <<profiles, faults>>

Insert(r) ==
  /\ req[r].at = "insert"
  /\ users' = [users EXCEPT ![r] =
       Assigned(Blank, r, Over(Index(req[r].number), Asked(req[r].given, Fields)), <<>>)]
  /\ IF req[r].kind = "create" THEN Goto(r, "profile") ELSE Answer(r, "ok")
  /\ UNCHANGED <<profiles, faults>>

\* The administrator's create adds the participant last.
InsertProfile(r) ==
  /\ req[r].at = "profile"
  /\ profiles' = profiles \cup {r}
  /\ Answer(r, "ok")
  /\ UNCHANGED <<users, faults>>

\* Mutant of WriteBack: an e-mail that is not sent is erased.
WriteBackNull(r) ==
  LET snap == req[r].snap
      copied == [a \in {b \in Attributes \ {"email"} : snap.has[b] # None} |-> snap.has[a]]
  IN /\ req[r].at = "write"
     /\ req[r].kind = "update"
     /\ users' = [users EXCEPT ![req[r].target] =
          IF @ = NoUser THEN @
          ELSE Assigned(@, r, Over([a \in {"email"} |-> req[r].given[a]], copied),
                 [a \in DOMAIN copied |-> snap.by[a]])]
     /\ Answer(r, "ok")
     /\ UNCHANGED <<profiles, faults>>

\* The user's own update sets the e-mail, and the field named by
\* findDuplicates, in the document it has read and writes all of it back;
\* an attribute without a value, which an e-mail that is not sent is then, is
\* not written.
WriteBack(r) ==
  LET snap == req[r].snap
      asked == Asked(req[r].given, {"email"} \cup ({req[r].extra} \ {None}))
      copied == [a \in {b \in Attributes \ {"email"} : snap.has[b] # None} |-> snap.has[a]]
  IN /\ req[r].at = "write"
     /\ req[r].kind = "update"
     /\ users' = [users EXCEPT ![req[r].target] =
          IF @ = NoUser THEN @
          ELSE Assigned(@, r, Over(asked, copied),
                 [a \in DOMAIN copied \ DOMAIN asked |-> snap.by[a]])]
     /\ Answer(r, "ok")
     /\ UNCHANGED <<profiles, faults>>

\* The administrator's update writes what is given, then the participant; what
\* it had read already it only copies.
WriteGiven(r) ==
  /\ req[r].at = "write"
  /\ req[r].kind = "edit"
  /\ users' = [users EXCEPT ![req[r].target] =
       IF @ = NoUser THEN @
       ELSE Assigned(@, r, Asked(req[r].given, Identifiers),
              [f \in GivenIn(req[r].given) \ Changed(r) |-> req[r].snap.by[f]])]
  /\ Goto(r, "writeProfile")
  /\ UNCHANGED <<profiles, faults>>

\* The participant's own copy of the identifiers is left to other modules.
WriteProfile(r) ==
  /\ req[r].at = "writeProfile"
  /\ Answer(r, "ok")
  /\ UNCHANGED <<users, profiles, faults>>

\* A customer event saves the fields that differ from what it has read, never
\* the e-mail; saving a document that is gone fails.  The customer id is part
\* of the metadata, which is saved whole when any of it differs, with the
\* customer id it has read when it carries none.
SaveCustomer(r) ==
  LET snap == req[r].snap
      given == Asked(req[r].given, Fields \ {"email"})
      set == Over(given, [f \in {"customerId"} |-> snap.has[f]])
      changed == {f \in DOMAIN set : set[f] # snap.has[f]}
  IN /\ req[r].at = "write"
     /\ req[r].kind = "event"
     /\ IF users[req[r].target] = NoUser
          THEN Answer(r, "error") /\ UNCHANGED users
          ELSE /\ \E saved \in {changed, changed \cup {"customerId"}} :
                    users' = [users EXCEPT ![req[r].target] =
                      Assigned(@, r, Restrict(set, saved),
                        [f \in {"customerId"} \ DOMAIN given |-> snap.by[f]])]
               /\ Answer(r, "ok")
     /\ UNCHANGED <<profiles, faults>>

\* The participant of this user, a new one if there is none.
UpsertProfile(r) ==
  /\ req[r].at = "upsert"
  /\ profiles' = profiles \cup {req[r].target}
  /\ Answer(r, "ok")
  /\ UNCHANGED <<users, faults>>

\* Removal deletes the participants first.
RemoveProfiles(r) ==
  /\ req[r].at = "removeProfiles"
  /\ profiles' = profiles \ {req[r].target}
  /\ Goto(r, "removeUser")
  /\ UNCHANGED <<users, faults>>

RemoveUser(r) ==
  /\ req[r].at = "removeUser"
  /\ users' = [users EXCEPT ![req[r].target] = NoUser]
  /\ Answer(r, "ok")
  /\ UNCHANGED <<profiles, faults>>

\* Mutant of ReadMax: no number to count from when nobody has one.
ReadMaxOrNone(r) ==
  /\ req[r].at = "max"
  /\ req' = [req EXCEPT ![r].at = "assign",
                        ![r].number = IF Numbers = {} THEN None ELSE LastNumber]
  /\ UNCHANGED <<users, profiles, faults>>

\* The migration reads the greatest number once and counts on from it.
ReadMax(r) ==
  /\ req[r].at = "max"
  /\ req' = [req EXCEPT ![r].at = "assign", ![r].number = LastNumber]
  /\ UNCHANGED <<users, profiles, faults>>

AssignNumber(r) ==
  LET u == Head(req[r].order)
      number == req[r].number + 1
  IN /\ req[r].at = "assign"
     /\ users' = [users EXCEPT ![u] =
          IF @ = NoUser THEN @ ELSE Assigned(@, r, Index(number), <<>>)]
     /\ IF Tail(req[r].order) = <<>> THEN Answer(r, "ok")
        ELSE req' = [req EXCEPT ![r].number = number, ![r].order = Tail(@)]
     /\ UNCHANGED <<profiles, faults>>

\* MongoDB fails or the process stops: what is not written is never written.
Abort(r) ==
  /\ req[r].at \in Pending
  /\ faults < MaxFaults
  /\ faults' = faults + 1
  /\ Answer(r, "error")
  /\ UNCHANGED <<users, profiles>>

---------------------------------------------------------------------------

Init ==
  /\ users = [u \in Ids |->
       IF u \in Seeds THEN [has |-> Seeded[u], by |-> [a \in Attributes |-> {}]]
       ELSE NoUser]
  /\ profiles = Seeds
  /\ req = [r \in Requests |-> NewRequest]
  /\ faults = 0

Arrive(r) ==
  \/ \E given \in Payloads :
       \/ Register(r, given)
       \/ Create(r, given)
       \/ \E u \in Ids, extra \in {None, "phone", "document"} :
            Update(r, u, given, extra)
       \/ \E u \in Ids : Edit(r, u, given)
       \/ \E password \in BOOLEAN : Event(r, given, password)
  \/ \E u \in Ids : RemoveAccount(r, u) \/ PutProfile(r, u)
  \/ \E order \in SetToSeqs(Unnumbered) : Migrate(r, order)

Step(r) ==
  \/ Lookup(r) \/ Check(r) \/ Number(r) \/ Insert(r) \/ InsertProfile(r)
  \/ WriteBack(r) \/ WriteGiven(r) \/ WriteProfile(r) \/ SaveCustomer(r)
  \/ UpsertProfile(r)
  \/ RemoveProfiles(r) \/ RemoveUser(r) \/ ReadMax(r) \/ AssignNumber(r)

Next == \E r \in Requests : Arrive(r) \/ Step(r) \/ Abort(r)

Spec == Init /\ [][Next]_vars

---------------------------------------------------------------------------
(* Properties. *)

\* The variables have their types, and a number is a number.
TypeOK ==
  /\ users \in [Ids -> UserRecord \cup {NoUser}]
  /\ \A u \in Live : users[u].has["index"] \in Nat \cup {None}
  /\ profiles \subseteq Ids
  /\ req \in [Requests ->
       [kind : Kinds, at : {"idle"} \cup Pending \cup Answers,
        target : Ids \cup {NoId}, given : [Fields -> Values \cup {None}],
        extra : {None, "phone", "document"}, snap : UserRecord,
        todo : Seq(SUBSET Fields), order : Seq(Ids), number : Nat,
        met : SUBSET Requests]]
  /\ faults \in 0..MaxFaults

Overlapped(R, S) == \E r \in R, s \in S : s \in req[r].met

Shared(u, v, a) ==
  /\ u # v /\ u \in Live /\ v \in Live
  /\ users[u].has[a] = users[v].has[a]
  /\ users[u].has[a] # None

\* Two users have the same e-mail, document or phone only when requests that
\* wrote it overlapped, or a customer event wrote it, which looks for any user
\* that matches and not for every one.
DuplicatesNeedOverlap ==
  \A u, v \in Ids, a \in Identifiers :
    Shared(u, v, a)
      => \/ Overlapped(users[u].by[a], users[v].by[a])
         \/ \E r \in users[u].by[a] \cup users[v].by[a] : req[r].kind = "event"

\* Two users have the same number only when the creations or migrations that
\* gave it overlapped.
NumbersNeedOverlap ==
  \A u, v \in Ids :
    Shared(u, v, "index") => Overlapped(users[u].by["index"], users[v].by["index"])

\* Once a migration has ended every user has a number, whatever was created,
\* changed or removed while it ran.
NumberedAfterMigration ==
  (\E r \in Requests : req[r].kind = "migrate" /\ req[r].at = "ok")
    => \A u \in Live : users[u].has["index"] # None

\* The requests that write a participant of u, and those that remove u.
ProfileWriters(u) ==
  {r \in Requests : \/ req[r].kind = "put" /\ req[r].target = u
                    \/ req[r].kind = "create" /\ r = u}
Removers(u) == {r \in Requests : req[r].kind = "remove" /\ req[r].target = u}

\* A participant comes to be without its user only when a profile is put of a
\* user that is gone already, when the administrator that created the user
\* still had to add the participant while another removed the user, or when a
\* removal overlapped who wrote the participant again.
OrphansNeedOverlap ==
  [][\A u \in profiles' \ Live' : (u \in profiles => u \in Live) =>
       \E r \in Running :
         \/ req[r].at = "upsert" /\ req[r].target = u /\ u \notin Live
         \/ req[r].at = "profile" /\ r = u /\ Overlapped({r}, Removers(u))
         \/ /\ req[r].at = "removeUser" /\ req[r].target = u
            /\ Overlapped(ProfileWriters(u), {r})]_vars

\* A request changes an attribute to what it was asked to write; it puts back
\* another value, or renumbers, only when it overlapped who wrote the present
\* one.
ChangesAreAskedFor ==
  [][\A u \in Live, a \in Attributes :
       users'[u] # NoUser /\ users[u].has[a] \notin {None, users'[u].has[a]}
         => \E r \in Running :
              \/ /\ a \in Fields /\ req[r].given[a] # None
                 /\ req[r].given[a] = users'[u].has[a]
              \/ Overlapped({r}, users[u].by[a])]_vars

\* "Campo index numerico sequencial (1, 2, 3...)": no two users share a number.
NumbersUnique == \A u, v \in Ids : ~ Shared(u, v, "index")

===========================================================================
