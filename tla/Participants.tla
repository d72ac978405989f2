---------------------------- MODULE Participants ----------------------------
(***************************************************************************)
(* Organizations and their participants (the membership of a user), as     *)
(* overlapping requests: src/organizations, src/admin/organizations,       *)
(* src/profiles, and the part of the administrators' update of a user that *)
(* writes a participant.                                                   *)
(*                                                                         *)
(* A participant or an organization is named by the request that created   *)
(* it, or was there at the start.                                          *)
(***************************************************************************)
EXTENDS Naturals, FiniteSets, CommissionConfig

CONSTANTS
  Requests, Users, SeedParticipants, SeedOrgs,
  SeededParticipants, SeededOrgs, SeededUsers,
  Values,       \* of an identifier
  Roles, Names,
  None,         \* a field that is not there, or not sent
  Gone,         \* no such document
  Sents,        \* what requests carry
  Operations    \* the kinds of requests

Identifiers == {"email", "phone", "document"}
Scalars == Identifiers \cup {"role", "org"}
Participants == Requests \cup SeedParticipants
Orgs == Requests \cup SeedOrgs

Scalar ==
  {has \in [Scalars -> Values \cup Roles \cup Orgs \cup {None}] :
     /\ \A i \in Identifiers : has[i] \in Values \cup {None}
     /\ has["role"] \in Roles \cup {None}
     /\ has["org"] \in Orgs \cup {None}}

ParticipantRecord ==
  [has : Scalar, userId : Users \cup {None}, meta : Metadata \cup {Unset},
   by : [Paths -> SUBSET Requests]]

OrgRecord == [name : Names, owner : Users \cup {None}]
Sent == [has : Scalar, meta : Metadata \cup {Unset}]

Kinds == {"add", "insert", "set", "merge", "remove", "delete", "profile",
          "found", "adminFound", "rename", "dissolve", "edit"}

ASSUME ParticipantsAssumption ==
  /\ Requests \cap (SeedParticipants \cup SeedOrgs) = {}
  /\ None \notin Values \cup Roles \cup Orgs \cup Users
  /\ Gone \notin ParticipantRecord \cup OrgRecord
  /\ SeededParticipants \in [SeedParticipants -> ParticipantRecord]
  /\ SeededOrgs \in [SeedOrgs -> OrgRecord]
  /\ SeededUsers \in [Users -> [Identifiers -> Values \cup {None}]]
  /\ Sents \subseteq Sent
  /\ "member" \in Roles
  /\ Operations \subseteq Kinds

VARIABLES
  participants,  \* by is a history: who wrote a field of the commissionConfig
  orgs,
  users,         \* the identifiers of each user document
  req            \* the requests; met is a history: which requests overlapped

vars == <<participants, orgs, users, req>>

---------------------------------------------------------------------------

Pending == {"save", "erase", "owner", "upsert", "insertProfile", "insertOrg",
            "editUser", "editProfile"}
Answers == {"ok", "error", "notFound", "forbidden", "conflict"}

NothingSent == [has |-> [a \in Scalars |-> None], meta |-> Unset]

NewRequest ==
  [kind |-> "add", at |-> "idle", sent |-> NothingSent, target |-> None,
   user |-> None, snap |-> Gone, access |-> None, met |-> {}]

LiveParticipants == {p \in Participants : participants[p] # Gone}
LiveOrgs == {o \in Orgs : orgs[o] # Gone}
Running == {r \in Requests : req[r].at \in Pending}

\* Mutant of ParticipantsOf: without an organization nothing is found.
ParticipantsOfSome(u, o) ==
  {p \in LiveParticipants :
     participants[p].userId = u /\ o # None /\ participants[p].has["org"] = o}

\* find({ userId, organizationId })
ParticipantsOf(u, o) ==
  {p \in LiveParticipants :
     participants[p].userId = u /\ participants[p].has["org"] = o}

NewParticipant(r, u, has, meta) ==
  [has |-> has, userId |-> u, meta |-> meta,
   by |-> [p \in Paths |-> IF ConfigOf(meta)[p] = Unset THEN {} ELSE {r}]]

\* A participant after request r has set the scalars that are sent.
Assign(has, sent, fields) ==
  [a \in Scalars |-> IF a \in fields /\ sent[a] # None THEN sent[a] ELSE has[a]]

\* A participant whose metadata request r has replaced.
WithMeta(participant, r, meta) ==
  [participant EXCEPT
    !.meta = meta,
    !.by = [p \in Paths |->
              IF ConfigOf(meta)[p] = ConfigOf(participant.meta)[p] THEN @[p] ELSE {r}]]

\* Request r starts with the given record; it overlaps those that run.
Enter(r, entered) ==
  /\ req[r].at = "idle"
  /\ entered.kind \in Operations
  /\ req' = [s \in Requests |->
       IF s = r THEN [entered EXCEPT !.met = Running]
       ELSE IF s \in Running THEN [req[s] EXCEPT !.met = @ \cup {r}]
       ELSE req[s]]

Request(kind, at, sent, target, user) ==
  [NewRequest EXCEPT !.kind = kind, !.at = at, !.sent = sent, !.target = target,
                     !.user = user]

Goto(r, at) == req' = [req EXCEPT ![r].at = at]

\* The request ends; what it had read is gone.
Answer(r, at) == req' = [req EXCEPT ![r].at = at, ![r].snap = Gone]

Put(p, participant) == participants' = [participants EXCEPT ![p] = participant]

---------------------------------------------------------------------------
(* Participants of an organization. *)

\* POST organizations/:o/participants keeps the metadata as it is sent; the
\* administrators' bulk insert gives the commissionConfig its defaults.
AddParticipant(r, o, sent) ==
  /\ Enter(r, Request("add", "ok", sent, o, None))
  /\ Put(r, NewParticipant(r, None, [sent.has EXCEPT !["org"] = o], sent.meta))
  /\ UNCHANGED <<orgs, users>>

InsertParticipant(r, o, sent) ==
  /\ Enter(r, Request("insert", "ok", sent, o, None))
  /\ Put(r, NewParticipant(r, None, [sent.has EXCEPT !["org"] = o],
                           applyCommissionDefaults(sent.meta)))
  /\ UNCHANGED <<orgs, users>>

\* PATCH organizations/:o/participants/:p: one updateOne of what is sent.
SetParticipant(r, p, o, sent) ==
  /\ Enter(r, Request("set", "ok", sent, p, None))
  /\ IF p \in LiveParticipants /\ participants[p].has["org"] = o
       THEN LET set == [participants[p] EXCEPT
                          !.has = Assign(@, sent.has, Scalars \ {"org"})]
            IN Put(p, IF sent.meta = Unset THEN set ELSE WithMeta(set, r, sent.meta))
       ELSE UNCHANGED participants
  /\ UNCHANGED <<orgs, users>>

\* PATCH admin/organizations/:o/participants/:p: findById, merge, save.
FindParticipant(r, p, sent) ==
  /\ Enter(r, [Request("merge", IF p \in LiveParticipants THEN "save" ELSE "notFound",
                       sent, p, None)
                 EXCEPT !.snap = participants[p]])
  /\ UNCHANGED <<participants, orgs, users>>

\* save() writes the fields that differ from what was read, the metadata as a
\* whole, and fails when the document is gone.
SaveParticipant(r) ==
  LET p == req[r].target
      snap == req[r].snap
      sent == req[r].sent
      differing == {a \in Scalars : sent.has[a] # snap.has[a]}
      merged == mergeMetadata(snap.meta, sent.meta)
      saved == [participants[p] EXCEPT !.has = Assign(@, sent.has, differing)]
  IN /\ req[r].at = "save"
     /\ IF p \in LiveParticipants
          THEN /\ Put(p, IF merged = snap.meta THEN saved ELSE WithMeta(saved, r, merged))
               /\ Answer(r, "ok")
          ELSE Answer(r, "error") /\ UNCHANGED participants
     /\ UNCHANGED <<orgs, users>>

\* DELETE organizations/:o/participants/:p: findOne, then deleteOne.
RemoveParticipant(r, p, o) ==
  /\ Enter(r, Request("remove",
       IF p \in LiveParticipants /\ participants[p].has["org"] = o THEN "erase" ELSE "ok",
       NothingSent, p, None))
  /\ UNCHANGED <<participants, orgs, users>>

EraseParticipant(r) ==
  /\ req[r].at = "erase"
  /\ Put(req[r].target, Gone)
  /\ Answer(r, "ok")
  /\ UNCHANGED <<orgs, users>>

\* DELETE admin/organizations/:o/participants/:p: findByIdAndDelete.
DeleteParticipant(r, p) ==
  /\ Enter(r, Request("delete", "ok", NothingSent, p, None))
  /\ Put(p, Gone)
  /\ UNCHANGED <<orgs, users>>

---------------------------------------------------------------------------
(* Profiles. *)

\* PUT profiles: for an organization the access of the user, a participant of
\* it, is looked up first, then the ownership.
PutProfile(r, u, o, sent) ==
  /\ LET found == ParticipantsOf(u, o)
     IN IF o = None \/ found = {}
          THEN Enter(r, Request("profile", IF o = None THEN "upsert" ELSE "owner", sent, o, u))
          ELSE \E p \in found :
                 Enter(r, [Request("profile", "owner", sent, o, u) EXCEPT !.access = p])
  /\ UNCHANGED <<participants, orgs, users>>

\* Mutant of CheckOwner: an organization that exists is enough.
CheckExists(r) ==
  LET o == req[r].target
  IN /\ req[r].at = "owner"
     /\ IF req[r].access # None \/ o \in LiveOrgs
          THEN Goto(r, "upsert") ELSE Answer(r, "forbidden")
     /\ UNCHANGED <<participants, orgs, users>>

CheckOwner(r) ==
  LET o == req[r].target
  IN /\ req[r].at = "owner"
     /\ IF req[r].access # None \/ (o \in LiveOrgs /\ orgs[o].owner = req[r].user)
          THEN Goto(r, "upsert") ELSE Answer(r, "forbidden")
     /\ UNCHANGED <<participants, orgs, users>>

\* The upsert updates a profile it finds with all of the body but the role;
\* without a unique index another request may insert one before this one
\* inserts its own.
Upsert(r) ==
  LET sent == req[r].sent
      found == ParticipantsOf(req[r].user, req[r].target)
  IN /\ req[r].at = "upsert"
     /\ \/ \E p \in found :
             /\ LET set == [participants[p] EXCEPT !.has = Assign(@, sent.has, Identifiers)]
                IN Put(p, IF sent.meta = Unset THEN set ELSE WithMeta(set, r, sent.meta))
             /\ Answer(r, "ok")
        \/ /\ found = {}
           /\ Goto(r, "insertProfile")
           /\ UNCHANGED participants
     /\ UNCHANGED <<orgs, users>>

InsertProfile(r) ==
  /\ req[r].at = "insertProfile"
  /\ LET profile == [NothingSent.has EXCEPT !["org"] = req[r].target]
     IN Put(r, NewParticipant(r, req[r].user, Assign(profile, req[r].sent.has, Identifiers),
                              req[r].sent.meta))
  /\ Answer(r, "ok")
  /\ UNCHANGED <<orgs, users>>

---------------------------------------------------------------------------
(* Organizations. *)

\* POST organizations; the owner is the caller.
Found(r, u, name) ==
  /\ Enter(r, Request("found", "ok", NothingSent, name, u))
  /\ orgs' = [orgs EXCEPT ![r] = [name |-> name, owner |-> u]]
  /\ UNCHANGED <<participants, users>>

\* Mutant of AdminFound: the name is not looked up.
AdminFoundUnchecked(r, u, name) ==
  /\ Enter(r, Request("adminFound", "insertOrg", NothingSent, name, u))
  /\ UNCHANGED <<participants, orgs, users>>

\* POST admin/organizations looks the name up first.
AdminFound(r, u, name) ==
  /\ Enter(r, Request("adminFound",
       IF \E o \in LiveOrgs : orgs[o].name = name THEN "conflict" ELSE "insertOrg",
       NothingSent, name, u))
  /\ UNCHANGED <<participants, orgs, users>>

InsertOrg(r) ==
  /\ req[r].at = "insertOrg"
  /\ orgs' = [orgs EXCEPT ![r] = [name |-> req[r].target, owner |-> req[r].user]]
  /\ Answer(r, "ok")
  /\ UNCHANGED <<participants, users>>

\* PATCH organizations/:o, which may change the owner as well; the participants
\* are not touched, neither here nor when the organization is deleted.
Rename(r, o, name, owner) ==
  /\ Enter(r, Request("rename", "ok", NothingSent, o, owner))
  /\ orgs' = [orgs EXCEPT ![o] =
       IF @ = Gone THEN Gone
       ELSE [name |-> name, owner |-> IF owner = None THEN @.owner ELSE owner]]
  /\ UNCHANGED <<participants, users>>

Dissolve(r, o) ==
  /\ Enter(r, Request("dissolve", "ok", NothingSent, o, None))
  /\ orgs' = [orgs EXCEPT ![o] = Gone]
  /\ UNCHANGED <<participants, users>>

---------------------------------------------------------------------------
(* The administrators' update of a user. *)

\* The user is read, and its participant in the organization that is sent, or
\* one of its participants when none is sent; that identifiers may be refused
\* as duplicates is left to module Accounts.
EditUser(r, u, p, sent) ==
  /\ participants[p].userId = u
  /\ sent.has["org"] \in {None, participants[p].has["org"]}
  /\ Enter(r, Request("edit", "editUser", sent, p, u))
  /\ UNCHANGED <<participants, orgs, users>>

WriteUser(r) ==
  /\ req[r].at = "editUser"
  /\ users' = [users EXCEPT ![req[r].user] =
       [i \in Identifiers |-> IF req[r].sent.has[i] # None THEN req[r].sent.has[i] ELSE @[i]]]
  /\ Goto(r, "editProfile")
  /\ UNCHANGED <<participants, orgs>>

\* The metadata is replaced by what is sent, or by none; a role that is not
\* sent becomes member.
WriteProfile(r) ==
  LET p == req[r].target
      sent == req[r].sent
      has == Assign(participants[p].has, sent.has, Scalars)
  IN /\ req[r].at = "editProfile"
     /\ IF p \in LiveParticipants
          THEN Put(p, WithMeta([participants[p] EXCEPT !.has =
                        IF sent.has["role"] = None THEN [has EXCEPT !["role"] = "member"] ELSE has],
                      r, IF sent.meta = Unset THEN EmptyMetadata ELSE sent.meta))
          ELSE UNCHANGED participants
     /\ Answer(r, "ok")
     /\ UNCHANGED <<orgs, users>>

---------------------------------------------------------------------------

Init ==
  /\ participants = [p \in Participants |->
       IF p \in SeedParticipants THEN SeededParticipants[p] ELSE Gone]
  /\ orgs = [o \in Orgs |-> IF o \in SeedOrgs THEN SeededOrgs[o] ELSE Gone]
  /\ users = SeededUsers
  /\ req = [r \in Requests |-> NewRequest]

\* Requests name participants and organizations that exist or have existed.
Known == SeedOrgs \cup LiveOrgs

Arrive(r) ==
  \/ \E sent \in Sents :
       \/ \E o \in Known : AddParticipant(r, o, sent) \/ InsertParticipant(r, o, sent)
       \/ \E p \in LiveParticipants :
            \/ \E o \in Known : SetParticipant(r, p, o, sent)
            \/ FindParticipant(r, p, sent)
            \/ \E u \in Users : EditUser(r, u, p, sent)
       \/ \E u \in Users, o \in Known \cup {None} : PutProfile(r, u, o, sent)
  \/ \E p \in LiveParticipants :
       (\E o \in Known : RemoveParticipant(r, p, o)) \/ DeleteParticipant(r, p)
  \/ \E u \in Users, name \in Names : Found(r, u, name)
  \/ \E u \in Users \cup {None}, name \in Names :
       AdminFound(r, u, name) \/ \E o \in Known : Rename(r, o, name, u)
  \/ \E o \in Known : Dissolve(r, o)

Step(r) ==
  \/ SaveParticipant(r) \/ EraseParticipant(r) \/ CheckOwner(r) \/ Upsert(r)
  \/ InsertProfile(r) \/ InsertOrg(r) \/ WriteUser(r) \/ WriteProfile(r)

Next == \E r \in Requests : Arrive(r) \/ Step(r)

Spec == Init /\ [][Next]_vars

---------------------------------------------------------------------------
(* Properties. *)

\* The variables have their types.
TypeOK ==
  /\ \A p \in LiveParticipants :
       /\ participants[p].has \in Scalar
       /\ participants[p].userId \in Users \cup {None}
       /\ participants[p].meta \in Metadata \cup {Unset}
       /\ participants[p].by \in [Paths -> SUBSET Requests]
  /\ orgs \in [Orgs -> OrgRecord \cup {Gone}]
  /\ users \in [Users -> [Identifiers -> Values \cup {None}]]
  /\ \A r \in Requests : /\ req[r].kind \in Kinds
                         /\ req[r].at \in {"idle"} \cup Pending \cup Answers
                         /\ req[r].sent \in Sents \cup {NothingSent}
                         /\ req[r].met \subseteq Requests

Overlapped(R, S) == \E r \in R, s \in S : s \in req[r].met

\* An update has put a participant where it is: one that was asked to move it,
\* or an edit of its user that overlapped one and moved it back.
Moved(p) ==
  \E r \in Requests :
    /\ req[r].at = "ok"
    /\ req[r].target = p
    /\ req[r].sent.has["org"] # None
    /\ req[r].sent.has["org"] = participants[p].has["org"]
    /\ \/ req[r].kind = "merge"
       \/ /\ req[r].kind = "edit"
          /\ \E s \in req[r].met :
               /\ req[s].kind \in {"merge", "edit"}
               /\ req[s].target = p
               /\ req[s].sent.has["org"] \notin {None, req[r].sent.has["org"]}

\* A user has two profiles in an organization, or two without one, only when
\* the requests that put them overlapped, or an update moved one of them there.
ProfilesNeedOverlap ==
  \A p, q \in LiveParticipants :
    /\ p # q
    /\ participants[p].userId # None
    /\ participants[p].userId = participants[q].userId
    /\ participants[p].has["org"] = participants[q].has["org"]
    => \/ Overlapped({p} \cap Requests, {q} \cap Requests)
       \/ Moved(p) \/ Moved(q)

\* The participant that request r rests on was taken out of the organization by
\* a request that it overlapped.
AccessTaken(r) ==
  \E s \in req[r].met :
    /\ req[s].target = req[r].access
    /\ \/ req[s].kind \in {"remove", "delete"}
       \/ /\ req[s].kind \in {"merge", "edit"}
          /\ req[s].sent.has["org"] \notin {None, req[r].target}

\* Or the organization was, or was given to somebody else.
OwnershipTaken(r) ==
  \E s \in req[r].met :
    /\ req[s].target = req[r].target
    /\ \/ req[s].kind = "dissolve"
       \/ req[s].kind = "rename" /\ req[s].user \notin {None, req[r].user}

\* A profile is inserted into an organization only for its owner, or when the
\* request overlapped one that took away the participant it had found, or the
\* ownership when it had found none.
ProfilesNeedAccess ==
  [][\A p \in Requests \ LiveParticipants :
       participants'[p] # Gone /\ req[p].kind = "profile" /\ req[p].target # None
         => \/ /\ req[p].target \in LiveOrgs
               /\ orgs[req[p].target].owner = req[p].user
            \/ IF req[p].access # None THEN AccessTaken(p) ELSE OwnershipTaken(p)]_vars

\* The owner of organization o has named it, for which nothing is looked up.
OwnerNamed(o) ==
  \E r \in Requests : \/ r = o /\ req[r].kind = "found"
                      \/ req[r].kind = "rename" /\ req[r].target = o

\* Two organizations have the same name only when the look-up of one
\* overlapped the creation of the other, or the owner of one of the two has
\* named it.
NamesNeedOverlap ==
  \A o, q \in LiveOrgs :
    o # q /\ orgs[o].name = orgs[q].name
      => \/ Overlapped({o} \cap Requests, {q} \cap Requests)
         \/ OwnerNamed(o) \/ OwnerNamed(q)

\* "Mantem valores existentes": an administrators' update changes a field of
\* the commissionConfig that is set to what it was sent; it puts another value
\* back only when it overlapped the request that wrote the present one.
UpdateKeepsFields ==
  [][\A r \in Requests :
       req[r].kind = "merge" /\ req[r].at = "save" /\ req'[r].at = "ok"
         => LET p == req[r].target
                old == ConfigOf(participants[p].meta)
                new == ConfigOf(participants'[p].meta)
            IN \A f \in Paths \ {"unknown"} :
                 old[f] \notin {Unset, Null, new[f]}
                   => \/ new[f] = ConfigOf(req[r].sent.meta)[f]
                      \/ f \in Defaulted /\ ConfigOf(req[r].sent.meta)[f] = Null
                      \/ req[r].sent.meta.commissionConfig = Null
                      \/ Overlapped({r}, participants[p].by[f])]_vars

=============================================================================
