------------------------------ MODULE Accesses ------------------------------
(***************************************************************************)
(* The organizations and roles of a user, as the services resolve them     *)
(* while the requests of module Participants change the documents:         *)
(*   login    the token of login-user.service, and its copy in the         *)
(*            administrators' users.service (the two differ only for       *)
(*            identifiers that are empty strings)                          *)
(*   refresh  refresh-token-info.service                                   *)
(*   access   get-access.service, one organization                         *)
(*   list     get-accesses.service                                         *)
(* The first two go by the identifiers of the user, the others by userId.  *)
(* Every query is a step; nothing sorts, so where several participants fit *)
(* any of them is the first.                                               *)
(***************************************************************************)
EXTENDS Participants

CONSTANTS Readers

ASSUME AccessesAssumption ==
  /\ Readers \cap (Requests \cup {None}) = {}
  /\ None \notin [id : Participants, org : Orgs \cup {None}, role : Roles \cup {None}]

VARIABLES
  reader,  \* the readers
  seen     \* history: what each reader could have been told

accessVars == <<vars, reader, seen>>

---------------------------------------------------------------------------
(* Which participants fit a user with these identifiers. *)

Matches(has, ids, i) == ids[i] # None /\ has[i] = ids[i]
Differs(has, ids, i) == ids[i] # None /\ has[i] # None /\ has[i] # ids[i]

MatchesSome(has, ids) == \E i \in Identifiers : Matches(has, ids, i)
Conflicting(has, ids) == \E i \in Identifiers : Differs(has, ids, i)

\* Mutant of Primary: identifiers that neither has are equal.
PrimaryUnset(has, ids, field) == \E i \in Identifiers : has[i] = ids[i]

\* Passo 1: the identifier of the login alone decides.
Primary(has, ids, field) == Matches(has, ids, field)

\* Mutant of Secondary: an identifier the participant does not have differs.
SecondaryStrict(has, ids, field) ==
  \E i \in Identifiers \ {field} :
    /\ Matches(has, ids, i)
    /\ \A other \in Identifiers \ {i} : ids[other] # None => has[other] = ids[other]

\* Passos 2 to 4: any other identifier does, if no further one differs.
Secondary(has, ids, field) ==
  \E i \in Identifiers \ {field} :
    /\ Matches(has, ids, i)
    /\ \A other \in Identifiers \ {i} : ~ Differs(has, ids, other)

\* Participants as a reader keeps them: the id, the organization, the role.
Relation(p) ==
  [id |-> p, org |-> participants[p].has["org"], role |-> participants[p].has["role"]]
Owned(u) == {o \in LiveOrgs : orgs[o].owner = u}
OrgsOf(relations) == {relation.org : relation \in relations}

\* The organizations of one's own and of the relations that were read.
OrgsFound(u, relations) == LiveOrgs \cap (Owned(u) \cup OrgsOf(relations))

\* The login takes String(organizationId) for an id, which of a participant
\* without organization is none: its query fails, and the request with it.
Unreadable(relations) == \E relation \in relations : relation.org = None

---------------------------------------------------------------------------
(* The readers. *)

ReaderPending == {"primary", "secondary", "owned", "orgs", "relations",
                  "refreshOrgs", "participant", "both", "participants", "owns",
                  "listOrgs"}
ReaderAnswers == {"ok", "forbidden", "error"}

NewReader ==
  [kind |-> "login", at |-> "idle", user |-> None, ids |-> <<>>, field |-> None,
   org |-> None, primary |-> {}, secondary |-> {}, owned |-> {}, answer |-> {}]

Advance(x, next) == reader' = [reader EXCEPT ![x] = next]
Unchanged == UNCHANGED vars

\* The user document is read; the login found it by this field.
Login(x, u, field) ==
  /\ reader[x].at = "idle"
  /\ users[u][field] # None
  /\ Advance(x, [NewReader EXCEPT !.at = "primary", !.user = u, !.ids = users[u],
                                  !.field = field])
  /\ Unchanged

ReadPrimary(x) ==
  LET r == reader[x]
      found == {p \in LiveParticipants : Primary(participants[p].has, r.ids, r.field)}
  IN /\ r.at = "primary"
     /\ Advance(x, [r EXCEPT !.primary = {Relation(p) : p \in found},
          !.at = IF \E i \in Identifiers \ {r.field} : r.ids[i] # None
                   THEN "secondary" ELSE "owned"])
     /\ Unchanged

ReadSecondary(x) ==
  LET r == reader[x]
      found == {p \in LiveParticipants : Secondary(participants[p].has, r.ids, r.field)}
      known == {relation.id : relation \in r.primary}
  IN /\ r.at = "secondary"
     /\ Advance(x, [r EXCEPT !.secondary = {Relation(p) : p \in found \ known},
                             !.at = "owned"])
     /\ Unchanged

\* Mutant of CheckOwned: without a participant there is no access.
CheckOwnedLess(x) ==
  LET r == reader[x]
  IN /\ r.at = "owned"
     /\ Advance(x, [r EXCEPT !.at = IF r.primary \cup r.secondary = {} THEN "ok" ELSE "orgs"])
     /\ Unchanged

\* Without a participant and an organization of one's own there is no access.
CheckOwned(x) ==
  LET r == reader[x]
  IN /\ r.at = "owned"
     /\ Advance(x, [r EXCEPT !.at = IF r.primary \cup r.secondary = {} /\ Owned(r.user) = {}
                                      THEN "ok" ELSE "orgs"])
     /\ Unchanged

\* Mutant of LoginRole: the role of the participant, if any or none.
LoginRoleUnset(relation, owned) ==
  IF relation # None THEN relation.role ELSE IF owned THEN "owner" ELSE "unknown"

\* The role in an organization: a participant's, member when it has none;
\* the owner's; or unknown.
LoginRole(relation, owned) ==
  IF relation # None
    THEN IF relation.role = None THEN "member" ELSE relation.role
    ELSE IF owned THEN "owner" ELSE "unknown"

Item(o, relation, role) ==
  [org |-> o, via |-> IF relation = None THEN None ELSE relation.id, role |-> role]

\* The relation of an organization: one of the first set if it has any.
Chosen(o, first, second) ==
  LET In(relations) == {relation \in relations : relation.org = o}
  IN IF In(first) # {} THEN In(first)
     ELSE IF In(second) # {} THEN In(second) ELSE {None}

\* Answers choose a relation for each organization.
Choices(found, first, second) ==
  {choice \in [found -> first \cup second \cup {None}] :
     \A o \in found : choice[o] \in Chosen(o, first, second)}

ReadOrgs(x) ==
  LET r == reader[x]
      relations == r.primary \cup r.secondary
      found == OrgsFound(r.user, relations)
  IN /\ r.at = "orgs"
     /\ IF Unreadable(relations) THEN Advance(x, [r EXCEPT !.at = "error"])
        ELSE \E choice \in Choices(found, r.primary, r.secondary) :
               Advance(x, [r EXCEPT !.at = "ok", !.answer =
                 {Item(o, choice[o], LoginRole(choice[o], o \in Owned(r.user))) : o \in found}])
     /\ Unchanged

\* The refresh looks for any identifier and for no difference, and takes the
\* organizations as they are.
Refresh(x, u) ==
  /\ reader[x].at = "idle"
  /\ \E i \in Identifiers : users[u][i] # None
  /\ Advance(x, [NewReader EXCEPT !.kind = "refresh", !.at = "relations",
                                  !.user = u, !.ids = users[u]])
  /\ Unchanged

ReadRelations(x) ==
  LET r == reader[x]
      found == {p \in LiveParticipants : MatchesSome(participants[p].has, r.ids)}
  IN /\ r.at = "relations"
     /\ Advance(x, [r EXCEPT !.primary = {Relation(p) : p \in found},
                             !.at = "refreshOrgs"])
     /\ Unchanged

\* role || 'owner'
RoleOrOwner(relation) ==
  IF relation = None \/ relation.role = None THEN "owner" ELSE relation.role

ReadRefreshOrgs(x) ==
  LET r == reader[x]
      found == OrgsFound(r.user, r.primary)
  IN /\ r.at = "refreshOrgs"
     /\ \E choice \in Choices(found, r.primary, {}) :
          Advance(x, [r EXCEPT !.at = "ok", !.answer =
            {Item(o, choice[o], RoleOrOwner(choice[o])) : o \in found}])
     /\ Unchanged

\* One organization: the organization is read, then the participant.
GetAccess(x, u, o) ==
  /\ reader[x].at = "idle"
  /\ Advance(x, [NewReader EXCEPT !.kind = "access", !.user = u, !.org = o,
       !.at = IF o \in LiveOrgs THEN "participant" ELSE "forbidden",
       !.owned = {o} \cap Owned(u)])
  /\ Unchanged

ReadParticipant(x) ==
  LET r == reader[x]
      found == ParticipantsOf(r.user, r.org)
      Told(relation) == [r EXCEPT !.at = "ok",
                           !.answer = {Item(r.org, relation, RoleOrOwner(relation))}]
  IN /\ r.at = "participant"
     /\ \/ \E p \in found : Advance(x, Told(Relation(p)))
        \/ /\ found = {}
           /\ Advance(x, IF r.owned # {} THEN Told(None) ELSE [r EXCEPT !.at = "forbidden"])
     /\ Unchanged

\* All of them: participants and own organizations are read in parallel, then
\* the organizations of the participants (here at once).
GetAccesses(x, u) ==
  /\ reader[x].at = "idle"
  /\ Advance(x, [NewReader EXCEPT !.kind = "list", !.at = "both", !.user = u])
  /\ Unchanged

ReadParticipants(x) ==
  LET r == reader[x]
      found == {p \in LiveParticipants : /\ participants[p].userId = r.user
                                         /\ participants[p].has["org"] # None}
  IN /\ r.at \in {"both", "participants"}
     /\ Advance(x, [r EXCEPT !.primary = {Relation(p) : p \in found},
                             !.at = IF r.at = "both" THEN "owns" ELSE "listOrgs"])
     /\ Unchanged

ReadOwned(x) ==
  LET r == reader[x]
  IN /\ r.at \in {"both", "owns"}
     /\ Advance(x, [r EXCEPT !.owned = Owned(r.user),
                             !.at = IF r.at = "both" THEN "participants" ELSE "listOrgs"])
     /\ Unchanged

ReadListOrgs(x) ==
  LET r == reader[x]
      found == r.owned \cup (LiveOrgs \cap OrgsOf(r.primary))
  IN /\ r.at = "listOrgs"
     /\ IF found = {} THEN Advance(x, [r EXCEPT !.at = "forbidden"])
        ELSE \E choice \in Choices(found, r.primary, {}) :
               Advance(x, [r EXCEPT !.at = "ok", !.answer =
                 {Item(o, choice[o], RoleOrOwner(choice[o])) : o \in found}])
     /\ Unchanged

---------------------------------------------------------------------------
(* What a reader could have been told: everything that held at some moment *)
(* since it started, and what has held all the time.                       *)

\* How user u holds a participant: by an identifier or as its userId.
HeldBy(p, u) ==
  {i \in Identifiers : Matches(participants[p].has, users[u], i)}
    \cup (IF participants[p].userId = u THEN {"userId"} ELSE {})

Holdings(u) ==
  {[org |-> participants[p].has["org"], via |-> p, role |-> participants[p].has["role"]] :
     p \in {q \in LiveParticipants : HeldBy(q, u) # {}}}
  \cup {[org |-> o, via |-> None, role |-> None] : o \in Owned(u)}

\* What a user holds in an existing organization, and how, if no identifier
\* speaks against it.
Sound(u) ==
  {s \in [via : LiveParticipants, by : Identifiers \cup {"userId"}, org : LiveOrgs] :
     /\ s.by \in HeldBy(s.via, u)
     /\ s.org = participants[s.via].has["org"]
     /\ s.by # "userId" => ~ Conflicting(participants[s.via].has, users[u])}

\* The participants without organization that carry an identifier of the user.
Loose(u) ==
  {p \in LiveParticipants : /\ MatchesSome(participants[p].has, users[u])
                            /\ participants[p].has["org"] = None}

Unseen == [held |-> {}, kept |-> {}, owned |-> {}, ids |-> {}, loose |-> {}]

\* For every user, so that the state after a step can be asked for one of them.
HoldingsOf == [u \in Users |-> Holdings(u)]
SoundOf == [u \in Users |-> Sound(u)]
OwnedBy == [u \in Users |-> Owned(u)]
LooseOf == [u \in Users |-> Loose(u)]

Start(u) ==
  [held |-> Holdings(u), kept |-> Sound(u), owned |-> Owned(u), ids |-> {users[u]},
   loose |-> Loose(u)]

See ==
  seen' = [x \in Readers |->
    LET u == reader[x].user
    IN IF reader[x].at \in ReaderAnswers \/ reader'[x].at = "idle" THEN seen[x]
       ELSE IF reader[x].at = "idle" THEN Start(reader'[x].user)
       ELSE [held  |-> seen[x].held \cup HoldingsOf'[u],
             kept  |-> seen[x].kept \cap SoundOf'[u],
             owned |-> seen[x].owned \cap OwnedBy'[u],
             ids   |-> seen[x].ids \cup {users'[u]},
             loose |-> seen[x].loose \cup LooseOf'[u]]]

AccessesInit ==
  /\ Init
  /\ reader = [x \in Readers |-> NewReader]
  /\ seen = [x \in Readers |-> Unseen]

StartReader(x) ==
  \E u \in Users : \/ \E field \in Identifiers : Login(x, u, field)
                   \/ Refresh(x, u)
                   \/ \E o \in Known : GetAccess(x, u, o)
                   \/ GetAccesses(x, u)

ReaderStep(x) ==
  \/ ReadPrimary(x) \/ ReadSecondary(x) \/ CheckOwned(x) \/ ReadOrgs(x)
  \/ ReadRelations(x) \/ ReadRefreshOrgs(x) \/ ReadParticipant(x)
  \/ ReadParticipants(x) \/ ReadOwned(x) \/ ReadListOrgs(x)

AccessesNext ==
  /\ \/ Next /\ UNCHANGED reader
     \/ \E x \in Readers : StartReader(x) \/ ReaderStep(x)
  /\ See

AccessesSpec == AccessesInit /\ [][AccessesNext]_accessVars

---------------------------------------------------------------------------
(* Properties. *)

\* Readers have answers of their type only when they have answered, and a
\* login never answers the role unknown.
AccessesTypeOK ==
  \A x \in Readers :
    /\ reader[x].at \in {"idle"} \cup ReaderPending \cup ReaderAnswers
    /\ reader[x].at # "ok" => reader[x].answer = {}
    /\ reader[x].answer \subseteq
         [org : Orgs, via : Participants \cup {None},
          role : Roles \cup {"owner", "member"}]

ByIdentifiers(x) == reader[x].kind \in {"login", "refresh"}

\* The identifiers the reader goes by were changed while it ran.
Renamed(x) == ByIdentifiers(x) /\ seen[x].ids # {reader[x].ids}

\* What a reader is told held at some moment since it started, in the
\* organization and with the role it is told, unless the identifiers of the
\* user changed meanwhile.
ToldWasHeld ==
  \A x \in Readers : \A item \in reader[x].answer :
    \/ Renamed(x)
    \/ \E h \in seen[x].held :
         /\ h.org = item.org /\ h.via = item.via
         /\ h.role = item.role \/ (h.role = None /\ item.role \in {"owner", "member"})

\* An organization that was the user's all the time, as its owner or by one
\* identifier (or userId) of a participant that no identifier speaks against,
\* is in the answer, whatever was written meanwhile to the participants and
\* the organizations; only a login fails instead, when at some moment meanwhile
\* a participant without organization carried an identifier of the user.
KeptIsTold ==
  \A x \in Readers :
    LET r == reader[x]
        told == {item.org : item \in r.answer}
        way == IF ByIdentifiers(x) THEN Identifiers ELSE {"userId"}
        asked == IF r.kind = "access" THEN {r.org} ELSE Orgs
    IN r.at \in ReaderAnswers /\ ~ Renamed(x)
         => \/ r.at = "error" /\ r.kind = "login" /\ seen[x].loose # {}
            \/ asked \cap (seen[x].owned \cup OrgsOf({k \in seen[x].kept : k.by \in way}))
                 \subseteq told

LoginRelations(u, field) ==
  {Relation(p) : p \in {q \in LiveParticipants :
     \/ Primary(participants[q].has, users[u], field)
     \/ Secondary(participants[q].has, users[u], field)}}
RefreshRelations(u) ==
  {Relation(p) : p \in {q \in LiveParticipants : MatchesSome(participants[q].has, users[u])}}

\* As long as no participant that matches a user in one identifier differs in
\* another, it makes no difference which identifier the user logs in with: all
\* logins fail, when one of these participants is in no organization, or all
\* find the organizations that the refresh finds.
LoginsAgree ==
  \A u \in Users :
    (\A p \in LiveParticipants : MatchesSome(participants[p].has, users[u])
                                   => ~ Conflicting(participants[p].has, users[u]))
    => \A field \in Identifiers :
         users[u][field] # None =>
           IF Loose(u) # {} THEN Unreadable(LoginRelations(u, field))
           ELSE /\ ~ Unreadable(LoginRelations(u, field))
                /\ OrgsFound(u, LoginRelations(u, field)) = OrgsFound(u, RefreshRelations(u))

=============================================================================
