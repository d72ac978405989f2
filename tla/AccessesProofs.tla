--------------------------- MODULE AccessesProofs ---------------------------
(***************************************************************************)
(* What holds of accesses and of the merge of a commissionConfig whatever  *)
(* the documents are.                                                      *)
(***************************************************************************)
EXTENDS Accesses, ParticipantsProofs

---------------------------------------------------------------------------
(* Logins and the refresh. *)

\* A participant that matches in some identifier and differs in none is found
\* by a login with any identifier, by its first query or by its second one;
\* and these find no other participants.
LEMMA FoundByEveryLogin ==
  ASSUME NEW has, NEW ids, NEW field \in Identifiers, ~ Conflicting(has, ids)
  PROVE  Primary(has, ids, field) \/ Secondary(has, ids, field) <=> MatchesSome(has, ids)
<1>1. ASSUME Primary(has, ids, field) \/ Secondary(has, ids, field)
      PROVE  MatchesSome(has, ids)
  BY <1>1 DEF Primary, Secondary, MatchesSome
<1>2. ASSUME MatchesSome(has, ids)
      PROVE  Primary(has, ids, field) \/ Secondary(has, ids, field)
  <2>1. PICK i \in Identifiers : Matches(has, ids, i)
    BY <1>2 DEF MatchesSome
  <2>2. CASE i = field
    BY <2>1, <2>2 DEF Primary
  <2>3. CASE i # field
    BY <2>1, <2>3 DEF Secondary, Conflicting
  <2>4. QED
    BY <2>2, <2>3
<1>3. QED
  BY <1>1, <1>2

\* In every state, whatever requests have done to the documents, the logins
\* with each identifier of a user whose participants do not contradict it read
\* the participants that the refresh reads.
LEMMA AlwaysAgree == LoginsAgree
<1> SUFFICES ASSUME NEW u \in Users,
                    \A p \in LiveParticipants :
                      MatchesSome(participants[p].has, users[u])
                        => ~ Conflicting(participants[p].has, users[u]),
                    NEW field \in Identifiers
             PROVE  IF Loose(u) # {} THEN Unreadable(LoginRelations(u, field))
                    ELSE /\ ~ Unreadable(LoginRelations(u, field))
                         /\ OrgsFound(u, LoginRelations(u, field))
                              = OrgsFound(u, RefreshRelations(u))
  BY DEF LoginsAgree
<1> DEFINE Resolved(p) == \/ Primary(participants[p].has, users[u], field)
                          \/ Secondary(participants[p].has, users[u], field)
           read == {q \in LiveParticipants : MatchesSome(participants[q].has, users[u])}
<1>1. ASSUME NEW p \in LiveParticipants
      PROVE  Resolved(p) <=> MatchesSome(participants[p].has, users[u])
  <2>1. CASE Conflicting(participants[p].has, users[u])
    <3>1. ~ MatchesSome(participants[p].has, users[u])
      BY <2>1
    <3>2. ~ Resolved(p)
      BY <3>1 DEF Primary, Secondary, MatchesSome
    <3>3. QED
      BY <3>1, <3>2
  <2>2. CASE ~ Conflicting(participants[p].has, users[u])
    BY <2>2, FoundByEveryLogin
  <2>3. QED
    BY <2>1, <2>2
<1>2. {q \in LiveParticipants : Resolved(q)} = read
  BY <1>1
<1>3. /\ LoginRelations(u, field) = {Relation(p) : p \in read}
      /\ RefreshRelations(u) = {Relation(p) : p \in read}
  BY <1>2 DEF LoginRelations, RefreshRelations
<1>4. Loose(u) = {p \in read : Relation(p).org = None}
  BY DEF Loose, Relation
<1> HIDE DEF read
<1>5. Unreadable({Relation(p) : p \in read}) <=> Loose(u) # {}
  BY <1>4 DEF Unreadable
<1>6. QED
  BY <1>3, <1>5

\* Whatever identifier a user logs in with, whose participants do not
\* contradict it: either every login fails, which it does exactly when one of
\* them is in no organization, or every login finds the organizations that the
\* refresh finds.
THEOREM EveryLoginAgrees == AccessesSpec => []LoginsAgree
BY AlwaysAgree, PTL

---------------------------------------------------------------------------
(* What a reader has read, and what it was shown meanwhile. *)

RelationRecord == [id : Participants, org : Orgs \cup {None}, role : Roles \cup {None}]
AnswerRecord ==
  [org : Orgs, via : Participants \cup {None}, role : Roles \cup {"owner", "member"}]

ReaderRecord ==
  [kind : {"login", "refresh", "access", "list"},
   at : {"idle"} \cup ReaderPending \cup ReaderAnswers,
   user : Users \cup {None}, ids : [Identifiers -> Values \cup {None}] \cup {<<>>},
   field : Identifiers \cup {None}, org : Orgs \cup {None},
   primary : SUBSET RelationRecord, secondary : SUBSET RelationRecord,
   owned : SUBSET Orgs, answer : SUBSET AnswerRecord]

\* The following speak of the record r of a reader and of its history s.
Relations(r) == r.primary \cup r.secondary
Way(r) == IF r.kind \in {"login", "refresh"} THEN Identifiers ELSE {"userId"}
OtherIds(r, s) == r.kind \in {"login", "refresh"} /\ s.ids # {r.ids}
HasRead(r, k) == \E relation \in Relations(r) : relation.id = k.via

\* Where a reader is, by what it was asked.
Stage(r, s) ==
  /\ r.at \in ReaderPending => r.user \in Users
  /\ r.at \in {"primary", "secondary", "owned", "orgs"}
       => r.kind = "login" /\ r.field \in Identifiers
  /\ r.at \in {"relations", "refreshOrgs"} => r.kind = "refresh"
  /\ r.at = "participant" => r.kind = "access" /\ r.org \in Orgs
  /\ r.at \in {"both", "participants", "owns", "listOrgs"} => r.kind = "list"
  /\ r.kind # "login" \/ r.at \in {"primary", "secondary"} => r.secondary = {}
  /\ r.kind = "access" => r.owned \subseteq {r.org}
  /\ r.at # "ok" => r.answer = {}
  /\ r.at # "idle" /\ r.kind \in {"login", "refresh"} => r.ids \in s.ids

\* What it has read was held, and moved if it is no longer what was read; that
\* of it that makes a login fail carried an identifier of the user.
Backed(r, s) ==
  /\ \A relation \in Relations(r) :
       \/ OtherIds(r, s)
       \/ [org |-> relation.org, via |-> relation.id, role |-> relation.role] \in s.held
  /\ \A o \in r.owned : [org |-> o, via |-> None, role |-> None] \in s.held
  /\ \A k \in s.kept, relation \in Relations(r) : relation.id = k.via => relation.org = k.org
  /\ \A relation \in Relations(r) :
       r.kind = "login" /\ relation.org = None => OtherIds(r, s) \/ s.loose # {}

\* Its answer was held.
Told(r, s) ==
  \A item \in r.answer :
    \/ OtherIds(r, s)
    \/ \E h \in s.held :
         /\ h.org = item.org /\ h.via = item.via
         /\ h.role = item.role \/ (h.role = None /\ item.role \in {"owner", "member"})

\* It has read what was held all the time, as far as it has come.
Complete(r, s) ==
  /\ r.at = "secondary" /\ ~ OtherIds(r, s)
       => \A k \in s.kept : k.by = r.field => HasRead(r, k)
  /\ r.at \in {"owned", "orgs", "refreshOrgs", "owns", "listOrgs"} /\ ~ OtherIds(r, s)
       => \A k \in s.kept : k.by \in Way(r) => HasRead(r, k)
  /\ r.at \in {"participants", "listOrgs"} => s.owned \subseteq r.owned
  /\ r.at = "participant" => s.owned \cap {r.org} \subseteq r.owned
  /\ r.at \in ReaderAnswers /\ ~ OtherIds(r, s)
       => \/ r.at = "error" /\ r.kind = "login" /\ s.loose # {}
          \/ (IF r.kind = "access" THEN {r.org} ELSE Orgs)
               \cap (s.owned \cup OrgsOf({k \in s.kept : k.by \in Way(r)}))
             \subseteq {item.org : item \in r.answer}

Good(r, s) ==
  r \in ReaderRecord /\ Stage(r, s) /\ Backed(r, s) /\ Told(r, s) /\ Complete(r, s)

\* While it runs its history has what is held now, and no more than that of
\* what was held all the time.
Watched(r, s) ==
  r.at \in ReaderPending =>
    /\ Holdings(r.user) \subseteq s.held
    /\ s.kept \subseteq Sound(r.user)
    /\ s.owned \subseteq Owned(r.user)
    /\ users[r.user] \in s.ids
    /\ Loose(r.user) \subseteq s.loose

ReadersInv ==
  /\ reader \in [Readers -> ReaderRecord]
  /\ \A x \in Readers : Good(reader[x], seen[x]) /\ Watched(reader[x], seen[x])

\* A history goes on as t.
Grows(s, t) ==
  s.held \subseteq t.held /\ t.kept \subseteq s.kept /\ t.owned \subseteq s.owned
  /\ s.ids \subseteq t.ids /\ s.loose \subseteq t.loose

LEMMA GoodStays ==
  ASSUME NEW r, NEW s, NEW t, Good(r, s), r.at # "idle", Grows(s, t)
  PROVE  Good(r, t)
<1>1. OtherIds(r, s) => OtherIds(r, t)
  BY DEF Good, Stage, OtherIds, Grows
<1>2. Stage(r, t)
  BY DEF Good, Stage, Grows
<1>3. Backed(r, t)
  BY <1>1 DEF Good, Backed, Grows
<1>4. Told(r, t)
  BY <1>1 DEF Good, Told, Grows
<1>5. OrgsOf({k \in t.kept : k.by \in Way(r)}) \subseteq OrgsOf({k \in s.kept : k.by \in Way(r)})
  BY DEF OrgsOf, Grows
<1>6. Complete(r, t)
  BY <1>1, <1>5 DEF Good, Complete, Grows
<1>7. QED
  BY <1>2, <1>3, <1>4, <1>6 DEF Good

\* A history at the start of a reader, or of one that has not begun.
LEMMA IdleGood ==
  ASSUME NEW s
  PROVE  Good(NewReader, s)
<1>1. NewReader \in ReaderRecord
  BY DEF NewReader, ReaderRecord
<1>2. Stage(NewReader, s) /\ Told(NewReader, s)
  BY DEF NewReader, Stage, Told, ReaderPending
<1>3. Backed(NewReader, s)
  BY DEF NewReader, Backed, Relations
<1>4. Complete(NewReader, s)
  BY DEF NewReader, Complete, ReaderAnswers
<1>5. QED
  BY <1>1, <1>2, <1>3, <1>4 DEF Good

---------------------------------------------------------------------------
(* The history. *)

LEMMA SeeStep ==
  ASSUME See, NEW x \in Readers, NEW u \in Users, u = reader[x].user,
         reader[x].at \in ReaderPending, reader'[x].at # "idle"
  PROVE  /\ Grows(seen[x], seen'[x])
         /\ Holdings(u)' \subseteq seen'[x].held
         /\ seen'[x].kept \subseteq Sound(u)'
         /\ seen'[x].owned \subseteq Owned(u)'
         /\ users'[u] \in seen'[x].ids
         /\ Loose(u)' \subseteq seen'[x].loose
<1>1. reader[x].at \notin ReaderAnswers /\ reader[x].at # "idle"
  BY DEF ReaderPending, ReaderAnswers
<1>2. seen'[x] = [held  |-> seen[x].held \cup HoldingsOf'[u],
                  kept  |-> seen[x].kept \cap SoundOf'[u],
                  owned |-> seen[x].owned \cap OwnedBy'[u],
                  ids   |-> seen[x].ids \cup {users'[u]},
                  loose |-> seen[x].loose \cup LooseOf'[u]]
  BY <1>1 DEF See
<1>3. /\ HoldingsOf'[u] = Holdings(u)'
      /\ SoundOf'[u] = Sound(u)'
      /\ OwnedBy'[u] = Owned(u)'
      /\ LooseOf'[u] = Loose(u)'
  BY DEF HoldingsOf, SoundOf, OwnedBy, LooseOf
<1>4. QED
  BY <1>2, <1>3 DEF Grows

LEMMA SeeFrozen ==
  ASSUME See, NEW x \in Readers, reader[x].at \in ReaderAnswers \/ reader'[x].at = "idle"
  PROVE  seen'[x] = seen[x]
BY DEF See

LEMMA SeeStart ==
  ASSUME See, NEW x \in Readers, reader[x].at = "idle", reader'[x].at # "idle",
         NEW u \in Users, u = reader'[x].user
  PROVE  seen'[x] = Start(u)
BY DEF See, ReaderAnswers

---------------------------------------------------------------------------
(* What is held in a state. *)

LEMMA HeldNow ==
  ASSUME TypeInv, NEW u \in Users, NEW p \in LiveParticipants
  PROVE  /\ Relation(p) \in RelationRecord
         /\ Relation(p).id = p /\ Relation(p).org = participants[p].has["org"]
         /\ HeldBy(p, u) # {}
              => [org |-> Relation(p).org, via |-> Relation(p).id, role |-> Relation(p).role]
                   \in Holdings(u)
<1>1. p \in Participants /\ participants[p] \in ParticipantRecord
  BY DEF TypeInv, LiveParticipants
<1>2. participants[p].has["org"] \in Orgs \cup {None} /\ participants[p].has["role"] \in Roles \cup {None}
  BY <1>1 DEF ParticipantRecord, Scalar
<1>3. Relation(p) \in RelationRecord
  BY <1>1, <1>2 DEF Relation, RelationRecord
<1>4. HeldBy(p, u) # {} =>
        [org |-> Relation(p).org, via |-> Relation(p).id, role |-> Relation(p).role]
          \in Holdings(u)
  BY DEF Relation, Holdings
<1>5. QED
  BY <1>3, <1>4 DEF Relation

LEMMA RelationsTyped ==
  ASSUME TypeInv, NEW u \in Users, NEW S, S \subseteq LiveParticipants
  PROVE  {Relation(p) : p \in S} \in SUBSET RelationRecord
<1>1. ASSUME NEW p \in S
      PROVE  Relation(p) \in RelationRecord
  BY HeldNow
<1>2. QED
  BY <1>1

LEMMA KeptNow ==
  ASSUME NEW u, NEW k \in Sound(u)
  PROVE  /\ k.via \in LiveParticipants
         /\ k.org \in LiveOrgs
         /\ k.org = participants[k.via].has["org"]
         /\ k.by = "userId" => participants[k.via].userId = u
         /\ k.by \in Identifiers
              => /\ Matches(participants[k.via].has, users[u], k.by)
                 /\ ~ Conflicting(participants[k.via].has, users[u])
<1>1. /\ k.via \in LiveParticipants /\ k.org \in LiveOrgs
      /\ k.org = participants[k.via].has["org"]
      /\ k.by \in HeldBy(k.via, u)
      /\ k.by # "userId" => ~ Conflicting(participants[k.via].has, users[u])
  BY DEF Sound
<1>2. "userId" \notin Identifiers
  BY DEF Identifiers
<1>3. QED
  BY <1>1, <1>2 DEF HeldBy

\* What a query finds among the participants somebody holds.
LEMMA BackedByReading ==
  ASSUME TypeInv, NEW r, NEW s, NEW n, r.at \in ReaderPending, r.user \in Users,
         Backed(r, s), Watched(r, s),
         n.kind = r.kind, n.ids = r.ids, n.owned = r.owned,
         NEW P \in SUBSET LiveParticipants,
         Relations(n) \subseteq Relations(r) \cup {Relation(p) : p \in P},
         OtherIds(r, s) \/ \A p \in P : HeldBy(p, r.user) # {},
         r.kind = "login"
           => OtherIds(r, s) \/ \A p \in P : MatchesSome(participants[p].has, users[r.user])
  PROVE  Backed(n, s)
<1>1. OtherIds(n, s) <=> OtherIds(r, s)
  BY DEF OtherIds
<1>2. ASSUME NEW p \in P, ~ OtherIds(r, s)
      PROVE  [org |-> Relation(p).org, via |-> Relation(p).id, role |-> Relation(p).role]
               \in s.held
  BY <1>2, HeldNow DEF Watched
<1>3. ASSUME NEW p \in P, NEW k \in s.kept, Relation(p).id = k.via
      PROVE  Relation(p).org = k.org
  <2>1. k \in Sound(r.user)
    BY DEF Watched
  <2>2. Relation(p).id = p /\ Relation(p).org = participants[p].has["org"]
    BY HeldNow
  <2>3. k.org = participants[k.via].has["org"]
    BY <2>1, KeptNow
  <2>4. QED
    BY <1>3, <2>2, <2>3
<1>4. ASSUME NEW p \in P, r.kind = "login", ~ OtherIds(r, s), Relation(p).org = None
      PROVE  s.loose # {}
  <2>1. participants[p].has["org"] = None
    BY <1>4, HeldNow
  <2>2. p \in Loose(r.user)
    BY <1>4, <2>1 DEF Loose
  <2>3. QED
    BY <2>2 DEF Watched
<1>5. QED
  BY <1>1, <1>2, <1>3, <1>4 DEF Backed

---------------------------------------------------------------------------
(* Answers. *)

\* The relation an organization is given is one that was read, if there is one.
Given(relation, o, relations) ==
  \/ relation = None /\ o \notin OrgsOf(relations)
  \/ relation # None /\ relation \in relations /\ relation.org = o

LEMMA ChoiceFacts ==
  ASSUME NEW first, NEW second, first \cup second \subseteq RelationRecord,
         NEW found, NEW choice \in Choices(found, first, second), NEW o \in found
  PROVE  Given(choice[o], o, first \cup second)
<1>1. choice[o] \in Chosen(o, first, second)
  BY DEF Choices
<1>2. None \notin RelationRecord
  BY AccessesAssumption DEF RelationRecord
<1>3. CASE {relation \in first : relation.org = o} # {}
  BY <1>1, <1>2, <1>3 DEF Chosen, Given
<1>4. CASE /\ {relation \in first : relation.org = o} = {}
           /\ {relation \in second : relation.org = o} # {}
  BY <1>1, <1>2, <1>4 DEF Chosen, Given
<1>5. CASE /\ {relation \in first : relation.org = o} = {}
           /\ {relation \in second : relation.org = o} = {}
  <2>1. choice[o] = None
    BY <1>1, <1>5 DEF Chosen
  <2>2. o \notin OrgsOf(first \cup second)
    BY <1>5 DEF OrgsOf
  <2>3. QED
    BY <2>1, <2>2 DEF Given
<1>6. QED
  BY <1>3, <1>4, <1>5

\* Every organization found is that of a relation, or was owned.
Supports(found, relations, s) ==
  \A o \in found : \/ o \in OrgsOf(relations)
                   \/ [org |-> o, via |-> None, role |-> None] \in s.held

\* An item tells the choice that was made for its organization.
Conveys(answer, found, choice) ==
  \A item \in answer : \E o \in found :
    /\ item.org = o
    /\ item.via = IF choice[o] = None THEN None ELSE choice[o].id
    /\ \/ /\ item.role \in {"owner", "member"}
          /\ choice[o] = None \/ choice[o].role = None
       \/ choice[o] # None /\ item.role = choice[o].role

\* An answer for the organizations found, from the relations read and what is
\* owned.
LEMMA AnswerBacked ==
  ASSUME NEW r, NEW s, NEW n, Backed(r, s), n.kind = r.kind, n.ids = r.ids,
         NEW first, NEW second, first \cup second \subseteq RelationRecord,
         first \cup second \subseteq Relations(r),
         NEW found \in SUBSET Orgs, NEW choice \in Choices(found, first, second),
         Supports(found, first \cup second, s), Conveys(n.answer, found, choice)
  PROVE  Told(n, s)
<1> SUFFICES ASSUME NEW item \in n.answer, ~ OtherIds(r, s)
             PROVE  \E h \in s.held :
                      /\ h.org = item.org /\ h.via = item.via
                      /\ h.role = item.role \/ (h.role = None /\ item.role \in {"owner", "member"})
  BY DEF Told, OtherIds
<1>1. PICK o \in found :
        /\ item.org = o
        /\ item.via = IF choice[o] = None THEN None ELSE choice[o].id
        /\ \/ /\ item.role \in {"owner", "member"}
              /\ choice[o] = None \/ choice[o].role = None
           \/ choice[o] # None /\ item.role = choice[o].role
  BY DEF Conveys
<1>2. Given(choice[o], o, first \cup second)
  BY ChoiceFacts
<1>3. CASE choice[o] = None
  <2> DEFINE h == [org |-> o, via |-> None, role |-> None]
  <2>1. h \in s.held
    BY <1>2, <1>3 DEF Given, Supports
  <2>2. QED
    BY <1>1, <1>3, <2>1
<1>4. CASE choice[o] # None
  <2> DEFINE h == [org |-> choice[o].org, via |-> choice[o].id, role |-> choice[o].role]
  <2>1. h \in s.held
    BY <1>2, <1>4 DEF Backed, Given
  <2>2. QED
    BY <1>1, <1>2, <1>4, <2>1 DEF Given
<1>5. QED
  BY <1>3, <1>4

\* The role an item is given, and its type.
LEMMA ItemFacts ==
  ASSUME NEW o \in Orgs, NEW relation \in RelationRecord \cup {None},
         NEW role, role = RoleOrOwner(relation)
                   \/ \E owned \in BOOLEAN : /\ role = LoginRole(relation, owned)
                                             /\ relation # None \/ owned
  PROVE  /\ Item(o, relation, role).org = o
         /\ Item(o, relation, role).via = IF relation = None THEN None ELSE relation.id
         /\ \/ /\ Item(o, relation, role).role \in {"owner", "member"}
               /\ relation = None \/ relation.role = None
            \/ relation # None /\ Item(o, relation, role).role = relation.role
         /\ Item(o, relation, role) \in AnswerRecord
<1>1. \/ role \in {"owner", "member"} /\ (relation = None \/ relation.role = None)
      \/ relation # None /\ role = relation.role /\ relation.role # None
  <2>1. CASE role = RoleOrOwner(relation)
    BY <2>1 DEF RoleOrOwner
  <2>2. CASE \E owned \in BOOLEAN : /\ role = LoginRole(relation, owned)
                                    /\ relation # None \/ owned
    BY <2>2 DEF LoginRole
  <2>3. QED
    BY <2>1, <2>2
<1>2. relation # None => relation.id \in Participants /\ relation.role \in Roles \cup {None}
  BY DEF RelationRecord
<1>3. role \in Roles \cup {"owner", "member"}
  BY <1>1, <1>2
<1>4. QED
  BY <1>1, <1>2, <1>3 DEF Item, AnswerRecord

---------------------------------------------------------------------------
(* The steps of a reader. A reader that goes on as record n does well. *)

Onward(x, n) ==
  /\ reader' = [reader EXCEPT ![x] = n]
  /\ n.at # "idle" /\ n.user = reader[x].user
  /\ Good(n, seen[x])

LEMMA OwnIds ==
  ASSUME NEW r, NEW s, Watched(r, s), ~ OtherIds(r, s), r.at \in ReaderPending,
         r.kind \in {"login", "refresh"}
  PROVE  users[r.user] = r.ids
BY DEF Watched, OtherIds

\* A participant that was found is one whose relation has been read.
LEMMA NowRead ==
  ASSUME NEW n, NEW found, {Relation(p) : p \in found} \subseteq Relations(n),
         NEW k, k.via \in found
  PROVE  HasRead(n, k)
<1>1. Relation(k.via) \in Relations(n) /\ Relation(k.via).id = k.via
  BY DEF Relation
<1>2. QED
  BY <1>1 DEF HasRead

LEMMA ReadPrimaryOnward ==
  ASSUME TypeInv, ReadersInv, NEW x \in Readers, ReadPrimary(x)
  PROVE  \E n : Onward(x, n)
<1> DEFINE r == reader[x]
           s == seen[x]
           found == {p \in LiveParticipants : Primary(participants[p].has, r.ids, r.field)}
           at == IF \E i \in Identifiers \ {r.field} : r.ids[i] # None THEN "secondary" ELSE "owned"
<1>1. /\ r \in ReaderRecord /\ r.at = "primary" /\ r.at \in ReaderPending
      /\ Stage(r, s) /\ Backed(r, s) /\ Watched(r, s)
  BY DEF ReadersInv, Good, ReadPrimary, ReaderPending
<1>2. r.kind = "login" /\ r.field \in Identifiers /\ r.user \in Users /\ r.answer = {}
  BY <1>1 DEF Stage
<1>3. {Relation(p) : p \in found} \in SUBSET RelationRecord
  <2>1. found \subseteq LiveParticipants
    OBVIOUS
  <2> HIDE DEF found
  <2>2. QED
    BY <1>2, <2>1, RelationsTyped
<1>4. PICK n \in ReaderRecord :
        /\ reader' = [reader EXCEPT ![x] = n]
        /\ n.at = at /\ n.primary = {Relation(p) : p \in found}
        /\ n.kind = r.kind /\ n.user = r.user /\ n.ids = r.ids /\ n.field = r.field
        /\ n.secondary = r.secondary /\ n.owned = r.owned /\ n.answer = r.answer
  <2> DEFINE n == [r EXCEPT !.primary = {Relation(p) : p \in found}, !.at = at]
  <2>1. reader' = [reader EXCEPT ![x] = n]
    BY DEF ReadPrimary, Advance
  <2>2. at \in ReaderPending
    BY DEF ReaderPending
  <2>3. n \in ReaderRecord
    <3> HIDE DEF found, at, s
    <3>1. QED
      BY <1>1, <1>3, <2>2 DEF ReaderRecord
  <2>4. /\ n.at = at /\ n.primary = {Relation(p) : p \in found}
        /\ n.kind = r.kind /\ n.user = r.user /\ n.ids = r.ids /\ n.field = r.field
        /\ n.secondary = r.secondary /\ n.owned = r.owned /\ n.answer = r.answer
    BY <1>1 DEF ReaderRecord
  <2>5. QED
    BY <2>1, <2>3, <2>4
<1>5. n.at \in {"secondary", "owned"} /\ n.at # "idle"
  BY <1>4
<1>6. Stage(n, s)
  BY <1>1, <1>2, <1>4, <1>5 DEF Stage, ReaderPending
<1>7. Told(n, s)
  BY <1>2, <1>4 DEF Told
<1>8. OtherIds(r, s) \/ users[r.user] = r.ids
  BY <1>1, <1>2, OwnIds
<1>9. Backed(n, s)
  <2>1. ASSUME NEW p \in found, users[r.user] = r.ids
        PROVE  HeldBy(p, r.user) # {}
    BY <1>2, <2>1 DEF Primary, HeldBy
  <2>2. ASSUME NEW p \in found, users[r.user] = r.ids
        PROVE  MatchesSome(participants[p].has, users[r.user])
    BY <1>2, <2>2 DEF Primary, MatchesSome
  <2>3. Relations(n) \subseteq Relations(r) \cup {Relation(p) : p \in found}
    BY <1>4 DEF Relations
  <2>4. found \in SUBSET LiveParticipants
    OBVIOUS
  <2>5. OtherIds(r, s) \/ \A p \in found : HeldBy(p, r.user) # {}
    BY <1>8, <2>1
  <2>6. OtherIds(r, s) \/ \A p \in found : MatchesSome(participants[p].has, users[r.user])
    BY <1>8, <2>2
  <2> HIDE DEF found, r, s
  <2>7. QED
    BY <1>1, <1>2, <1>4, <2>3, <2>4, <2>5, <2>6, BackedByReading
<1>10. Complete(n, s)
  <2>1. ASSUME NEW k \in s.kept, users[r.user] = r.ids, k.by = r.field
        PROVE  HasRead(n, k)
    <3>1. k \in Sound(r.user)
      BY <1>1 DEF Watched
    <3>2. k.via \in found
      BY <1>2, <2>1, <3>1, KeptNow DEF Primary
    <3>3. QED
      BY <1>4, <3>2, NowRead DEF Relations
  <2>2. ASSUME NEW k \in s.kept, users[r.user] = r.ids, k.by \in Identifiers, n.at = "owned"
        PROVE  k.by = r.field
    <3>1. k \in Sound(r.user)
      BY <1>1 DEF Watched
    <3>2. users[r.user][k.by] # None
      BY <2>2, <3>1, KeptNow DEF Matches
    <3>3. QED
      BY <1>4, <2>2, <3>2
  <2>3. OtherIds(n, s) <=> OtherIds(r, s)
    BY <1>4 DEF OtherIds
  <2>4. QED
    BY <1>2, <1>4, <1>5, <1>8, <2>1, <2>2, <2>3 DEF Complete, Way, ReaderAnswers
<1>11. QED
  BY <1>4, <1>5, <1>6, <1>7, <1>9, <1>10 DEF Onward, Good

LEMMA ReadSecondaryOnward ==
  ASSUME TypeInv, ReadersInv, NEW x \in Readers, ReadSecondary(x)
  PROVE  \E n : Onward(x, n)
<1> DEFINE r == reader[x]
           s == seen[x]
           found == {p \in LiveParticipants : Secondary(participants[p].has, r.ids, r.field)}
           known == {relation.id : relation \in r.primary}
           new == {Relation(p) : p \in found \ known}
<1>1. /\ r \in ReaderRecord /\ r.at = "secondary" /\ r.at \in ReaderPending
      /\ Stage(r, s) /\ Backed(r, s) /\ Complete(r, s) /\ Watched(r, s)
  BY DEF ReadersInv, Good, ReadSecondary, ReaderPending
<1>2. /\ r.kind = "login" /\ r.field \in Identifiers /\ r.user \in Users
      /\ r.answer = {} /\ r.secondary = {}
  BY <1>1 DEF Stage
<1>3. new \in SUBSET RelationRecord
  <2>1. (found \ known) \subseteq LiveParticipants
    OBVIOUS
  <2> HIDE DEF found
  <2>2. QED
    BY <1>2, <2>1, RelationsTyped
<1>4. PICK n \in ReaderRecord :
        /\ reader' = [reader EXCEPT ![x] = n]
        /\ n.at = "owned" /\ n.secondary = new
        /\ n.kind = r.kind /\ n.user = r.user /\ n.ids = r.ids /\ n.field = r.field
        /\ n.primary = r.primary /\ n.owned = r.owned /\ n.answer = r.answer
  <2> DEFINE n == [r EXCEPT !.secondary = new, !.at = "owned"]
  <2>1. reader' = [reader EXCEPT ![x] = n]
    BY DEF ReadSecondary, Advance
  <2>2. n \in ReaderRecord
    <3> HIDE DEF new, s
    <3>1. QED
      BY <1>1, <1>3 DEF ReaderRecord, ReaderPending
  <2>3. /\ n.at = "owned" /\ n.secondary = new
        /\ n.kind = r.kind /\ n.user = r.user /\ n.ids = r.ids /\ n.field = r.field
        /\ n.primary = r.primary /\ n.owned = r.owned /\ n.answer = r.answer
    BY <1>1 DEF ReaderRecord
  <2>4. QED
    BY <2>1, <2>2, <2>3
<1>5. Stage(n, s)
  BY <1>1, <1>2, <1>4 DEF Stage, ReaderPending
<1>6. Told(n, s)
  BY <1>2, <1>4 DEF Told
<1>7. OtherIds(r, s) \/ users[r.user] = r.ids
  BY <1>1, <1>2, OwnIds
<1>8. Backed(n, s)
  <2>1. ASSUME NEW p \in found, users[r.user] = r.ids
        PROVE  HeldBy(p, r.user) # {}
    BY <1>2, <2>1 DEF Secondary, HeldBy
  <2>2. ASSUME NEW p \in found, users[r.user] = r.ids
        PROVE  MatchesSome(participants[p].has, users[r.user])
    BY <1>2, <2>2 DEF Secondary, MatchesSome
  <2>3. Relations(n) \subseteq Relations(r) \cup {Relation(p) : p \in found \ known}
    BY <1>4 DEF Relations
  <2>4. found \ known \in SUBSET LiveParticipants
    OBVIOUS
  <2>5. OtherIds(r, s) \/ \A p \in found \ known : HeldBy(p, r.user) # {}
    BY <1>7, <2>1
  <2>6. \/ OtherIds(r, s)
        \/ \A p \in found \ known : MatchesSome(participants[p].has, users[r.user])
    BY <1>7, <2>2
  <2> HIDE DEF found, known, r, s
  <2>7. QED
    BY <1>1, <1>2, <1>4, <2>3, <2>4, <2>5, <2>6, BackedByReading
<1>9. Complete(n, s)
  <2>1. ASSUME NEW k \in s.kept, users[r.user] = r.ids, k.by \in Identifiers, k.by # r.field
        PROVE  HasRead(n, k)
    <3>1. k \in Sound(r.user)
      BY <1>1 DEF Watched
    <3>2. k.via \in found
      BY <1>2, <2>1, <3>1, KeptNow DEF Secondary, Conflicting
    <3>3. CASE k.via \in known
      BY <1>4, <3>3 DEF HasRead, Relations
    <3>4. CASE k.via \in found \ known
      <4>1. {Relation(p) : p \in found \ known} \subseteq Relations(n)
        BY <1>4 DEF Relations
      <4>2. QED
        BY <3>4, <4>1, NowRead
    <3>5. QED
      BY <3>2, <3>3, <3>4
  <2>2. ASSUME NEW k \in s.kept, ~ OtherIds(r, s), k.by = r.field
        PROVE  HasRead(n, k)
    <3>1. HasRead(r, k)
      BY <1>1, <2>2 DEF Complete
    <3>2. QED
      BY <1>2, <1>4, <3>1 DEF HasRead, Relations
  <2>3. OtherIds(n, s) <=> OtherIds(r, s)
    BY <1>4 DEF OtherIds
  <2>4. QED
    BY <1>2, <1>4, <1>7, <2>1, <2>2, <2>3 DEF Complete, Way, ReaderAnswers
<1>10. QED
  BY <1>4, <1>5, <1>6, <1>8, <1>9 DEF Onward, Good

LEMMA CheckOwnedOnward ==
  ASSUME ReadersInv, NEW x \in Readers, CheckOwned(x)
  PROVE  \E n : Onward(x, n)
<1> DEFINE r == reader[x]
           s == seen[x]
           at == IF r.primary \cup r.secondary = {} /\ Owned(r.user) = {} THEN "ok" ELSE "orgs"
<1>1. /\ r \in ReaderRecord /\ r.at = "owned" /\ r.at \in ReaderPending
      /\ Stage(r, s) /\ Backed(r, s) /\ Complete(r, s) /\ Watched(r, s)
  BY DEF ReadersInv, Good, CheckOwned, ReaderPending
<1>2. r.kind = "login" /\ r.user \in Users /\ r.answer = {}
  BY <1>1 DEF Stage
<1>3. PICK n \in ReaderRecord :
        /\ reader' = [reader EXCEPT ![x] = n]
        /\ n.at = at
        /\ n.kind = r.kind /\ n.user = r.user /\ n.ids = r.ids /\ n.field = r.field
        /\ n.primary = r.primary /\ n.secondary = r.secondary /\ n.owned = r.owned
        /\ n.answer = r.answer
  <2> DEFINE n == [r EXCEPT !.at = at]
  <2>1. reader' = [reader EXCEPT ![x] = n]
    BY DEF CheckOwned, Advance
  <2>2. n \in ReaderRecord
    BY <1>1 DEF ReaderRecord, ReaderPending, ReaderAnswers
  <2>3. /\ n.at = at
        /\ n.kind = r.kind /\ n.user = r.user /\ n.ids = r.ids /\ n.field = r.field
        /\ n.primary = r.primary /\ n.secondary = r.secondary /\ n.owned = r.owned
        /\ n.answer = r.answer
    BY <1>1 DEF ReaderRecord
  <2>4. QED
    BY <2>1, <2>2, <2>3
<1>4. n.at \in {"ok", "orgs"} /\ n.at # "idle"
  BY <1>3
<1>5. Stage(n, s)
  BY <1>1, <1>2, <1>3, <1>4 DEF Stage, ReaderPending
<1>6. Told(n, s)
  BY <1>2, <1>3 DEF Told
<1>7. Relations(n) = Relations(r) /\ (OtherIds(n, s) <=> OtherIds(r, s))
  BY <1>3 DEF Relations, OtherIds
<1>8. Backed(n, s)
  BY <1>1, <1>3, <1>7 DEF Backed
<1>9. Complete(n, s)
  <2>1. ASSUME NEW k \in s.kept, ~ OtherIds(n, s), k.by \in Way(n)
        PROVE  HasRead(n, k)
    BY <1>1, <1>3, <1>7, <2>1 DEF Complete, Way, HasRead
  <2>2. ASSUME n.at = "ok", ~ OtherIds(n, s)
        PROVE  s.owned = {} /\ {k \in s.kept : k.by \in Way(n)} = {}
    <3>1. Relations(r) = {} /\ Owned(r.user) = {}
      BY <1>3, <2>2 DEF Relations
    <3>2. s.owned = {}
      BY <1>1, <3>1 DEF Watched
    <3>3. QED
      BY <1>7, <2>1, <2>2, <3>1, <3>2 DEF HasRead
  <2>3. ASSUME n.at = "ok", ~ OtherIds(n, s)
        PROVE  s.owned \cup OrgsOf({k \in s.kept : k.by \in Way(n)}) = {}
    BY <2>2, <2>3 DEF OrgsOf
  <2>4. QED
    BY <1>4, <2>1, <2>3 DEF Complete, ReaderAnswers
<1>10. QED
  BY <1>3, <1>4, <1>5, <1>6, <1>8, <1>9 DEF Onward, Good

\* An organization that was held all the time is among those that are owned or
\* that a relation leads to.
LEMMA KeptIsFound ==
  ASSUME NEW r, NEW s, Watched(r, s), Backed(r, s), r.at \in ReaderPending,
         \A k \in s.kept : k.by \in Way(r) => HasRead(r, k)
  PROVE  s.owned \cup OrgsOf({k \in s.kept : k.by \in Way(r)})
           \subseteq s.owned \cup (LiveOrgs \cap OrgsOf(Relations(r)))
<1>1. ASSUME NEW k \in s.kept, k.by \in Way(r)
      PROVE  k.org \in LiveOrgs \cap OrgsOf(Relations(r))
  <2>1. k \in Sound(r.user)
    BY <1>1 DEF Watched
  <2>2. PICK relation \in Relations(r) : relation.id = k.via
    BY <1>1 DEF HasRead
  <2>3. relation.org = k.org
    BY <2>2 DEF Backed
  <2>4. QED
    BY <2>1, <2>3, KeptNow DEF OrgsOf
<1>2. QED
  BY <1>1 DEF OrgsOf

\* The answers of the login, the refresh and the list.
LEMMA AnswerOnward ==
  ASSUME ReadersInv, NEW x \in Readers,
         reader[x].at \in {"orgs", "refreshOrgs", "listOrgs"},
         NEW found \in SUBSET Orgs,
         Supports(found, Relations(reader[x]), seen[x]),
         seen[x].owned \cup (LiveOrgs \cap OrgsOf(Relations(reader[x]))) \subseteq found,
         NEW choice \in Choices(found, reader[x].primary, reader[x].secondary),
         NEW role,
         \A o \in found :
           \/ role[o] = RoleOrOwner(choice[o])
           \/ \E owned \in BOOLEAN : /\ role[o] = LoginRole(choice[o], owned)
                                     /\ choice[o] # None \/ owned,
         reader' = [reader EXCEPT ![x] = [reader[x] EXCEPT !.at = "ok",
                      !.answer = {Item(o, choice[o], role[o]) : o \in found}]]
  PROVE  \E n : Onward(x, n)
<1> DEFINE r == reader[x]
           s == seen[x]
           answer == {Item(o, choice[o], role[o]) : o \in found}
<1>1. /\ r \in ReaderRecord /\ r.at \in ReaderPending
      /\ Stage(r, s) /\ Backed(r, s) /\ Complete(r, s) /\ Watched(r, s)
  BY DEF ReadersInv, Good, ReaderPending
<1>2. r.primary \cup r.secondary \subseteq RelationRecord
  BY <1>1 DEF ReaderRecord
<1>3. ASSUME NEW o \in found
      PROVE  choice[o] \in RelationRecord \cup {None}
  <2>1. Given(choice[o], o, r.primary \cup r.secondary)
    BY <1>2, ChoiceFacts
  <2>2. QED
    BY <1>2, <2>1 DEF Given
<1>4. ASSUME NEW o \in found
      PROVE  /\ Item(o, choice[o], role[o]).org = o
             /\ Item(o, choice[o], role[o]).via = IF choice[o] = None THEN None ELSE choice[o].id
             /\ \/ /\ Item(o, choice[o], role[o]).role \in {"owner", "member"}
                   /\ choice[o] = None \/ choice[o].role = None
                \/ choice[o] # None /\ Item(o, choice[o], role[o]).role = choice[o].role
             /\ Item(o, choice[o], role[o]) \in AnswerRecord
  BY <1>3, ItemFacts, Zenon
<1>5. PICK n \in ReaderRecord :
        /\ reader' = [reader EXCEPT ![x] = n]
        /\ n.at = "ok" /\ n.answer = answer
        /\ n.kind = r.kind /\ n.user = r.user /\ n.ids = r.ids
        /\ n.primary = r.primary /\ n.secondary = r.secondary /\ n.owned = r.owned
  <2> DEFINE n == [r EXCEPT !.at = "ok", !.answer = answer]
  <2>1. reader' = [reader EXCEPT ![x] = n]
    OBVIOUS
  <2>2. answer \in SUBSET AnswerRecord
    BY <1>4
  <2> HIDE DEF answer
  <2>3. n \in ReaderRecord
    BY <1>1, <2>2 DEF ReaderRecord, ReaderAnswers
  <2>4. /\ n.at = "ok" /\ n.answer = answer
        /\ n.kind = r.kind /\ n.user = r.user /\ n.ids = r.ids
        /\ n.primary = r.primary /\ n.secondary = r.secondary /\ n.owned = r.owned
    BY <1>1 DEF ReaderRecord
  <2>5. QED
    BY <2>1, <2>3, <2>4
<1>6. Stage(n, s)
  BY <1>1, <1>5 DEF Stage, ReaderPending
<1>7. Relations(n) = Relations(r) /\ Way(n) = Way(r) /\ (OtherIds(n, s) <=> OtherIds(r, s))
  BY <1>5 DEF Relations, OtherIds, Way
<1>8. Backed(n, s)
  BY <1>1, <1>5, <1>7 DEF Backed
<1>9. Told(n, s)
  <2>1. Conveys(n.answer, found, choice)
    BY <1>4, <1>5 DEF Conveys
  <2>2. Supports(found, r.primary \cup r.secondary, s)
    BY DEF Relations, Supports
  <2>3. r.primary \cup r.secondary \subseteq Relations(r)
    BY DEF Relations
  <2>4. choice \in Choices(found, r.primary, r.secondary)
    OBVIOUS
  <2> HIDE DEF r, s, answer
  <2>5. QED
    BY <1>1, <1>2, <1>5, <2>1, <2>2, <2>3, <2>4, AnswerBacked
<1>10. Complete(n, s)
  <2>1. found \subseteq {item.org : item \in n.answer}
    BY <1>4, <1>5
  <2>2. ASSUME ~ OtherIds(n, s)
        PROVE  s.owned \cup OrgsOf({k \in s.kept : k.by \in Way(n)}) \subseteq found
    <3>1. \A k \in s.kept : k.by \in Way(r) => HasRead(r, k)
      BY <1>1, <1>7, <2>2 DEF Complete
    <3>2. s.owned \cup OrgsOf({k \in s.kept : k.by \in Way(r)})
            \subseteq s.owned \cup (LiveOrgs \cap OrgsOf(Relations(r)))
      BY <1>1, <3>1, KeptIsFound
    <3>3. QED
      BY <1>7, <3>2
  <2>3. n.kind # "access"
    BY <1>1, <1>5 DEF Stage
  <2>4. QED
    BY <1>5, <2>1, <2>2, <2>3 DEF Complete
<1>11. QED
  BY <1>5, <1>6, <1>8, <1>9, <1>10 DEF Onward, Good

LEMMA OwnedIsHeld ==
  ASSUME NEW r, NEW s, Watched(r, s), r.at \in ReaderPending, NEW o \in Owned(r.user)
  PROVE  [org |-> o, via |-> None, role |-> None] \in s.held
<1>1. Holdings(r.user) \subseteq s.held
  BY DEF Watched
<1>2. PICK B : B = {[org |-> q, via |-> None, role |-> None] : q \in Owned(r.user)}
  OBVIOUS
<1>3. PICK A : Holdings(r.user) = A \cup B
  BY <1>2 DEF Holdings
<1>4. [org |-> o, via |-> None, role |-> None] \in B
  BY <1>2
<1>5. QED
  BY <1>1, <1>3, <1>4

LEMMA ReadOrgsOnward ==
  ASSUME TypeInv, ReadersInv, NEW x \in Readers, ReadOrgs(x)
  PROVE  \E n : Onward(x, n)
<1> DEFINE r == reader[x]
           s == seen[x]
           relations == r.primary \cup r.secondary
           found == LiveOrgs \cap (Owned(r.user) \cup OrgsOf(relations))
<1>1. /\ r \in ReaderRecord /\ r.at = "orgs" /\ r.at \in ReaderPending
      /\ Stage(r, s) /\ Backed(r, s) /\ Watched(r, s)
  BY DEF ReadersInv, Good, ReadOrgs, ReaderPending
<1>2. CASE Unreadable(relations)
  <2>1. PICK n \in ReaderRecord :
          /\ reader' = [reader EXCEPT ![x] = n]
          /\ n.at = "error"
          /\ n.kind = r.kind /\ n.user = r.user /\ n.ids = r.ids
          /\ n.primary = r.primary /\ n.secondary = r.secondary /\ n.owned = r.owned
          /\ n.answer = r.answer
    <3> DEFINE n == [r EXCEPT !.at = "error"]
    <3>1. reader' = [reader EXCEPT ![x] = n]
      BY <1>2 DEF ReadOrgs, Advance
    <3>2. n \in ReaderRecord
      BY <1>1 DEF ReaderRecord, ReaderAnswers
    <3>3. /\ n.at = "error"
          /\ n.kind = r.kind /\ n.user = r.user /\ n.ids = r.ids
          /\ n.primary = r.primary /\ n.secondary = r.secondary /\ n.owned = r.owned
          /\ n.answer = r.answer
      BY <1>1 DEF ReaderRecord
    <3>4. QED
      BY <3>1, <3>2, <3>3
  <2>2. Relations(n) = Relations(r) /\ (OtherIds(n, s) <=> OtherIds(r, s))
    BY <2>1 DEF Relations, OtherIds
  <2>3. r.kind = "login" /\ r.answer = {}
    BY <1>1 DEF Stage
  <2>4. Stage(n, s) /\ Told(n, s) /\ Backed(n, s)
    BY <1>1, <2>1, <2>2, <2>3 DEF Stage, ReaderPending, Told, Backed
  <2>5. OtherIds(r, s) \/ s.loose # {}
    BY <1>1, <1>2, <2>3 DEF Backed, Relations, Unreadable
  <2>6. Complete(n, s)
    BY <2>1, <2>2, <2>3, <2>5 DEF Complete
  <2>7. QED
    BY <2>1, <2>4, <2>6 DEF Onward, Good
<1>3. CASE ~ Unreadable(relations)
  <2>1. PICK choice \in Choices(found, r.primary, r.secondary) :
          reader' = [reader EXCEPT ![x] = [r EXCEPT !.at = "ok", !.answer =
            {Item(o, choice[o], LoginRole(choice[o], o \in Owned(r.user))) : o \in found}]]
    BY <1>3 DEF ReadOrgs, Advance, OrgsFound
  <2> DEFINE role == [o \in found |-> LoginRole(choice[o], o \in Owned(r.user))]
  <2>2. {Item(o, choice[o], LoginRole(choice[o], o \in Owned(r.user))) : o \in found}
          = {Item(o, choice[o], role[o]) : o \in found}
    OBVIOUS
  <2>3. ASSUME NEW o \in found
        PROVE  \E owned \in BOOLEAN : /\ role[o] = LoginRole(choice[o], owned)
                                      /\ choice[o] # None \/ owned
    <3>1. r.primary \cup r.secondary \subseteq RelationRecord
      BY <1>1 DEF ReaderRecord
    <3>2. Given(choice[o], o, r.primary \cup r.secondary)
      BY <3>1, ChoiceFacts
    <3>3. choice[o] # None \/ o \in Owned(r.user)
      BY <3>2 DEF Given
    <3>4. role[o] = LoginRole(choice[o], o \in Owned(r.user))
      OBVIOUS
    <3>5. (o \in Owned(r.user)) \in BOOLEAN
      OBVIOUS
    <3> HIDE DEF role
    <3>6. QED
      BY <3>3, <3>4, <3>5
  <2>4. Supports(found, Relations(r), s)
    BY <1>1, OwnedIsHeld DEF Supports, Relations
  <2>5. s.owned \cup (LiveOrgs \cap OrgsOf(Relations(r))) \subseteq found
    BY <1>1 DEF Watched, Relations, Owned
  <2>6. found \in SUBSET Orgs
    BY DEF LiveOrgs
  <2>7. /\ reader' = [reader EXCEPT ![x] = [r EXCEPT !.at = "ok", !.answer =
                        {Item(o, choice[o], role[o]) : o \in found}]]
        /\ r.at \in {"orgs", "refreshOrgs", "listOrgs"}
        /\ choice \in Choices(found, r.primary, r.secondary)
    BY <1>1, <2>1, <2>2
  <2> HIDE DEF role, found
  <2>8. QED
    BY <2>3, <2>4, <2>5, <2>6, <2>7, AnswerOnward
<1>4. QED
  BY <1>2, <1>3

LEMMA ReadRefreshOrgsOnward ==
  ASSUME TypeInv, ReadersInv, NEW x \in Readers, ReadRefreshOrgs(x)
  PROVE  \E n : Onward(x, n)
<1> DEFINE r == reader[x]
           s == seen[x]
           found == LiveOrgs \cap (Owned(r.user) \cup OrgsOf(r.primary))
<1>1. /\ r \in ReaderRecord /\ r.at = "refreshOrgs" /\ r.at \in ReaderPending
      /\ Stage(r, s) /\ Watched(r, s)
  BY DEF ReadersInv, Good, ReadRefreshOrgs, ReaderPending
<1>2. r.secondary = {}
  BY <1>1 DEF Stage
<1>3. PICK choice \in Choices(found, r.primary, {}) :
        reader' = [reader EXCEPT ![x] = [r EXCEPT !.at = "ok", !.answer =
          {Item(o, choice[o], RoleOrOwner(choice[o])) : o \in found}]]
  BY DEF ReadRefreshOrgs, Advance, OrgsFound
<1> DEFINE role == [o \in found |-> RoleOrOwner(choice[o])]
<1>4. {Item(o, choice[o], RoleOrOwner(choice[o])) : o \in found}
        = {Item(o, choice[o], role[o]) : o \in found}
  OBVIOUS
<1>5. \A o \in found : role[o] = RoleOrOwner(choice[o])
  OBVIOUS
<1>6. Supports(found, Relations(r), s)
  BY <1>1, OwnedIsHeld DEF Supports, Relations, OrgsOf
<1>7. s.owned \cup (LiveOrgs \cap OrgsOf(Relations(r))) \subseteq found
  BY <1>1, <1>2 DEF Watched, Relations, Owned
<1>8. found \in SUBSET Orgs
  BY DEF LiveOrgs
<1>9. /\ reader' = [reader EXCEPT ![x] = [r EXCEPT !.at = "ok", !.answer =
                      {Item(o, choice[o], role[o]) : o \in found}]]
      /\ r.at \in {"orgs", "refreshOrgs", "listOrgs"}
      /\ choice \in Choices(found, r.primary, r.secondary)
  BY <1>1, <1>2, <1>3, <1>4
<1> HIDE DEF role, found
<1>10. QED
  BY <1>5, <1>6, <1>7, <1>8, <1>9, AnswerOnward

LEMMA ReadListOrgsOnward ==
  ASSUME TypeInv, ReadersInv, NEW x \in Readers, ReadListOrgs(x)
  PROVE  \E n : Onward(x, n)
<1> DEFINE r == reader[x]
           s == seen[x]
           found == r.owned \cup (LiveOrgs \cap OrgsOf(r.primary))
<1>1. /\ r \in ReaderRecord /\ r.at = "listOrgs" /\ r.at \in ReaderPending
      /\ Stage(r, s) /\ Backed(r, s) /\ Complete(r, s) /\ Watched(r, s)
  BY DEF ReadersInv, Good, ReadListOrgs, ReaderPending
<1>2. r.secondary = {} /\ r.kind = "list" /\ r.answer = {}
  BY <1>1 DEF Stage
<1>3. s.owned \cup (LiveOrgs \cap OrgsOf(Relations(r))) \subseteq found
  <2>1. s.owned \subseteq r.owned
    BY <1>1 DEF Complete
  <2>2. Relations(r) = r.primary
    <3>1. Relations(r) = r.primary \cup r.secondary
      BY Zenon DEF Relations
    <3> HIDE DEF r
    <3>2. QED
      BY <1>2, <3>1
  <2>3. QED
    BY <2>1, <2>2
<1>4. CASE found # {}
  <2>1. PICK choice \in Choices(found, r.primary, {}) :
          reader' = [reader EXCEPT ![x] = [r EXCEPT !.at = "ok", !.answer =
            {Item(o, choice[o], RoleOrOwner(choice[o])) : o \in found}]]
    BY <1>4 DEF ReadListOrgs, Advance
  <2> DEFINE role == [o \in found |-> RoleOrOwner(choice[o])]
  <2>2. {Item(o, choice[o], RoleOrOwner(choice[o])) : o \in found}
          = {Item(o, choice[o], role[o]) : o \in found}
    OBVIOUS
  <2>3. \A o \in found : role[o] = RoleOrOwner(choice[o])
    OBVIOUS
  <2>4. Supports(found, Relations(r), s)
    BY <1>1 DEF Supports, Relations, OrgsOf, Backed
  <2>5. found \in SUBSET Orgs
    BY <1>1 DEF LiveOrgs, ReaderRecord
  <2>6. /\ reader' = [reader EXCEPT ![x] = [r EXCEPT !.at = "ok", !.answer =
                        {Item(o, choice[o], role[o]) : o \in found}]]
        /\ r.at \in {"orgs", "refreshOrgs", "listOrgs"}
        /\ choice \in Choices(found, r.primary, r.secondary)
    BY <1>1, <1>2, <2>1, <2>2
  <2> HIDE DEF role, found
  <2>7. QED
    BY <1>3, <2>3, <2>4, <2>5, <2>6, AnswerOnward
<1>5. CASE found = {}
  <2>1. PICK n \in ReaderRecord :
          /\ reader' = [reader EXCEPT ![x] = n]
          /\ n.at = "forbidden"
          /\ n.kind = r.kind /\ n.user = r.user /\ n.ids = r.ids
          /\ n.primary = r.primary /\ n.secondary = r.secondary /\ n.owned = r.owned
          /\ n.answer = r.answer
    <3> DEFINE n == [r EXCEPT !.at = "forbidden"]
    <3>1. reader' = [reader EXCEPT ![x] = n]
      BY <1>5 DEF ReadListOrgs, Advance
    <3>2. n \in ReaderRecord
      BY <1>1 DEF ReaderRecord, ReaderAnswers
    <3>3. /\ n.at = "forbidden"
          /\ n.kind = r.kind /\ n.user = r.user /\ n.ids = r.ids
          /\ n.primary = r.primary /\ n.secondary = r.secondary /\ n.owned = r.owned
          /\ n.answer = r.answer
      BY <1>1 DEF ReaderRecord
    <3>4. QED
      BY <3>1, <3>2, <3>3
  <2>2. Relations(n) = Relations(r) /\ Way(n) = Way(r) /\ (OtherIds(n, s) <=> OtherIds(r, s))
    BY <2>1 DEF Relations, OtherIds, Way
  <2>3. Stage(n, s) /\ Told(n, s) /\ Backed(n, s)
    BY <1>1, <1>2, <2>1, <2>2 DEF Stage, ReaderPending, Told, Backed
  <2>4. Complete(n, s)
    <3>1. ~ OtherIds(r, s)
      BY <1>2 DEF OtherIds
    <3>2. \A k \in s.kept : k.by \in Way(r) => HasRead(r, k)
      BY <1>1, <3>1 DEF Complete
    <3>3. s.owned \cup OrgsOf({k \in s.kept : k.by \in Way(n)}) = {}
      BY <1>1, <1>3, <1>5, <2>2, <3>2, KeptIsFound
    <3>4. QED
      BY <2>1, <3>3 DEF Complete
  <2>5. QED
    BY <2>1, <2>3, <2>4 DEF Onward, Good
<1>6. QED
  BY <1>4, <1>5

LEMMA ReadRelationsOnward ==
  ASSUME TypeInv, ReadersInv, NEW x \in Readers, ReadRelations(x)
  PROVE  \E n : Onward(x, n)
<1> DEFINE r == reader[x]
           s == seen[x]
           found == {p \in LiveParticipants : MatchesSome(participants[p].has, r.ids)}
           new == {Relation(p) : p \in found}
<1>1. /\ r \in ReaderRecord /\ r.at = "relations" /\ r.at \in ReaderPending
      /\ Stage(r, s) /\ Backed(r, s) /\ Watched(r, s)
  BY DEF ReadersInv, Good, ReadRelations, ReaderPending
<1>2. r.kind = "refresh" /\ r.user \in Users /\ r.answer = {} /\ r.secondary = {}
  BY <1>1 DEF Stage
<1>3. new \in SUBSET RelationRecord
  <2>1. found \subseteq LiveParticipants
    OBVIOUS
  <2> HIDE DEF found
  <2>2. QED
    BY <1>2, <2>1, RelationsTyped
<1>4. PICK n \in ReaderRecord :
        /\ reader' = [reader EXCEPT ![x] = n]
        /\ n.at = "refreshOrgs" /\ n.primary = new
        /\ n.kind = r.kind /\ n.user = r.user /\ n.ids = r.ids
        /\ n.secondary = r.secondary /\ n.owned = r.owned /\ n.answer = r.answer
  <2> DEFINE n == [r EXCEPT !.primary = new, !.at = "refreshOrgs"]
  <2>1. reader' = [reader EXCEPT ![x] = n]
    BY DEF ReadRelations, Advance
  <2>2. n \in ReaderRecord
    <3> HIDE DEF new, s
    <3>1. QED
      BY <1>1, <1>3 DEF ReaderRecord, ReaderPending
  <2>3. /\ n.at = "refreshOrgs" /\ n.primary = new
        /\ n.kind = r.kind /\ n.user = r.user /\ n.ids = r.ids
        /\ n.secondary = r.secondary /\ n.owned = r.owned /\ n.answer = r.answer
    BY <1>1 DEF ReaderRecord
  <2>4. QED
    BY <2>1, <2>2, <2>3
<1>5. Stage(n, s) /\ Told(n, s)
  BY <1>1, <1>2, <1>4 DEF Stage, ReaderPending, Told
<1>6. OtherIds(r, s) \/ users[r.user] = r.ids
  BY <1>1, <1>2, OwnIds
<1>7. Backed(n, s)
  <2>1. ASSUME NEW p \in found, users[r.user] = r.ids
        PROVE  HeldBy(p, r.user) # {}
    BY <1>2, <2>1 DEF MatchesSome, HeldBy
  <2>2. Relations(n) \subseteq Relations(r) \cup {Relation(p) : p \in found}
    BY <1>4 DEF Relations
  <2>3. found \in SUBSET LiveParticipants
    OBVIOUS
  <2>4. OtherIds(r, s) \/ \A p \in found : HeldBy(p, r.user) # {}
    BY <1>6, <2>1
  <2> HIDE DEF found, r, s
  <2>5. QED
    BY <1>1, <1>2, <1>4, <2>2, <2>3, <2>4, BackedByReading
<1>8. Complete(n, s)
  <2>1. ASSUME NEW k \in s.kept, users[r.user] = r.ids, k.by \in Identifiers
        PROVE  HasRead(n, k)
    <3>1. k \in Sound(r.user)
      BY <1>1 DEF Watched
    <3>2. k.via \in found
      BY <2>1, <3>1, KeptNow DEF MatchesSome
    <3>3. QED
      BY <1>4, <3>2, NowRead DEF Relations
  <2>2. OtherIds(n, s) <=> OtherIds(r, s)
    BY <1>4 DEF OtherIds
  <2>3. QED
    BY <1>2, <1>4, <1>6, <2>1, <2>2 DEF Complete, Way, ReaderAnswers
<1>9. QED
  BY <1>4, <1>5, <1>7, <1>8 DEF Onward, Good

LEMMA ReadParticipantsOnward ==
  ASSUME TypeInv, ReadersInv, NEW x \in Readers, ReadParticipants(x)
  PROVE  \E n : Onward(x, n)
<1> DEFINE r == reader[x]
           s == seen[x]
           found == {p \in LiveParticipants : /\ participants[p].userId = r.user
                                              /\ participants[p].has["org"] # None}
           new == {Relation(p) : p \in found}
           at == IF r.at = "both" THEN "owns" ELSE "listOrgs"
<1>1. /\ r \in ReaderRecord /\ r.at \in {"both", "participants"} /\ r.at \in ReaderPending
      /\ Stage(r, s) /\ Backed(r, s) /\ Complete(r, s) /\ Watched(r, s)
  BY DEF ReadersInv, Good, ReadParticipants, ReaderPending
<1>2. r.kind = "list" /\ r.user \in Users /\ r.answer = {} /\ r.secondary = {}
  BY <1>1 DEF Stage
<1>3. new \in SUBSET RelationRecord
  <2>1. found \subseteq LiveParticipants
    OBVIOUS
  <2> HIDE DEF found
  <2>2. QED
    BY <1>2, <2>1, RelationsTyped
<1>4. PICK n \in ReaderRecord :
        /\ reader' = [reader EXCEPT ![x] = n]
        /\ n.at = at /\ n.primary = new
        /\ n.kind = r.kind /\ n.user = r.user /\ n.ids = r.ids
        /\ n.secondary = r.secondary /\ n.owned = r.owned /\ n.answer = r.answer
  <2> DEFINE n == [r EXCEPT !.primary = new, !.at = at]
  <2>1. reader' = [reader EXCEPT ![x] = n]
    BY DEF ReadParticipants, Advance
  <2>2. n \in ReaderRecord
    <3>1. at \in ReaderPending
      BY DEF ReaderPending
    <3> HIDE DEF new, at, s
    <3>2. QED
      BY <1>1, <1>3, <3>1 DEF ReaderRecord
  <2>3. /\ n.at = at /\ n.primary = new
        /\ n.kind = r.kind /\ n.user = r.user /\ n.ids = r.ids
        /\ n.secondary = r.secondary /\ n.owned = r.owned /\ n.answer = r.answer
    BY <1>1 DEF ReaderRecord
  <2>4. QED
    BY <2>1, <2>2, <2>3
<1>5. n.at \in {"owns", "listOrgs"} /\ n.at # "idle"
  BY <1>4
<1>6. Stage(n, s) /\ Told(n, s)
  BY <1>1, <1>2, <1>4, <1>5 DEF Stage, ReaderPending, Told
<1>7. Backed(n, s)
  <2>1. \A p \in found : HeldBy(p, r.user) # {}
    BY DEF HeldBy
  <2>2. Relations(n) \subseteq Relations(r) \cup {Relation(p) : p \in found}
    BY <1>4 DEF Relations
  <2>3. found \in SUBSET LiveParticipants
    OBVIOUS
  <2> HIDE DEF found, r, s
  <2>4. QED
    BY <1>1, <1>2, <1>4, <2>1, <2>2, <2>3, BackedByReading
<1>8. Complete(n, s)
  <2>1. ASSUME NEW k \in s.kept, k.by = "userId"
        PROVE  HasRead(n, k)
    <3>1. k \in Sound(r.user)
      BY <1>1 DEF Watched
    <3>2. k.via \in LiveParticipants /\ participants[k.via].userId = r.user
      BY <2>1, <3>1, KeptNow
    <3>3. participants[k.via].has["org"] \in Orgs
      BY <3>1, KeptNow DEF LiveOrgs
    <3>4. k.via \in found
      BY <3>2, <3>3, ParticipantsAssumption
    <3>5. QED
      BY <1>4, <3>4, NowRead DEF Relations
  <2>2. n.at = "listOrgs" => s.owned \subseteq n.owned
    BY <1>1, <1>4 DEF Complete
  <2>3. QED
    BY <1>2, <1>4, <1>5, <2>1, <2>2 DEF Complete, Way, ReaderAnswers
<1>9. QED
  BY <1>4, <1>5, <1>6, <1>7, <1>8 DEF Onward, Good

LEMMA ReadOwnedOnward ==
  ASSUME ReadersInv, NEW x \in Readers, ReadOwned(x)
  PROVE  \E n : Onward(x, n)
<1> DEFINE r == reader[x]
           s == seen[x]
           at == IF r.at = "both" THEN "participants" ELSE "listOrgs"
<1>1. /\ r \in ReaderRecord /\ r.at \in {"both", "owns"} /\ r.at \in ReaderPending
      /\ Stage(r, s) /\ Backed(r, s) /\ Complete(r, s) /\ Watched(r, s)
  BY DEF ReadersInv, Good, ReadOwned, ReaderPending
<1>2. r.kind = "list" /\ r.user \in Users /\ r.answer = {}
  BY <1>1 DEF Stage
<1>3. PICK n \in ReaderRecord :
        /\ reader' = [reader EXCEPT ![x] = n]
        /\ n.at = at /\ n.owned = Owned(r.user)
        /\ n.kind = r.kind /\ n.user = r.user /\ n.ids = r.ids
        /\ n.primary = r.primary /\ n.secondary = r.secondary /\ n.answer = r.answer
  <2> DEFINE n == [r EXCEPT !.owned = Owned(r.user), !.at = at]
  <2>1. reader' = [reader EXCEPT ![x] = n]
    BY DEF ReadOwned, Advance
  <2>2. Owned(r.user) \in SUBSET Orgs
    BY DEF Owned, LiveOrgs
  <2>3. n \in ReaderRecord
    <3>1. at \in ReaderPending
      BY DEF ReaderPending
    <3> HIDE DEF at, s
    <3>2. QED
      BY <1>1, <2>2, <3>1 DEF ReaderRecord
  <2>4. /\ n.at = at /\ n.owned = Owned(r.user)
        /\ n.kind = r.kind /\ n.user = r.user /\ n.ids = r.ids
        /\ n.primary = r.primary /\ n.secondary = r.secondary /\ n.answer = r.answer
    BY <1>1 DEF ReaderRecord
  <2>5. QED
    BY <2>1, <2>3, <2>4
<1>4. n.at \in {"participants", "listOrgs"} /\ n.at # "idle"
  BY <1>3
<1>5. Stage(n, s) /\ Told(n, s)
  BY <1>1, <1>2, <1>3, <1>4 DEF Stage, ReaderPending, Told
<1>6. Relations(n) = Relations(r) /\ Way(n) = Way(r) /\ (OtherIds(n, s) <=> OtherIds(r, s))
  BY <1>3 DEF Relations, OtherIds, Way
<1>7. Backed(n, s)
  BY <1>1, <1>3, <1>6, OwnedIsHeld DEF Backed
<1>8. Complete(n, s)
  <2>1. s.owned \subseteq n.owned
    BY <1>1, <1>3 DEF Watched
  <2>2. n.at = "listOrgs" /\ ~ OtherIds(n, s)
          => \A k \in s.kept : k.by \in Way(n) => HasRead(n, k)
    BY <1>1, <1>3, <1>6 DEF Complete, HasRead
  <2>3. QED
    BY <1>4, <2>1, <2>2 DEF Complete, ReaderAnswers
<1>9. QED
  BY <1>3, <1>4, <1>5, <1>7, <1>8 DEF Onward, Good

\* get-access answers with what it found or, without a participant, for the
\* owner it had found before.
LEMMA ReadParticipantOnward ==
  ASSUME TypeInv, ReadersInv, NEW x \in Readers, ReadParticipant(x)
  PROVE  \E n : Onward(x, n)
<1> DEFINE r == reader[x]
           s == seen[x]
           found == ParticipantsOf(r.user, r.org)
           Answered(relation) ==
             [r EXCEPT !.at = "ok", !.answer = {Item(r.org, relation, RoleOrOwner(relation))}]
<1>1. /\ r \in ReaderRecord /\ r.at = "participant" /\ r.at \in ReaderPending
      /\ Stage(r, s) /\ Backed(r, s) /\ Complete(r, s) /\ Watched(r, s)
  BY DEF ReadersInv, Good, ReadParticipant, ReaderPending
<1>2. /\ r.kind = "access" /\ r.user \in Users /\ r.answer = {} /\ r.org \in Orgs
      /\ r.secondary = {} /\ r.owned \subseteq {r.org}
  BY <1>1 DEF Stage
<1>3. ASSUME NEW relation \in RelationRecord \cup {None},
             reader' = [reader EXCEPT ![x] = Answered(relation)],
             \E h \in s.held :
               /\ h.org = r.org /\ h.via = IF relation = None THEN None ELSE relation.id
               /\ h.role = IF relation = None THEN None ELSE relation.role
      PROVE  \E n : Onward(x, n)
  <2> DEFINE item == Item(r.org, relation, RoleOrOwner(relation))
  <2>1. /\ item.org = r.org
        /\ item.via = IF relation = None THEN None ELSE relation.id
        /\ \/ /\ item.role \in {"owner", "member"}
              /\ relation = None \/ relation.role = None
           \/ relation # None /\ item.role = relation.role
        /\ item \in AnswerRecord
    BY <1>2, ItemFacts
  <2> HIDE DEF item
  <2>2. PICK n \in ReaderRecord :
          /\ reader' = [reader EXCEPT ![x] = n]
          /\ n.at = "ok" /\ n.answer = {item}
          /\ n.kind = r.kind /\ n.user = r.user /\ n.ids = r.ids /\ n.org = r.org
          /\ n.primary = r.primary /\ n.secondary = r.secondary /\ n.owned = r.owned
    <3> DEFINE n == [r EXCEPT !.at = "ok", !.answer = {item}]
    <3>1. reader' = [reader EXCEPT ![x] = n]
      BY <1>3 DEF item
    <3>2. n \in ReaderRecord
      BY <1>1, <2>1 DEF ReaderRecord, ReaderAnswers
    <3>3. /\ n.at = "ok" /\ n.answer = {item}
          /\ n.kind = r.kind /\ n.user = r.user /\ n.ids = r.ids /\ n.org = r.org
          /\ n.primary = r.primary /\ n.secondary = r.secondary /\ n.owned = r.owned
      BY <1>1 DEF ReaderRecord
    <3>4. QED
      BY <3>1, <3>2, <3>3
  <2>3. Stage(n, s)
    BY <1>1, <1>2, <2>2 DEF Stage, ReaderPending
  <2>4. Backed(n, s)
    BY <1>1, <1>2, <2>2 DEF Backed, Relations, OtherIds
  <2>5. Told(n, s)
    BY <1>3, <2>1, <2>2 DEF Told
  <2>6. Complete(n, s)
    BY <1>2, <2>1, <2>2 DEF Complete
  <2>7. QED
    BY <2>2, <2>3, <2>4, <2>5, <2>6 DEF Onward, Good
<1>4. CASE \E p \in found : reader' = [reader EXCEPT ![x] = Answered(Relation(p))]
  <2>1. PICK p \in found : reader' = [reader EXCEPT ![x] = Answered(Relation(p))]
    BY <1>4
  <2>2. p \in LiveParticipants /\ participants[p].userId = r.user /\ participants[p].has["org"] = r.org
    BY DEF ParticipantsOf
  <2>3. HeldBy(p, r.user) # {}
    BY <2>2 DEF HeldBy
  <2>4. /\ Relation(p) \in RelationRecord /\ Relation(p).org = r.org
        /\ [org |-> Relation(p).org, via |-> Relation(p).id, role |-> Relation(p).role] \in s.held
    BY <1>1, <1>2, <2>2, <2>3, HeldNow DEF Watched
  <2>5. Relation(p) # None
    BY <2>4, AccessesAssumption DEF RelationRecord
  <2> DEFINE h == [org |-> Relation(p).org, via |-> Relation(p).id, role |-> Relation(p).role]
  <2>6. /\ h \in s.held /\ h.org = r.org
        /\ h.via = IF Relation(p) = None THEN None ELSE Relation(p).id
        /\ h.role = IF Relation(p) = None THEN None ELSE Relation(p).role
    BY <2>4, <2>5
  <2> HIDE DEF h
  <2>7. QED
    BY <1>3, <2>1, <2>4, <2>6
<1>5. CASE r.owned # {} /\ reader' = [reader EXCEPT ![x] = Answered(None)]
  <2> DEFINE h == [org |-> r.org, via |-> None, role |-> None]
  <2>1. h \in s.held
    BY <1>1, <1>2, <1>5 DEF Backed
  <2>2. h.org = r.org /\ h.via = None /\ h.role = None
    OBVIOUS
  <2> HIDE DEF h
  <2>3. QED
    BY <1>3, <1>5, <2>1, <2>2
<1>6. CASE found = {} /\ r.owned = {} /\ reader' = [reader EXCEPT ![x] = [r EXCEPT !.at = "forbidden"]]
  <2>1. PICK n \in ReaderRecord :
          /\ reader' = [reader EXCEPT ![x] = n]
          /\ n.at = "forbidden"
          /\ n.kind = r.kind /\ n.user = r.user /\ n.ids = r.ids /\ n.org = r.org
          /\ n.primary = r.primary /\ n.secondary = r.secondary /\ n.owned = r.owned
          /\ n.answer = r.answer
    <3> DEFINE n == [r EXCEPT !.at = "forbidden"]
    <3>1. n \in ReaderRecord
      BY <1>1 DEF ReaderRecord, ReaderAnswers
    <3>2. /\ n.at = "forbidden"
          /\ n.kind = r.kind /\ n.user = r.user /\ n.ids = r.ids /\ n.org = r.org
          /\ n.primary = r.primary /\ n.secondary = r.secondary /\ n.owned = r.owned
          /\ n.answer = r.answer
      BY <1>1 DEF ReaderRecord
    <3>3. QED
      BY <1>6, <3>1, <3>2
  <2>2. Stage(n, s) /\ Told(n, s)
    BY <1>1, <1>2, <2>1 DEF Stage, ReaderPending, Told
  <2>3. Backed(n, s)
    BY <1>1, <2>1 DEF Backed, Relations, OtherIds
  <2>4. ASSUME NEW k \in s.kept, k.by = "userId"
        PROVE  k.org # r.org
    <3>1. k \in Sound(r.user)
      BY <1>1 DEF Watched
    <3>2. QED
      BY <1>6, <2>4, <3>1, KeptNow DEF ParticipantsOf
  <2>5. r.org \notin s.owned \cup OrgsOf({k \in s.kept : k.by = "userId"})
    BY <1>1, <1>6, <2>4 DEF Complete, OrgsOf
  <2>6. Complete(n, s)
    BY <1>2, <2>1, <2>5 DEF Complete, Way
  <2>7. QED
    BY <2>1, <2>2, <2>3, <2>6 DEF Onward, Good
<1>7. \/ \E p \in found : reader' = [reader EXCEPT ![x] = Answered(Relation(p))]
      \/ r.owned # {} /\ reader' = [reader EXCEPT ![x] = Answered(None)]
      \/ found = {} /\ r.owned = {} /\ reader' = [reader EXCEPT ![x] = [r EXCEPT !.at = "forbidden"]]
  BY DEF ReadParticipant, Advance
<1>8. QED
  BY <1>4, <1>5, <1>6, <1>7

---------------------------------------------------------------------------
(* The invariant. *)

LEMMA StartGood ==
  ASSUME TypeInv, ReadersInv, NEW x \in Readers, StartReader(x)
  PROVE  \E u \in Users, n \in ReaderRecord :
           /\ reader[x].at = "idle"
           /\ reader' = [reader EXCEPT ![x] = n]
           /\ n.at # "idle" /\ n.user = u
           /\ Good(n, Start(u))
<1>1. PICK u \in Users : \/ \E field \in Identifiers : Login(x, u, field)
                         \/ Refresh(x, u)
                         \/ \E o \in Known : GetAccess(x, u, o)
                         \/ GetAccesses(x, u)
  BY DEF StartReader
<1>2. NewReader \in ReaderRecord
  BY DEF NewReader, ReaderRecord
<1>3. users[u] \in [Identifiers -> Values \cup {None}]
  BY DEF TypeInv
<1>4. ASSUME NEW n \in ReaderRecord,
             n.kind \in {"login", "refresh"}, n.ids = users[u], n.user = u,
             \/ n.kind = "login" /\ n.at = "primary" /\ n.field \in Identifiers
             \/ n.kind = "refresh" /\ n.at = "relations",
             n.primary = {}, n.secondary = {}, n.owned = {}, n.answer = {}
      PROVE  Good(n, Start(u))
  <2>1. Stage(n, Start(u))
    BY <1>4 DEF Stage, Start
  <2>2. Backed(n, Start(u)) /\ Told(n, Start(u))
    BY <1>4 DEF Backed, Relations, Told
  <2>3. Complete(n, Start(u))
    BY <1>4 DEF Complete, ReaderAnswers
  <2>4. QED
    BY <2>1, <2>2, <2>3 DEF Good
<1>5. ASSUME NEW field \in Identifiers, Login(x, u, field)
      PROVE  \E n \in ReaderRecord :
               /\ reader' = [reader EXCEPT ![x] = n]
               /\ n.at # "idle" /\ n.user = u /\ Good(n, Start(u))
  <2> DEFINE n == [NewReader EXCEPT !.at = "primary", !.user = u, !.ids = users[u],
                                    !.field = field]
  <2>1. n \in ReaderRecord
    BY <1>2, <1>3 DEF ReaderRecord, ReaderPending
  <2>2. /\ n.kind = "login" /\ n.at = "primary" /\ n.field = field /\ n.ids = users[u]
        /\ n.user = u /\ n.primary = {} /\ n.secondary = {} /\ n.owned = {} /\ n.answer = {}
    BY DEF NewReader
  <2>3. reader' = [reader EXCEPT ![x] = n]
    BY <1>5 DEF Login, Advance
  <2> HIDE DEF n
  <2>4. Good(n, Start(u))
    BY <1>4, <2>1, <2>2
  <2>5. QED
    BY <2>1, <2>2, <2>3, <2>4
<1>6. ASSUME Refresh(x, u)
      PROVE  \E n \in ReaderRecord :
               /\ reader' = [reader EXCEPT ![x] = n]
               /\ n.at # "idle" /\ n.user = u /\ Good(n, Start(u))
  <2> DEFINE n == [NewReader EXCEPT !.kind = "refresh", !.at = "relations",
                                    !.user = u, !.ids = users[u]]
  <2>1. n \in ReaderRecord
    BY <1>2, <1>3 DEF ReaderRecord, ReaderPending
  <2>2. /\ n.kind = "refresh" /\ n.at = "relations" /\ n.ids = users[u]
        /\ n.user = u /\ n.primary = {} /\ n.secondary = {} /\ n.owned = {} /\ n.answer = {}
    BY DEF NewReader
  <2>3. reader' = [reader EXCEPT ![x] = n]
    BY <1>6 DEF Refresh, Advance
  <2> HIDE DEF n
  <2>4. Good(n, Start(u))
    BY <1>4, <2>1, <2>2
  <2>5. QED
    BY <2>1, <2>2, <2>3, <2>4
<1>7. ASSUME NEW o \in Known, GetAccess(x, u, o)
      PROVE  \E n \in ReaderRecord :
               /\ reader' = [reader EXCEPT ![x] = n]
               /\ n.at # "idle" /\ n.user = u /\ Good(n, Start(u))
  <2> DEFINE at == IF o \in LiveOrgs THEN "participant" ELSE "forbidden"
             n == [NewReader EXCEPT !.kind = "access", !.user = u, !.org = o,
                                    !.at = at, !.owned = {o} \cap Owned(u)]
  <2>1. o \in Orgs
    BY DEF Known, LiveOrgs, Orgs
  <2>2. n \in ReaderRecord
    <3>1. at \in ReaderPending \cup ReaderAnswers
      BY DEF ReaderPending, ReaderAnswers
    <3>2. {o} \cap Owned(u) \in SUBSET Orgs
      BY <2>1
    <3> HIDE DEF at
    <3>3. QED
      BY <1>2, <2>1, <3>1, <3>2 DEF ReaderRecord
  <2>3. /\ n.kind = "access" /\ n.at = at /\ n.org = o /\ n.owned = {o} \cap Owned(u)
        /\ n.user = u /\ n.primary = {} /\ n.secondary = {} /\ n.answer = {}
    BY DEF NewReader
  <2>4. reader' = [reader EXCEPT ![x] = n]
    BY <1>7 DEF GetAccess, Advance
  <2> HIDE DEF n
  <2>5. n.at \in {"participant", "forbidden"}
    BY <2>3
  <2>6. Stage(n, Start(u)) /\ Told(n, Start(u))
    BY <2>1, <2>3, <2>5 DEF Stage, Told
  <2>7. Backed(n, Start(u))
    BY <2>3 DEF Backed, Relations, Start, Holdings
  <2>8. n.at = "forbidden" => o \notin Owned(u) \cup OrgsOf(Sound(u))
    BY <2>3, KeptNow DEF Owned, OrgsOf
  <2>9. Complete(n, Start(u))
    <3>1. OrgsOf({k \in Start(u).kept : k.by \in Way(n)}) \subseteq OrgsOf(Sound(u))
      BY DEF OrgsOf, Start
    <3>2. n.at = "forbidden" =>
            {n.org} \cap (Start(u).owned \cup OrgsOf({k \in Start(u).kept : k.by \in Way(n)})) = {}
      BY <2>3, <2>8, <3>1 DEF Start
    <3>3. Start(u).owned \cap {n.org} \subseteq n.owned
      BY <2>3 DEF Start
    <3>4. QED
      BY <2>3, <2>5, <3>2, <3>3 DEF Complete, ReaderAnswers
  <2>10. QED
    BY <2>2, <2>3, <2>4, <2>5, <2>6, <2>7, <2>9 DEF Good
<1>8. ASSUME GetAccesses(x, u)
      PROVE  \E n \in ReaderRecord :
               /\ reader' = [reader EXCEPT ![x] = n]
               /\ n.at # "idle" /\ n.user = u /\ Good(n, Start(u))
  <2> DEFINE n == [NewReader EXCEPT !.kind = "list", !.at = "both", !.user = u]
  <2>1. n \in ReaderRecord
    BY <1>2 DEF ReaderRecord, ReaderPending
  <2>2. /\ n.kind = "list" /\ n.at = "both"
        /\ n.user = u /\ n.primary = {} /\ n.secondary = {} /\ n.owned = {} /\ n.answer = {}
    BY DEF NewReader
  <2>3. reader' = [reader EXCEPT ![x] = n]
    BY <1>8 DEF GetAccesses, Advance
  <2> HIDE DEF n
  <2>4. Stage(n, Start(u)) /\ Backed(n, Start(u)) /\ Told(n, Start(u))
    BY <2>2 DEF Stage, Backed, Relations, Told
  <2>5. Complete(n, Start(u))
    BY <2>2 DEF Complete, ReaderAnswers
  <2>6. QED
    BY <2>1, <2>2, <2>3, <2>4, <2>5 DEF Good
<1>9. reader[x].at = "idle"
  BY <1>1 DEF Login, Refresh, GetAccess, GetAccesses
<1>10. QED
  BY <1>1, <1>5, <1>6, <1>7, <1>8, <1>9

LEMMA StepOnward ==
  ASSUME TypeInv, ReadersInv, NEW x \in Readers, ReaderStep(x)
  PROVE  reader[x].at \in ReaderPending /\ \E n : Onward(x, n)
<1>1. reader[x].at \in ReaderPending
  BY DEF ReaderStep, ReadPrimary, ReadSecondary, CheckOwned, ReadOrgs, ReadRelations,
         ReadRefreshOrgs, ReadParticipant, ReadParticipants, ReadOwned, ReadListOrgs,
         ReaderPending
<1>2. QED
  BY <1>1, ReadPrimaryOnward, ReadSecondaryOnward, CheckOwnedOnward, ReadOrgsOnward,
     ReadRelationsOnward, ReadRefreshOrgsOnward, ReadParticipantOnward,
     ReadParticipantsOnward, ReadOwnedOnward, ReadListOrgsOnward
  DEF ReaderStep

\* A reader that takes no step.
LEMMA WaitingStays ==
  ASSUME ReadersInv, See, NEW y \in Readers, reader'[y] = reader[y]
  PROVE  Good(reader[y], seen[y])' /\ Watched(reader[y], seen[y])'
<1> DEFINE u == reader[y].user
<1>1. Good(reader[y], seen[y]) /\ reader[y] \in ReaderRecord
  BY DEF ReadersInv
<1>2. CASE reader[y].at \in ReaderPending
  <2>1. u \in Users /\ reader[y].at # "idle"
    BY <1>1, <1>2 DEF Good, Stage, ReaderPending
  <2>2. PICK v \in Users : v = reader[y].user
    BY <2>1
  <2>3. /\ Grows(seen[y], seen'[y])
        /\ Holdings(v)' \subseteq seen'[y].held
        /\ seen'[y].kept \subseteq Sound(v)'
        /\ seen'[y].owned \subseteq Owned(v)'
        /\ users'[v] \in seen'[y].ids
        /\ Loose(v)' \subseteq seen'[y].loose
    BY <1>2, <2>1, <2>2, SeeStep
  <2>4. Good(reader[y], seen'[y])
    BY <1>1, <2>1, <2>3, GoodStays
  <2>5. Watched(reader[y], seen[y])'
    BY <2>2, <2>3 DEF Watched
  <2>6. QED
    BY <2>4, <2>5
<1>3. CASE reader[y].at \notin ReaderPending
  <2>1. reader[y].at = "idle" \/ reader[y].at \in ReaderAnswers
    BY <1>1, <1>3 DEF ReaderRecord
  <2>2. seen'[y] = seen[y]
    BY <2>1, SeeFrozen
  <2>3. Good(reader[y], seen[y])'
    BY <1>1, <2>2
  <2>4. Watched(reader[y], seen[y])'
    BY <1>3 DEF Watched
  <2>5. QED
    BY <2>3, <2>4
<1>4. QED
  BY <1>2, <1>3

\* A step of one reader, which goes on as n.
LEMMA ReaderMoves ==
  ASSUME ReadersInv, See, UNCHANGED vars, NEW x \in Readers, NEW n,
         reader' = [reader EXCEPT ![x] = n],
         Good(n, seen'[x]), Watched(n, seen'[x])
  PROVE  ReadersInv'
<1>1. reader \in [Readers -> ReaderRecord] /\ n \in ReaderRecord
  BY DEF ReadersInv, Good
<1>2. reader' \in [Readers -> ReaderRecord] /\ reader'[x] = n
  BY <1>1
<1>3. Good(reader[x], seen[x])'
  BY <1>2
<1>4. Watched(reader[x], seen[x])'
  BY <1>2 DEF Watched, Holdings, Sound, Owned, Loose, HeldBy, LiveParticipants, LiveOrgs, vars
<1>5. ASSUME NEW y \in Readers, y # x
      PROVE  Good(reader[y], seen[y])' /\ Watched(reader[y], seen[y])'
  BY <1>1, <1>5, WaitingStays
<1>6. QED
  BY <1>2, <1>3, <1>4, <1>5 DEF ReadersInv

LEMMA ReadersNext ==
  ASSUME TypeInv, ReadersInv, AccessesNext
  PROVE  ReadersInv'
<1>1. CASE Next /\ UNCHANGED reader
  BY <1>1, WaitingStays DEF ReadersInv, AccessesNext
<1>2. ASSUME NEW x \in Readers, StartReader(x)
      PROVE  ReadersInv'
  <2>1. PICK u \in Users, n \in ReaderRecord :
          /\ reader[x].at = "idle"
          /\ reader' = [reader EXCEPT ![x] = n]
          /\ n.at # "idle" /\ n.user = u
          /\ Good(n, Start(u))
    BY <1>2, StartGood
  <2>2. reader'[x] = n
    BY <2>1 DEF ReadersInv
  <2>3. seen'[x] = Start(u)
    BY <2>1, <2>2, SeeStart DEF AccessesNext
  <2>4. Watched(n, seen'[x])
    BY <2>1, <2>3 DEF Watched, Start
  <2>5. UNCHANGED vars
    BY <1>2 DEF StartReader, Login, Refresh, GetAccess, GetAccesses, Unchanged
  <2>6. QED
    BY <2>1, <2>3, <2>4, <2>5, ReaderMoves DEF AccessesNext
<1>3. ASSUME NEW x \in Readers, ReaderStep(x)
      PROVE  ReadersInv'
  <2>1. PICK n : Onward(x, n)
    BY <1>3, StepOnward
  <2>2. reader[x].at \in ReaderPending
    BY <1>3, StepOnward
  <2>3. reader'[x] = n /\ n.at # "idle" /\ n.user = reader[x].user /\ Good(n, seen[x])
    BY <2>1 DEF ReadersInv, Onward
  <2>4. UNCHANGED vars
    BY <1>3 DEF ReaderStep, ReadPrimary, ReadSecondary, CheckOwned, ReadOrgs, ReadRelations,
         ReadRefreshOrgs, ReadParticipant, ReadParticipants, ReadOwned, ReadListOrgs, Unchanged
  <2>5. PICK u \in Users : u = reader[x].user
    BY <2>2 DEF ReadersInv, Good, Stage
  <2>6. /\ Grows(seen[x], seen'[x])
        /\ Holdings(u)' \subseteq seen'[x].held
        /\ seen'[x].kept \subseteq Sound(u)'
        /\ seen'[x].owned \subseteq Owned(u)'
        /\ users'[u] \in seen'[x].ids
        /\ Loose(u)' \subseteq seen'[x].loose
    BY <2>2, <2>3, <2>5, SeeStep DEF AccessesNext
  <2>7. Good(n, seen'[x])
    BY <2>3, <2>6, GoodStays
  <2>8. /\ Holdings(u)' = Holdings(u) /\ Sound(u)' = Sound(u) /\ Owned(u)' = Owned(u)
        /\ Loose(u)' = Loose(u)
    BY <2>4 DEF Holdings, Sound, Owned, Loose, HeldBy, LiveParticipants, LiveOrgs, vars
  <2>9. Watched(n, seen'[x])
    BY <2>3, <2>4, <2>5, <2>6, <2>8 DEF Watched, vars
  <2>10. reader' = [reader EXCEPT ![x] = n]
    BY <2>1 DEF Onward
  <2>11. QED
    BY <2>4, <2>7, <2>9, <2>10, ReaderMoves DEF AccessesNext
<1>4. QED
  BY <1>1, <1>2, <1>3 DEF AccessesNext

LEMMA ReadersStutter ==
  ASSUME ReadersInv, UNCHANGED accessVars
  PROVE  ReadersInv'
BY DEF ReadersInv, Good, Watched, Holdings, Sound, Owned, Loose, HeldBy, LiveParticipants, LiveOrgs,
       vars, accessVars

LEMMA ReadersInit == AccessesInit => ReadersInv
<1> SUFFICES ASSUME AccessesInit
             PROVE  ReadersInv
  OBVIOUS
<1>1. ASSUME NEW x \in Readers
      PROVE  Good(reader[x], seen[x]) /\ Watched(reader[x], seen[x])
  BY IdleGood DEF AccessesInit, Watched, NewReader, ReaderPending
<1>2. QED
  BY <1>1 DEF ReadersInv, AccessesInit, Good

\* Readers leave the documents alone: every behaviour of Accesses is one of
\* Participants, and what is proved of that module holds next to any readers.
THEOREM AccessesOnlyRead == AccessesSpec => Spec
<1>1. AccessesInit => Init
  BY DEF AccessesInit
<1>2. AccessesNext => Next \/ UNCHANGED vars
  BY DEF AccessesNext, StartReader, Login, Refresh, GetAccess, GetAccesses,
         ReaderStep, ReadPrimary, ReadSecondary, CheckOwned, ReadOrgs, ReadRelations,
         ReadRefreshOrgs, ReadParticipant, ReadParticipants, ReadOwned, ReadListOrgs,
         Unchanged
<1>3. [AccessesNext]_accessVars => [Next]_vars
  BY <1>2 DEF accessVars
<1>4. QED
  BY <1>1, <1>3, PTL DEF AccessesSpec, Spec

LEMMA ReadersAlways == AccessesSpec => []ReadersInv
<1>1. ParticipantsInv => TypeInv
  BY DEF ParticipantsInv
<1>2. TypeInv /\ ReadersInv /\ [AccessesNext]_accessVars => ReadersInv'
  BY ReadersNext, ReadersStutter
<1>3. QED
  BY <1>1, <1>2, ReadersInit, AccessesOnlyRead, InvHolds, PTL DEF AccessesSpec

\* A reader has an answer only when it has answered, of organizations and
\* roles that exist: the role unknown is never told.
THEOREM AnswersTyped == AccessesSpec => []AccessesTypeOK
<1>1. ReadersInv => AccessesTypeOK
  BY DEF ReadersInv, Good, Stage, AccessesTypeOK, ReaderRecord, AnswerRecord
<1>2. QED
  BY <1>1, ReadersAlways, PTL

\* What a reader is told held at some moment since it started.
THEOREM OnlyHeldIsTold == AccessesSpec => []ToldWasHeld
<1>1. ReadersInv => ToldWasHeld
  BY DEF ReadersInv, Good, Told, ToldWasHeld, OtherIds, Renamed, ByIdentifiers
<1>2. QED
  BY <1>1, ReadersAlways, PTL

\* What was the user's all the time is told, whatever was written meanwhile;
\* what may come instead is the failure of a login that read a participant
\* without organization.
THEOREM AllKeptIsTold == AccessesSpec => []KeptIsTold
<1>1. ReadersInv => KeptIsTold
  <2> SUFFICES ASSUME ReadersInv, NEW x \in Readers
               PROVE  Complete(reader[x], seen[x])
    BY DEF KeptIsTold, Complete, OtherIds, Renamed, ByIdentifiers, Way
  <2>1. QED
    BY DEF ReadersInv, Good
<1>2. QED
  BY <1>1, ReadersAlways, PTL

---------------------------------------------------------------------------
(* The merge of a commissionConfig. *)

\* An administrators' update that sends a commissionConfig, but not this field
\* of it, keeps the value that was stored there; of the fields no
\* commissionConfig has, nothing is kept.
THEOREM MergeKeepsFields ==
  ASSUME NEW existing \in Metadata, NEW new \in Metadata,
         existing.commissionConfig \in Configs, new.commissionConfig \in Configs,
         NEW p \in Paths,
         new.commissionConfig[p] = Unset,
         existing.commissionConfig[p] \notin {Unset, Null}
  PROVE  mergeMetadata(existing, new).commissionConfig[p] =
           IF p = "unknown" THEN Unset ELSE existing.commissionConfig[p]
<1> DEFINE old == existing.commissionConfig
           config == new.commissionConfig
           merged == MergedConfig(old, config)
<1>1. /\ new # Unset /\ existing # Unset
      /\ config \notin {Null, Unset} /\ old \notin {Null, Unset}
  BY CommissionAssumption
<1>2. mergeMetadata(existing, new).commissionConfig = WithDefaults(merged)
  BY <1>1 DEF mergeMetadata, ConfigOf
<1>3. merged[p] = old[p]
  BY DEF MergedConfig, Over
<1>4. WithDefaults(merged)[p] = IF p = "unknown" THEN Unset ELSE merged[p]
  BY <1>3 DEF WithDefaults
<1>5. QED
  BY <1>2, <1>3, <1>4

\* After an update that sends a commissionConfig every field that has a default
\* is there, whatever was stored.
THEOREM MergeCompletes ==
  ASSUME NEW existing \in Metadata \cup {Unset}, NEW new \in Metadata,
         new.commissionConfig \in Configs, NEW p \in Defaulted
  PROVE  mergeMetadata(existing, new).commissionConfig[p] \notin {Unset, Null}
<1>1. PICK config : mergeMetadata(existing, new).commissionConfig = WithDefaults(config)
  <2>1. new # Unset /\ new.commissionConfig \notin {Null, Unset}
    BY CommissionAssumption
  <2>2. CASE existing = Unset
    BY <2>1, <2>2 DEF mergeMetadata, applyCommissionDefaults, Metadata
  <2>3. CASE existing # Unset
    BY <2>1, <2>3 DEF mergeMetadata
  <2>4. QED
    BY <2>2, <2>3
<1>2. p \in Paths /\ p # "unknown"
  BY DEF Paths, Defaulted, Rules
<1>3. WithDefaults(config)[p] \notin {Unset, Null}
  BY <1>2, CommissionAssumption DEF WithDefaults
<1>4. QED
  BY <1>1, <1>3

\* What a document without metadata has of either part of it.
StoredConfig(existing) == IF existing = Unset THEN Unset ELSE existing.commissionConfig
StoredNote(existing) == IF existing = Unset THEN Unset ELSE existing.note

\* A stored commissionConfig, if there is one, after one that is sent.
ConfigAfter(old, new) ==
  IF new \in {Null, Unset} THEN Over(old, new)
  ELSE WithDefaults(MergedConfig(IF old \in {Null, Unset} THEN EmptyConfig ELSE old, new))

\* The merge treats a participant without metadata as one with empty metadata:
\* its early returns for the one and the other are one rule.
LEMMA MergeIs ==
  ASSUME NEW existing \in Metadata \cup {Unset}, NEW new \in Metadata
  PROVE  /\ mergeMetadata(existing, new) =
              [commissionConfig |-> ConfigAfter(StoredConfig(existing), new.commissionConfig),
               note |-> Over(StoredNote(existing), new.note)]
         /\ mergeMetadata(existing, new) \in Metadata
<1> DEFINE config == new.commissionConfig
           merge == [commissionConfig |-> ConfigAfter(StoredConfig(existing), config),
                     note |-> Over(StoredNote(existing), new.note)]
<1>1. /\ new # Unset /\ config \in Configs \cup {Null, Unset}
      /\ new.note \in Amounts \cup {Null, Unset}
      /\ new = [commissionConfig |-> config, note |-> new.note]
      /\ Null \notin Configs /\ Unset \notin Configs
  BY CommissionAssumption DEF Metadata
<1>2. \A c \in Configs : MergedConfig(EmptyConfig, c) = c /\ WithDefaults(c) \in Configs
  BY DEF MergedConfig, EmptyConfig, Over, Configs, WithDefaults
<1>3. \A b, c \in Configs : MergedConfig(b, c) \in Configs
  BY DEF MergedConfig, Over, Configs
<1>4. EmptyConfig \in Configs
  BY DEF EmptyConfig, Configs
<1>5. CASE existing = Unset
  <2>1. mergeMetadata(existing, new) = applyCommissionDefaults(new)
    BY <1>1, <1>5 DEF mergeMetadata
  <2>2. CASE config \in {Null, Unset}
    <3>1. mergeMetadata(existing, new) = new
      BY <1>1, <2>1, <2>2 DEF applyCommissionDefaults
    <3>2. merge = new
      BY <1>1, <1>5, <2>2 DEF ConfigAfter, StoredConfig, StoredNote, Over
    <3>3. QED
      BY <3>1, <3>2
  <2>3. CASE config \in Configs
    <3>1. mergeMetadata(existing, new) = [commissionConfig |-> WithDefaults(config),
                                          note |-> new.note]
      BY <1>1, <2>1, <2>3 DEF applyCommissionDefaults
    <3>2. ConfigAfter(StoredConfig(existing), config) = WithDefaults(config)
      BY <1>1, <1>2, <1>5, <2>3 DEF ConfigAfter, StoredConfig
    <3>3. Over(StoredNote(existing), new.note) = new.note
      BY <1>5 DEF StoredNote, Over
    <3>4. QED
      BY <1>1, <1>2, <2>3, <3>1, <3>2, <3>3 DEF Metadata
  <2>4. QED
    BY <1>1, <2>2, <2>3
<1>6. CASE existing # Unset
  <2>1. /\ existing.commissionConfig \in Configs \cup {Null, Unset}
        /\ existing.note \in Amounts \cup {Null, Unset}
    BY <1>6 DEF Metadata
  <2>2. mergeMetadata(existing, new) = merge
    BY <1>1, <1>6
    DEF mergeMetadata, ConfigAfter, ConfigOf, StoredConfig, StoredNote
  <2>3. ConfigAfter(StoredConfig(existing), config) \in Configs \cup {Null, Unset}
    BY <1>1, <1>2, <1>3, <1>4, <1>6, <2>1 DEF ConfigAfter, StoredConfig, Over
  <2>4. Over(StoredNote(existing), new.note) \in Amounts \cup {Null, Unset}
    BY <1>1, <1>6, <2>1 DEF Over, StoredNote
  <2>5. QED
    BY <2>2, <2>3, <2>4 DEF Metadata
<1>7. QED
  BY <1>5, <1>6

\* An update that arrives twice in a row (an answer was lost and it is sent
\* again) leaves what it left the first time.
THEOREM MergeRepeats ==
  ASSUME NEW existing \in Metadata \cup {Unset}, NEW new \in Metadata
  PROVE  mergeMetadata(mergeMetadata(existing, new), new) = mergeMetadata(existing, new)
<1> DEFINE once == mergeMetadata(existing, new)
           config == new.commissionConfig
           old == StoredConfig(existing)
<1>1. /\ once = [commissionConfig |-> ConfigAfter(old, config),
                 note |-> Over(StoredNote(existing), new.note)]
      /\ once \in Metadata
  BY MergeIs
<1>2. StoredConfig(once) = ConfigAfter(old, config)
      /\ StoredNote(once) = Over(StoredNote(existing), new.note)
  BY <1>1, CommissionAssumption DEF StoredConfig, StoredNote
<1>3. config \in Configs \cup {Null, Unset} /\ old \in Configs \cup {Null, Unset}
      /\ Null \notin Configs /\ Unset \notin Configs
  BY CommissionAssumption DEF Metadata, StoredConfig
<1>4. ConfigAfter(ConfigAfter(old, config), config) = ConfigAfter(old, config)
  <2>1. CASE config \in {Null, Unset}
    BY <2>1 DEF ConfigAfter, Over
  <2>2. CASE config \in Configs
    <3> DEFINE base == IF old \in {Null, Unset} THEN EmptyConfig ELSE old
               first == WithDefaults(MergedConfig(base, config))
    <3>1. ConfigAfter(old, config) = first
      BY <1>3, <2>2 DEF ConfigAfter
    <3>2. base \in Configs
      BY <1>3 DEF EmptyConfig, Configs
    <3>3. first \in Configs
      BY <2>2, <3>2 DEF MergedConfig, Over, WithDefaults, Configs
    <3>4. ConfigAfter(first, config) = WithDefaults(MergedConfig(first, config))
      BY <1>3, <2>2, <3>3 DEF ConfigAfter
    <3>5. ASSUME NEW p \in Paths
          PROVE  WithDefaults(MergedConfig(first, config))[p] = first[p]
      BY <2>2, <3>2, CommissionAssumption DEF MergedConfig, Over, WithDefaults, Configs
    <3>6. WithDefaults(MergedConfig(first, config)) = first
      BY <3>3, <3>5 DEF WithDefaults, Configs
    <3>7. QED
      BY <3>1, <3>4, <3>6
  <2>3. QED
    BY <1>3, <2>1, <2>2
<1>5. Over(Over(StoredNote(existing), new.note), new.note) = Over(StoredNote(existing), new.note)
  BY DEF Over
<1> HIDE DEF once
<1>6. mergeMetadata(once, new) = [commissionConfig |-> ConfigAfter(StoredConfig(once), config),
                                  note |-> Over(StoredNote(once), new.note)]
  BY <1>1, MergeIs
<1>7. QED
  BY <1>1, <1>2, <1>4, <1>5, <1>6 DEF once

\* No field of the metadata, and none of the commissionConfig, is set by both.
Disjoint(a, b) ==
  /\ a.note = Unset \/ b.note = Unset
  /\ \/ a.commissionConfig = Unset \/ b.commissionConfig = Unset
     \/ /\ a.commissionConfig \in Configs /\ b.commissionConfig \in Configs
        /\ \A p \in Paths : a.commissionConfig[p] = Unset \/ b.commissionConfig[p] = Unset

\* Two updates of different fields leave the same metadata in either order,
\* defaults included: when each is saved before the next reads, the order in
\* which they come does not matter.
THEOREM MergesCommute ==
  ASSUME NEW existing \in Metadata \cup {Unset}, NEW a \in Metadata, NEW b \in Metadata,
         Disjoint(a, b)
  PROVE  mergeMetadata(mergeMetadata(existing, a), b)
           = mergeMetadata(mergeMetadata(existing, b), a)
<1> DEFINE old == StoredConfig(existing)
           note == StoredNote(existing)
           x == a.commissionConfig
           y == b.commissionConfig
<1>1. ASSUME NEW m \in Metadata, NEW n \in Metadata
      PROVE  mergeMetadata(mergeMetadata(existing, m), n) =
               [commissionConfig |-> ConfigAfter(ConfigAfter(old, m.commissionConfig),
                                                 n.commissionConfig),
                note |-> Over(Over(note, m.note), n.note)]
  <2> DEFINE once == mergeMetadata(existing, m)
  <2>1. /\ once = [commissionConfig |-> ConfigAfter(old, m.commissionConfig),
                   note |-> Over(note, m.note)]
        /\ once \in Metadata
    BY MergeIs
  <2>2. /\ StoredConfig(once) = ConfigAfter(old, m.commissionConfig)
        /\ StoredNote(once) = Over(note, m.note)
    BY <2>1, CommissionAssumption DEF StoredConfig, StoredNote
  <2> HIDE DEF once
  <2>3. mergeMetadata(once, n) =
          [commissionConfig |-> ConfigAfter(StoredConfig(once), n.commissionConfig),
           note |-> Over(StoredNote(once), n.note)]
    BY <2>1, MergeIs
  <2>4. QED
    BY <2>2, <2>3 DEF once
<1>2. /\ x \in Configs \cup {Null, Unset} /\ y \in Configs \cup {Null, Unset}
      /\ old \in Configs \cup {Null, Unset} /\ Null \notin Configs /\ Unset \notin Configs
  BY CommissionAssumption DEF Metadata, StoredConfig
<1>3. Over(Over(note, a.note), b.note) = Over(Over(note, b.note), a.note)
  BY DEF Disjoint, Over
<1>4. ConfigAfter(ConfigAfter(old, x), y) = ConfigAfter(ConfigAfter(old, y), x)
  <2>1. CASE x = Unset \/ y = Unset
    BY <2>1 DEF ConfigAfter, Over
  <2>2. CASE ~ (x = Unset \/ y = Unset)
    <3> DEFINE base == IF old \in {Null, Unset} THEN EmptyConfig ELSE old
    <3>1. /\ x \in Configs /\ y \in Configs
          /\ \A p \in Paths : x[p] = Unset \/ y[p] = Unset
      BY <2>2 DEF Disjoint
    <3>2. base \in Configs
      BY <1>2 DEF EmptyConfig, Configs
    <3>3. ASSUME NEW c \in Configs, NEW d \in Configs
          PROVE  ConfigAfter(ConfigAfter(old, c), d)
                   = WithDefaults(MergedConfig(WithDefaults(MergedConfig(base, c)), d))
      <4>1. ConfigAfter(old, c) = WithDefaults(MergedConfig(base, c))
        BY <1>2 DEF ConfigAfter
      <4>2. WithDefaults(MergedConfig(base, c)) \in Configs
        BY <3>2 DEF MergedConfig, Over, WithDefaults, Configs
      <4>3. QED
        BY <1>2, <4>1, <4>2 DEF ConfigAfter
    <3>4. ASSUME NEW p \in Paths
          PROVE  WithDefaults(MergedConfig(WithDefaults(MergedConfig(base, x)), y))[p]
                   = WithDefaults(MergedConfig(WithDefaults(MergedConfig(base, y)), x))[p]
      BY <3>1, <3>2, CommissionAssumption DEF MergedConfig, Over, WithDefaults, Configs
    <3>5. WithDefaults(MergedConfig(WithDefaults(MergedConfig(base, x)), y))
            = WithDefaults(MergedConfig(WithDefaults(MergedConfig(base, y)), x))
      BY <3>4 DEF WithDefaults
    <3>6. QED
      BY <3>1, <3>3, <3>5
  <2>3. QED
    BY <2>1, <2>2
<1>5. QED
  BY <1>1, <1>3, <1>4

=============================================================================
