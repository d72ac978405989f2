-------------------------- MODULE ParticipantsProofs --------------------------
(***************************************************************************)
(* Theorems about Participants: every property its run checks.             *)
(***************************************************************************)
EXTENDS Participants, TLAPS

---------------------------------------------------------------------------
(* Metadata. *)

LEMMA ConfigType ==
  ASSUME NEW meta \in Metadata \cup {Unset}
  PROVE  ConfigOf(meta) \in Configs
<1>1. EmptyConfig \in Configs
  BY DEF EmptyConfig, Configs
<1>2. CASE meta = Unset
  BY <1>1, <1>2 DEF ConfigOf
<1>3. CASE meta \in Metadata
  BY <1>1, <1>3 DEF ConfigOf, Metadata
<1>4. QED
  BY <1>2, <1>3

LEMMA DefaultsType ==
  ASSUME NEW config \in Configs
  PROVE  WithDefaults(config) \in Configs
BY DEF WithDefaults, Configs

LEMMA ApplyType ==
  ASSUME NEW meta \in Metadata \cup {Unset}
  PROVE  applyCommissionDefaults(meta) \in Metadata \cup {Unset}
<1>1. CASE meta = Unset \/ meta.commissionConfig \in {Null, Unset}
  BY <1>1 DEF applyCommissionDefaults
<1>2. CASE ~ (meta = Unset \/ meta.commissionConfig \in {Null, Unset})
  <2>1. meta \in Metadata /\ meta.commissionConfig \in Configs
    BY <1>2 DEF Metadata
  <2>2. WithDefaults(meta.commissionConfig) \in Configs
    BY <2>1, DefaultsType
  <2>3. applyCommissionDefaults(meta)
          = [meta EXCEPT !.commissionConfig = WithDefaults(meta.commissionConfig)]
    BY <1>2 DEF applyCommissionDefaults
  <2>4. QED
    BY <2>1, <2>2, <2>3 DEF Metadata
<1>3. QED
  BY <1>1, <1>2

LEMMA MergedType ==
  ASSUME NEW old \in Configs, NEW new \in Configs
  PROVE  MergedConfig(old, new) \in Configs
BY DEF MergedConfig, Over, Configs

LEMMA MergeType ==
  ASSUME NEW existing \in Metadata \cup {Unset}, NEW new \in Metadata \cup {Unset}
  PROVE  mergeMetadata(existing, new) \in Metadata \cup {Unset}
<1>1. CASE new = Unset
  BY <1>1 DEF mergeMetadata
<1>2. CASE new # Unset /\ existing = Unset
  BY <1>2, ApplyType DEF mergeMetadata
<1>3. CASE new # Unset /\ existing # Unset
  <2>1. new \in Metadata /\ existing \in Metadata
    BY <1>3
  <2> DEFINE note == Over(existing.note, new.note)
             config == Over(existing.commissionConfig, new.commissionConfig)
             merged == WithDefaults(MergedConfig(ConfigOf(existing), new.commissionConfig))
  <2>2. note \in Amounts \cup {Null, Unset}
    BY <2>1 DEF Over, Metadata
  <2>3. CASE new.commissionConfig \in {Null, Unset}
    <3>1. config \in Configs \cup {Null, Unset}
      BY <2>1 DEF Over, Metadata
    <3>2. mergeMetadata(existing, new) = [commissionConfig |-> config, note |-> note]
      BY <1>3, <2>3 DEF mergeMetadata
    <3>3. QED
      BY <2>2, <3>1, <3>2 DEF Metadata
  <2>4. CASE new.commissionConfig \notin {Null, Unset}
    <3>1. new.commissionConfig \in Configs
      BY <2>1, <2>4 DEF Metadata
    <3>2. merged \in Configs
      BY <3>1, ConfigType, MergedType, DefaultsType
    <3>3. mergeMetadata(existing, new) = [commissionConfig |-> merged, note |-> note]
      BY <1>3, <2>4 DEF mergeMetadata
    <3>4. QED
      BY <2>2, <3>2, <3>3 DEF Metadata
  <2>5. QED
    BY <2>3, <2>4
<1>4. QED
  BY <1>1, <1>2, <1>3

\* A merge changes a field that is set only to what is sent, to its default
\* when a null is sent, or with the whole commissionConfig when that is null.
LEMMA MergeChanges ==
  ASSUME NEW existing \in Metadata \cup {Unset}, NEW new \in Metadata \cup {Unset},
         NEW f \in Paths \ {"unknown"},
         ConfigOf(existing)[f] \notin {Unset, Null},
         ConfigOf(mergeMetadata(existing, new))[f] # ConfigOf(existing)[f]
  PROVE  /\ new # Unset
         /\ \/ ConfigOf(mergeMetadata(existing, new))[f] = ConfigOf(new)[f]
            \/ f \in Defaulted /\ ConfigOf(new)[f] = Null
            \/ new.commissionConfig = Null
<1>1. new # Unset
  BY DEF mergeMetadata
<1>2. existing # Unset /\ existing.commissionConfig \notin {Null, Unset}
  BY DEF ConfigOf, EmptyConfig
<1>3. existing \in Metadata /\ new \in Metadata
  BY <1>1, <1>2
<1>4. CASE new.commissionConfig = Null
  BY <1>1, <1>4
<1>5. CASE new.commissionConfig = Unset
  <2>1. mergeMetadata(existing, new).commissionConfig = existing.commissionConfig
    BY <1>1, <1>2, <1>5 DEF mergeMetadata, Over
  <2>2. mergeMetadata(existing, new) # Unset
    <3>1. mergeMetadata(existing, new)
            = [commissionConfig |-> existing.commissionConfig,
               note |-> Over(existing.note, new.note)]
      BY <1>1, <1>2, <1>5 DEF mergeMetadata, Over
    <3>2. Over(existing.note, new.note) \in Amounts \cup {Null, Unset}
      BY <1>3 DEF Over, Metadata
    <3>3. [commissionConfig |-> existing.commissionConfig,
           note |-> Over(existing.note, new.note)] \in Metadata
      BY <1>3, <3>2 DEF Metadata
    <3>4. QED
      BY <3>1, <3>3, CommissionAssumption
  <2>3. QED
    BY <1>2, <2>1, <2>2 DEF ConfigOf
<1>6. CASE new.commissionConfig \notin {Null, Unset}
  <2> DEFINE old == existing.commissionConfig
             config == new.commissionConfig
             merged == MergedConfig(old, config)
  <2>1. old \in Configs /\ config \in Configs
    BY <1>2, <1>3, <1>6 DEF Metadata
  <2>2. ConfigOf(existing) = old /\ ConfigOf(new) = config
    BY <1>1, <1>2, <1>6 DEF ConfigOf
  <2>3. /\ mergeMetadata(existing, new).commissionConfig = WithDefaults(merged)
        /\ mergeMetadata(existing, new)
             = [commissionConfig |-> WithDefaults(merged), note |-> Over(existing.note, new.note)]
    BY <1>1, <1>2, <1>6, <2>2 DEF mergeMetadata
  <2>4. WithDefaults(merged) \in Configs
    BY <2>1, MergedType, DefaultsType
  <2>5. mergeMetadata(existing, new) \in Metadata
    <3>1. Over(existing.note, new.note) \in Amounts \cup {Null, Unset}
      BY <1>3 DEF Over, Metadata
    <3>2. QED
      BY <2>3, <2>4, <3>1 DEF Metadata
  <2>6. ConfigOf(mergeMetadata(existing, new)) = WithDefaults(merged)
    BY <2>3, <2>4, <2>5, CommissionAssumption DEF ConfigOf
  <2>7. merged[f] = Over(old[f], config[f])
    BY DEF MergedConfig
  <2>8. WithDefaults(merged)[f]
          = IF f \in Defaulted /\ merged[f] \in {Unset, Null} THEN Preset ELSE merged[f]
    BY DEF WithDefaults
  <2>9. CASE config[f] = Unset
    <3>1. merged[f] = old[f]
      BY <2>7, <2>9 DEF Over
    <3>2. QED
      BY <2>2, <2>6, <2>8, <3>1
  <2>10. CASE config[f] # Unset
    <3>1. merged[f] = config[f]
      BY <2>7, <2>10 DEF Over
    <3>2. QED
      BY <1>1, <2>2, <2>6, <2>8, <2>10, <3>1
  <2>11. QED
    BY <2>9, <2>10
<1>7. QED
  BY <1>4, <1>5, <1>6

---------------------------------------------------------------------------
(* The invariant. *)

Targets == Participants \cup Orgs \cup Names \cup {None}

RequestRecord ==
  [kind : Kinds, at : {"idle"} \cup Pending \cup Answers, sent : Sents \cup {NothingSent},
   target : Targets, user : Users \cup {None}, snap : ParticipantRecord \cup {Gone},
   access : Participants \cup {None}, met : SUBSET Requests]

TypeInv ==
  /\ participants \in [Participants -> ParticipantRecord \cup {Gone}]
  /\ orgs \in [Orgs -> OrgRecord \cup {Gone}]
  /\ users \in [Users -> [Identifiers -> Values \cup {None}]]
  /\ req \in [Requests -> RequestRecord]

\* What a request is about, by where it is.
Placed(r) ==
  /\ req[r].at = "idle" => req[r].kind = "add"
  /\ req[r].at = "save" => req[r].kind = "merge"
  /\ req[r].at = "erase" => req[r].kind = "remove"
  /\ req[r].at \in {"owner", "upsert", "insertProfile"}
       => /\ req[r].kind = "profile"
          /\ req[r].user \in Users
          /\ req[r].target \in Orgs \cup {None}
  /\ req[r].at = "insertOrg" => req[r].kind = "adminFound" /\ req[r].target \in Names
  /\ req[r].at \in {"editUser", "editProfile"} => req[r].kind = "edit" /\ req[r].user \in Users
  /\ req[r].at \in {"save", "erase", "editUser", "editProfile"}
       => /\ req[r].target \in Participants
          /\ req[r].target \in Requests => req[req[r].target].at = "ok"
  /\ req[r].at = "save" => req[r].snap \in ParticipantRecord

\* Requests that run together know of each other, and nobody has met a request
\* that has not begun.
MetInv ==
  /\ \A r, s \in Running : r # s => s \in req[r].met
  /\ \A r, s \in Requests : s \in req[r].met => req[s].at # "idle"

\* What a request has created is there only once it has ended.
Born ==
  \A r \in Requests : participants[r] # Gone \/ orgs[r] # Gone => req[r].at = "ok"

Met(p, q) ==
  p \in Requests /\ q \in Requests /\ p \in req[q].met /\ q \in req[p].met

\* An insertion of a profile that is due: the profiles that are there already
\* have come since the look-up.
Rivals(r) ==
  req[r].at = "insertProfile" =>
    \A q \in ParticipantsOf(req[r].user, req[r].target) : Met(r, q) \/ Moved(q)

Profiles ==
  \A p, q \in LiveParticipants :
    /\ p # q
    /\ participants[p].userId # None
    /\ participants[p].userId = participants[q].userId
    /\ participants[p].has["org"] = participants[q].has["org"]
    => Met(p, q) \/ Moved(p) \/ Moved(q)

\* An edit that is due writes the organization the participant is in, unless an
\* update that it overlaps takes the participant elsewhere.
Disturbed(r) ==
  \E s \in req[r].met :
    /\ req[s].kind \in {"merge", "edit"}
    /\ req[s].target = req[r].target
    /\ req[s].sent.has["org"] \notin {None, req[r].sent.has["org"]}

Edits(r) ==
  LET p == req[r].target
  IN /\ req[r].at \in {"editUser", "editProfile"}
     /\ p \in LiveParticipants
     /\ req[r].sent.has["org"] # None
     => req[r].sent.has["org"] = participants[p].has["org"] \/ Disturbed(r)

\* An update that is due: what it has read of the commissionConfig is there
\* still, or was written since by requests that it overlaps.
Merges(r) ==
  LET p == req[r].target
  IN req[r].at = "save" /\ p \in LiveParticipants =>
       \A f \in Paths :
         \/ ConfigOf(req[r].snap.meta)[f] = ConfigOf(participants[p].meta)[f]
         \/ Overlapped({r}, participants[p].by[f])

\* What an upsert into an organization rests on.
Access(r) == req[r].access \in ParticipantsOf(req[r].user, req[r].target)
Owner(r) == req[r].target \in LiveOrgs /\ orgs[req[r].target].owner = req[r].user

Supported(r) ==
  req[r].target # None =>
    IF req[r].access # None
      THEN /\ req[r].at \in {"owner", "upsert"} => Access(r) \/ AccessTaken(r)
           /\ req[r].at = "insertProfile" => AccessTaken(r)
      ELSE req[r].at \in {"upsert", "insertProfile"} => Owner(r) \/ OwnershipTaken(r)

Namesakes(r) ==
  req[r].at = "insertOrg" =>
    \A o \in LiveOrgs : orgs[o].name = req[r].target => Met(r, o) \/ OwnerNamed(o)

NamesDiffer ==
  \A o, q \in LiveOrgs :
    o # q /\ orgs[o].name = orgs[q].name => Met(o, q) \/ OwnerNamed(o) \/ OwnerNamed(q)

\* The organizations and participants at the start obey the two properties.
SeedsDiffer ==
  /\ \A p, q \in SeedParticipants :
       /\ p # q
       /\ SeededParticipants[p].userId # None
       /\ SeededParticipants[p].userId = SeededParticipants[q].userId
       => SeededParticipants[p].has["org"] # SeededParticipants[q].has["org"]
  /\ \A o, q \in SeedOrgs : o # q => SeededOrgs[o].name # SeededOrgs[q].name

Claims(r) ==
  Placed(r) /\ Rivals(r) /\ Edits(r) /\ Merges(r) /\ Supported(r) /\ Namesakes(r)

ParticipantsInv ==
  /\ TypeInv
  /\ MetInv
  /\ Born
  /\ \A r \in Requests : Claims(r)

---------------------------------------------------------------------------
(* The initial states. *)

LEMMA NothingSentType == NothingSent \in Sent
<1>1. NothingSent.has \in Scalar
  BY DEF NothingSent, Scalar, Scalars, Identifiers
<1>2. QED
  BY <1>1 DEF NothingSent, Sent

LEMMA NewRequestType == NewRequest \in RequestRecord
BY DEF NewRequest, RequestRecord, Kinds, Pending, Answers, Targets

LEMMA InitType == Init => TypeInv
<1> SUFFICES ASSUME Init
             PROVE  TypeInv
  OBVIOUS
<1>1. participants \in [Participants -> ParticipantRecord \cup {Gone}]
  BY ParticipantsAssumption DEF Init, Participants
<1>2. orgs \in [Orgs -> OrgRecord \cup {Gone}]
  BY ParticipantsAssumption DEF Init, Orgs
<1>3. users \in [Users -> [Identifiers -> Values \cup {None}]]
  BY ParticipantsAssumption DEF Init
<1>4. req \in [Requests -> RequestRecord]
  BY NewRequestType DEF Init
<1>5. QED
  BY <1>1, <1>2, <1>3, <1>4 DEF TypeInv

LEMMA InitInv == Init => ParticipantsInv
<1> SUFFICES ASSUME Init
             PROVE  ParticipantsInv
  OBVIOUS
<1>1. TypeInv
  BY InitType
<1>2. \A r \in Requests : req[r] = NewRequest
  BY DEF Init
<1>3. \A r \in Requests : req[r].at = "idle" /\ req[r].kind = "add" /\ req[r].met = {}
  BY <1>2 DEF NewRequest
<1>4. Running = {}
  BY <1>3 DEF Running, Pending
<1>5. MetInv
  BY <1>3, <1>4 DEF MetInv
<1>6. \A p \in Requests : participants[p] = Gone /\ orgs[p] = Gone
  BY ParticipantsAssumption DEF Init, Participants, Orgs
<1>7. Born
  BY <1>6 DEF Born
<1>8. ASSUME NEW r \in Requests
      PROVE  Claims(r)
  BY <1>3 DEF Claims, Placed, Rivals, Edits, Merges, Supported, Namesakes
<1>9. QED
  BY <1>1, <1>5, <1>7, <1>8 DEF ParticipantsInv

LEMMA InitDiffer == SeedsDiffer /\ Init => Profiles /\ NamesDiffer
<1> SUFFICES ASSUME SeedsDiffer, Init
             PROVE  Profiles /\ NamesDiffer
  OBVIOUS
<1>1. \A p \in Participants :
        participants[p] # Gone => p \in SeedParticipants /\ participants[p] = SeededParticipants[p]
  BY DEF Init
<1>2. \A o \in Orgs : orgs[o] # Gone => o \in SeedOrgs /\ orgs[o] = SeededOrgs[o]
  BY DEF Init
<1>3. Profiles
  BY <1>1 DEF Profiles, LiveParticipants, SeedsDiffer
<1>4. NamesDiffer
  BY <1>2 DEF NamesDiffer, LiveOrgs, SeedsDiffer
<1>5. QED
  BY <1>3, <1>4

---------------------------------------------------------------------------
(* What a step of a request does. *)

\* Of a request that does not act, only those it has met may grow.
Kept(s) ==
  /\ req'[s].kind = req[s].kind
  /\ req'[s].at = req[s].at
  /\ req'[s].sent = req[s].sent
  /\ req'[s].target = req[s].target
  /\ req'[s].user = req[s].user
  /\ req'[s].snap = req[s].snap
  /\ req'[s].access = req[s].access
  /\ req[s].met \subseteq req'[s].met

Others(r) ==
  \A s \in Requests \ {r} :
    /\ Kept(s)
    /\ req'[s].met \subseteq req[s].met \cup {r}
    /\ s \in Running => r \in req'[s].met

Begins(r) == req[r].at = "idle" /\ req'[r].met = Running

Continues(r) ==
  /\ req[r].at \in Pending
  /\ req'[r].kind = req[r].kind
  /\ req'[r].sent = req[r].sent
  /\ req'[r].target = req[r].target
  /\ req'[r].user = req[r].user
  /\ req'[r].met = req[r].met

Written(r, p) ==
  LET before == participants[p]
      after == participants'[p]
  IN /\ before # Gone /\ after # Gone
     /\ after.userId = before.userId
     /\ \/ after.has["org"] = before.has["org"]
        \/ /\ req[r].at \in {"save", "editProfile"}
           /\ req'[r].at = "ok"
           /\ req[r].target = p
           /\ req[r].sent.has["org"] # None
           /\ after.has["org"] = req[r].sent.has["org"]
     /\ \A f \in Paths :
          \/ after.by[f] = before.by[f] /\ ConfigOf(after.meta)[f] = ConfigOf(before.meta)[f]
          \/ after.by[f] = {r}

Created(r, p) ==
  /\ p = r
  /\ participants[p] = Gone
  /\ participants'[p] # Gone
  /\ req'[r].at = "ok"
  /\ \/ req'[r].kind \in {"add", "insert"} /\ participants'[p].userId = None
     \/ /\ req[r].at = "insertProfile"
        /\ participants'[p].userId = req[r].user
        /\ participants'[p].has["org"] = req[r].target

Changed(r, p) ==
  \/ participants'[p] = participants[p]
  \/ participants'[p] = Gone /\ req'[r].kind \in {"remove", "delete"} /\ req'[r].target = p
  \/ Created(r, p)
  \/ Written(r, p)

OrgChanged(r, o) ==
  \/ orgs'[o] = orgs[o]
  \/ orgs'[o] = Gone /\ req'[r].kind = "dissolve" /\ req'[r].target = o
  \/ /\ orgs[o] # Gone /\ orgs'[o] # Gone
     /\ req'[r].kind = "rename" /\ req'[r].target = o
     /\ orgs'[o].owner = IF req'[r].user = None THEN orgs[o].owner ELSE req'[r].user
  \/ /\ o = r /\ orgs[o] = Gone /\ req'[r].at = "ok"
     /\ \/ req'[r].kind = "found"
        \/ req[r].at = "insertOrg" /\ orgs'[o].name = req[r].target

Acting(r) ==
  /\ Others(r)
  /\ req'[r].at # "idle"
  /\ Begins(r) \/ Continues(r)
  /\ \A p \in Participants : Changed(r, p)
  /\ \A o \in Orgs : OrgChanged(r, o)

LEMMA RequestFields ==
  ASSUME NEW kind, NEW at, NEW sent, NEW target, NEW user
  PROVE  Request(kind, at, sent, target, user)
           = [kind |-> kind, at |-> at, sent |-> sent, target |-> target, user |-> user,
              snap |-> Gone, access |-> None, met |-> {}]
<1> DEFINE fresh == [kind |-> "add", at |-> "idle", sent |-> NothingSent, target |-> None,
                     user |-> None, snap |-> Gone, access |-> None, met |-> {}]
<1>1. Request(kind, at, sent, target, user)
        = [fresh EXCEPT !.kind = kind, !.at = at, !.sent = sent, !.target = target, !.user = user]
  BY DEF Request, NewRequest
<1>2. QED
  BY <1>1

LEMMA EnterForm ==
  ASSUME TypeInv, NEW r \in Requests, NEW e \in RequestRecord, e.at # "idle", Enter(r, e)
  PROVE  /\ req' \in [Requests -> RequestRecord]
         /\ Others(r)
         /\ Begins(r)
         /\ req'[r].at # "idle"
         /\ req'[r] = [e EXCEPT !.met = Running]
         /\ req'[r].kind = e.kind /\ req'[r].at = e.at /\ req'[r].sent = e.sent
         /\ req'[r].target = e.target /\ req'[r].user = e.user
         /\ req'[r].snap = e.snap /\ req'[r].access = e.access
<1>1. Running \in SUBSET Requests
  BY DEF Running
<1>2. [e EXCEPT !.met = Running] \in RequestRecord
  BY <1>1 DEF RequestRecord
<1>3. ASSUME NEW s \in Requests
      PROVE  [req[s] EXCEPT !.met = @ \cup {r}] \in RequestRecord
  <2>1. req[s] \in RequestRecord
    BY DEF TypeInv
  <2>2. req[s].met \cup {r} \in SUBSET Requests
    BY <2>1 DEF RequestRecord
  <2>3. QED
    BY <2>1, <2>2 DEF RequestRecord
<1>4. req' = [s \in Requests |->
        IF s = r THEN [e EXCEPT !.met = Running]
        ELSE IF s \in Running THEN [req[s] EXCEPT !.met = @ \cup {r}] ELSE req[s]]
  BY DEF Enter
<1>5. req' \in [Requests -> RequestRecord]
  BY <1>2, <1>3, <1>4 DEF TypeInv
<1>6. req'[r] = [e EXCEPT !.met = Running]
  BY <1>4
<1>7. Others(r)
  <2> SUFFICES ASSUME NEW s \in Requests \ {r}
               PROVE  /\ Kept(s)
                      /\ req'[s].met \subseteq req[s].met \cup {r}
                      /\ s \in Running => r \in req'[s].met
    BY DEF Others
  <2>1. req[s] \in RequestRecord
    BY DEF TypeInv
  <2>2. req'[s] = IF s \in Running THEN [req[s] EXCEPT !.met = @ \cup {r}] ELSE req[s]
    BY <1>4
  <2>3. QED
    BY <2>1, <2>2 DEF Kept, RequestRecord
<1>8. req[r].at = "idle"
  BY DEF Enter
<1>9. QED
  BY <1>5, <1>6, <1>7, <1>8 DEF RequestRecord, Begins

LEMMA GotoForm ==
  ASSUME TypeInv, MetInv, NEW r \in Requests, NEW at \in Pending \cup Answers,
         req[r].at \in Pending, Goto(r, at) \/ Answer(r, at)
  PROVE  /\ req' \in [Requests -> RequestRecord]
         /\ Others(r)
         /\ Continues(r)
         /\ req'[r].at = at
         /\ req'[r].at # "idle"
         /\ Goto(r, at) => req'[r].snap = req[r].snap /\ req'[r].access = req[r].access
<1>1. \A s \in Requests : req[s] \in RequestRecord
  BY DEF TypeInv
<1>2. at # "idle"
  BY DEF Pending, Answers
<1>3. req' = [req EXCEPT ![r].at = at] \/ req' = [req EXCEPT ![r].at = at, ![r].snap = Gone]
  BY DEF Goto, Answer
<1>4. req' \in [Requests -> RequestRecord]
  <2>1. [req[r] EXCEPT !.at = at] \in RequestRecord
    BY <1>1 DEF RequestRecord
  <2>2. [req[r] EXCEPT !.at = at, !.snap = Gone] \in RequestRecord
    <3>1. [[req[r] EXCEPT !.at = at] EXCEPT !.snap = Gone] \in RequestRecord
      BY <2>1 DEF RequestRecord
    <3>2. QED
      BY <3>1
  <2>3. QED
    BY <1>3, <2>1, <2>2 DEF TypeInv
<1>5. \A s \in Requests \ {r} : req'[s] = req[s]
  BY <1>3 DEF TypeInv
<1>6. Others(r)
  <2>1. r \in Running
    BY DEF Running
  <2>2. \A s \in Running : s # r => r \in req[s].met
    BY <2>1 DEF MetInv
  <2>3. QED
    BY <1>5, <2>2 DEF Others, Kept
<1>7. req'[r] = [req[r] EXCEPT !.at = at] \/ req'[r] = [req[r] EXCEPT !.at = at, !.snap = Gone]
  BY <1>3 DEF TypeInv
<1>8. Continues(r) /\ req'[r].at = at
  BY <1>1, <1>7 DEF Continues, RequestRecord
<1>9. Goto(r, at) => req'[r].snap = req[r].snap /\ req'[r].access = req[r].access
  <2>1. Goto(r, at) => req'[r] = [req[r] EXCEPT !.at = at]
    BY DEF Goto, TypeInv
  <2>2. QED
    BY <1>1, <2>1 DEF RequestRecord
<1>10. QED
  BY <1>2, <1>4, <1>6, <1>8, <1>9

---------------------------------------------------------------------------
(* Participants as requests write them. *)

LEMMA SentType ==
  ASSUME NEW sent \in Sents \cup {NothingSent}
  PROVE  sent.has \in Scalar /\ sent.meta \in Metadata \cup {Unset}
<1>1. sent \in Sent
  BY NothingSentType, ParticipantsAssumption
<1>2. QED
  BY <1>1 DEF Sent

LEMMA InOrgType ==
  ASSUME NEW has \in Scalar, NEW o \in Orgs \cup {None}
  PROVE  [has EXCEPT !["org"] = o] \in Scalar /\ [has EXCEPT !["org"] = o]["org"] = o
BY DEF Scalar, Scalars, Identifiers

LEMMA AssignForm ==
  ASSUME NEW has \in Scalar, NEW sent \in Scalar, NEW fields
  PROVE  /\ Assign(has, sent, fields) \in Scalar
         /\ Assign(has, sent, fields)["org"]
              = IF "org" \in fields /\ sent["org"] # None THEN sent["org"] ELSE has["org"]
<1>1. \A a \in Scalars : Assign(has, sent, fields)[a]
        = IF a \in fields /\ sent[a] # None THEN sent[a] ELSE has[a]
  BY DEF Assign
<1>2. Assign(has, sent, fields) \in [Scalars -> Values \cup Roles \cup Orgs \cup {None}]
  BY DEF Assign, Scalar
<1>3. Identifiers \subseteq Scalars /\ "role" \in Scalars /\ "org" \in Scalars
  BY DEF Scalars
<1>4. QED
  BY <1>1, <1>2, <1>3 DEF Scalar

LEMMA NewParticipantForm ==
  ASSUME NEW r \in Requests, NEW u \in Users \cup {None}, NEW has \in Scalar,
         NEW meta \in Metadata \cup {Unset}
  PROVE  /\ NewParticipant(r, u, has, meta) \in ParticipantRecord
         /\ NewParticipant(r, u, has, meta).userId = u
         /\ NewParticipant(r, u, has, meta).has = has
<1> DEFINE by == [p \in Paths |-> IF ConfigOf(meta)[p] = Unset THEN {} ELSE {r}]
<1>1. by \in [Paths -> SUBSET Requests]
  OBVIOUS
<1>2. NewParticipant(r, u, has, meta) = [has |-> has, userId |-> u, meta |-> meta, by |-> by]
  BY DEF NewParticipant
<1> HIDE DEF by
<1>3. QED
  BY <1>1, <1>2 DEF ParticipantRecord

LEMMA WithMetaForm ==
  ASSUME NEW participant \in ParticipantRecord, NEW r \in Requests,
         NEW meta \in Metadata \cup {Unset}
  PROVE  /\ WithMeta(participant, r, meta) \in ParticipantRecord
         /\ WithMeta(participant, r, meta).userId = participant.userId
         /\ WithMeta(participant, r, meta).has = participant.has
         /\ WithMeta(participant, r, meta).meta = meta
         /\ \A f \in Paths :
              \/ /\ WithMeta(participant, r, meta).by[f] = participant.by[f]
                 /\ ConfigOf(meta)[f] = ConfigOf(participant.meta)[f]
              \/ WithMeta(participant, r, meta).by[f] = {r}
<1> DEFINE by == [p \in Paths |->
                    IF ConfigOf(meta)[p] = ConfigOf(participant.meta)[p]
                      THEN participant.by[p] ELSE {r}]
           written == [has |-> participant.has, userId |-> participant.userId,
                       meta |-> meta, by |-> by]
<1>1. by \in [Paths -> SUBSET Requests]
  BY DEF ParticipantRecord
<1>2. WithMeta(participant, r, meta) = written
  <2>1. WithMeta(participant, r, meta) = [[participant EXCEPT !.meta = meta] EXCEPT !.by = by]
    BY DEF WithMeta, ParticipantRecord
  <2> HIDE DEF by
  <2>2. QED
    BY <2>1 DEF ParticipantRecord
<1>3. \A f \in Paths :
        \/ by[f] = participant.by[f] /\ ConfigOf(meta)[f] = ConfigOf(participant.meta)[f]
        \/ by[f] = {r}
  OBVIOUS
<1> HIDE DEF by
<1>4. written \in ParticipantRecord
  BY <1>1 DEF ParticipantRecord
<1>5. QED
  BY <1>2, <1>3, <1>4

LEMMA PutForm ==
  ASSUME TypeInv, NEW p \in Participants, NEW x \in ParticipantRecord \cup {Gone}, Put(p, x)
  PROVE  /\ participants' \in [Participants -> ParticipantRecord \cup {Gone}]
         /\ participants'[p] = x
         /\ \A q \in Participants \ {p} : participants'[q] = participants[q]
BY DEF TypeInv, Put

LEMMA LiveType ==
  ASSUME TypeInv
  PROVE  /\ \A p \in LiveParticipants : p \in Participants /\ participants[p] \in ParticipantRecord
         /\ \A o \in LiveOrgs : o \in Orgs /\ orgs[o] \in OrgRecord
         /\ Gone \notin ParticipantRecord
         /\ Gone \notin OrgRecord
BY ParticipantsAssumption DEF TypeInv, LiveParticipants, LiveOrgs

\* Scalars and metadata written to a participant that is there.
LEMMA WriteForm ==
  ASSUME TypeInv, NEW r \in Requests, NEW p \in LiveParticipants, NEW after \in ParticipantRecord,
         Put(p, after),
         after.userId = participants[p].userId,
         \/ after.has["org"] = participants[p].has["org"]
         \/ /\ req[r].at \in {"save", "editProfile"}
            /\ req'[r].at = "ok"
            /\ req[r].target = p
            /\ req[r].sent.has["org"] # None
            /\ after.has["org"] = req[r].sent.has["org"],
         \A f \in Paths :
           \/ /\ after.by[f] = participants[p].by[f]
              /\ ConfigOf(after.meta)[f] = ConfigOf(participants[p].meta)[f]
           \/ after.by[f] = {r}
  PROVE  /\ participants' \in [Participants -> ParticipantRecord \cup {Gone}]
         /\ \A q \in Participants : Changed(r, q)
<1>1. p \in Participants /\ participants[p] \in ParticipantRecord /\ Gone \notin ParticipantRecord
  BY LiveType
<1>2. /\ participants' \in [Participants -> ParticipantRecord \cup {Gone}]
      /\ participants'[p] = after
      /\ \A q \in Participants \ {p} : participants'[q] = participants[q]
  BY <1>1, PutForm
<1>3. Written(r, p)
  BY <1>1, <1>2 DEF Written
<1>4. QED
  BY <1>2, <1>3 DEF Changed

\* A participant put by the request that names it.
LEMMA CreateForm ==
  ASSUME TypeInv, Born, NEW r \in Requests, req[r].at # "ok", NEW x \in ParticipantRecord, Put(r, x),
         req'[r].at = "ok",
         \/ req'[r].kind \in {"add", "insert"} /\ x.userId = None
         \/ /\ req[r].at = "insertProfile"
            /\ x.userId = req[r].user
            /\ x.has["org"] = req[r].target
  PROVE  /\ participants' \in [Participants -> ParticipantRecord \cup {Gone}]
         /\ \A q \in Participants : Changed(r, q)
<1>1. r \in Participants /\ Gone \notin ParticipantRecord
  BY LiveType DEF Participants
<1>2. /\ participants' \in [Participants -> ParticipantRecord \cup {Gone}]
      /\ participants'[r] = x
      /\ \A q \in Participants \ {r} : participants'[q] = participants[q]
  BY <1>1, PutForm
<1>3. participants[r] = Gone
  BY DEF Born
<1>4. Created(r, r)
  BY <1>1, <1>2, <1>3 DEF Created
<1>5. QED
  BY <1>2, <1>4 DEF Changed

LEMMA EraseForm ==
  ASSUME TypeInv, NEW r \in Requests, NEW p \in Participants, Put(p, Gone),
         req'[r].kind \in {"remove", "delete"}, req'[r].target = p
  PROVE  /\ participants' \in [Participants -> ParticipantRecord \cup {Gone}]
         /\ \A q \in Participants : Changed(r, q)
<1>1. /\ participants' \in [Participants -> ParticipantRecord \cup {Gone}]
      /\ participants'[p] = Gone
      /\ \A q \in Participants \ {p} : participants'[q] = participants[q]
  BY PutForm
<1>2. QED
  BY <1>1 DEF Changed

LEMMA SameForm ==
  ASSUME NEW r
  PROVE  /\ UNCHANGED participants => \A p \in Participants : Changed(r, p)
         /\ UNCHANGED orgs => \A o \in Orgs : OrgChanged(r, o)
BY DEF Changed, OrgChanged

---------------------------------------------------------------------------
(* Every action is a step of its request, which keeps the types and leaves *)
(* its own claims true.                                                    *)

Acts(r) == TypeInv' /\ Acting(r) /\ Claims(r)'

LEMMA RequestForm ==
  ASSUME NEW kind \in Kinds, NEW at \in Pending \cup Answers,
         NEW sent \in Sents \cup {NothingSent}, NEW target \in Targets,
         NEW user \in Users \cup {None}
  PROVE  /\ Request(kind, at, sent, target, user) \in RequestRecord
         /\ Request(kind, at, sent, target, user).kind = kind
         /\ Request(kind, at, sent, target, user).at = at
         /\ Request(kind, at, sent, target, user).sent = sent
         /\ Request(kind, at, sent, target, user).target = target
         /\ Request(kind, at, sent, target, user).user = user
         /\ Request(kind, at, sent, target, user).access = None
<1> DEFINE e == [kind |-> kind, at |-> at, sent |-> sent, target |-> target, user |-> user,
                 snap |-> Gone, access |-> None, met |-> {}]
<1>1. Request(kind, at, sent, target, user) = e
  BY RequestFields, Zenon
<1>2. e \in RequestRecord
  BY DEF RequestRecord
<1>3. e.kind = kind /\ e.at = at /\ e.sent = sent /\ e.target = target /\ e.user = user
      /\ e.access = None
  OBVIOUS
<1> HIDE DEF e
<1>4. QED
  BY <1>1, <1>2, <1>3

LEMMA ArriveForm ==
  ASSUME TypeInv, NEW r \in Requests, NEW kind \in Kinds, NEW at \in Pending \cup Answers,
         NEW sent \in Sents \cup {NothingSent}, NEW target \in Targets,
         NEW user \in Users \cup {None},
         Enter(r, Request(kind, at, sent, target, user))
  PROVE  /\ req' \in [Requests -> RequestRecord]
         /\ Others(r)
         /\ Begins(r)
         /\ req[r].at = "idle"
         /\ req'[r].at # "idle"
         /\ req'[r].kind = kind /\ req'[r].at = at /\ req'[r].sent = sent
         /\ req'[r].target = target /\ req'[r].user = user /\ req'[r].access = None
<1> DEFINE e == Request(kind, at, sent, target, user)
<1>1. /\ e \in RequestRecord
      /\ e.kind = kind /\ e.at = at /\ e.sent = sent /\ e.target = target /\ e.user = user
      /\ e.access = None
  BY RequestForm
<1>2. e.at # "idle"
  BY <1>1 DEF Pending, Answers
<1> HIDE DEF e
<1>3. /\ req' \in [Requests -> RequestRecord]
      /\ Others(r)
      /\ Begins(r)
      /\ req'[r].at # "idle"
      /\ req'[r].kind = e.kind /\ req'[r].at = e.at /\ req'[r].sent = e.sent
      /\ req'[r].target = e.target /\ req'[r].user = e.user /\ req'[r].access = e.access
  BY <1>1, <1>2, EnterForm DEF e
<1>4. QED
  BY <1>1, <1>3 DEF Begins

\* A request that has ended claims nothing.
LEMMA AnsweredClaims ==
  ASSUME NEW r, req'[r].at \in Answers
  PROVE  Claims(r)'
BY DEF Claims, Placed, Rivals, Edits, Merges, Supported, Namesakes, Answers

LEMMA Ending ==
  ASSUME NEW r \in Requests, Others(r), Begins(r) \/ Continues(r),
         req' \in [Requests -> RequestRecord], req'[r].at \in Answers,
         participants' \in [Participants -> ParticipantRecord \cup {Gone}],
         orgs' \in [Orgs -> OrgRecord \cup {Gone}],
         users' \in [Users -> [Identifiers -> Values \cup {None}]],
         \A p \in Participants : Changed(r, p),
         \A o \in Orgs : OrgChanged(r, o)
  PROVE  Acts(r)
<1>1. req'[r].at # "idle"
  BY DEF Answers
<1>2. Claims(r)'
  BY AnsweredClaims
<1>3. QED
  BY <1>1, <1>2 DEF Acts, Acting, TypeInv

LEMMA Atomic == "ok" \in Answers /\ "error" \in Answers /\ "forbidden" \in Answers
BY DEF Answers

LEMMA AddStep ==
  ASSUME ParticipantsInv, NEW r \in Requests, NEW o \in Orgs, NEW sent \in Sents,
         AddParticipant(r, o, sent) \/ InsertParticipant(r, o, sent)
  PROVE  Acts(r)
<1> TypeInv /\ Born
  BY DEF ParticipantsInv
<1> DEFINE has == [sent.has EXCEPT !["org"] = o]
<1>1. has \in Scalar /\ sent.meta \in Metadata \cup {Unset}
  BY SentType, InOrgType
<1>2. applyCommissionDefaults(sent.meta) \in Metadata \cup {Unset}
  BY <1>1, ApplyType
<1> HIDE DEF has
<1>3. UNCHANGED <<orgs, users>>
  BY DEF AddParticipant, InsertParticipant
<1>4. PICK kind \in {"add", "insert"}, meta \in Metadata \cup {Unset} :
        /\ Enter(r, Request(kind, "ok", sent, o, None))
        /\ Put(r, NewParticipant(r, None, has, meta))
  BY <1>1, <1>2 DEF AddParticipant, InsertParticipant, has
<1>5. kind \in Kinds /\ o \in Targets /\ "ok" \in Pending \cup Answers /\ None \in Users \cup {None}
      /\ sent \in Sents \cup {NothingSent}
  BY DEF Kinds, Targets, Answers
<1>6. /\ req' \in [Requests -> RequestRecord]
      /\ Others(r) /\ Begins(r)
      /\ req[r].at = "idle"
      /\ req'[r].kind = kind /\ req'[r].at = "ok"
  BY <1>4, <1>5, ArriveForm
<1>7. NewParticipant(r, None, has, meta) \in ParticipantRecord
      /\ NewParticipant(r, None, has, meta).userId = None
  BY <1>1, <1>5, NewParticipantForm
<1>8. /\ participants' \in [Participants -> ParticipantRecord \cup {Gone}]
      /\ \A q \in Participants : Changed(r, q)
  BY <1>4, <1>6, <1>7, CreateForm
<1>9. QED
  BY <1>3, <1>6, <1>8, Ending, Atomic, SameForm DEF TypeInv

LEMMA SetStep ==
  ASSUME ParticipantsInv, NEW r \in Requests, NEW p \in LiveParticipants, NEW o \in Orgs,
         NEW sent \in Sents, SetParticipant(r, p, o, sent)
  PROVE  Acts(r)
<1> TypeInv
  BY DEF ParticipantsInv
<1>1. p \in Participants /\ participants[p] \in ParticipantRecord
  BY LiveType
<1>2. /\ req' \in [Requests -> RequestRecord]
      /\ Others(r) /\ Begins(r)
      /\ req[r].at = "idle"
      /\ req'[r].kind = "set" /\ req'[r].at = "ok"
  <2>1. "set" \in Kinds /\ p \in Targets /\ "ok" \in Pending \cup Answers /\ None \in Users \cup {None}
        /\ sent \in Sents \cup {NothingSent}
    BY <1>1 DEF Kinds, Targets, Answers
  <2>2. Enter(r, Request("set", "ok", sent, p, None))
    BY DEF SetParticipant
  <2>3. QED
    BY <2>1, <2>2, ArriveForm
<1>3. /\ participants' \in [Participants -> ParticipantRecord \cup {Gone}]
      /\ \A q \in Participants : Changed(r, q)
  <2>1. CASE UNCHANGED participants
    BY <2>1, SameForm DEF TypeInv
  <2>2. CASE ~ UNCHANGED participants
    <3> DEFINE has == Assign(participants[p].has, sent.has, Scalars \ {"org"})
               set == [participants[p] EXCEPT !.has = has]
               after == IF sent.meta = Unset THEN set ELSE WithMeta(set, r, sent.meta)
    <3>1. Put(p, after)
      BY <2>2 DEF SetParticipant
    <3>2. has \in Scalar /\ has["org"] = participants[p].has["org"]
      BY <1>1, SentType, AssignForm DEF ParticipantRecord
    <3> HIDE DEF has
    <3>3. /\ set \in ParticipantRecord
          /\ set.has = has /\ set.userId = participants[p].userId
          /\ set.meta = participants[p].meta /\ set.by = participants[p].by
      BY <1>1, <3>2 DEF ParticipantRecord
    <3> HIDE DEF set
    <3>4. /\ after \in ParticipantRecord
          /\ after.has = has /\ after.userId = participants[p].userId
          /\ \A f \in Paths :
               \/ /\ after.by[f] = participants[p].by[f]
                  /\ ConfigOf(after.meta)[f] = ConfigOf(participants[p].meta)[f]
               \/ after.by[f] = {r}
      <4>1. CASE sent.meta = Unset
        BY <3>3, <4>1
      <4>2. CASE sent.meta # Unset
        <5>1. after = WithMeta(set, r, sent.meta)
          BY <4>2
        <5>2. QED
          BY <3>3, <5>1, SentType, WithMetaForm
      <4>3. QED
        BY <4>1, <4>2
    <3> HIDE DEF after
    <3>5. QED
      BY <3>1, <3>2, <3>4, WriteForm
  <2>3. QED
    BY <2>1, <2>2
<1>4. UNCHANGED <<orgs, users>>
  BY DEF SetParticipant
<1>5. QED
  BY <1>2, <1>3, <1>4, Ending, Atomic, SameForm DEF TypeInv

LEMMA FindStep ==
  ASSUME ParticipantsInv, NEW r \in Requests, NEW p \in LiveParticipants, NEW sent \in Sents,
         FindParticipant(r, p, sent)
  PROVE  Acts(r)
<1> TypeInv /\ Born
  BY DEF ParticipantsInv
<1> DEFINE q == Request("merge", "save", sent, p, None)
           e == [q EXCEPT !.snap = participants[p]]
<1>1. p \in Participants /\ participants[p] \in ParticipantRecord
  BY LiveType
<1>2. Enter(r, e)
  BY DEF FindParticipant
<1>3. /\ q \in RequestRecord
      /\ q.kind = "merge" /\ q.at = "save" /\ q.sent = sent /\ q.target = p
  <2>1. "merge" \in Kinds /\ "save" \in Pending \cup Answers /\ p \in Targets
        /\ sent \in Sents \cup {NothingSent} /\ None \in Users \cup {None}
    BY <1>1 DEF Kinds, Pending, Targets
  <2>2. QED
    BY <2>1, RequestForm
<1> HIDE DEF q
<1>4. /\ e \in RequestRecord
      /\ e.kind = "merge" /\ e.at = "save" /\ e.sent = sent /\ e.target = p
      /\ e.snap = participants[p]
  BY <1>1, <1>3 DEF RequestRecord
<1> HIDE DEF e
<1>5. /\ req' \in [Requests -> RequestRecord]
      /\ Others(r) /\ Begins(r)
      /\ req'[r].at = "save" /\ req'[r].kind = "merge" /\ req'[r].target = p
      /\ req'[r].snap = participants[p]
  BY <1>2, <1>4, EnterForm
<1>6. UNCHANGED <<participants, orgs, users>>
  BY DEF FindParticipant
<1>7. Acting(r)
  BY <1>5, <1>6, SameForm DEF Acting
<1>8. p \in Requests => req[p].at = "ok" /\ req'[p].at = "ok"
  <2>1. p \in Requests => req[p].at = "ok"
    BY <1>1, LiveType DEF Born, LiveParticipants
  <2>2. p # r
    BY <1>5, <2>1 DEF Begins
  <2>3. QED
    BY <1>5, <2>1, <2>2 DEF Others, Kept
<1>9. Claims(r)'
  BY <1>1, <1>5, <1>6, <1>8 DEF Claims, Placed, Rivals, Edits, Merges, Supported, Namesakes
<1>10. QED
  BY <1>5, <1>6, <1>7, <1>9 DEF Acts, TypeInv

LEMMA SaveStep ==
  ASSUME ParticipantsInv, NEW r \in Requests, SaveParticipant(r)
  PROVE  Acts(r)
<1> TypeInv /\ MetInv
  BY DEF ParticipantsInv
<1> DEFINE p == req[r].target
           snap == req[r].snap
           sent == req[r].sent
<1>1. req[r].at = "save" /\ req[r].at \in Pending /\ UNCHANGED <<orgs, users>>
  BY DEF SaveParticipant, Pending
<1>2. p \in Participants /\ req[r].kind = "merge" /\ snap \in ParticipantRecord
  BY <1>1 DEF ParticipantsInv, Claims, Placed
<1>3. sent \in Sents \cup {NothingSent}
  BY DEF TypeInv, RequestRecord
<1>4. CASE p \in LiveParticipants
  <2> DEFINE differing == {a \in Scalars : sent.has[a] # snap.has[a]}
             merged == mergeMetadata(snap.meta, sent.meta)
             has == Assign(participants[p].has, sent.has, differing)
             saved == [participants[p] EXCEPT !.has = has]
             after == IF merged = snap.meta THEN saved ELSE WithMeta(saved, r, merged)
  <2>1. Put(p, after) /\ Answer(r, "ok")
    BY <1>4 DEF SaveParticipant
  <2>2. /\ req' \in [Requests -> RequestRecord]
        /\ Others(r) /\ Continues(r) /\ req'[r].at = "ok"
    BY <1>1, <2>1, Atomic, GotoForm
  <2>3. participants[p] \in ParticipantRecord
    BY <1>4, LiveType
  <2>4. merged \in Metadata \cup {Unset}
    BY <1>2, <1>3, SentType, MergeType DEF ParticipantRecord
  <2>5. /\ has \in Scalar
        /\ \/ has["org"] = participants[p].has["org"]
           \/ sent.has["org"] # None /\ has["org"] = sent.has["org"]
    BY <1>3, <2>3, SentType, AssignForm DEF ParticipantRecord
  <2> HIDE DEF has, merged
  <2>6. /\ saved \in ParticipantRecord
        /\ saved.has = has /\ saved.userId = participants[p].userId
        /\ saved.meta = participants[p].meta /\ saved.by = participants[p].by
    BY <2>3, <2>5 DEF ParticipantRecord
  <2> HIDE DEF saved
  <2>7. /\ after \in ParticipantRecord
        /\ after.has = has /\ after.userId = participants[p].userId
        /\ \A f \in Paths :
             \/ /\ after.by[f] = participants[p].by[f]
                /\ ConfigOf(after.meta)[f] = ConfigOf(participants[p].meta)[f]
             \/ after.by[f] = {r}
    <3>1. CASE merged = snap.meta
      BY <2>6, <3>1
    <3>2. CASE merged # snap.meta
      <4>1. after = WithMeta(saved, r, merged)
        BY <3>2
      <4>2. QED
        BY <2>4, <2>6, <4>1, WithMetaForm
    <3>3. QED
      BY <3>1, <3>2
  <2> HIDE DEF after
  <2>8. /\ participants' \in [Participants -> ParticipantRecord \cup {Gone}]
        /\ \A q \in Participants : Changed(r, q)
    <3>1. \/ after.has["org"] = participants[p].has["org"]
          \/ /\ req[r].at \in {"save", "editProfile"}
             /\ req'[r].at = "ok"
             /\ req[r].target = p
             /\ req[r].sent.has["org"] # None
             /\ after.has["org"] = req[r].sent.has["org"]
      BY <1>1, <2>2, <2>5, <2>7
    <3>2. QED
      BY <1>4, <2>1, <2>7, <3>1, WriteForm
  <2>9. QED
    BY <1>1, <2>2, <2>8, Ending, Atomic, SameForm DEF TypeInv
<1>5. CASE p \notin LiveParticipants
  <2>1. Answer(r, "error") /\ UNCHANGED participants
    BY <1>5 DEF SaveParticipant
  <2>2. /\ req' \in [Requests -> RequestRecord]
        /\ Others(r) /\ Continues(r) /\ req'[r].at = "error"
    BY <1>1, <2>1, Atomic, GotoForm
  <2>3. QED
    BY <1>1, <2>1, <2>2, Ending, Atomic, SameForm DEF TypeInv
<1>6. QED
  BY <1>4, <1>5

LEMMA RemoveStep ==
  ASSUME ParticipantsInv, NEW r \in Requests, NEW p \in LiveParticipants, NEW o \in Orgs,
         RemoveParticipant(r, p, o)
  PROVE  Acts(r)
<1> TypeInv /\ Born
  BY DEF ParticipantsInv
<1>1. p \in Participants
  BY LiveType
<1>2. PICK at \in {"erase", "ok"} : Enter(r, Request("remove", at, NothingSent, p, None))
  BY DEF RemoveParticipant
<1>3. "remove" \in Kinds /\ p \in Targets /\ at \in Pending \cup Answers /\ None \in Users \cup {None}
      /\ NothingSent \in Sents \cup {NothingSent}
  BY <1>1 DEF Kinds, Targets, Answers, Pending
<1>4. /\ req' \in [Requests -> RequestRecord]
      /\ Others(r) /\ Begins(r) /\ req[r].at = "idle" /\ req'[r].at # "idle"
      /\ req'[r].kind = "remove" /\ req'[r].at = at /\ req'[r].target = p
  BY <1>2, <1>3, ArriveForm
<1>5. UNCHANGED <<participants, orgs, users>>
  BY DEF RemoveParticipant
<1>6. Acting(r)
  BY <1>4, <1>5, SameForm DEF Acting
<1>7. p \in Requests => req'[p].at = "ok"
  <2>1. p \in Requests => req[p].at = "ok"
    BY <1>1, LiveType DEF Born, LiveParticipants
  <2>2. p # r
    BY <1>4, <2>1
  <2>3. QED
    BY <1>4, <2>1, <2>2 DEF Others, Kept
<1>8. Claims(r)'
  BY <1>1, <1>4, <1>5, <1>7 DEF Claims, Placed, Rivals, Edits, Merges, Supported, Namesakes
<1>9. QED
  BY <1>4, <1>5, <1>6, <1>8 DEF Acts, TypeInv

LEMMA EraseStep ==
  ASSUME ParticipantsInv, NEW r \in Requests, EraseParticipant(r)
  PROVE  Acts(r)
<1> TypeInv /\ MetInv
  BY DEF ParticipantsInv
<1>1. /\ req[r].at = "erase" /\ req[r].at \in Pending
      /\ Put(req[r].target, Gone) /\ Answer(r, "ok") /\ UNCHANGED <<orgs, users>>
  BY DEF EraseParticipant, Pending
<1>2. req[r].target \in Participants /\ req[r].kind = "remove"
  BY <1>1 DEF ParticipantsInv, Claims, Placed
<1>3. /\ req' \in [Requests -> RequestRecord]
      /\ Others(r) /\ Continues(r) /\ req'[r].at = "ok"
  BY <1>1, Atomic, GotoForm
<1>4. /\ participants' \in [Participants -> ParticipantRecord \cup {Gone}]
      /\ \A q \in Participants : Changed(r, q)
  BY <1>1, <1>2, <1>3, EraseForm DEF Continues
<1>5. QED
  BY <1>1, <1>3, <1>4, Ending, Atomic, SameForm DEF TypeInv

LEMMA DeleteStep ==
  ASSUME ParticipantsInv, NEW r \in Requests, NEW p \in LiveParticipants, DeleteParticipant(r, p)
  PROVE  Acts(r)
<1> TypeInv
  BY DEF ParticipantsInv
<1>1. p \in Participants
  BY LiveType
<1>2. /\ Enter(r, Request("delete", "ok", NothingSent, p, None))
      /\ Put(p, Gone) /\ UNCHANGED <<orgs, users>>
  BY DEF DeleteParticipant
<1>3. "delete" \in Kinds /\ p \in Targets /\ "ok" \in Pending \cup Answers /\ None \in Users \cup {None}
      /\ NothingSent \in Sents \cup {NothingSent}
  BY <1>1 DEF Kinds, Targets, Answers
<1>4. /\ req' \in [Requests -> RequestRecord]
      /\ Others(r) /\ Begins(r) /\ req'[r].kind = "delete" /\ req'[r].at = "ok" /\ req'[r].target = p
  BY <1>2, <1>3, ArriveForm
<1>5. /\ participants' \in [Participants -> ParticipantRecord \cup {Gone}]
      /\ \A q \in Participants : Changed(r, q)
  BY <1>1, <1>2, <1>4, EraseForm
<1>6. QED
  BY <1>2, <1>4, <1>5, Ending, Atomic, SameForm DEF TypeInv

\* What takes an access or an ownership away stays met.
LEMMA TakenStays ==
  ASSUME TypeInv, MetInv, NEW r \in Requests, NEW s \in Requests,
         Others(r), Begins(r) \/ Continues(r),
         req[s].met \subseteq req'[s].met,
         req'[s].target = req[s].target, req'[s].user = req[s].user,
         req'[s].access = req[s].access
  PROVE  /\ AccessTaken(s) => AccessTaken(s)'
         /\ OwnershipTaken(s) => OwnershipTaken(s)'
<1>1. ASSUME NEW t \in req[s].met
      PROVE  /\ t \in req'[s].met
             /\ req'[t].kind = req[t].kind /\ req'[t].target = req[t].target
             /\ req'[t].sent = req[t].sent /\ req'[t].user = req[t].user
  <2>1. t \in Requests /\ req[t].at # "idle"
    BY DEF TypeInv, RequestRecord, MetInv
  <2>2. QED
    BY <2>1 DEF Others, Kept, Begins, Continues
<1>2. AccessTaken(s) => AccessTaken(s)'
  BY <1>1 DEF AccessTaken
<1>3. OwnershipTaken(s) => OwnershipTaken(s)'
  BY <1>1 DEF OwnershipTaken
<1>4. QED
  BY <1>2, <1>3

LEMMA PutProfileStep ==
  ASSUME ParticipantsInv, NEW r \in Requests, NEW u \in Users, NEW o \in Orgs \cup {None},
         NEW sent \in Sents, PutProfile(r, u, o, sent)
  PROVE  Acts(r)
<1> TypeInv
  BY DEF ParticipantsInv
<1> DEFINE at == IF o = None THEN "upsert" ELSE "owner"
           q == Request("profile", at, sent, o, u)
<1>1. at \in {"upsert", "owner"} /\ (o # None => at = "owner")
  OBVIOUS
<1>2. PICK e :
        /\ Enter(r, e) /\ UNCHANGED <<participants, orgs, users>>
        /\ \/ e = q
           \/ \E p \in ParticipantsOf(u, o) : at = "owner" /\ e = [q EXCEPT !.access = p]
  BY DEF PutProfile
<1> HIDE DEF at
<1>3. /\ q \in RequestRecord /\ q.access = None
      /\ q.kind = "profile" /\ q.at = at /\ q.sent = sent /\ q.target = o /\ q.user = u
  <2>1. "profile" \in Kinds /\ at \in Pending \cup Answers /\ o \in Targets
        /\ sent \in Sents \cup {NothingSent} /\ u \in Users \cup {None}
    BY <1>1 DEF Kinds, Pending, Targets
  <2>2. QED
    BY <2>1, RequestForm
<1> HIDE DEF q
<1>4. /\ e \in RequestRecord
      /\ e.kind = "profile" /\ e.at = at /\ e.sent = sent /\ e.target = o /\ e.user = u
      /\ e.access = None \/ e.access \in ParticipantsOf(u, o)
  <2>1. CASE e = q
    BY <1>3, <2>1
  <2>2. ASSUME NEW p \in ParticipantsOf(u, o), e = [q EXCEPT !.access = p]
        PROVE  /\ e \in RequestRecord
               /\ e.kind = "profile" /\ e.at = at /\ e.sent = sent /\ e.target = o /\ e.user = u
               /\ e.access = p
    <3>1. p \in Participants
      BY DEF ParticipantsOf, LiveParticipants
    <3>2. QED
      BY <1>3, <2>2, <3>1 DEF RequestRecord
  <2>3. QED
    BY <1>2, <2>1, <2>2
<1>5. /\ req' \in [Requests -> RequestRecord]
      /\ Others(r) /\ Begins(r) /\ req'[r].at # "idle"
      /\ req'[r].at = at /\ req'[r].kind = "profile" /\ req'[r].target = o
      /\ req'[r].user = u /\ req'[r].access = e.access
  BY <1>1, <1>2, <1>4, EnterForm
<1>6. Acting(r)
  BY <1>2, <1>5, SameForm DEF Acting
<1>7. Supported(r)'
  BY <1>1, <1>2, <1>4, <1>5 DEF Supported, Access, ParticipantsOf, LiveParticipants
<1>8. Claims(r)'
  BY <1>1, <1>5, <1>7 DEF Claims, Placed, Rivals, Edits, Merges, Namesakes
<1>9. QED
  BY <1>2, <1>5, <1>6, <1>8 DEF Acts, TypeInv

LEMMA CheckOwnerStep ==
  ASSUME ParticipantsInv, NEW r \in Requests, CheckOwner(r)
  PROVE  Acts(r)
<1> TypeInv /\ MetInv
  BY DEF ParticipantsInv
<1>1. req[r].at = "owner" /\ req[r].at \in Pending /\ UNCHANGED <<participants, orgs, users>>
  BY DEF CheckOwner, Pending
<1>2. Placed(r) /\ Supported(r)
  BY DEF ParticipantsInv, Claims
<1>3. CASE req[r].access # None \/ Owner(r)
  <2>1. Goto(r, "upsert")
    BY <1>3 DEF CheckOwner, Owner
  <2>2. "upsert" \in Pending \cup Answers
    BY DEF Pending
  <2>3. /\ req' \in [Requests -> RequestRecord]
        /\ Others(r) /\ Continues(r) /\ req'[r].at = "upsert" /\ req'[r].at # "idle"
        /\ req'[r].access = req[r].access
    BY <1>1, <2>1, <2>2, GotoForm
  <2>4. Acting(r)
    BY <1>1, <2>3, SameForm DEF Acting
  <2>5. Supported(r)'
    <3>1. AccessTaken(r) => AccessTaken(r)'
      BY <2>3, TakenStays DEF Continues
    <3>2. Access(r) => Access(r)'
      BY <1>1, <2>3 DEF Access, ParticipantsOf, LiveParticipants, Continues
    <3>3. Owner(r) => Owner(r)'
      BY <1>1, <2>3 DEF Owner, LiveOrgs, Continues
    <3>4. QED
      BY <1>1, <1>2, <1>3, <2>3, <3>1, <3>2, <3>3 DEF Supported, Continues
  <2>6. Claims(r)'
    BY <1>1, <1>2, <2>3, <2>5 DEF Claims, Placed, Rivals, Edits, Merges, Namesakes, Continues
  <2>7. QED
    BY <1>1, <2>3, <2>4, <2>6 DEF Acts, TypeInv
<1>4. CASE ~ (req[r].access # None \/ Owner(r))
  <2>1. Answer(r, "forbidden")
    BY <1>4 DEF CheckOwner, Owner
  <2>2. /\ req' \in [Requests -> RequestRecord]
        /\ Others(r) /\ Continues(r) /\ req'[r].at = "forbidden"
    BY <1>1, <2>1, Atomic, GotoForm
  <2>3. QED
    BY <1>1, <2>2, Ending, Atomic, SameForm DEF TypeInv
<1>5. QED
  BY <1>3, <1>4

LEMMA UpsertStep ==
  ASSUME ParticipantsInv, NEW r \in Requests, Upsert(r)
  PROVE  Acts(r)
<1> TypeInv /\ MetInv
  BY DEF ParticipantsInv
<1> DEFINE sent == req[r].sent
           Set(p) == [participants[p] EXCEPT !.has = Assign(@, sent.has, Identifiers)]
<1>1. req[r].at = "upsert" /\ req[r].at \in Pending /\ UNCHANGED <<orgs, users>>
  BY DEF Upsert, Pending
<1>2. Placed(r) /\ Supported(r)
  BY DEF ParticipantsInv, Claims
<1>3. sent \in Sents \cup {NothingSent}
  BY DEF TypeInv, RequestRecord
<1>4. ASSUME NEW p \in ParticipantsOf(req[r].user, req[r].target),
             Put(p, IF sent.meta = Unset THEN Set(p) ELSE WithMeta(Set(p), r, sent.meta)),
             Answer(r, "ok")
      PROVE  Acts(r)
  <2> DEFINE after == IF sent.meta = Unset THEN Set(p) ELSE WithMeta(Set(p), r, sent.meta)
  <2>1. p \in LiveParticipants /\ participants[p] \in ParticipantRecord
    BY LiveType DEF ParticipantsOf
  <2>2. /\ req' \in [Requests -> RequestRecord]
        /\ Others(r) /\ Continues(r) /\ req'[r].at = "ok"
    BY <1>1, <1>4, Atomic, GotoForm
  <2>3. PICK set \in ParticipantRecord :
          /\ set = Set(p)
          /\ set.has["org"] = participants[p].has["org"]
          /\ set.userId = participants[p].userId
          /\ set.meta = participants[p].meta /\ set.by = participants[p].by
    <3>1. PICK has \in Scalar :
            /\ has = Assign(participants[p].has, sent.has, Identifiers)
            /\ has["org"] = participants[p].has["org"]
      <4>1. participants[p].has \in Scalar /\ sent.has \in Scalar
        BY <1>3, <2>1, SentType DEF ParticipantRecord
      <4>2. "org" \notin Identifiers
        BY DEF Identifiers
      <4>3. QED
        BY <4>1, <4>2, AssignForm
    <3>2. Set(p) = [participants[p] EXCEPT !.has = has]
      BY <2>1, <3>1 DEF ParticipantRecord
    <3>3. QED
      BY <2>1, <3>1, <3>2 DEF ParticipantRecord
  <2>4. after = IF sent.meta = Unset THEN set ELSE WithMeta(set, r, sent.meta)
    BY <2>3
  <2>5. /\ after \in ParticipantRecord
        /\ after.has["org"] = participants[p].has["org"]
        /\ after.userId = participants[p].userId
        /\ \A f \in Paths :
             \/ /\ after.by[f] = participants[p].by[f]
                /\ ConfigOf(after.meta)[f] = ConfigOf(participants[p].meta)[f]
             \/ after.by[f] = {r}
    <3> HIDE DEF after
    <3>1. CASE sent.meta = Unset
      BY <2>3, <2>4, <3>1
    <3>2. CASE sent.meta # Unset
      <4>1. after = WithMeta(set, r, sent.meta)
        BY <2>4, <3>2
      <4>2. sent.meta \in Metadata \cup {Unset}
        BY <1>3, SentType
      <4> HIDE DEF sent
      <4>3. /\ after \in ParticipantRecord
            /\ after.userId = set.userId /\ after.has = set.has /\ after.meta = sent.meta
            /\ \A f \in Paths :
                 \/ after.by[f] = set.by[f] /\ ConfigOf(sent.meta)[f] = ConfigOf(set.meta)[f]
                 \/ after.by[f] = {r}
        BY <4>1, <4>2, WithMetaForm
      <4>4. QED
        BY <2>3, <4>3
    <3>3. QED
      BY <3>1, <3>2
  <2>6. Put(p, after)
    BY <1>4
  <2> HIDE DEF after
  <2>7. /\ participants' \in [Participants -> ParticipantRecord \cup {Gone}]
        /\ \A q \in Participants : Changed(r, q)
    BY <2>1, <2>5, <2>6, WriteForm
  <2>8. QED
    BY <1>1, <2>2, <2>7, Ending, Atomic, SameForm DEF TypeInv
<1>5. ASSUME ParticipantsOf(req[r].user, req[r].target) = {}, Goto(r, "insertProfile"),
             UNCHANGED participants
      PROVE  Acts(r)
  <2>1. "insertProfile" \in Pending \cup Answers
    BY DEF Pending
  <2>2. /\ req' \in [Requests -> RequestRecord]
        /\ Others(r) /\ Continues(r) /\ req'[r].at = "insertProfile" /\ req'[r].at # "idle"
        /\ req'[r].access = req[r].access
    BY <1>1, <1>5, <2>1, GotoForm
  <2>3. Acting(r)
    BY <1>1, <1>5, <2>2, SameForm DEF Acting
  <2>4. Supported(r)'
    <3>1. /\ AccessTaken(r) => AccessTaken(r)'
          /\ OwnershipTaken(r) => OwnershipTaken(r)'
      BY <2>2, TakenStays DEF Continues
    <3>2. Owner(r) => Owner(r)'
      BY <1>1, <2>2 DEF Owner, LiveOrgs, Continues
    <3>3. ~ Access(r)
      BY <1>5 DEF Access
    <3>4. QED
      BY <1>1, <1>2, <2>2, <3>1, <3>2, <3>3 DEF Supported, Continues
  <2>5. Rivals(r)'
    <3>1. ParticipantsOf(req[r].user, req[r].target)' = {}
      BY <1>5, <2>2 DEF ParticipantsOf, LiveParticipants, Continues
    <3>2. QED
      BY <3>1 DEF Rivals
  <2>6. Claims(r)'
    BY <1>1, <1>2, <2>2, <2>4, <2>5 DEF Claims, Placed, Edits, Merges, Namesakes, Continues
  <2>7. QED
    BY <1>1, <1>5, <2>2, <2>3, <2>6 DEF Acts, TypeInv
<1>6. QED
  BY <1>4, <1>5 DEF Upsert

LEMMA InsertProfileStep ==
  ASSUME ParticipantsInv, NEW r \in Requests, InsertProfile(r)
  PROVE  Acts(r)
<1> TypeInv /\ MetInv /\ Born
  BY DEF ParticipantsInv
<1> DEFINE profile == [NothingSent.has EXCEPT !["org"] = req[r].target]
           has == Assign(profile, req[r].sent.has, Identifiers)
           x == NewParticipant(r, req[r].user, has, req[r].sent.meta)
<1>1. /\ req[r].at = "insertProfile" /\ req[r].at \in Pending
      /\ Put(r, x) /\ Answer(r, "ok") /\ UNCHANGED <<orgs, users>>
  BY DEF InsertProfile, Pending
<1>2. req[r].kind = "profile" /\ req[r].user \in Users /\ req[r].target \in Orgs \cup {None}
  BY <1>1 DEF ParticipantsInv, Claims, Placed
<1>3. /\ req' \in [Requests -> RequestRecord]
      /\ Others(r) /\ Continues(r) /\ req'[r].at = "ok"
  BY <1>1, Atomic, GotoForm
<1>4. has \in Scalar /\ has["org"] = req[r].target
  <2>1. profile \in Scalar /\ profile["org"] = req[r].target
    BY <1>2, SentType, InOrgType
  <2>2. req[r].sent.has \in Scalar
    BY SentType DEF TypeInv, RequestRecord
  <2>3. "org" \notin Identifiers
    BY DEF Identifiers
  <2> HIDE DEF profile
  <2>4. QED
    BY <2>1, <2>2, <2>3, AssignForm
<1>5. req[r].sent.meta \in Metadata \cup {Unset}
  BY SentType DEF TypeInv, RequestRecord
<1> HIDE DEF has, profile
<1>6. x \in ParticipantRecord /\ x.userId = req[r].user /\ x.has["org"] = req[r].target
  <2>1. req[r].user \in Users \cup {None}
    BY <1>2
  <2>2. QED
    BY <1>4, <1>5, <2>1, NewParticipantForm
<1> HIDE DEF x
<1>7. /\ participants' \in [Participants -> ParticipantRecord \cup {Gone}]
      /\ \A q \in Participants : Changed(r, q)
  BY <1>1, <1>3, <1>6, CreateForm
<1>8. QED
  BY <1>1, <1>3, <1>7, Ending, Atomic, SameForm DEF TypeInv

LEMMA FoundStep ==
  ASSUME ParticipantsInv, NEW r \in Requests, NEW u \in Users, NEW name \in Names,
         Found(r, u, name)
  PROVE  Acts(r)
<1> TypeInv /\ Born
  BY DEF ParticipantsInv
<1>1. /\ Enter(r, Request("found", "ok", NothingSent, name, u))
      /\ orgs' = [orgs EXCEPT ![r] = [name |-> name, owner |-> u]]
      /\ UNCHANGED <<participants, users>>
  BY DEF Found
<1>2. "found" \in Kinds /\ name \in Targets /\ "ok" \in Pending \cup Answers
      /\ u \in Users \cup {None} /\ NothingSent \in Sents \cup {NothingSent}
  BY DEF Kinds, Targets, Answers
<1>3. /\ req' \in [Requests -> RequestRecord]
      /\ Others(r) /\ Begins(r) /\ req[r].at = "idle"
      /\ req'[r].kind = "found" /\ req'[r].at = "ok"
  BY <1>1, <1>2, ArriveForm
<1>4. orgs' \in [Orgs -> OrgRecord \cup {Gone}]
  BY <1>1 DEF TypeInv, OrgRecord
<1>5. \A o \in Orgs : OrgChanged(r, o)
  BY <1>1, <1>3 DEF OrgChanged, Born, TypeInv
<1>6. QED
  BY <1>1, <1>3, <1>4, <1>5, Ending, Atomic, SameForm DEF TypeInv

LEMMA AdminFoundStep ==
  ASSUME ParticipantsInv, NEW r \in Requests, NEW u \in Users \cup {None}, NEW name \in Names,
         AdminFound(r, u, name)
  PROVE  Acts(r)
<1> TypeInv
  BY DEF ParticipantsInv
<1>1. UNCHANGED <<participants, orgs, users>>
  BY DEF AdminFound
<1>2. PICK at \in {"conflict", "insertOrg"} :
        /\ Enter(r, Request("adminFound", at, NothingSent, name, u))
        /\ at = "insertOrg" => \A o \in LiveOrgs : orgs[o].name # name
  BY DEF AdminFound
<1>3. "adminFound" \in Kinds /\ name \in Targets /\ at \in Pending \cup Answers
      /\ NothingSent \in Sents \cup {NothingSent}
  BY <1>2 DEF Kinds, Targets, Answers, Pending
<1>4. /\ req' \in [Requests -> RequestRecord]
      /\ Others(r) /\ Begins(r) /\ req'[r].at # "idle"
      /\ req'[r].kind = "adminFound" /\ req'[r].at = at /\ req'[r].target = name
  <2>1. Enter(r, Request("adminFound", at, NothingSent, name, u))
    BY <1>2
  <2>2. u \in Users \cup {None}
    OBVIOUS
  <2>3. QED
    BY <1>3, <2>1, <2>2, ArriveForm
<1>5. Acting(r)
  BY <1>1, <1>4, SameForm DEF Acting
<1>6. Namesakes(r)'
  BY <1>1, <1>2, <1>4 DEF Namesakes, LiveOrgs
<1>7. Claims(r)'
  BY <1>2, <1>4, <1>6 DEF Claims, Placed, Rivals, Edits, Merges, Supported
<1>8. QED
  BY <1>1, <1>4, <1>5, <1>7 DEF Acts, TypeInv

LEMMA InsertOrgStep ==
  ASSUME ParticipantsInv, NEW r \in Requests, InsertOrg(r)
  PROVE  Acts(r)
<1> TypeInv /\ MetInv /\ Born
  BY DEF ParticipantsInv
<1>1. /\ req[r].at = "insertOrg" /\ req[r].at \in Pending
      /\ orgs' = [orgs EXCEPT ![r] = [name |-> req[r].target, owner |-> req[r].user]]
      /\ Answer(r, "ok") /\ UNCHANGED <<participants, users>>
  BY DEF InsertOrg, Pending
<1>2. req[r].target \in Names /\ req[r].user \in Users \cup {None}
  BY <1>1 DEF ParticipantsInv, Claims, Placed, TypeInv, RequestRecord
<1>3. /\ req' \in [Requests -> RequestRecord]
      /\ Others(r) /\ Continues(r) /\ req'[r].at = "ok"
  BY <1>1, Atomic, GotoForm
<1>4. r \in Orgs
  BY DEF Orgs
<1>5. /\ orgs' \in [Orgs -> OrgRecord \cup {Gone}]
      /\ orgs'[r].name = req[r].target
      /\ \A o \in Orgs \ {r} : orgs'[o] = orgs[o]
  BY <1>1, <1>2, <1>4 DEF TypeInv, OrgRecord
<1>6. orgs[r] = Gone
  BY <1>1 DEF Born
<1>7. \A o \in Orgs : OrgChanged(r, o)
  BY <1>1, <1>3, <1>5, <1>6 DEF OrgChanged
<1>8. QED
  BY <1>1, <1>3, <1>5, <1>7, Ending, Atomic, SameForm DEF TypeInv

LEMMA RenameStep ==
  ASSUME ParticipantsInv, NEW r \in Requests, NEW o \in Orgs, NEW name \in Names,
         NEW owner \in Users \cup {None}, Rename(r, o, name, owner)
  PROVE  Acts(r)
<1> TypeInv
  BY DEF ParticipantsInv
<1> DEFINE renamed == IF orgs[o] = Gone THEN Gone
                      ELSE [name |-> name,
                            owner |-> IF owner = None THEN orgs[o].owner ELSE owner]
<1>1. /\ Enter(r, Request("rename", "ok", NothingSent, o, owner))
      /\ orgs' = [orgs EXCEPT ![o] = renamed]
      /\ UNCHANGED <<participants, users>>
  BY DEF Rename, TypeInv
<1>2. "rename" \in Kinds /\ o \in Targets /\ "ok" \in Pending \cup Answers
      /\ NothingSent \in Sents \cup {NothingSent}
  BY DEF Kinds, Targets, Answers
<1>3. /\ req' \in [Requests -> RequestRecord]
      /\ Others(r) /\ Begins(r)
      /\ req'[r].kind = "rename" /\ req'[r].at = "ok"
      /\ req'[r].target = o /\ req'[r].user = owner
  BY <1>1, <1>2, ArriveForm
<1>4. /\ renamed \in OrgRecord \cup {Gone}
      /\ orgs[o] = Gone => renamed = Gone
      /\ orgs[o] # Gone
           => /\ renamed # Gone
              /\ renamed.owner = IF owner = None THEN orgs[o].owner ELSE owner
  BY ParticipantsAssumption DEF TypeInv, OrgRecord
<1> HIDE DEF renamed
<1>5. orgs' \in [Orgs -> OrgRecord \cup {Gone}]
  BY <1>1, <1>4 DEF TypeInv
<1>6. \A q \in Orgs : OrgChanged(r, q)
  BY <1>1, <1>3, <1>4 DEF OrgChanged, TypeInv
<1>7. QED
  BY <1>1, <1>3, <1>5, <1>6, Ending, Atomic, SameForm DEF TypeInv

LEMMA DissolveStep ==
  ASSUME ParticipantsInv, NEW r \in Requests, NEW o \in Orgs, Dissolve(r, o)
  PROVE  Acts(r)
<1> TypeInv
  BY DEF ParticipantsInv
<1>1. /\ Enter(r, Request("dissolve", "ok", NothingSent, o, None))
      /\ orgs' = [orgs EXCEPT ![o] = Gone]
      /\ UNCHANGED <<participants, users>>
  BY DEF Dissolve
<1>2. "dissolve" \in Kinds /\ o \in Targets /\ "ok" \in Pending \cup Answers
      /\ None \in Users \cup {None} /\ NothingSent \in Sents \cup {NothingSent}
  BY DEF Kinds, Targets, Answers
<1>3. /\ req' \in [Requests -> RequestRecord]
      /\ Others(r) /\ Begins(r)
      /\ req'[r].kind = "dissolve" /\ req'[r].at = "ok" /\ req'[r].target = o
  BY <1>1, <1>2, ArriveForm
<1>4. orgs' \in [Orgs -> OrgRecord \cup {Gone}]
  BY <1>1 DEF TypeInv
<1>5. \A q \in Orgs : OrgChanged(r, q)
  BY <1>1, <1>3 DEF OrgChanged, TypeInv
<1>6. QED
  BY <1>1, <1>3, <1>4, <1>5, Ending, Atomic, SameForm DEF TypeInv

LEMMA EditUserStep ==
  ASSUME ParticipantsInv, NEW r \in Requests, NEW u \in Users, NEW p \in LiveParticipants,
         NEW sent \in Sents, EditUser(r, u, p, sent)
  PROVE  Acts(r)
<1> TypeInv /\ Born
  BY DEF ParticipantsInv
<1>1. p \in Participants
  BY LiveType
<1>2. /\ sent.has["org"] \in {None, participants[p].has["org"]}
      /\ Enter(r, Request("edit", "editUser", sent, p, u))
      /\ UNCHANGED <<participants, orgs, users>>
  BY DEF EditUser
<1>3. "edit" \in Kinds /\ p \in Targets /\ "editUser" \in Pending \cup Answers
      /\ u \in Users \cup {None} /\ sent \in Sents \cup {NothingSent}
  BY <1>1 DEF Kinds, Targets, Pending
<1>4. /\ req' \in [Requests -> RequestRecord]
      /\ Others(r) /\ Begins(r) /\ req[r].at = "idle" /\ req'[r].at # "idle"
      /\ req'[r].kind = "edit" /\ req'[r].at = "editUser" /\ req'[r].target = p
      /\ req'[r].sent = sent /\ req'[r].user = u
  BY <1>2, <1>3, ArriveForm
<1>5. Acting(r)
  BY <1>2, <1>4, SameForm DEF Acting
<1>6. p \in Requests => req'[p].at = "ok"
  <2>1. p \in Requests => req[p].at = "ok"
    BY <1>1, LiveType DEF Born, LiveParticipants
  <2>2. p # r
    BY <1>4, <2>1
  <2>3. QED
    BY <1>4, <2>1, <2>2 DEF Others, Kept
<1>7. Edits(r)'
  BY <1>2, <1>4 DEF Edits
<1>8. Placed(r)'
  BY <1>1, <1>4, <1>6 DEF Placed
<1>9. Rivals(r)' /\ Namesakes(r)'
  BY <1>4 DEF Rivals, Namesakes
<1>10. Merges(r)'
  BY <1>4 DEF Merges
<1>11. Supported(r)'
  BY <1>4 DEF Supported
<1>12. Claims(r)'
  BY <1>7, <1>8, <1>9, <1>10, <1>11 DEF Claims
<1>13. QED
  BY <1>2, <1>4, <1>5, <1>12 DEF Acts, TypeInv

\* Others that have met requests which move a participant have met them still.
LEMMA DisturbedStays ==
  ASSUME TypeInv, MetInv, NEW r \in Requests, NEW s \in Requests,
         Others(r), Begins(r) \/ Continues(r),
         req[s].met \subseteq req'[s].met,
         req'[s].target = req[s].target, req'[s].sent = req[s].sent,
         Disturbed(s)
  PROVE  Disturbed(s)'
<1>1. PICK t \in req[s].met :
        /\ req[t].kind \in {"merge", "edit"}
        /\ req[t].target = req[s].target
        /\ req[t].sent.has["org"] \notin {None, req[s].sent.has["org"]}
  BY DEF Disturbed
<1>2. t \in Requests /\ req[t].at # "idle"
  BY <1>1 DEF TypeInv, RequestRecord, MetInv
<1>3. req'[t].kind = req[t].kind /\ req'[t].target = req[t].target /\ req'[t].sent = req[t].sent
  <2>1. CASE t = r
    BY <1>2, <2>1 DEF Begins, Continues
  <2>2. CASE t # r
    BY <1>2, <2>2 DEF Others, Kept
  <2>3. QED
    BY <2>1, <2>2
<1>4. QED
  BY <1>1, <1>3 DEF Disturbed

LEMMA WriteUserStep ==
  ASSUME ParticipantsInv, NEW r \in Requests, WriteUser(r)
  PROVE  Acts(r)
<1> TypeInv /\ MetInv
  BY DEF ParticipantsInv
<1> DEFINE u == req[r].user
           sent == req[r].sent
           edited == [i \in Identifiers |->
                        IF sent.has[i] # None THEN sent.has[i] ELSE users[u][i]]
<1>1. /\ req[r].at = "editUser" /\ req[r].at \in Pending
      /\ users' = [users EXCEPT ![u] = edited]
      /\ Goto(r, "editProfile") /\ UNCHANGED <<participants, orgs>>
  <2>1. Placed(r)
    BY DEF ParticipantsInv, Claims
  <2>2. req[r].at = "editUser" /\ u \in Users
    BY <2>1 DEF WriteUser, Placed
  <2>3. users' = [users EXCEPT ![u] = edited]
    BY <2>2 DEF WriteUser, TypeInv
  <2>4. QED
    BY <2>2, <2>3 DEF WriteUser, Pending
<1>2. Placed(r) /\ Edits(r)
  BY DEF ParticipantsInv, Claims
<1>3. sent.has \in Scalar
  BY SentType DEF TypeInv, RequestRecord
<1>4. edited \in [Identifiers -> Values \cup {None}]
  <2>1. users[u] \in [Identifiers -> Values \cup {None}]
    BY <1>1, <1>2 DEF Placed, TypeInv
  <2>2. \A i \in Identifiers : sent.has[i] \in Values \cup {None}
    BY <1>3 DEF Scalar
  <2>3. QED
    BY <2>1, <2>2
<1> HIDE DEF edited
<1>5. users' \in [Users -> [Identifiers -> Values \cup {None}]]
  BY <1>1, <1>4 DEF TypeInv
<1>6. /\ req' \in [Requests -> RequestRecord]
      /\ Others(r) /\ Continues(r) /\ req'[r].at = "editProfile" /\ req'[r].at # "idle"
  <2>1. "editProfile" \in Pending \cup Answers
    BY DEF Pending
  <2>2. QED
    BY <1>1, <2>1, GotoForm
<1>7. Acting(r)
  BY <1>1, <1>6, SameForm DEF Acting
<1>8. Edits(r)'
  <2>1. Disturbed(r) => Disturbed(r)'
    BY <1>6, DisturbedStays DEF Continues
  <2>2. QED
    BY <1>1, <1>2, <1>6, <2>1 DEF Edits, Continues, LiveParticipants
<1>9. Placed(r)'
  <2>1. req[r].target \in Participants
        /\ (req[r].target \in Requests => req[req[r].target].at = "ok")
    BY <1>1, <1>2 DEF Placed
  <2>2. req[r].target # r
    BY <1>1, <2>1
  <2>3. req[r].target \in Requests => req'[req[r].target].at = "ok"
    BY <1>6, <2>1, <2>2 DEF Others, Kept
  <2>4. QED
    BY <1>1, <1>2, <1>6, <2>1, <2>3 DEF Placed, Continues
<1>10. Claims(r)'
  BY <1>6, <1>8, <1>9 DEF Claims, Rivals, Merges, Supported, Namesakes
<1>11. QED
  BY <1>1, <1>5, <1>6, <1>7, <1>10 DEF Acts, TypeInv

LEMMA WriteProfileStep ==
  ASSUME ParticipantsInv, NEW r \in Requests, WriteProfile(r)
  PROVE  Acts(r)
<1> TypeInv /\ MetInv
  BY DEF ParticipantsInv
<1> DEFINE p == req[r].target
           sent == req[r].sent
<1>1. /\ req[r].at = "editProfile" /\ req[r].at \in Pending
      /\ Answer(r, "ok") /\ UNCHANGED <<orgs, users>>
  BY DEF WriteProfile, Pending
<1>2. sent \in Sents \cup {NothingSent}
  BY DEF TypeInv, RequestRecord
<1>3. /\ req' \in [Requests -> RequestRecord]
      /\ Others(r) /\ Continues(r) /\ req'[r].at = "ok"
  BY <1>1, Atomic, GotoForm
<1>4. CASE p \in LiveParticipants
  <2> DEFINE has == Assign(participants[p].has, sent.has, Scalars)
             given == IF sent.has["role"] = None THEN [has EXCEPT !["role"] = "member"] ELSE has
             meta == IF sent.meta = Unset THEN EmptyMetadata ELSE sent.meta
             set == [participants[p] EXCEPT !.has = given]
             after == WithMeta(set, r, meta)
  <2>1. Put(p, after)
    BY <1>4 DEF WriteProfile
  <2>2. participants[p] \in ParticipantRecord
    BY <1>4, LiveType
  <2>3. /\ has \in Scalar
        /\ \/ has["org"] = participants[p].has["org"]
           \/ sent.has["org"] # None /\ has["org"] = sent.has["org"]
    BY <1>2, <2>2, SentType, AssignForm DEF ParticipantRecord
  <2> HIDE DEF has
  <2>4. given \in Scalar /\ given["org"] = has["org"]
    BY <2>3, ParticipantsAssumption DEF Scalar, Scalars, Identifiers
  <2> HIDE DEF given
  <2>5. meta \in Metadata \cup {Unset}
    <3>1. EmptyMetadata \in Metadata
      BY DEF EmptyMetadata, Metadata
    <3>2. QED
      BY <1>2, <3>1, SentType
  <2> HIDE DEF meta
  <2>6. /\ set \in ParticipantRecord
        /\ set.has = given /\ set.userId = participants[p].userId
        /\ set.meta = participants[p].meta /\ set.by = participants[p].by
    BY <2>2, <2>4 DEF ParticipantRecord
  <2> HIDE DEF set
  <2>7. /\ after \in ParticipantRecord
        /\ after.has = given /\ after.userId = participants[p].userId
        /\ \A f \in Paths :
             \/ /\ after.by[f] = participants[p].by[f]
                /\ ConfigOf(after.meta)[f] = ConfigOf(participants[p].meta)[f]
             \/ after.by[f] = {r}
    BY <2>5, <2>6, WithMetaForm
  <2> HIDE DEF after
  <2>8. \/ after.has["org"] = participants[p].has["org"]
        \/ /\ req[r].at \in {"save", "editProfile"}
           /\ req'[r].at = "ok"
           /\ req[r].target = p
           /\ req[r].sent.has["org"] # None
           /\ after.has["org"] = req[r].sent.has["org"]
    BY <1>1, <1>3, <2>3, <2>4, <2>7
  <2>9. /\ participants' \in [Participants -> ParticipantRecord \cup {Gone}]
        /\ \A q \in Participants : Changed(r, q)
    BY <1>4, <2>1, <2>7, <2>8, WriteForm
  <2>10. QED
    BY <1>1, <1>3, <2>9, Ending, Atomic, SameForm DEF TypeInv
<1>5. CASE p \notin LiveParticipants
  <2>1. UNCHANGED participants
    BY <1>5 DEF WriteProfile
  <2>2. QED
    BY <1>1, <1>3, <2>1, Ending, Atomic, SameForm DEF TypeInv
<1>6. QED
  BY <1>4, <1>5

LEMMA NextActs ==
  ASSUME ParticipantsInv, NEW r \in Requests, Arrive(r) \/ Step(r)
  PROVE  Acts(r)
<1> USE DEF ParticipantsInv
<1>1. Known \subseteq Orgs
  BY DEF Known, LiveOrgs, Orgs
<1>2. CASE Step(r)
  BY <1>2, SaveStep, EraseStep, CheckOwnerStep, UpsertStep, InsertProfileStep, InsertOrgStep,
     WriteUserStep, WriteProfileStep DEF Step
<1>3. CASE Arrive(r)
  <2>1. CASE \E sent \in Sents : \E o \in Known :
               AddParticipant(r, o, sent) \/ InsertParticipant(r, o, sent)
    BY <1>1, <2>1, AddStep
  <2>2. CASE \E sent \in Sents : \E p \in LiveParticipants : \E o \in Known :
               SetParticipant(r, p, o, sent)
    BY <1>1, <2>2, SetStep
  <2>3. CASE \E sent \in Sents : \E p \in LiveParticipants : FindParticipant(r, p, sent)
    BY <2>3, FindStep
  <2>4. CASE \E sent \in Sents : \E p \in LiveParticipants : \E u \in Users :
               EditUser(r, u, p, sent)
    BY <2>4, EditUserStep
  <2>5. CASE \E sent \in Sents : \E u \in Users, o \in Known \cup {None} :
               PutProfile(r, u, o, sent)
    BY <1>1, <2>5, PutProfileStep
  <2>6. CASE \E p \in LiveParticipants :
               (\E o \in Known : RemoveParticipant(r, p, o)) \/ DeleteParticipant(r, p)
    BY <1>1, <2>6, RemoveStep, DeleteStep
  <2>7. CASE \E u \in Users, name \in Names : Found(r, u, name)
    BY <2>7, FoundStep
  <2>8. CASE \E u \in Users \cup {None}, name \in Names :
               AdminFound(r, u, name) \/ \E o \in Known : Rename(r, o, name, u)
    BY <1>1, <2>8, AdminFoundStep, RenameStep
  <2>9. CASE \E o \in Known : Dissolve(r, o)
    BY <1>1, <2>9, DissolveStep
  <2>10. QED
    BY <1>3, <2>1, <2>2, <2>3, <2>4, <2>5, <2>6, <2>7, <2>8, <2>9 DEF Arrive
<1>4. QED
  BY <1>2, <1>3

---------------------------------------------------------------------------
(* What stays true when a request acts. *)

LEMMA MetStays ==
  ASSUME TypeInv, MetInv, NEW r \in Requests, Acting(r), NEW p, NEW q, Met(p, q)
  PROVE  Met(p, q)'
<1>1. p \in Requests /\ q \in Requests /\ p \in req[q].met /\ q \in req[p].met
  BY DEF Met
<1>2. req[p].at # "idle" /\ req[q].at # "idle"
  BY <1>1 DEF MetInv
<1>3. req[p].met \subseteq req'[p].met /\ req[q].met \subseteq req'[q].met
  BY <1>1, <1>2 DEF Acting, Others, Kept, Begins, Continues
<1>4. QED
  BY <1>1, <1>3 DEF Met

\* Two requests that run, or one that begins while the other runs, meet.
LEMMA RunningMeet ==
  ASSUME TypeInv, MetInv, NEW r \in Requests, Acting(r), req[r].at \in Pending,
         NEW s \in Requests, s # r, req[s].at \in Pending
  PROVE  Met(r, s)' /\ Met(s, r)'
<1>1. r \in Running /\ s \in Running
  BY DEF Running
<1>2. r \in req[s].met /\ s \in req[r].met
  BY <1>1 DEF MetInv
<1>3. Met(r, s) /\ Met(s, r)
  BY <1>2 DEF Met
<1>4. Met(r, s)'
  BY <1>3, MetStays
<1>5. Met(s, r)'
  BY <1>3, MetStays
<1>6. QED
  BY <1>4, <1>5

LEMMA DisturbedMoves ==
  ASSUME NEW t \in Requests, NEW p,
         req'[t].at = "ok", req'[t].target = p, req'[t].sent.has["org"] # None,
         req'[t].sent.has["org"] = participants'[p].has["org"],
         req'[t].kind = "merge" \/ (req'[t].kind = "edit" /\ Disturbed(t)')
  PROVE  Moved(p)'
<1>1. CASE req'[t].kind = "merge"
  BY <1>1 DEF Moved
<1>2. CASE req'[t].kind = "edit" /\ Disturbed(t)'
  BY <1>2 DEF Moved, Disturbed
<1>3. QED
  BY <1>1, <1>2

LEMMA MovedStays ==
  ASSUME TypeInv, MetInv, NEW r \in Requests, Acting(r), NEW p,
         participants'[p].has["org"] = participants[p].has["org"], Moved(p)
  PROVE  Moved(p)'
<1>1. PICK t \in Requests :
        /\ req[t].at = "ok"
        /\ req[t].target = p /\ req[t].sent.has["org"] # None
        /\ req[t].sent.has["org"] = participants[p].has["org"]
        /\ req[t].kind = "merge" \/ (req[t].kind = "edit" /\ Disturbed(t))
  <2>1. PICK t \in Requests :
          /\ req[t].at = "ok"
          /\ req[t].target = p
          /\ req[t].sent.has["org"] # None
          /\ req[t].sent.has["org"] = participants[p].has["org"]
          /\ \/ req[t].kind = "merge"
             \/ /\ req[t].kind = "edit"
                /\ \E s \in req[t].met :
                     /\ req[s].kind \in {"merge", "edit"}
                     /\ req[s].target = p
                     /\ req[s].sent.has["org"] \notin {None, req[t].sent.has["org"]}
    BY Zenon DEF Moved
  <2>2. req[t].kind = "merge" \/ (req[t].kind = "edit" /\ Disturbed(t))
    BY <2>1 DEF Disturbed
  <2>3. QED
    BY <2>1, <2>2
<1>2. t # r
  BY <1>1 DEF Acting, Begins, Continues, Pending
<1>3. Kept(t)
  BY <1>2 DEF Acting, Others
<1>4. Disturbed(t) => Disturbed(t)'
  BY <1>3, DisturbedStays DEF Acting, Kept
<1>5. QED
  BY <1>1, <1>3, <1>4, DisturbedMoves DEF Kept

LEMMA MovedNow ==
  ASSUME ParticipantsInv, NEW r \in Requests, Acting(r), NEW p, Written(r, p),
         p \in LiveParticipants,
         participants'[p].has["org"] # participants[p].has["org"]
  PROVE  Moved(p)'
<1> TypeInv /\ MetInv
  BY DEF ParticipantsInv
<1>1. /\ req[r].at \in {"save", "editProfile"}
      /\ req'[r].at = "ok"
      /\ req[r].target = p
      /\ req[r].sent.has["org"] # None
      /\ participants'[p].has["org"] = req[r].sent.has["org"]
  BY DEF Written
<1>2. Continues(r)
  BY <1>1 DEF Acting, Begins
<1>3. Placed(r) /\ Edits(r)
  BY DEF ParticipantsInv, Claims
<1>4. \/ req[r].kind = "merge"
      \/ (req[r].kind = "edit" /\ Disturbed(r))
  BY <1>1, <1>3 DEF Placed, Edits
<1>5. Disturbed(r) => Disturbed(r)'
  BY <1>2, DisturbedStays DEF Acting, Continues
<1>6. /\ req'[r].at = "ok"
      /\ req'[r].target = p
      /\ req'[r].sent.has["org"] # None
      /\ req'[r].sent.has["org"] = participants'[p].has["org"]
      /\ req'[r].kind = "merge" \/ (req'[r].kind = "edit" /\ Disturbed(r)')
  BY <1>1, <1>2, <1>4, <1>5 DEF Continues
<1>7. QED
  BY <1>6 DEF Moved, Disturbed

\* A participant that was there, and is: where it is now, it was, or it moved.
LEMMA StaysOrMoved ==
  ASSUME ParticipantsInv, NEW r \in Requests, Acting(r), NEW p \in LiveParticipants,
         participants'[p] # Gone
  PROVE  /\ participants'[p].userId = participants[p].userId
         /\ participants'[p].has["org"] = participants[p].has["org"] \/ Moved(p)'
         /\ Moved(p) => Moved(p)'
<1> TypeInv /\ MetInv
  BY DEF ParticipantsInv
<1>1. p \in Participants /\ participants[p] # Gone
  BY DEF LiveParticipants
<1>2. participants'[p] = participants[p] \/ Written(r, p)
  BY <1>1 DEF Acting, Changed, Created
<1>3. participants'[p].userId = participants[p].userId
  BY <1>2 DEF Written
<1>4. participants'[p].has["org"] = participants[p].has["org"] \/ Moved(p)'
  BY <1>2, MovedNow
<1>5. Moved(p) => Moved(p)'
  BY <1>4, MovedStays
<1>6. QED
  BY <1>3, <1>4, <1>5

LEMMA ChosenStays ==
  ASSUME ParticipantsInv, NEW r \in Requests, Acting(r), NEW o, OwnerNamed(o)
  PROVE  OwnerNamed(o)'
<1>1. PICK t \in Requests : \/ t = o /\ req[t].kind = "found"
                            \/ req[t].kind = "rename" /\ req[t].target = o
  BY DEF OwnerNamed
<1>2. req[t].at # "idle"
  BY <1>1 DEF ParticipantsInv, Claims, Placed
<1>3. req'[t].kind = req[t].kind /\ req'[t].target = req[t].target
  BY <1>2 DEF Acting, Others, Kept, Begins, Continues
<1>4. QED
  BY <1>1, <1>3 DEF OwnerNamed

LEMMA ActingMet ==
  ASSUME TypeInv, MetInv, NEW r \in Requests, Acting(r)
  PROVE  MetInv'
<1>1. \A s \in Requests \ {r} : req'[s].at = req[s].at /\ req[s].met \subseteq req'[s].met
        /\ req'[s].met \subseteq req[s].met \cup {r} /\ (s \in Running => r \in req'[s].met)
  BY DEF Acting, Others, Kept
<1>2. \A s \in Requests \ {r} : s \in Running' <=> s \in Running
  BY <1>1 DEF Running
<1>3. ASSUME NEW s \in Running', NEW t \in Running', s # t
      PROVE  t \in req'[s].met
  <2>1. s \in Requests /\ t \in Requests
    BY DEF Running
  <2>2. CASE s = r
    <3>1. t \in Running
      BY <1>2, <1>3, <2>1, <2>2
    <3>2. CASE Begins(r)
      BY <2>2, <3>1, <3>2 DEF Begins
    <3>3. CASE Continues(r)
      <4>1. r \in Running
        BY <3>3 DEF Continues, Running
      <4>2. t \in req[r].met
        BY <1>3, <2>2, <3>1, <4>1 DEF MetInv
      <4>3. QED
        BY <2>2, <3>3, <4>2 DEF Continues
    <3>4. QED
      BY <3>2, <3>3 DEF Acting
  <2>3. CASE s # r /\ t = r
    BY <1>1, <1>2, <2>1, <2>3
  <2>4. CASE s # r /\ t # r
    <3>1. s \in Running /\ t \in Running
      BY <1>2, <2>1, <2>4
    <3>2. t \in req[s].met
      BY <1>3, <3>1 DEF MetInv
    <3>3. QED
      BY <1>1, <2>1, <2>4, <3>2
  <2>5. QED
    BY <2>2, <2>3, <2>4
<1>4. ASSUME NEW s \in Requests, NEW t \in Requests, t \in req'[s].met
      PROVE  req'[t].at # "idle"
  <2>1. req'[r].at # "idle"
    BY DEF Acting
  <2>2. CASE t = r
    BY <2>1, <2>2
  <2>3. CASE t # r
    <3>1. t \in req[s].met \/ t \in Running
      BY <1>1, <1>4, <2>3 DEF Acting, Begins, Continues
    <3>2. req[t].at # "idle"
      BY <3>1 DEF MetInv, Running, Pending
    <3>3. QED
      BY <1>1, <2>3, <3>2
  <2>4. QED
    BY <2>2, <2>3
<1>5. QED
  BY <1>3, <1>4 DEF MetInv

LEMMA ActingBorn ==
  ASSUME TypeInv, Born, NEW r \in Requests, Acting(r)
  PROVE  Born'
<1> SUFFICES ASSUME NEW s \in Requests, participants'[s] # Gone \/ orgs'[s] # Gone
             PROVE  req'[s].at = "ok"
  BY DEF Born
<1>1. s \in Participants /\ s \in Orgs
  BY DEF Participants, Orgs
<1>2. \/ participants[s] # Gone \/ orgs[s] # Gone
      \/ s = r /\ req'[r].at = "ok"
  BY <1>1 DEF Acting, Changed, Created, Written, OrgChanged
<1>3. participants[s] # Gone \/ orgs[s] # Gone => req[s].at = "ok"
  BY DEF Born
<1>4. req[r].at # "ok"
  BY DEF Acting, Begins, Continues, Pending
<1>5. QED
  BY <1>2, <1>3, <1>4 DEF Acting, Others, Kept

---------------------------------------------------------------------------
(* The claims of a request while another one acts. *)

LEMMA PlacedStays ==
  ASSUME ParticipantsInv, NEW r \in Requests, Acting(r), NEW s \in Requests \ {r}
  PROVE  Placed(s)'
<1>1. Kept(s) /\ Placed(s)
  BY DEF Acting, Others, ParticipantsInv, Claims
<1>2. ASSUME req[s].target \in Requests, req[req[s].target].at = "ok"
      PROVE  req'[req[s].target].at = "ok"
  <2>1. req[s].target # r
    BY <1>2 DEF Acting, Begins, Continues, Pending
  <2>2. QED
    BY <1>2, <2>1 DEF Acting, Others, Kept
<1>3. QED
  BY <1>1, <1>2 DEF Placed, Kept

LEMMA RivalsStay ==
  ASSUME ParticipantsInv, NEW r \in Requests, Acting(r), NEW s \in Requests \ {r}
  PROVE  Rivals(s)'
<1> TypeInv /\ MetInv
  BY DEF ParticipantsInv
<1> SUFFICES ASSUME req'[s].at = "insertProfile",
                    NEW q \in ParticipantsOf(req[s].user, req[s].target)'
             PROVE  Met(s, q)' \/ Moved(q)'
  BY DEF Rivals
<1>1. Kept(s) /\ Placed(s) /\ Rivals(s)
  BY DEF Acting, Others, ParticipantsInv, Claims
<1>2. /\ req[s].at = "insertProfile" /\ req[s].at \in Pending
      /\ req'[s].user = req[s].user /\ req'[s].target = req[s].target
  BY <1>1 DEF Kept, Pending
<1>3. req[s].user # None
  BY <1>1, <1>2, ParticipantsAssumption DEF Placed
<1>4. /\ q \in Participants
      /\ participants'[q] # Gone
      /\ participants'[q].userId = req[s].user
      /\ participants'[q].has["org"] = req[s].target
  BY <1>2 DEF ParticipantsOf, LiveParticipants
<1>5. CASE participants[q] = Gone
  <2>1. Created(r, q)
    BY <1>4, <1>5 DEF Acting, Changed, Written
  <2>2. q = r /\ req[r].at \in Pending
    BY <1>3, <1>4, <2>1 DEF Created, Pending
  <2>3. QED
    BY <1>2, <2>2, RunningMeet
<1>6. CASE participants[q] # Gone
  <2>1. q \in LiveParticipants
    BY <1>4, <1>6 DEF LiveParticipants
  <2>2. /\ participants'[q].userId = participants[q].userId
        /\ participants'[q].has["org"] = participants[q].has["org"] \/ Moved(q)'
        /\ Moved(q) => Moved(q)'
    BY <1>4, <2>1, StaysOrMoved
  <2>3. CASE participants'[q].has["org"] = participants[q].has["org"]
    <3>1. q \in ParticipantsOf(req[s].user, req[s].target)
      BY <1>4, <2>1, <2>2, <2>3 DEF ParticipantsOf
    <3>2. Met(s, q) \/ Moved(q)
      BY <1>1, <1>2, <3>1 DEF Rivals
    <3>3. QED
      BY <2>2, <3>2, MetStays
  <2>4. QED
    BY <2>2, <2>3
<1>7. QED
  BY <1>5, <1>6

LEMMA EditsStay ==
  ASSUME ParticipantsInv, NEW r \in Requests, Acting(r), NEW s \in Requests \ {r}
  PROVE  Edits(s)'
<1> TypeInv /\ MetInv
  BY DEF ParticipantsInv
<1>1. Kept(s) /\ Placed(s) /\ Edits(s) /\ (s \in Running => r \in req'[s].met)
  BY DEF Acting, Others, ParticipantsInv, Claims
<1> DEFINE p == req[s].target
           o == req[s].sent.has["org"]
<1> SUFFICES ASSUME req[s].at \in {"editUser", "editProfile"},
                    p \in Participants, participants'[p] # Gone, o # None
             PROVE  o = participants'[p].has["org"] \/ Disturbed(s)'
  BY <1>1 DEF Edits, Kept, LiveParticipants
<1>2. Disturbed(s) => Disturbed(s)'
  BY <1>1, DisturbedStays DEF Acting, Kept
<1>3. r \in req'[s].met
  BY <1>1 DEF Running, Pending
<1>4. participants'[p] = participants[p] \/ Written(r, p)
  <2>1. ~ Created(r, p)
    <3>1. p \in Requests => req[p].at = "ok"
      BY <1>1 DEF Placed
    <3>2. req[r].at # "ok"
      BY DEF Acting, Begins, Continues, Pending
    <3>3. QED
      BY <3>1, <3>2 DEF Created
  <2>2. QED
    BY <2>1 DEF Acting, Changed
<1>5. p \in LiveParticipants
  BY <1>4 DEF LiveParticipants, Written
<1>6. o = participants[p].has["org"] \/ Disturbed(s)
  BY <1>1, <1>5 DEF Edits
<1>7. CASE participants'[p].has["org"] = participants[p].has["org"]
  BY <1>2, <1>6, <1>7
<1>8. CASE participants'[p].has["org"] # participants[p].has["org"] /\ participants'[p].has["org"] # o
  <2>1. /\ req[r].at \in {"save", "editProfile"}
        /\ req[r].target = p
        /\ req[r].sent.has["org"] # None
        /\ participants'[p].has["org"] = req[r].sent.has["org"]
    BY <1>4, <1>8 DEF Written
  <2>2. Continues(r) /\ req[r].kind \in {"merge", "edit"}
    BY <2>1 DEF Acting, Begins, ParticipantsInv, Claims, Placed
  <2>3. /\ req'[r].kind \in {"merge", "edit"}
        /\ req'[r].target = p
        /\ req'[r].sent.has["org"] \notin {None, o}
    BY <1>8, <2>1, <2>2 DEF Continues
  <2>4. req'[s].target = p /\ req'[s].sent.has["org"] = o
    BY <1>1 DEF Kept
  <2>5. QED
    BY <1>3, <2>3, <2>4 DEF Disturbed
<1>9. QED
  BY <1>7, <1>8

LEMMA MergesStay ==
  ASSUME ParticipantsInv, NEW r \in Requests, Acting(r), NEW s \in Requests \ {r}
  PROVE  Merges(s)'
<1>1. /\ Kept(s) /\ Placed(s) /\ Merges(s)
      /\ s \in Running => r \in req'[s].met
  BY DEF Acting, Others, ParticipantsInv, Claims
<1> DEFINE p == req[s].target
<1> SUFFICES ASSUME req[s].at = "save", p \in Participants, participants'[p] # Gone,
                    NEW f \in Paths
             PROVE  \/ ConfigOf(req[s].snap.meta)[f] = ConfigOf(participants'[p].meta)[f]
                    \/ \E w \in participants'[p].by[f] : w \in req'[s].met
  BY <1>1 DEF Merges, Kept, LiveParticipants, Overlapped
<1>2. r \in req'[s].met
  BY <1>1 DEF Running, Pending
<1>3. participants'[p] = participants[p] \/ Written(r, p)
  <2>1. ~ Created(r, p)
    <3>1. p \in Requests => req[p].at = "ok"
      BY <1>1 DEF Placed
    <3>2. req[r].at # "ok"
      BY DEF Acting, Begins, Continues, Pending
    <3>3. QED
      BY <3>1, <3>2 DEF Created
  <2>2. QED
    BY <2>1 DEF Acting, Changed
<1>4. p \in LiveParticipants
  BY <1>3 DEF LiveParticipants, Written
<1>5. \/ ConfigOf(req[s].snap.meta)[f] = ConfigOf(participants[p].meta)[f]
      \/ \E w \in participants[p].by[f] : w \in req[s].met
  BY <1>1, <1>4 DEF Merges, Overlapped
<1>6. \/ /\ participants'[p].by[f] = participants[p].by[f]
         /\ ConfigOf(participants'[p].meta)[f] = ConfigOf(participants[p].meta)[f]
      \/ participants'[p].by[f] = {r}
  BY <1>3 DEF Written
<1>7. req[s].met \subseteq req'[s].met
  BY <1>1 DEF Kept
<1>8. QED
  BY <1>2, <1>5, <1>6, <1>7

LEMMA SupportedStays ==
  ASSUME ParticipantsInv, NEW r \in Requests, Acting(r), NEW s \in Requests \ {r}
  PROVE  Supported(s)'
<1> TypeInv /\ MetInv
  BY DEF ParticipantsInv
<1>1. /\ Kept(s) /\ Placed(s) /\ Supported(s)
      /\ s \in Running => r \in req'[s].met
  BY DEF Acting, Others, ParticipantsInv, Claims
<1> SUFFICES ASSUME req[s].at \in {"owner", "upsert", "insertProfile"}
             PROVE  Supported(s)'
  BY <1>1 DEF Supported, Kept
<1>2. r \in req'[s].met
  BY <1>1 DEF Running, Pending
<1>3. /\ AccessTaken(s) => AccessTaken(s)'
      /\ OwnershipTaken(s) => OwnershipTaken(s)'
  BY <1>1, TakenStays DEF Acting, Kept
<1>4. Access(s) => Access(s)' \/ AccessTaken(s)'
  <2> SUFFICES ASSUME Access(s)
               PROVE  Access(s)' \/ AccessTaken(s)'
    OBVIOUS
  <2> DEFINE q == req[s].access
  <2>1. /\ q \in Participants /\ participants[q] # Gone
        /\ participants[q].userId = req[s].user
        /\ participants[q].has["org"] = req[s].target
    BY DEF Access, ParticipantsOf, LiveParticipants
  <2>2. CASE /\ participants'[q] # Gone
             /\ participants'[q].userId = req[s].user
             /\ participants'[q].has["org"] = req[s].target
    BY <1>1, <2>1, <2>2 DEF Access, ParticipantsOf, LiveParticipants, Kept
  <2>3. CASE participants'[q] = Gone
    <3>1. req'[r].kind \in {"remove", "delete"} /\ req'[r].target = q
      BY <2>1, <2>3 DEF Acting, Changed, Created, Written
    <3>2. QED
      BY <1>1, <1>2, <3>1 DEF AccessTaken, Kept
  <2>4. CASE participants'[q] # Gone /\ participants'[q] # participants[q]
    <3>1. Written(r, q)
      BY <2>1, <2>4 DEF Acting, Changed, Created
    <3>2. CASE participants'[q].has["org"] # participants[q].has["org"]
      <4>1. /\ req[r].at \in {"save", "editProfile"} /\ req[r].target = q
            /\ req[r].sent.has["org"] \notin {None, req[s].target}
        BY <2>1, <3>1, <3>2 DEF Written
      <4>2. Continues(r) /\ req[r].kind \in {"merge", "edit"}
        BY <4>1 DEF Acting, Begins, ParticipantsInv, Claims, Placed
      <4>3. /\ req'[r].kind \in {"merge", "edit"} /\ req'[r].target = q
            /\ req'[r].sent = req[r].sent
        BY <4>1, <4>2 DEF Continues
      <4>4. QED
        BY <1>1, <1>2, <4>1, <4>3 DEF AccessTaken, Kept
    <3>3. CASE participants'[q].has["org"] = participants[q].has["org"]
      BY <2>1, <2>2, <3>1, <3>3 DEF Written
    <3>4. QED
      BY <3>2, <3>3
  <2>5. QED
    BY <2>1, <2>2, <2>3, <2>4
<1>5. Owner(s) => Owner(s)' \/ OwnershipTaken(s)'
  <2> SUFFICES ASSUME Owner(s)
               PROVE  Owner(s)' \/ OwnershipTaken(s)'
    OBVIOUS
  <2> DEFINE o == req[s].target
  <2>1. o \in Orgs /\ orgs[o] # Gone /\ orgs[o].owner = req[s].user
    BY DEF Owner, LiveOrgs
  <2>2. \/ orgs'[o] = orgs[o]
        \/ req'[r].kind = "dissolve" /\ req'[r].target = o
        \/ /\ req'[r].kind = "rename" /\ req'[r].target = o /\ orgs'[o] # Gone
           /\ orgs'[o].owner = IF req'[r].user = None THEN orgs[o].owner ELSE req'[r].user
    BY <2>1 DEF Acting, OrgChanged
  <2>3. CASE orgs'[o] # Gone /\ orgs'[o].owner = req[s].user
    BY <1>1, <2>1, <2>3 DEF Owner, LiveOrgs, Kept
  <2>4. CASE req'[r].kind = "dissolve" /\ req'[r].target = o
    BY <1>1, <1>2, <2>4 DEF OwnershipTaken, Kept
  <2>5. CASE /\ req'[r].kind = "rename" /\ req'[r].target = o
             /\ req'[r].user \notin {None, req[s].user}
    BY <1>1, <1>2, <2>5 DEF OwnershipTaken, Kept
  <2>6. QED
    BY <2>1, <2>2, <2>3, <2>4, <2>5
<1>6. QED
  BY <1>1, <1>3, <1>4, <1>5 DEF Supported, Kept

LEMMA NamesakesStay ==
  ASSUME ParticipantsInv, NEW r \in Requests, Acting(r), NEW s \in Requests \ {r}
  PROVE  Namesakes(s)'
<1> TypeInv /\ MetInv
  BY DEF ParticipantsInv
<1>1. Kept(s) /\ Namesakes(s)
  BY DEF Acting, Others, ParticipantsInv, Claims
<1> SUFFICES ASSUME req[s].at = "insertOrg", NEW o \in Orgs, orgs'[o] # Gone,
                    orgs'[o].name = req[s].target
             PROVE  Met(s, o)' \/ OwnerNamed(o)'
  BY <1>1 DEF Namesakes, Kept, LiveOrgs
<1>2. CASE orgs'[o] = orgs[o]
  <2>1. Met(s, o) \/ OwnerNamed(o)
    BY <1>1, <1>2 DEF Namesakes, LiveOrgs
  <2>2. QED
    BY <2>1, MetStays, ChosenStays
<1>3. CASE \/ req'[r].kind = "found" /\ o = r
           \/ req'[r].kind = "rename" /\ req'[r].target = o
  BY <1>3 DEF OwnerNamed
<1>4. CASE o = r /\ req[r].at = "insertOrg"
  <2>1. req[r].at \in Pending /\ req[s].at \in Pending
    BY <1>4 DEF Pending
  <2>2. QED
    BY <1>4, <2>1, RunningMeet
<1>5. QED
  BY <1>2, <1>3, <1>4 DEF Acting, OrgChanged

LEMMA ActsInv ==
  ASSUME ParticipantsInv, NEW r \in Requests, Acts(r)
  PROVE  ParticipantsInv'
<1>1. TypeInv' /\ Acting(r) /\ Claims(r)'
  BY DEF Acts
<1>2. MetInv' /\ Born'
  BY <1>1, ActingMet, ActingBorn DEF ParticipantsInv
<1>3. ASSUME NEW s \in Requests \ {r}
      PROVE  Claims(s)'
  BY <1>1, PlacedStays, RivalsStay, EditsStay, MergesStay, SupportedStays, NamesakesStay DEF Claims
<1>4. QED
  BY <1>1, <1>2, <1>3 DEF ParticipantsInv

LEMMA StutterInv == ParticipantsInv /\ UNCHANGED vars => ParticipantsInv'
<1> SUFFICES ASSUME ParticipantsInv, UNCHANGED vars
             PROVE  ParticipantsInv'
  OBVIOUS
<1> USE DEF vars
<1>1. TypeInv' /\ MetInv' /\ Born'
  BY DEF ParticipantsInv, TypeInv, MetInv, Born, Running
<1>2. ASSUME NEW s \in Requests
      PROVE  Claims(s)'
  <2>1. Placed(s)'
    BY DEF ParticipantsInv, Claims, Placed
  <2>2. Rivals(s)'
    <3>1. ASSUME NEW p PROVE (Met(s, p)' <=> Met(s, p)) /\ (Moved(p)' <=> Moved(p))
      BY DEF Met, Moved
    <3>2. QED
      BY <3>1 DEF ParticipantsInv, Claims, Rivals, ParticipantsOf, LiveParticipants
  <2>3. Edits(s)'
    BY DEF ParticipantsInv, Claims, Edits, LiveParticipants, Disturbed
  <2>4. Merges(s)'
    BY DEF ParticipantsInv, Claims, Merges, LiveParticipants, Overlapped
  <2>5. Supported(s)'
    BY DEF ParticipantsInv, Claims, Supported, Access, Owner, AccessTaken, OwnershipTaken, ParticipantsOf,
       LiveParticipants, LiveOrgs
  <2>6. Namesakes(s)'
    BY DEF ParticipantsInv, Claims, Namesakes, LiveOrgs, Met, OwnerNamed
  <2>7. QED
    BY <2>1, <2>2, <2>3, <2>4, <2>5, <2>6 DEF Claims
<1>3. QED
  BY <1>1, <1>2 DEF ParticipantsInv

THEOREM InvHolds == Spec => []ParticipantsInv
<1>1. Init => ParticipantsInv
  BY InitInv
<1>2. ParticipantsInv /\ [Next]_vars => ParticipantsInv'
  BY NextActs, ActsInv, StutterInv DEF Next
<1>3. QED
  BY <1>1, <1>2, PTL DEF Spec

---------------------------------------------------------------------------
(* Two profiles, two names. *)

\* An inserted profile and one that is there.
LEMMA InsertedRival ==
  ASSUME ParticipantsInv, NEW r \in Requests, Acting(r), Created(r, r),
         participants'[r].userId # None,
         NEW q \in Participants, q # r, participants'[q] # Gone,
         participants'[q].userId = participants'[r].userId,
         participants'[q].has["org"] = participants'[r].has["org"]
  PROVE  Met(r, q)' \/ Moved(q)'
<1> TypeInv /\ MetInv
  BY DEF ParticipantsInv
<1>1. /\ req[r].at = "insertProfile"
      /\ participants'[r].userId = req[r].user
      /\ participants'[r].has["org"] = req[r].target
  BY DEF Created
<1>2. participants'[q] = participants[q] \/ Written(r, q)
  BY DEF Acting, Changed, Created
<1>3. q \in LiveParticipants
  BY <1>2 DEF LiveParticipants, Written
<1>4. /\ participants'[q].userId = participants[q].userId
      /\ participants'[q].has["org"] = participants[q].has["org"]
  BY <1>1, <1>2 DEF Written
<1>5. q \in ParticipantsOf(req[r].user, req[r].target)
  BY <1>1, <1>3, <1>4 DEF ParticipantsOf
<1>6. Met(r, q) \/ Moved(q)
  BY <1>1, <1>5 DEF ParticipantsInv, Claims, Rivals
<1>7. QED
  BY <1>4, <1>6, MetStays, MovedStays

LEMMA ProfilesStay ==
  ASSUME ParticipantsInv, Profiles, NEW r \in Requests, Acting(r)
  PROVE  Profiles'
<1> TypeInv /\ MetInv
  BY DEF ParticipantsInv
<1> SUFFICES ASSUME NEW p \in Participants, NEW q \in Participants,
                    participants'[p] # Gone, participants'[q] # Gone,
                    p # q,
                    participants'[p].userId # None,
                    participants'[p].userId = participants'[q].userId,
                    participants'[p].has["org"] = participants'[q].has["org"]
             PROVE  Met(p, q)' \/ Moved(p)' \/ Moved(q)'
  BY DEF Profiles, LiveParticipants
<1>1. CASE participants[p] = Gone
  <2>1. Created(r, p) /\ p = r
    BY <1>1 DEF Acting, Changed, Created, Written
  <2>2. Met(p, q)' \/ Moved(q)'
    BY <2>1, InsertedRival
  <2>3. QED
    BY <2>2
<1>2. CASE participants[q] = Gone
  <2>1. Created(r, q) /\ q = r
    BY <1>2 DEF Acting, Changed, Created, Written
  <2>2. Met(q, p)' \/ Moved(p)'
    BY <2>1, InsertedRival
  <2>3. Met(q, p)' => Met(p, q)'
    BY DEF Met
  <2>4. QED
    BY <2>2, <2>3
<1>3. CASE participants[p] # Gone /\ participants[q] # Gone
  <2>1. p \in LiveParticipants /\ q \in LiveParticipants
    BY <1>3 DEF LiveParticipants
  <2>2. /\ participants'[p].userId = participants[p].userId
        /\ participants'[p].has["org"] = participants[p].has["org"] \/ Moved(p)'
        /\ Moved(p) => Moved(p)'
    BY <2>1, StaysOrMoved
  <2>3. /\ participants'[q].userId = participants[q].userId
        /\ participants'[q].has["org"] = participants[q].has["org"] \/ Moved(q)'
        /\ Moved(q) => Moved(q)'
    BY <2>1, StaysOrMoved
  <2>4. CASE /\ participants'[p].has["org"] = participants[p].has["org"]
             /\ participants'[q].has["org"] = participants[q].has["org"]
    <3>1. Met(p, q) \/ Moved(p) \/ Moved(q)
      BY <2>1, <2>2, <2>3, <2>4 DEF Profiles
    <3>2. QED
      BY <2>2, <2>3, <3>1, MetStays
  <2>5. QED
    BY <2>2, <2>3, <2>4
<1>4. QED
  BY <1>1, <1>2, <1>3

LEMMA NamesStay ==
  ASSUME ParticipantsInv, NamesDiffer, NEW r \in Requests, Acting(r)
  PROVE  NamesDiffer'
<1> TypeInv /\ MetInv
  BY DEF ParticipantsInv
<1> SUFFICES ASSUME NEW o \in Orgs, NEW q \in Orgs, orgs'[o] # Gone, orgs'[q] # Gone,
                    o # q, orgs'[o].name = orgs'[q].name
             PROVE  Met(o, q)' \/ OwnerNamed(o)' \/ OwnerNamed(q)'
  BY DEF NamesDiffer, LiveOrgs
<1>1. ASSUME NEW a \in Orgs, orgs'[a] # Gone, orgs'[a] # orgs[a]
      PROVE  \/ OwnerNamed(a)'
             \/ a = r /\ req[r].at = "insertOrg" /\ orgs'[a].name = req[r].target
  BY <1>1 DEF Acting, OrgChanged, OwnerNamed
<1>2. ASSUME NEW b \in Orgs, orgs'[b] # Gone, orgs'[b] = orgs[b], orgs'[b].name = req[r].target,
             req[r].at = "insertOrg"
      PROVE  Met(r, b)' \/ OwnerNamed(b)'
  <2>1. Met(r, b) \/ OwnerNamed(b)
    BY <1>2 DEF ParticipantsInv, Claims, Namesakes, LiveOrgs
  <2>2. QED
    BY <2>1, MetStays, ChosenStays
<1>3. CASE orgs'[o] = orgs[o] /\ orgs'[q] = orgs[q]
  <2>1. Met(o, q) \/ OwnerNamed(o) \/ OwnerNamed(q)
    BY <1>3 DEF NamesDiffer, LiveOrgs
  <2>2. QED
    BY <2>1, MetStays, ChosenStays
<1>4. CASE orgs'[o] # orgs[o] /\ orgs'[q] = orgs[q]
  BY <1>1, <1>2, <1>4 DEF Met
<1>5. CASE orgs'[q] # orgs[q] /\ orgs'[o] = orgs[o]
  BY <1>1, <1>2, <1>5 DEF Met
<1>6. CASE orgs'[o] # orgs[o] /\ orgs'[q] # orgs[q]
  BY <1>1, <1>6
<1>7. QED
  BY <1>3, <1>4, <1>5, <1>6

LEMMA StutterDiffer ==
  /\ Profiles /\ UNCHANGED vars => Profiles'
  /\ NamesDiffer /\ UNCHANGED vars => NamesDiffer'
<1>1. ASSUME Profiles, UNCHANGED vars
      PROVE  Profiles'
  <2>1. UNCHANGED <<participants, req>>
    BY <1>1 DEF vars
  <2>2. ASSUME NEW p PROVE Moved(p)' <=> Moved(p)
    BY <2>1 DEF Moved
  <2>3. ASSUME NEW p, NEW q PROVE Met(p, q)' <=> Met(p, q)
    BY <2>1 DEF Met
  <2>4. QED
    BY <1>1, <2>1, <2>2, <2>3 DEF Profiles, LiveParticipants
<1>2. NamesDiffer /\ UNCHANGED vars => NamesDiffer'
  BY DEF vars, NamesDiffer, LiveOrgs, Met, OwnerNamed
<1>3. QED
  BY <1>1, <1>2

LEMMA NextActing == ParticipantsInv /\ Next => \E r \in Requests : Acting(r)
BY NextActs DEF Next, Acts

---------------------------------------------------------------------------
(* The theorems. *)

\* Whatever the requests carry, the variables have their types.
THEOREM TypeCorrect == Spec => []TypeOK
<1>1. ParticipantsInv => TypeOK
  <2> SUFFICES ASSUME ParticipantsInv
               PROVE  TypeOK
    OBVIOUS
  <2>1. TypeInv
    BY DEF ParticipantsInv
  <2>2. \A p \in LiveParticipants : participants[p] \in ParticipantRecord
    BY <2>1, LiveType
  <2>3. \A r \in Requests : req[r] \in RequestRecord
    BY <2>1 DEF TypeInv
  <2>4. QED
    BY <2>1, <2>2, <2>3 DEF TypeOK, TypeInv, ParticipantRecord, RequestRecord
<1>2. QED
  BY <1>1, InvHolds, PTL

\* A user gets a second profile in an organization (or without one) only from
\* requests that overlapped, or from an update that moved one of the two.
THEOREM ProfilesOnlyByOverlap == SeedsDiffer /\ Spec => []ProfilesNeedOverlap
<1>1. SeedsDiffer /\ Init => Profiles
  BY InitDiffer
<1>2. ParticipantsInv /\ Profiles /\ [Next]_vars => Profiles'
  BY NextActing, ProfilesStay, StutterDiffer
<1>3. Profiles => ProfilesNeedOverlap
  <2> SUFFICES ASSUME Profiles, NEW p \in LiveParticipants, NEW q \in LiveParticipants,
                      p # q,
                      participants[p].userId # None,
                      participants[p].userId = participants[q].userId,
                      participants[p].has["org"] = participants[q].has["org"]
               PROVE  \/ Overlapped({p} \cap Requests, {q} \cap Requests)
                      \/ Moved(p) \/ Moved(q)
    BY DEF ProfilesNeedOverlap
  <2>1. Met(p, q) \/ Moved(p) \/ Moved(q)
    BY DEF Profiles
  <2>2. Met(p, q) => Overlapped({p} \cap Requests, {q} \cap Requests)
    BY DEF Met, Overlapped
  <2>3. QED
    BY <2>1, <2>2
<1>4. QED
  BY <1>1, <1>2, <1>3, InvHolds, PTL DEF Spec

\* Two organizations get the same name only from requests that overlapped, or
\* from the owner of one of the two.
THEOREM NamesOnlyByOverlap == SeedsDiffer /\ Spec => []NamesNeedOverlap
<1>1. SeedsDiffer /\ Init => NamesDiffer
  BY InitDiffer
<1>2. ParticipantsInv /\ NamesDiffer /\ [Next]_vars => NamesDiffer'
  BY NextActing, NamesStay, StutterDiffer
<1>3. NamesDiffer => NamesNeedOverlap
  <2> SUFFICES ASSUME NamesDiffer, NEW o \in LiveOrgs, NEW q \in LiveOrgs,
                      o # q, orgs[o].name = orgs[q].name
               PROVE  \/ Overlapped({o} \cap Requests, {q} \cap Requests)
                      \/ OwnerNamed(o) \/ OwnerNamed(q)
    BY DEF NamesNeedOverlap
  <2>1. Met(o, q) \/ OwnerNamed(o) \/ OwnerNamed(q)
    BY DEF NamesDiffer
  <2>2. Met(o, q) => Overlapped({o} \cap Requests, {q} \cap Requests)
    BY DEF Met, Overlapped
  <2>3. QED
    BY <2>1, <2>2
<1>4. QED
  BY <1>1, <1>2, <1>3, InvHolds, PTL DEF Spec

\* A profile gets into an organization only while its user owns that, or past
\* a request, overlapping the insertion, that took away the participant or the
\* ownership it had found.
THEOREM ProfilesOnlyWithAccess == Spec => ProfilesNeedAccess
<1> DEFINE Allowed ==
      \A p \in Requests \ LiveParticipants :
        participants'[p] # Gone /\ req[p].kind = "profile" /\ req[p].target # None
          => \/ /\ req[p].target \in LiveOrgs
                /\ orgs[req[p].target].owner = req[p].user
             \/ IF req[p].access # None THEN AccessTaken(p) ELSE OwnershipTaken(p)
<1>1. ParticipantsInv /\ [Next]_vars => [Allowed]_vars
  <2> SUFFICES ASSUME ParticipantsInv, Next
               PROVE  Allowed
    OBVIOUS
  <2>1. PICK r \in Requests : Acting(r)
    BY NextActing
  <2> SUFFICES ASSUME NEW p \in Requests \ LiveParticipants,
                      participants'[p] # Gone, req[p].kind = "profile", req[p].target # None
               PROVE  \/ Owner(p)
                      \/ IF req[p].access # None THEN AccessTaken(p) ELSE OwnershipTaken(p)
    BY DEF Owner
  <2>2. p \in Participants /\ participants[p] = Gone
    BY DEF Participants, LiveParticipants
  <2>3. Created(r, p) /\ p = r
    BY <2>1, <2>2 DEF Acting, Changed, Created, Written
  <2>4. req[r].at = "insertProfile"
    <3>1. CASE Begins(r)
      <4>1. req[r].kind = "add"
        BY <3>1 DEF Begins, ParticipantsInv, Claims, Placed
      <4>2. QED
        BY <2>3, <4>1
    <3>2. CASE Continues(r)
      BY <2>3, <3>2 DEF Continues, Created
    <3>3. QED
      BY <2>1, <3>1, <3>2 DEF Acting
  <2>5. QED
    BY <2>3, <2>4 DEF ParticipantsInv, Claims, Supported
<1>2. QED
  BY <1>1, InvHolds, PTL DEF Spec, ProfilesNeedAccess

\* An update that ends well has saved a participant that is still there.
LEMMA SavedIsLive ==
  ASSUME ParticipantsInv, Next, NEW r \in Requests, req[r].at = "save", req'[r].at = "ok"
  PROVE  SaveParticipant(r) /\ req[r].target \in LiveParticipants
<1> TypeInv
  BY DEF ParticipantsInv
<1> DEFINE p == req[r].target
<1>1. SaveParticipant(r)
  <2>1. PICK s \in Requests : Arrive(s) \/ Step(s)
    BY DEF Next
  <2>2. Acting(s)
    BY <2>1, NextActs DEF Acts
  <2>3. s = r
    BY <2>2 DEF Acting, Others, Kept
  <2>4. ~ Arrive(r)
    <3>1. \A e : ~ Enter(r, e)
      BY DEF Enter
    <3>2. QED
      BY <3>1 DEF Arrive, AddParticipant, InsertParticipant, SetParticipant, FindParticipant,
         EditUser, PutProfile, RemoveParticipant, DeleteParticipant, Found, AdminFound, Rename,
         Dissolve
  <2>5. Step(r)
    BY <2>1, <2>3, <2>4
  <2>6. QED
    BY <2>5 DEF Step, EraseParticipant, CheckOwner, Upsert, InsertProfile, InsertOrg,
       WriteUser, WriteProfile
<1>3. p \in LiveParticipants
  <2>1. CASE p \notin LiveParticipants
    <3>1. Answer(r, "error")
      BY <1>1, <2>1 DEF SaveParticipant
    <3>2. req'[r].at = "error"
      BY <3>1 DEF Answer, TypeInv, RequestRecord
    <3>3. QED
      BY <3>2
  <2>2. QED
    BY <2>1
<1>4. QED
  BY <1>1, <1>3

\* An administrators' update of a participant loses a field that is set only
\* when the request overlapped the one that wrote it.
THEOREM UpdatesKeepFields == Spec => UpdateKeepsFields
<1> DEFINE Keeps ==
      \A r \in Requests :
        req[r].kind = "merge" /\ req[r].at = "save" /\ req'[r].at = "ok"
          => LET p == req[r].target
                 old == ConfigOf(participants[p].meta)
                 new == ConfigOf(participants'[p].meta)
             IN \A f \in Paths \ {"unknown"} :
                  old[f] \notin {Unset, Null, new[f]}
                    => \/ new[f] = ConfigOf(req[r].sent.meta)[f]
                       \/ f \in Defaulted /\ ConfigOf(req[r].sent.meta)[f] = Null
                       \/ req[r].sent.meta.commissionConfig = Null
                       \/ Overlapped({r}, participants[p].by[f])
<1>1. ParticipantsInv /\ [Next]_vars => [Keeps]_vars
  <2> SUFFICES ASSUME ParticipantsInv, Next
               PROVE  Keeps
    OBVIOUS
  <2> TypeInv /\ MetInv
    BY DEF ParticipantsInv
  <2> SUFFICES ASSUME NEW r \in Requests,
                      req[r].at = "save", req'[r].at = "ok",
                      NEW f \in Paths \ {"unknown"},
                      ConfigOf(participants[req[r].target].meta)[f]
                        \notin {Unset, Null, ConfigOf(participants'[req[r].target].meta)[f]}
               PROVE  \/ ConfigOf(participants'[req[r].target].meta)[f] = ConfigOf(req[r].sent.meta)[f]
                      \/ f \in Defaulted /\ ConfigOf(req[r].sent.meta)[f] = Null
                      \/ req[r].sent.meta.commissionConfig = Null
                      \/ Overlapped({r}, participants[req[r].target].by[f])
    BY Zenon
  <2> DEFINE p == req[r].target
             snap == req[r].snap
             sent == req[r].sent
             merged == mergeMetadata(snap.meta, sent.meta)
             saved == [participants[p] EXCEPT !.has =
                         Assign(participants[p].has, sent.has,
                                {a \in Scalars : sent.has[a] # snap.has[a]})]
  <2>1. SaveParticipant(r)
    BY SavedIsLive
  <2>2. p \in Participants /\ snap \in ParticipantRecord /\ Merges(r)
    BY DEF ParticipantsInv, Claims, Placed
  <2>3. p \in LiveParticipants
    BY SavedIsLive
  <2>4. Put(p, IF merged = snap.meta THEN saved ELSE WithMeta(saved, r, merged))
    BY <2>1, <2>3 DEF SaveParticipant
  <2>5. participants[p] \in ParticipantRecord
    BY <2>3, LiveType
  <2>6. snap.meta \in Metadata \cup {Unset} /\ sent.meta \in Metadata \cup {Unset}
    <3>1. sent \in Sents \cup {NothingSent}
      BY DEF TypeInv, RequestRecord
    <3>2. QED
      BY <2>2, <3>1, SentType DEF ParticipantRecord
  <2>7. merged \in Metadata \cup {Unset}
    BY <2>6, MergeType
  <2>8. saved \in ParticipantRecord /\ saved.meta = participants[p].meta
    <3>1. sent.has \in Scalar
      <4>1. sent \in Sents \cup {NothingSent}
        BY DEF TypeInv, RequestRecord
      <4>2. QED
        BY <4>1, SentType
    <3>2. Assign(participants[p].has, sent.has, {a \in Scalars : sent.has[a] # snap.has[a]}) \in Scalar
      BY <2>5, <3>1, AssignForm DEF ParticipantRecord
    <3>3. QED
      BY <2>5, <3>2 DEF ParticipantRecord
  <2> HIDE DEF saved
  <2>9. participants'[p].meta = IF merged = snap.meta THEN participants[p].meta ELSE merged
    <3>1. participants'[p] = IF merged = snap.meta THEN saved ELSE WithMeta(saved, r, merged)
      BY <2>2, <2>4 DEF Put, TypeInv
    <3>2. WithMeta(saved, r, merged).meta = merged
      BY <2>7, <2>8, WithMetaForm
    <3>3. QED
      BY <2>8, <3>1, <3>2
  <2>10. ConfigOf(participants'[p].meta)[f] = ConfigOf(merged)[f]
    BY <2>9
  <2>11. \/ ConfigOf(snap.meta)[f] = ConfigOf(participants[p].meta)[f]
         \/ Overlapped({r}, participants[p].by[f])
    BY <2>2, <2>3 DEF Merges
  <2>12. CASE ConfigOf(snap.meta)[f] = ConfigOf(participants[p].meta)[f]
    <3>1. ConfigOf(snap.meta)[f] \notin {Unset, Null}
          /\ ConfigOf(merged)[f] # ConfigOf(snap.meta)[f]
      BY <2>10, <2>12
    <3>2. \/ ConfigOf(merged)[f] = ConfigOf(sent.meta)[f]
          \/ f \in Defaulted /\ ConfigOf(sent.meta)[f] = Null
          \/ sent.meta.commissionConfig = Null
      BY <2>6, <3>1, MergeChanges
    <3>3. QED
      BY <2>10, <3>2
  <2>13. QED
    BY <2>11, <2>12
<1>2. QED
  BY <1>1, InvHolds, PTL DEF Spec, UpdateKeepsFields

---------------------------------------------------------------------------
(* Which requests have to be kept apart. *)

\* No request of a kind in K has overlapped one of a kind in L.
NeverMet(K, L) ==
  \A r, s \in Requests : s \in req[r].met => ~ (req[r].kind \in K /\ req[s].kind \in L)

\* The kinds that write a commissionConfig, and those that create an
\* organization.
ConfigKinds == {"add", "insert", "set", "merge", "profile", "edit"}
FoundingKinds == {"found", "adminFound"}

\* Nobody has written the documents that are there at the start.
SeedsUnwritten ==
  \A p \in SeedParticipants, f \in Paths : SeededParticipants[p].by[f] = {}

ConfigsAuthored ==
  \A p \in LiveParticipants, f \in Paths : \A s \in participants[p].by[f] :
    s \in Requests /\ req[s].at # "idle" /\ req[s].kind \in ConfigKinds

\* Who created a participant with a user, or an organization.
CreatorsKnown ==
  \A r \in Requests :
    /\ participants[r] # Gone /\ participants[r].userId # None => req[r].kind = "profile"
    /\ orgs[r] # Gone => req[r].kind \in FoundingKinds

LEMMA RequestKind ==
  ASSUME NEW r \in Requests, NEW kind, NEW at, NEW sent, NEW target, NEW user,
         Enter(r, Request(kind, at, sent, target, user))
  PROVE  req'[r].kind = kind
<1>1. req'[r] = [Request(kind, at, sent, target, user) EXCEPT !.met = Running]
  BY DEF Enter
<1>2. QED
  BY <1>1, RequestFields

\* Only requests of these kinds write a participant that stays.
LEMMA WritersAre ==
  ASSUME ParticipantsInv, NEW r \in Requests, Arrive(r) \/ Step(r)
  PROVE  /\ \A p \in Participants :
              participants'[p] \notin {participants[p], Gone} => req'[r].kind \in ConfigKinds
         /\ \A o \in Orgs : orgs[o] = Gone /\ orgs'[o] # Gone => req'[r].kind \in FoundingKinds
<1> DEFINE Kept1 == \A p \in Participants : participants'[p] \in {participants[p], Gone}
           Kept2 == \A o \in Orgs : orgs'[o] = orgs[o]
           Goal == /\ \A p \in Participants :
                        participants'[p] \notin {participants[p], Gone}
                          => req'[r].kind \in ConfigKinds
                   /\ \A o \in Orgs :
                        orgs[o] = Gone /\ orgs'[o] # Gone => req'[r].kind \in FoundingKinds
<1> TypeInv
  BY DEF ParticipantsInv
<1>1. Acting(r) /\ Placed(r)
  BY NextActs DEF Acts, ParticipantsInv, Claims
<1>2. ASSUME NEW x, NEW q, Put(q, x)
      PROVE  \A p \in Participants : participants'[p] \in {participants[p], x}
  BY <1>2 DEF Put, TypeInv
<1>3. ASSUME Kept2, req'[r].kind \in ConfigKinds PROVE Goal
  BY <1>3
<1>4. ASSUME Kept1, Kept2 PROVE Goal
  BY <1>4
<1>5. ASSUME Kept1, req'[r].kind \in FoundingKinds PROVE Goal
  BY <1>5
<1>6. ASSUME Step(r) PROVE Goal
  <2>1. req'[r].kind = req[r].kind
    <3>1. req[r].at # "idle"
      BY <1>6 DEF Step, SaveParticipant, EraseParticipant, CheckOwner, Upsert,
         InsertProfile, InsertOrg, WriteUser, WriteProfile
    <3>2. QED
      BY <1>1, <3>1 DEF Acting, Begins, Continues
  <2>2. CASE SaveParticipant(r) \/ Upsert(r) \/ InsertProfile(r) \/ WriteProfile(r)
    BY <1>1, <1>3, <2>1, <2>2
    DEF SaveParticipant, Upsert, InsertProfile, WriteProfile, Placed, ConfigKinds
  <2>3. CASE EraseParticipant(r)
    BY <1>2, <1>4, <2>3 DEF EraseParticipant
  <2>4. CASE CheckOwner(r) \/ WriteUser(r)
    BY <1>4, <2>4 DEF CheckOwner, WriteUser
  <2>5. CASE InsertOrg(r)
    BY <1>1, <1>5, <2>1, <2>5 DEF InsertOrg, Placed, FoundingKinds
  <2>6. QED
    BY <1>6, <2>2, <2>3, <2>4, <2>5 DEF Step
<1>7. ASSUME Arrive(r) PROVE Goal
  <2>1. ASSUME NEW o, NEW sent, AddParticipant(r, o, sent) \/ InsertParticipant(r, o, sent)
        PROVE  Goal
    <3>1. req'[r].kind \in {"add", "insert"} /\ Kept2
      BY <2>1, RequestKind DEF AddParticipant, InsertParticipant
    <3>2. QED
      BY <1>3, <3>1 DEF ConfigKinds
  <2>2. ASSUME NEW p, NEW o, NEW sent, SetParticipant(r, p, o, sent)
        PROVE  Goal
    <3>1. req'[r].kind = "set" /\ Kept2
      BY <2>2, RequestKind DEF SetParticipant
    <3>2. QED
      BY <1>3, <3>1 DEF ConfigKinds
  <2>3. ASSUME NEW p, NEW u, NEW o, NEW sent,
               FindParticipant(r, p, sent) \/ EditUser(r, u, p, sent) \/ PutProfile(r, u, o, sent)
        PROVE  Goal
    BY <1>4, <2>3 DEF FindParticipant, EditUser, PutProfile
  <2>4. ASSUME NEW p, NEW o, RemoveParticipant(r, p, o) \/ DeleteParticipant(r, p)
        PROVE  Goal
    BY <1>2, <1>4, <2>4 DEF RemoveParticipant, DeleteParticipant
  <2>5. ASSUME NEW u, NEW name, Found(r, u, name)
        PROVE  Goal
    <3>1. req'[r].kind = "found" /\ Kept1
      BY <2>5, RequestKind DEF Found
    <3>2. QED
      BY <1>5, <3>1 DEF FoundingKinds
  <2>6. ASSUME NEW u, NEW name, AdminFound(r, u, name)
        PROVE  Goal
    BY <1>4, <2>6 DEF AdminFound
  <2>7. ASSUME NEW u, NEW name, NEW o \in Orgs, Rename(r, o, name, u) \/ Dissolve(r, o)
        PROVE  Goal
    <3>1. \A q \in Orgs : orgs[q] = Gone => orgs'[q] = Gone
      BY <2>7 DEF Rename, Dissolve, TypeInv
    <3>2. Kept1
      BY <2>7 DEF Rename, Dissolve
    <3>3. QED
      BY <3>1, <3>2
  <2>8. Known \subseteq Orgs
    BY DEF Known, LiveOrgs, Orgs
  <2> HIDE DEF Goal
  <2>9. QED
    BY <1>7, <2>1, <2>2, <2>3, <2>4, <2>5, <2>6, <2>7, <2>8 DEF Arrive
<1> HIDE DEF Goal
<1>8. Goal
  BY <1>6, <1>7
<1>9. QED
  BY <1>8 DEF Goal

\* A participant that is new has no other author than its request.
LEMMA CreatedBy ==
  ASSUME ParticipantsInv, NEW r \in Requests, Arrive(r) \/ Step(r),
         NEW p \in Participants, participants[p] = Gone, participants'[p] # Gone
  PROVE  \A f \in Paths : participants'[p].by[f] \subseteq {r}
<1> TypeInv
  BY DEF ParticipantsInv
<1>1. ASSUME NEW x, NEW q, Put(q, x)
      PROVE  participants'[p] \in {participants[p], x} /\ (participants'[p] # participants[p] => q = p)
  BY <1>1 DEF Put, TypeInv
<1>2. ASSUME NEW u, NEW has, NEW meta, Put(r, NewParticipant(r, u, has, meta))
      PROVE  \A f \in Paths : participants'[p].by[f] \subseteq {r}
  <2>1. participants'[p] = NewParticipant(r, u, has, meta)
    BY <1>1, <1>2
  <2>2. QED
    BY <2>1 DEF NewParticipant
<1>3. p \notin LiveParticipants
  BY DEF LiveParticipants
<1>4. CASE Step(r)
  <2>1. CASE InsertProfile(r)
    BY <1>2, <2>1 DEF InsertProfile
  <2>2. CASE SaveParticipant(r) \/ WriteProfile(r)
    BY <1>1, <1>3, <2>2 DEF SaveParticipant, WriteProfile
  <2>3. CASE Upsert(r)
    BY <1>1, <1>3, <2>3 DEF Upsert, ParticipantsOf
  <2>4. CASE EraseParticipant(r) \/ CheckOwner(r) \/ WriteUser(r) \/ InsertOrg(r)
    BY <1>1, <2>4 DEF EraseParticipant, CheckOwner, WriteUser, InsertOrg
  <2>5. QED
    BY <1>4, <2>1, <2>2, <2>3, <2>4 DEF Step
<1>5. CASE Arrive(r)
  <2>1. ASSUME NEW o, NEW sent, AddParticipant(r, o, sent) \/ InsertParticipant(r, o, sent)
        PROVE  \A f \in Paths : participants'[p].by[f] \subseteq {r}
    BY <1>2, <2>1 DEF AddParticipant, InsertParticipant
  <2>2. ASSUME NEW q, NEW o, NEW sent, SetParticipant(r, q, o, sent) PROVE FALSE
    BY <1>1, <1>3, <2>2 DEF SetParticipant
  <2>3. ASSUME NEW q, NEW u, NEW o, NEW sent, NEW name,
               \/ FindParticipant(r, q, sent) \/ EditUser(r, u, q, sent)
               \/ PutProfile(r, u, o, sent) \/ RemoveParticipant(r, q, o)
               \/ DeleteParticipant(r, q) \/ Found(r, u, name) \/ AdminFound(r, u, name)
               \/ Rename(r, o, name, u) \/ Dissolve(r, o)
        PROVE  FALSE
    BY <1>1, <2>3 DEF FindParticipant, EditUser, PutProfile, RemoveParticipant,
       DeleteParticipant, Found, AdminFound, Rename, Dissolve
  <2>4. QED
    BY <1>5, <2>1, <2>2, <2>3 DEF Arrive
<1>6. QED
  BY <1>4, <1>5

\* A request goes on as the kind it arrived as, and only such requests write.
LEMMA AuthorsStep ==
  ASSUME ParticipantsInv, NEW r \in Requests, Arrive(r) \/ Step(r)
  PROVE  /\ Acting(r) /\ Placed(r) /\ Born /\ TypeInv
         /\ \A p \in Participants :
              participants'[p] \notin {participants[p], Gone} => req'[r].kind \in ConfigKinds
         /\ \A o \in Orgs : orgs[o] = Gone /\ orgs'[o] # Gone => req'[r].kind \in FoundingKinds
         /\ \A s \in Requests :
              req[s].at # "idle" => req'[s].at # "idle" /\ req'[s].kind = req[s].kind
<1>1. Acting(r) /\ Placed(r) /\ Born /\ TypeInv
  BY NextActs DEF Acts, ParticipantsInv, Claims
<1>2. /\ \A p \in Participants :
           participants'[p] \notin {participants[p], Gone} => req'[r].kind \in ConfigKinds
      /\ \A o \in Orgs : orgs[o] = Gone /\ orgs'[o] # Gone => req'[r].kind \in FoundingKinds
  BY WritersAre
<1>3. \A s \in Requests : req[s].at # "idle" => req'[s].at # "idle" /\ req'[s].kind = req[s].kind
  BY <1>1 DEF Acting, Others, Kept, Begins, Continues
<1>4. QED
  BY <1>1, <1>2, <1>3

LEMMA ConfigsStay == ParticipantsInv /\ ConfigsAuthored /\ [Next]_vars => ConfigsAuthored'
<1> SUFFICES ASSUME ParticipantsInv, ConfigsAuthored, [Next]_vars PROVE ConfigsAuthored'
  OBVIOUS
<1>1. CASE UNCHANGED vars
  BY <1>1 DEF vars, ConfigsAuthored, LiveParticipants
<1>2. ASSUME NEW r \in Requests, Arrive(r) \/ Step(r)
      PROVE  ConfigsAuthored'
  <2>1. Acting(r) /\ Placed(r) /\ Born /\ TypeInv
    BY <1>2, AuthorsStep
  <2>2. \A p \in Participants :
          participants'[p] \notin {participants[p], Gone} => req'[r].kind \in ConfigKinds
    BY <1>2, AuthorsStep
  <2>3. \A s \in Requests : req[s].at # "idle" => req'[s].at # "idle" /\ req'[s].kind = req[s].kind
    BY <1>2, AuthorsStep
  <2>4. ASSUME NEW p \in Participants, participants'[p] # Gone, NEW f \in Paths,
               NEW s \in participants'[p].by[f]
        PROVE  s \in Requests /\ req'[s].at # "idle" /\ req'[s].kind \in ConfigKinds
    <3>1. CASE participants'[p] = participants[p]
      BY <2>3, <2>4, <3>1 DEF ConfigsAuthored, LiveParticipants
    <3>2. CASE Written(r, p) /\ participants'[p] # participants[p]
      <4>1. participants'[p].by[f] \in {participants[p].by[f], {r}}
        BY <3>2 DEF Written
      <4>2. req'[r].at # "idle" /\ req'[r].kind \in ConfigKinds
        BY <2>1, <2>2, <2>4, <3>2 DEF Acting
      <4>3. participants[p] # Gone
        BY <3>2 DEF Written
      <4>4. QED
        BY <2>3, <2>4, <4>1, <4>2, <4>3 DEF ConfigsAuthored, LiveParticipants
    <3>3. CASE Created(r, p)
      <4>1. participants'[p].by[f] \subseteq {r}
        BY <1>2, <2>4, <3>3, CreatedBy DEF Created
      <4>2. req'[r].at # "idle" /\ req'[r].kind \in ConfigKinds
        BY <2>1, <2>2, <3>3 DEF Acting, Created
      <4>3. QED
        BY <2>4, <4>1, <4>2
    <3>4. QED
      BY <2>1, <2>4, <3>1, <3>2, <3>3 DEF Acting, Changed
  <2>5. QED
    BY <2>4 DEF ConfigsAuthored, LiveParticipants
<1>3. QED
  BY <1>1, <1>2 DEF Next

LEMMA CreatorsStay == ParticipantsInv /\ CreatorsKnown /\ [Next]_vars => CreatorsKnown'
<1> SUFFICES ASSUME ParticipantsInv, CreatorsKnown, [Next]_vars PROVE CreatorsKnown'
  OBVIOUS
<1>1. CASE UNCHANGED vars
  BY <1>1 DEF vars, CreatorsKnown
<1>2. ASSUME NEW r \in Requests, Arrive(r) \/ Step(r)
      PROVE  CreatorsKnown'
  <2>1. Acting(r) /\ Placed(r) /\ Born /\ TypeInv
    BY <1>2, AuthorsStep
  <2>2. \A o \in Orgs : orgs[o] = Gone /\ orgs'[o] # Gone => req'[r].kind \in FoundingKinds
    BY <1>2, AuthorsStep
  <2>3. \A s \in Requests : req[s].at # "idle" => req'[s].at # "idle" /\ req'[s].kind = req[s].kind
    BY <1>2, AuthorsStep
  <2>4. ASSUME NEW s \in Requests, participants'[s] # Gone, participants'[s].userId # None
        PROVE  req'[s].kind = "profile"
    <3>0. s \in Participants
      BY DEF Participants
    <3>1. CASE participants[s] # Gone
      <4>1. req[s].at # "idle"
        BY <2>1, <3>1 DEF Born
      <4>2. participants'[s].userId = participants[s].userId
        BY <2>1, <2>4, <3>0, <3>1 DEF Acting, Changed, Created, Written
      <4>3. QED
        BY <2>3, <2>4, <3>1, <4>1, <4>2 DEF CreatorsKnown
    <3>2. CASE participants[s] = Gone
      <4>1. Created(r, s)
        BY <2>1, <2>4, <3>0, <3>2 DEF Acting, Changed, Written
      <4>2. s = r /\ req[r].at = "insertProfile"
        BY <2>4, <4>1 DEF Created
      <4>3. QED
        BY <2>1, <2>3, <4>2 DEF Placed
    <3>3. QED
      BY <3>1, <3>2
  <2>5. ASSUME NEW s \in Requests, orgs'[s] # Gone
        PROVE  req'[s].kind \in FoundingKinds
    <3>0. s \in Orgs
      BY DEF Orgs
    <3>1. CASE orgs[s] # Gone
      BY <2>1, <2>3, <3>1 DEF Born, CreatorsKnown
    <3>2. CASE orgs[s] = Gone
      <4>1. s = r
        BY <2>1, <2>5, <3>0, <3>2 DEF Acting, OrgChanged
      <4>2. QED
        BY <2>2, <2>5, <3>0, <3>2, <4>1
    <3>3. QED
      BY <3>1, <3>2
  <2>6. QED
    BY <2>4, <2>5 DEF CreatorsKnown
<1>3. QED
  BY <1>1, <1>2 DEF Next

LEMMA AuthorsInit ==
  /\ Init => CreatorsKnown
  /\ SeedsUnwritten /\ Init => ConfigsAuthored
<1>1. Init => CreatorsKnown
  BY ParticipantsAssumption DEF Init, CreatorsKnown, Participants, Orgs
<1>2. SeedsUnwritten /\ Init => ConfigsAuthored
  BY DEF Init, SeedsUnwritten, ConfigsAuthored, LiveParticipants, Participants
<1>3. QED
  BY <1>1, <1>2

\* If no two requests that put a profile overlap, a user has one profile in
\* each organization, and one without, unless an update has moved another one
\* there: the upsert then does what the unique index it lacks would do.
THEOREM ProfilesUniqueInTurn ==
  SeedsDiffer /\ Spec /\ []NeverMet({"profile"}, {"profile"})
    => [](\A p, q \in LiveParticipants :
            /\ p # q
            /\ participants[p].userId # None
            /\ participants[p].userId = participants[q].userId
            /\ participants[p].has["org"] = participants[q].has["org"]
            => Moved(p) \/ Moved(q))
<1> DEFINE P == \A p, q \in LiveParticipants :
            /\ p # q
            /\ participants[p].userId # None
            /\ participants[p].userId = participants[q].userId
            /\ participants[p].has["org"] = participants[q].has["org"]
            => Moved(p) \/ Moved(q)
<1>1. ASSUME CreatorsKnown, NeverMet({"profile"}, {"profile"}), ProfilesNeedOverlap
      PROVE  P
  <2> SUFFICES ASSUME NEW p \in LiveParticipants, NEW q \in LiveParticipants, p # q,
                      participants[p].userId # None,
                      participants[p].userId = participants[q].userId,
                      participants[p].has["org"] = participants[q].has["org"],
                      Overlapped({p} \cap Requests, {q} \cap Requests)
               PROVE  FALSE
    BY <1>1 DEF ProfilesNeedOverlap
  <2>1. p \in Requests /\ q \in Requests /\ q \in req[p].met
    BY DEF Overlapped
  <2>2. req[p].kind = "profile" /\ req[q].kind = "profile"
    BY <1>1, <2>1 DEF CreatorsKnown, LiveParticipants
  <2>3. QED
    BY <1>1, <2>1, <2>2 DEF NeverMet
<1>2. CreatorsKnown /\ NeverMet({"profile"}, {"profile"}) /\ ProfilesNeedOverlap => P
  BY <1>1
<1>3. Init => CreatorsKnown
  BY AuthorsInit
<1> HIDE DEF P
<1>4. SeedsDiffer /\ Spec /\ []NeverMet({"profile"}, {"profile"}) => []P
  BY <1>2, <1>3, CreatorsStay, InvHolds, ProfilesOnlyByOverlap, PTL DEF Spec
<1>5. QED
  BY <1>4 DEF P

\* If administrators found organizations one after the other, and owners
\* neither found nor rename any, no two organizations have the same name: the
\* look-up of the name is enough.
THEOREM NamesUniqueInTurn ==
  SeedsDiffer /\ Spec /\ []NeverMet({"adminFound"}, {"adminFound"})
      /\ [](\A r \in Requests : req[r].kind \notin {"found", "rename"})
    => [](\A o, q \in LiveOrgs : o # q => orgs[o].name # orgs[q].name)
<1> DEFINE P == \A o, q \in LiveOrgs : o # q => orgs[o].name # orgs[q].name
           H == \A r \in Requests : req[r].kind \notin {"found", "rename"}
<1>1. ASSUME CreatorsKnown, NeverMet({"adminFound"}, {"adminFound"}), H, NamesNeedOverlap
      PROVE  P
  <2> SUFFICES ASSUME NEW o \in LiveOrgs, NEW q \in LiveOrgs, o # q,
                      orgs[o].name = orgs[q].name
               PROVE  FALSE
    OBVIOUS
  <2>1. o \in Requests /\ q \in Requests /\ q \in req[o].met
    BY <1>1 DEF NamesNeedOverlap, Overlapped, OwnerNamed
  <2>2. req[o].kind = "adminFound" /\ req[q].kind = "adminFound"
    BY <1>1, <2>1 DEF CreatorsKnown, LiveOrgs, FoundingKinds
  <2>3. QED
    BY <1>1, <2>1, <2>2 DEF NeverMet
<1>2. CreatorsKnown /\ NeverMet({"adminFound"}, {"adminFound"}) /\ H /\ NamesNeedOverlap => P
  BY <1>1
<1>3. Init => CreatorsKnown
  BY AuthorsInit
<1> HIDE DEF P, H
<1>4. SeedsDiffer /\ Spec /\ []NeverMet({"adminFound"}, {"adminFound"}) /\ []H => []P
  BY <1>2, <1>3, CreatorsStay, InvHolds, NamesOnlyByOverlap, PTL DEF Spec
<1>5. QED
  BY <1>4 DEF P, H

\* "Mantem valores existentes" holds as it stands for an administrators' update
\* that overlaps no request that writes a commissionConfig: what it changes in
\* a field that is set it was sent.
THEOREM UpdatesLoseNothingInTurn ==
  SeedsUnwritten /\ Spec /\ []NeverMet({"merge"}, ConfigKinds)
    => [][\A r \in Requests :
            req[r].kind = "merge" /\ req[r].at = "save" /\ req'[r].at = "ok"
              => LET p == req[r].target
                     old == ConfigOf(participants[p].meta)
                     new == ConfigOf(participants'[p].meta)
                 IN \A f \in Paths \ {"unknown"} :
                      old[f] \notin {Unset, Null, new[f]}
                        => \/ new[f] = ConfigOf(req[r].sent.meta)[f]
                           \/ f \in Defaulted /\ ConfigOf(req[r].sent.meta)[f] = Null
                           \/ req[r].sent.meta.commissionConfig = Null]_vars
<1> DEFINE Keeps ==
      \A r \in Requests :
        req[r].kind = "merge" /\ req[r].at = "save" /\ req'[r].at = "ok"
          => LET p == req[r].target
                 old == ConfigOf(participants[p].meta)
                 new == ConfigOf(participants'[p].meta)
             IN \A f \in Paths \ {"unknown"} :
                  old[f] \notin {Unset, Null, new[f]}
                    => \/ new[f] = ConfigOf(req[r].sent.meta)[f]
                       \/ f \in Defaulted /\ ConfigOf(req[r].sent.meta)[f] = Null
                       \/ req[r].sent.meta.commissionConfig = Null
                       \/ Overlapped({r}, participants[p].by[f])
           Loses ==
      \A r \in Requests :
        req[r].kind = "merge" /\ req[r].at = "save" /\ req'[r].at = "ok"
          => LET p == req[r].target
                 old == ConfigOf(participants[p].meta)
                 new == ConfigOf(participants'[p].meta)
             IN \A f \in Paths \ {"unknown"} :
                  old[f] \notin {Unset, Null, new[f]}
                    => \/ new[f] = ConfigOf(req[r].sent.meta)[f]
                       \/ f \in Defaulted /\ ConfigOf(req[r].sent.meta)[f] = Null
                       \/ req[r].sent.meta.commissionConfig = Null
<1>1. ASSUME ParticipantsInv, ConfigsAuthored, NeverMet({"merge"}, ConfigKinds), Next, Keeps
      PROVE  Loses
  <2>1. ASSUME NEW r \in Requests, req[r].kind = "merge", req[r].at = "save", req'[r].at = "ok",
               NEW f \in Paths
        PROVE  ~ Overlapped({r}, participants[req[r].target].by[f])
    <3> SUFFICES ASSUME NEW s \in participants[req[r].target].by[f], s \in req[r].met
                 PROVE  FALSE
      BY DEF Overlapped
    <3>1. req[r].target \in LiveParticipants
      BY <1>1, <2>1, SavedIsLive
    <3>2. s \in Requests /\ req[s].kind \in ConfigKinds
      BY <1>1, <3>1 DEF ConfigsAuthored
    <3>3. QED
      BY <1>1, <2>1, <3>2 DEF NeverMet
  <2>2. QED
    BY <1>1, <2>1, Zenon
<1>2. ParticipantsInv /\ ConfigsAuthored /\ NeverMet({"merge"}, ConfigKinds)
        /\ [Next]_vars /\ [Keeps]_vars => [Loses]_vars
  BY <1>1
<1>3. Spec => [][Keeps]_vars
  BY UpdatesKeepFields DEF UpdateKeepsFields
<1>4. SeedsUnwritten /\ Init => ConfigsAuthored
  BY AuthorsInit
<1> HIDE DEF Keeps, Loses
<1>5. SeedsUnwritten /\ Spec /\ []NeverMet({"merge"}, ConfigKinds) => [][Loses]_vars
  BY <1>2, <1>3, <1>4, ConfigsStay, InvHolds, PTL DEF Spec
<1>6. QED
  BY <1>5 DEF Loses

=============================================================================
