---------------------- MODULE EmailVerificationProofs ----------------------
(***************************************************************************)
(* Theorems about EmailVerification: types, what happens to an address, a  *)
(* token and a flag between requests that do not overlap, which address a  *)
(* verification is about, and which token the last mail carries.           *)
(***************************************************************************)
EXTENDS EmailVerification, FiniteSetTheorems, TLAPS

---------------------------------------------------------------------------
(* The invariant. *)

Creating == {"register", "create", "import"}
Reading == {"resend", "update", "edit", "writeBack"}

RequestRecord ==
  [kind : Kinds, at : {"idle"} \cup Pending \cup Answers,
   user : Ids \cup {None}, address : Addresses \cup {None},
   token : Ids \cup {None}, snap : Document \cup {NoUser},
   after : SUBSET Requests]

MailRecord == [user : Ids, to : Addresses, token : Ids]

Types ==
  /\ users \in [Ids -> Document \cup {NoUser}]
  /\ req \in [Requests -> RequestRecord]
  /\ mails \in Seq(MailRecord)
  /\ lost \subseteq DOMAIN mails
  /\ faults \in 0..MaxFaults

\* A document whose fields hold what belongs there.
Holds(d) ==
  /\ d \in Document
  /\ d.has["email"] \in Addresses \cup {None}
  /\ d.has["emailToken"] \in Ids \cup {None}
  /\ d.has["verifiedEmail"] \in BOOLEAN

\* The document of u has been in the collection.
Began(u) == u \in Seeds \/ (u \in Requests /\ req[u].at \notin {"idle", "insert"})

\* Token z was drawn for user u, by a request that may have failed since.
DrawnFor(z, u) ==
  \/ z \in {None, u}
  \/ z \in Requests /\ (req[z].at = "error"
                          \/ (req[z].kind = "resend" /\ req[z].user = u))

\* The place of a request in its kind's handler.
Placed(r) ==
  LET q == req[r]
  IN /\ q.after \subseteq Answered
     /\ q.at \in {"idle", "insert"} => users[r] = NoUser
     /\ q.at = "insert" => q.user = r /\ q.kind \in Creating
     /\ q.at \in {"check", "write"} => q.kind \in Kinds \ Creating /\ q.user \in Ids
     /\ q.at = "check" => q.kind \in {"update", "edit"}
     /\ q.at = "emit" => \/ q.kind = "register" /\ q.user = r
                         \/ q.kind = "resend" /\ q.user \in Ids
     /\ q.kind = "resend" => q.at \in {"write", "emit", "ok"}
     /\ q.kind # "verify" => q.token = None

\* What request r has read is a document of its user, and what the user holds
\* by now is the same or was given by another request that overlapped r.
Snapped(r) == \/ req[r].at \in {"check", "write"} /\ req[r].kind \in Reading
              \/ req[r].at = "emit"

SnapSound(r) ==
  LET q == req[r]
      u == req[r].user
  IN /\ Holds(q.snap) /\ u \in Ids /\ Began(u) /\ (u \in Requests => req[u].kind # "resend")
     /\ DrawnFor(q.snap.has["emailToken"], u)
     /\ q.at = "emit" => q.snap.has["emailToken"] = r
     /\ q.kind = "resend" => q.snap.has["email"] # None
     /\ users[u] # NoUser
          => \A f \in Fields :
               \/ q.snap.has[f] = users[u].has[f]
               \/ users[u].by[f] # u /\ Overlap(r, users[u].by[f])

\* Some mail brought the token to user u.
Mailed(u, token) == \E i \in DOMAIN mails : mails[i].user = u /\ mails[i].token = token

VerifySound(r) ==
  req[r].at = "write" /\ req[r].kind = "verify" /\ req[r].token # None
    => Mailed(req[r].user, req[r].token)

\* Who gave user u the token: its registration, a request that ended well, or
\* one that drew the token and has yet to end.
TokenBy(u, w) ==
  \/ w = u
  \/ w \in Requests /\ WroteToken(w, u)
  \/ /\ w \in Requests /\ w = users[u].has["emailToken"]
     /\ \/ req[w].at = "error"
        \/ req[w].at = "emit" /\ req[w].kind = "resend" /\ req[w].user = u
           /\ req[w].snap.has["email"] # None

DocSound(u) ==
  LET d == users[u]
      v == users[u].by["verifiedEmail"]
  IN /\ Holds(d) /\ Began(u)
     /\ u \in Requests => req[u].kind \in Creating
     /\ \A f \in Fields : d.by[f] = u \/ (d.by[f] \in Requests /\ req[d.by[f]].at # "idle")
     /\ DrawnFor(d.has["emailToken"], u)
     /\ TokenBy(u, d.by["emailToken"])
     /\ d.has["verifiedEmail"] = TRUE /\ v # u /\ req[v].token # None => Mailed(u, req[v].token)

\* A mail carries a token drawn for its user, whose request has ended; it went
\* to the address the user has, if that was given before.
MailSound(i) ==
  LET u == mails[i].user
      t == mails[i].token
  IN /\ Began(u) /\ (u \in Requests => req[u].kind # "resend")
     /\ t = u \/ (t \in Requests /\ req[t].kind = "resend" /\ req[t].user = u)
     /\ t \in Requests => req[t].at = "ok"
     /\ users[u] # NoUser
          => LET giver == users[u].by["email"]
             IN giver = t \/ Precedes(giver, t) => mails[i].to = users[u].has["email"]

\* Token z of user u is that of mail i, or another request that wrote a token
\* overlapped the mail's, or a mail with z is still to come or has failed.
Excused(u, z, i) ==
  \/ z = mails[i].token
  \/ \E r \in Requests : WroteToken(r, u) /\ Overlap(r, mails[i].token)
  \/ /\ z \in Requests
     /\ \/ req[z].at = "error"
        \/ req[z].at = "emit" /\ req[z].snap.has["email"] # None

DocLast(u) ==
  \A i \in DOMAIN mails : LastAbout(u, i) => Excused(u, users[u].has["emailToken"], i)

SnapLast(r) ==
  \A i \in DOMAIN mails :
    LastAbout(req[r].user, i)
      => \/ Excused(req[r].user, req[r].snap.has["emailToken"], i)
         \/ Overlap(r, mails[i].token)

WritesBack(r) == req[r].at \in {"check", "write"} /\ req[r].kind \in {"update", "writeBack"}

RequestsSound ==
  \A r \in Requests : /\ Placed(r) /\ VerifySound(r)
                      /\ Snapped(r) => SnapSound(r)
                      /\ WritesBack(r) => SnapLast(r)

DocumentsSound == \A u \in Ids : users[u] # NoUser => DocSound(u) /\ DocLast(u)

MailsSound == \A i \in DOMAIN mails : MailSound(i)

EmailInv == Types /\ RequestsSound /\ DocumentsSound /\ MailsSound

---------------------------------------------------------------------------
(* How a request goes on, and what stays true when requests go on. *)

Proceeds(a, b) ==
  /\ a.at \in Answers => b = a
  /\ a.at # "idle" => /\ b.after = a.after /\ b.at # "idle"
                      /\ b.at = "insert" => a.at = "insert"
                      /\ \/ b.kind = a.kind /\ b.user = a.user /\ b.token = a.token
                         \/ /\ b.kind = "register" /\ b.token = None /\ b.at \in Answers
                            /\ a.kind = "resend" \/ a.at = "emit" => b.at = "error"
  /\ a.at = "emit" => b.at \in {"ok", "error"} \/ (b.at = "emit" /\ b.snap = a.snap)

Forward ==
  /\ \A q \in Requests : Proceeds(req[q], req'[q])
  /\ \A i \in DOMAIN mails : i \in DOMAIN mails' /\ mails'[i] = mails[i]

LEMMA BeganStays ==
  ASSUME Forward, NEW u, Began(u)
  PROVE  Began(u)'
  BY DEF Forward, Proceeds, Began

LEMMA DrawnStays ==
  ASSUME Forward, NEW z, NEW u, DrawnFor(z, u),
         z \in Requests => req[z].at # "idle" \/ req[z].kind # "resend"
  PROVE  DrawnFor(z, u)'
  BY DEF Forward, Proceeds, DrawnFor, Answers

LEMMA WroteStays ==
  ASSUME Forward, NEW r \in Requests, NEW u, WroteToken(r, u)
  PROVE  WroteToken(r, u)'
  BY DEF Forward, Proceeds, WroteToken, Answers

LEMMA OverlapStays ==
  ASSUME Forward, NEW q, NEW t, Overlap(q, t), req[q].at # "idle", req[t].at # "idle"
  PROVE  Overlap(q, t)'
  BY DEF Forward, Proceeds, Overlap

LEMMA MailedStays ==
  ASSUME Forward, NEW u, NEW token, Mailed(u, token)
  PROVE  Mailed(u, token)'
  BY DEF Forward, Mailed

\* Two requests that run overlap.
LEMMA RunningOverlap ==
  ASSUME RequestsSound, NEW q \in Running, NEW r \in Running, q # r
  PROVE  Overlap(q, r)
  BY DEF RequestsSound, Placed, Overlap, Running, Answered, Pending, Answers

LEMMA NeverResendsIdle ==
  ASSUME RequestsSound, NEW r \in Requests, req[r].at = "idle"
  PROVE  req[r].kind # "resend"
  BY DEF RequestsSound, Placed

LEMMA TokenByStays ==
  ASSUME Forward, NEW u, NEW w, TokenBy(u, w),
         users'[u].has["emailToken"] = users[u].has["emailToken"]
  PROVE  TokenBy(u, w)'
<1>1. CASE w = u
  BY <1>1 DEF TokenBy
<1>2. CASE w \in Requests /\ WroteToken(w, u)
  BY <1>2, WroteStays DEF TokenBy
<1>3. CASE /\ w \in Requests /\ w = users[u].has["emailToken"]
           /\ \/ req[w].at = "error"
              \/ req[w].at = "emit" /\ req[w].kind = "resend" /\ req[w].user = u
                 /\ req[w].snap.has["email"] # None
  BY <1>3 DEF TokenBy, Forward, Proceeds, WroteToken, Answers
<1>4. QED
  BY <1>1, <1>2, <1>3 DEF TokenBy

\* The document of u after a step in which request r may have written it.
LEMMA DocChanged ==
  ASSUME Types, RequestsSound, Forward, NEW u \in Ids, users[u] # NoUser, DocSound(u),
         Holds(users'[u]),
         NEW r,
         \A f \in Fields : \/ /\ users'[u].has[f] = users[u].has[f]
                              /\ users'[u].by[f] = users[u].by[f]
                           \/ /\ users'[u].by[f] = r
                              /\ r \in Requests /\ req[r].at # "idle",
         \/ /\ users'[u].has["emailToken"] = users[u].has["emailToken"]
            /\ users'[u].by["emailToken"] = users[u].by["emailToken"]
         \/ DrawnFor(users[u].has["emailToken"], u)' /\ TokenBy(u, r)',
         \/ /\ users'[u].has["verifiedEmail"] = users[u].has["verifiedEmail"]
            /\ users'[u].by["verifiedEmail"] = users[u].by["verifiedEmail"]
         \/ req'[r].token = None
         \/ Mailed(u, req[r].token)'
  PROVE  DocSound(u)'
<1>0. PICK d, z, w, v : /\ d = users[u] /\ z = d.has["emailToken"]
                        /\ w = d.by["emailToken"] /\ v = d.by["verifiedEmail"]
  OBVIOUS
<1>1. /\ Holds(d) /\ Began(u) /\ (u \in Requests => req[u].kind \in Creating)
      /\ \A f \in Fields : d.by[f] = u \/ (d.by[f] \in Requests /\ req[d.by[f]].at # "idle")
      /\ DrawnFor(z, u) /\ TokenBy(u, w)
      /\ d.has["verifiedEmail"] = TRUE /\ v # u /\ req[v].token # None => Mailed(u, req[v].token)
  BY <1>0 DEF DocSound
<1>2. Began(u)' /\ (u \in Requests => req'[u].kind \in Creating)
  BY <1>1, BeganStays, EmailAssumption DEF Forward, Proceeds, Began, Creating
<1>3. \A f \in Fields :
        \/ users'[u].by[f] = u
        \/ users'[u].by[f] \in Requests /\ req'[users'[u].by[f]].at # "idle"
  BY <1>0, <1>1 DEF Forward, Proceeds
<1>4. DrawnFor(users[u].has["emailToken"], u)'
  <2>1. DrawnFor(z, u)'
    BY <1>1, NeverResendsIdle, DrawnStays DEF Forward, Proceeds, DrawnFor, Answers
  <2>2. QED
    BY <1>0, <2>1 DEF DrawnFor
<1>5. TokenBy(u, users[u].by["emailToken"])'
  <2>1. CASE /\ users'[u].has["emailToken"] = users[u].has["emailToken"]
             /\ users'[u].by["emailToken"] = users[u].by["emailToken"]
    <3>1. TokenBy(u, w)'
      BY <1>0, <1>1, <2>1, TokenByStays
    <3>2. QED
      BY <1>0, <2>1, <3>1 DEF TokenBy
  <2>2. CASE users'[u].by["emailToken"] = r /\ TokenBy(u, r)'
    BY <2>2 DEF TokenBy
  <2>3. QED
    BY <2>1, <2>2 DEF Fields
<1>6. ASSUME users'[u].has["verifiedEmail"] = TRUE,
             users'[u].by["verifiedEmail"] # u,
             req'[users'[u].by["verifiedEmail"]].token # None
      PROVE  \E i \in DOMAIN mails' :
               /\ mails'[i].user = u
               /\ mails'[i].token = req'[users'[u].by["verifiedEmail"]].token
  <2>1. CASE /\ users'[u].has["verifiedEmail"] = d.has["verifiedEmail"]
             /\ users'[u].by["verifiedEmail"] = v
    <3>1. v \in Requests /\ req[v].at # "idle"
      BY <1>0, <1>1, <1>6, <2>1 DEF Fields
    <3>2. PICK token : token = req[v].token
      OBVIOUS
    <3>3. req'[v].token = token
      BY <1>6, <2>1, <3>1, <3>2 DEF Forward, Proceeds
    <3>4. Mailed(u, token)'
      BY <1>1, <1>6, <2>1, <3>2, <3>3, MailedStays
    <3>5. QED
      BY <2>1, <3>3, <3>4 DEF Mailed
  <2>2. CASE users'[u].by["verifiedEmail"] = r
    <3>1. CASE Mailed(u, req[r].token)'
      BY <2>2, <3>1 DEF Mailed
    <3>2. QED
      BY <1>0, <1>6, <2>1, <2>2, <3>1
  <2>3. QED
    BY <1>0, <2>1, <2>2 DEF Fields
<1>7. QED
  BY <1>2, <1>3, <1>4, <1>5, <1>6 DEF DocSound, Holds, Mailed

LEMMA DocFrame ==
  ASSUME Types, RequestsSound, Forward, NEW u \in Ids, users[u] # NoUser,
         users'[u] = users[u], DocSound(u)
  PROVE  DocSound(u)'
<1>1. PICK r : r = u
  OBVIOUS
<1>2. \A f \in Fields : \/ /\ users'[u].has[f] = users[u].has[f]
                           /\ users'[u].by[f] = users[u].by[f]
                        \/ /\ users'[u].by[f] = r
                           /\ r \in Requests /\ req[r].at # "idle"
  OBVIOUS
<1>3. Holds(users'[u])
  BY DEF DocSound
<1>4. QED
  BY <1>2, <1>3, DocChanged

\* If the document of u is still there, a request in Q gave what has changed.
Touched(u, Q) ==
  users'[u] # NoUser
    => /\ users[u] # NoUser
       /\ \A f \in Fields : \/ /\ users'[u].has[f] = users[u].has[f]
                               /\ users'[u].by[f] = users[u].by[f]
                            \/ users'[u].by[f] \in Q

\* Overlap and Precedes after the step.
OverlapNext(q, t) ==
  /\ q \in Requests /\ t \in Requests /\ q # t
  /\ q \notin req'[t].after /\ t \notin req'[q].after

PrecedesNext(q, t) == q \in Seeds \/ (t \in Requests /\ q \in req'[t].after)

\* A request makes no step, or is past its look-up.
Continues(r) ==
  /\ req'[r].kind = req[r].kind /\ req'[r].user = req[r].user
  /\ req'[r].snap = req[r].snap /\ req'[r].after = req[r].after
  /\ req'[r].at = req[r].at \/ (req[r].at = "check" /\ req'[r].at = "write")

\* What it has read is still as good.
LEMMA SnapFrame ==
  ASSUME Types, RequestsSound, DocumentsSound, Forward, NEW r \in Requests,
         Continues(r), Snapped(r), SnapSound(r),
         NEW Q, Q \subseteq Running \ {r, req[r].user}, Touched(req[r].user, Q)
  PROVE  SnapSound(r)'
<1>0. PICK u, z : u = req[r].user /\ z = req[r].snap.has["emailToken"]
  OBVIOUS
<1>1. /\ Holds(req[r].snap) /\ u \in Ids /\ Began(u) /\ DrawnFor(z, u)
      /\ u \in Requests => req[u].kind # "resend"
      /\ req[r].at = "emit" => z = r
      /\ req[r].kind = "resend" => req[r].snap.has["email"] # None
      /\ users[u] # NoUser
           => \A f \in Fields : \/ req[r].snap.has[f] = users[u].has[f]
                                \/ users[u].by[f] # u /\ Overlap(r, users[u].by[f])
  BY <1>0 DEF SnapSound
<1>2. Began(u)' /\ DrawnFor(z, u)'
  BY <1>1, BeganStays, NeverResendsIdle, DrawnStays DEF Forward, Proceeds, DrawnFor, Answers
<1>3. ASSUME users[u] # NoUser, NEW f \in Fields, NEW w, w = users[u].by[f],
             w # u, Overlap(r, w)
      PROVE  OverlapNext(r, w)
  <2>1. req[r].at # "idle"
    BY DEF Snapped
  <2>2. req[w].at # "idle"
    BY <1>1, <1>3 DEF DocumentsSound, DocSound
  <2>3. QED
    BY <1>3, <2>1, <2>2, OverlapStays DEF Overlap, OverlapNext
<1>4. ASSUME NEW q \in Q
      PROVE  q # u /\ OverlapNext(r, q)
  <2>1. r \in Running /\ q \in Running /\ q # r /\ q # u
    BY <1>0, <1>4 DEF Snapped, Running, Pending
  <2>2. req[r].at # "idle" /\ req[q].at # "idle"
    BY <2>1 DEF Running, Pending
  <2>3. Overlap(r, q)
    BY <2>1, RunningOverlap
  <2>4. QED
    BY <2>1, <2>2, <2>3, OverlapStays DEF Overlap, OverlapNext
<1>5. ASSUME users'[u] # NoUser, NEW f \in Fields
      PROVE  \/ req[r].snap.has[f] = users'[u].has[f]
             \/ users'[u].by[f] # u /\ OverlapNext(r, users'[u].by[f])
  <2>1. CASE users'[u].has[f] = users[u].has[f] /\ users'[u].by[f] = users[u].by[f]
    <3>1. users[u] # NoUser
      BY <1>0, <1>5 DEF Touched
    <3>2. QED
      BY <1>1, <1>3, <2>1, <3>1
  <2>2. CASE users'[u].by[f] \in Q
    BY <1>4, <2>2
  <2>3. QED
    BY <1>0, <1>5, <2>1, <2>2 DEF Touched
<1>6. u \in Requests => req'[u].kind # "resend"
  BY <1>1, EmailAssumption DEF Forward, Proceeds, Began
<1>7. QED
  <2>1. /\ Holds(req'[r].snap) /\ req'[r].user \in Ids /\ req'[r].user = u
        /\ req'[r].snap.has["emailToken"] = z
    BY <1>0, <1>1 DEF Continues
  <2>2. Began(req[r].user)' /\ DrawnFor(req[r].snap.has["emailToken"], req[r].user)'
    BY <1>0, <1>2, <2>1 DEF Began, DrawnFor
  <2>3. QED
    BY <1>0, <1>1, <1>5, <1>6, <2>1, <2>2
    DEF SnapSound, Holds, Overlap, OverlapNext, Continues

LEMMA MailFrame ==
  ASSUME Types, RequestsSound, Forward, NEW i \in DOMAIN mails, MailSound(i),
         NEW Q, Q \subseteq Running, Touched(mails[i].user, Q)
  PROVE  MailSound(i)'
<1>0. PICK u, t : u = mails[i].user /\ t = mails[i].token
  OBVIOUS
<1>1. /\ Began(u) /\ (u \in Requests => req[u].kind # "resend")
      /\ t = u \/ (t \in Requests /\ req[t].kind = "resend" /\ req[t].user = u)
      /\ t \in Requests => req[t].at = "ok"
      /\ users[u] # NoUser
           => (users[u].by["email"] = t \/ Precedes(users[u].by["email"], t)
                 => mails[i].to = users[u].has["email"])
  BY <1>0 DEF MailSound
<1>2. Began(u)' /\ (u \in Requests => req'[u].kind # "resend")
  BY <1>1, BeganStays, EmailAssumption DEF Forward, Proceeds, Began
<1>3. t \in Requests => req'[t] = req[t]
  BY <1>1 DEF Forward, Proceeds, Answers
<1>4. mails'[i] = mails[i] /\ i \in DOMAIN mails'
  BY DEF Forward
<1>5. ASSUME users'[u] # NoUser,
             users'[u].by["email"] = t \/ PrecedesNext(users'[u].by["email"], t)
      PROVE  mails[i].to = users'[u].has["email"]
  <2>1. PICK g : g = users'[u].by["email"]
    OBVIOUS
  <2>2. g = t \/ Precedes(g, t)
    BY <1>3, <1>5, <2>1 DEF Precedes, PrecedesNext
  <2>3. g \notin Q
    <3>1. ASSUME g \in Running PROVE FALSE
      <4>1. g \in Requests /\ g \notin Answered /\ req[g].at \in Pending
        BY <3>1 DEF Running, Answered, Pending, Answers
      <4>2. g # t
        BY <1>1, <4>1 DEF Pending
      <4>3. t \in Requests => g \notin req[t].after
        BY <4>1 DEF RequestsSound, Placed
      <4>4. QED
        BY <2>2, <4>1, <4>2, <4>3, EmailAssumption DEF Precedes
    <3>2. QED
      BY <3>1
  <2>4. /\ users[u] # NoUser /\ users'[u].has["email"] = users[u].has["email"]
        /\ g = users[u].by["email"]
    BY <1>0, <1>5, <2>1, <2>3 DEF Touched, Fields
  <2>5. QED
    BY <1>1, <2>2, <2>4
<1>6. QED
  BY <1>0, <1>1, <1>2, <1>3, <1>4, <1>5 DEF MailSound, Precedes, PrecedesNext

\* No request that has a mail to post ends well.
PostsNothing ==
  \A z \in Requests : req[z].at = "emit" /\ req[z].snap.has["email"] # None
                        => req'[z].at # "ok"

ExcusedNext(u, z, i) ==
  \/ z = mails'[i].token
  \/ \E r \in Requests : /\ req'[r].at = "ok" /\ req'[r].user = u
                         /\ req'[r].kind \in {"resend", "update", "writeBack"}
                         /\ OverlapNext(r, mails'[i].token)
  \/ /\ z \in Requests
     /\ \/ req'[z].at = "error"
        \/ req'[z].at = "emit" /\ req'[z].snap.has["email"] # None

LEMMA ExcusedAfter ==
  ASSUME NEW u, NEW z, NEW i
  PROVE  ExcusedNext(u, z, i) <=> Excused(u, z, i)'
  BY DEF ExcusedNext, Excused, WroteToken, Overlap, OverlapNext

LEMMA MailOverlapStays ==
  ASSUME Forward, NEW i \in DOMAIN mails, MailSound(i), NEW r \in Requests,
         req[r].at # "idle", Overlap(r, mails[i].token)
  PROVE  OverlapNext(r, mails[i].token)
  BY DEF Overlap, OverlapNext, MailSound, Forward, Proceeds

LEMMA ExcusedGoesOn ==
  ASSUME Forward, NEW i \in DOMAIN mails, MailSound(i), NEW u, NEW z,
         Excused(u, z, i),
         z \in Requests /\ req[z].at = "emit" /\ req[z].snap.has["email"] # None
           => req'[z].at # "ok"
  PROVE  ExcusedNext(u, z, i)
<1>1. mails'[i] = mails[i]
  BY DEF Forward
<1>2. CASE z = mails[i].token
  BY <1>1, <1>2 DEF ExcusedNext
<1>3. ASSUME NEW r \in Requests, WroteToken(r, u), Overlap(r, mails[i].token)
      PROVE  ExcusedNext(u, z, i)
  <2>1. req'[r] = req[r] /\ req[r].at # "idle"
    BY <1>3 DEF WroteToken, Forward, Proceeds, Answers
  <2>2. OverlapNext(r, mails[i].token)
    BY <1>3, <2>1, MailOverlapStays
  <2>3. QED
    BY <1>1, <1>3, <2>1, <2>2 DEF ExcusedNext, WroteToken
<1>4. CASE /\ z \in Requests
           /\ \/ req[z].at = "error"
              \/ req[z].at = "emit" /\ req[z].snap.has["email"] # None
  BY <1>4 DEF ExcusedNext, Forward, Proceeds, Answers
<1>5. QED
  BY <1>2, <1>3, <1>4 DEF Excused

LEMMA ExcusedStays ==
  ASSUME Forward, PostsNothing, NEW i \in DOMAIN mails, MailSound(i), NEW u, NEW z,
         Excused(u, z, i)
  PROVE  ExcusedNext(u, z, i)
  BY ExcusedGoesOn DEF PostsNothing

LEMMA DocLastFrame ==
  ASSUME Forward, PostsNothing, MailsSound, mails' = mails, NEW u,
         users'[u].has["emailToken"] = users[u].has["emailToken"], DocLast(u)
  PROVE  DocLast(u)'
<1>1. PICK z : z = users[u].has["emailToken"]
  OBVIOUS
<1>2. ASSUME NEW i \in DOMAIN mails, LastAbout(u, i)
      PROVE  Excused(u, z, i)'
  <2>1. Excused(u, z, i)
    BY <1>1, <1>2 DEF DocLast
  <2>2. ExcusedNext(u, z, i)
    BY <1>2, <2>1, ExcusedStays DEF MailsSound
  <2>3. QED
    BY <2>2, ExcusedAfter
<1>3. ASSUME NEW i \in DOMAIN mails, LastAbout(u, i)'
      PROVE  LastAbout(u, i)
  BY <1>3 DEF LastAbout
<1>4. QED
  BY <1>1, <1>2, <1>3 DEF DocLast, Excused

LEMMA SnapLastFrame ==
  ASSUME Forward, PostsNothing, MailsSound, mails' = mails, NEW r \in Requests,
         Continues(r), WritesBack(r), SnapLast(r)
  PROVE  SnapLast(r)'
<1>1. PICK u, z : u = req[r].user /\ z = req[r].snap.has["emailToken"]
  OBVIOUS
<1>2. req'[r].user = u /\ req'[r].snap.has["emailToken"] = z
  BY <1>1 DEF Continues
<1>3. ASSUME NEW i \in DOMAIN mails, LastAbout(u, i)
      PROVE  Excused(u, z, i)' \/ OverlapNext(r, mails[i].token)
  <2>1. Excused(u, z, i) \/ Overlap(r, mails[i].token)
    BY <1>1, <1>3 DEF SnapLast
  <2>2. CASE Excused(u, z, i)
    <3>1. ExcusedNext(u, z, i)
      BY <1>3, <2>2, ExcusedStays DEF MailsSound
    <3>2. QED
      BY <3>1, ExcusedAfter
  <2>3. CASE Overlap(r, mails[i].token)
    BY <1>3, <2>3, MailOverlapStays DEF MailsSound, WritesBack
  <2>4. QED
    BY <2>1, <2>2, <2>3
<1>4. ASSUME NEW i \in DOMAIN mails, LastAbout(u, i)'
      PROVE  LastAbout(u, i)
  BY <1>4 DEF LastAbout
<1>5. ASSUME NEW i \in DOMAIN mails', LastAbout(req[r].user, i)'
      PROVE  \/ Excused(req[r].user, req[r].snap.has["emailToken"], i)'
             \/ Overlap(r, mails[i].token)'
  <2>1. LastAbout(u, i)'
    BY <1>2, <1>5 DEF LastAbout
  <2>2. CASE Excused(u, z, i)'
    BY <1>2, <2>2 DEF Excused, WroteToken, Overlap
  <2>3. CASE OverlapNext(r, mails[i].token)
    BY <2>3 DEF OverlapNext, Overlap
  <2>4. QED
    BY <1>3, <1>4, <1>5, <2>1, <2>2, <2>3
<1>6. QED
  BY <1>5 DEF SnapLast

---------------------------------------------------------------------------
(* A step of the requests in S; those in Q, which are running, may have    *)
(* written.  What holds of everybody and everything else still holds.      *)

StepBy(S, Q) ==
  /\ Forward
  /\ Q \subseteq S \cap Running
  /\ \A r \in Requests \ S : req'[r] = req[r]
  /\ \A u \in Ids \ S : users[u] = NoUser => users'[u] = NoUser
  /\ \A u \in Ids : Began(u) => Touched(u, Q \ {u})

LEMMA OthersStay ==
  ASSUME EmailInv, NEW S, NEW Q, StepBy(S, Q)
  PROVE  /\ \A r \in Requests \ S : /\ Placed(r)' /\ VerifySound(r)'
                                    /\ Snapped(r)' => SnapSound(r)'
         /\ \A u \in Ids : users[u] # NoUser /\ users'[u] = users[u] => DocSound(u)'
         /\ \A i \in DOMAIN mails : MailSound(i)'
<1>1. Forward /\ Types /\ RequestsSound /\ DocumentsSound /\ MailsSound
  BY DEF StepBy, EmailInv
<1>2. ASSUME NEW r \in Requests \ S
      PROVE  Placed(r)' /\ VerifySound(r)' /\ (Snapped(r)' => SnapSound(r)')
  <2>1. req'[r] = req[r] /\ Placed(r) /\ VerifySound(r) /\ (Snapped(r) => SnapSound(r))
    BY <1>1, <1>2 DEF StepBy, RequestsSound
  <2>2. Placed(r)'
    <3>1. req[r].at \in {"idle", "insert"} => users'[r] = NoUser
      BY <1>2, <2>1 DEF StepBy, Placed, Ids
    <3>2. req[r].after \subseteq Answered'
      BY <1>1, <2>1 DEF Placed, Answered, Forward, Proceeds
    <3>3. QED
      BY <2>1, <3>1, <3>2 DEF Placed
  <2>3. VerifySound(r)'
    BY <1>1, <2>1 DEF VerifySound, Mailed, Forward
  <2>4. ASSUME Snapped(r)
        PROVE  SnapSound(r)'
    <3>1. SnapSound(r) /\ req[r].user \in Ids /\ Began(req[r].user)
      BY <2>1, <2>4 DEF SnapSound
    <3>2. PICK P : P = Q \ {req[r].user}
      OBVIOUS
    <3>3. P \subseteq Running \ {r, req[r].user} /\ Touched(req[r].user, P)
      BY <1>2, <3>1, <3>2 DEF StepBy
    <3>4. QED
      BY <1>1, <2>1, <2>4, <3>1, <3>3, SnapFrame DEF Continues
  <2>5. Snapped(r)' => Snapped(r)
    BY <2>1 DEF Snapped
  <2>6. QED
    BY <2>2, <2>3, <2>4, <2>5
<1>3. ASSUME NEW u \in Ids, users[u] # NoUser, users'[u] = users[u]
      PROVE  DocSound(u)'
  <2>1. DocSound(u) /\ Holds(users'[u])
    BY <1>1, <1>3 DEF DocumentsSound, DocSound
  <2>2. QED
    BY <1>1, <1>3, <2>1, DocFrame
<1>4. ASSUME NEW i \in DOMAIN mails
      PROVE  MailSound(i)'
  <2>1. MailSound(i) /\ Began(mails[i].user) /\ mails[i].user \in Ids
    <3>1. mails[i] \in MailRecord
      BY <1>1 DEF Types
    <3>2. QED
      BY <1>1, <3>1 DEF MailsSound, MailSound, MailRecord
  <2>2. PICK P : P = Q \ {mails[i].user}
    OBVIOUS
  <2>3. P \subseteq Running /\ Touched(mails[i].user, P)
    BY <2>1, <2>2 DEF StepBy
  <2>4. QED
    BY <1>1, <2>1, <2>3, MailFrame
<1>5. QED
  BY <1>2, <1>3, <1>4

LEMMA LastsStay ==
  ASSUME EmailInv, NEW S, NEW Q, StepBy(S, Q), PostsNothing, mails' = mails
  PROVE  /\ \A r \in Requests \ S : WritesBack(r)' => SnapLast(r)'
         /\ \A u \in Ids : users[u] # NoUser /\ users'[u] = users[u] => DocLast(u)'
         /\ MailsSound'
<1>1. Forward /\ RequestsSound /\ DocumentsSound /\ MailsSound
  BY DEF StepBy, EmailInv
<1>2. ASSUME NEW r \in Requests \ S, WritesBack(r)'
      PROVE  SnapLast(r)'
  <2>1. req'[r] = req[r] /\ WritesBack(r)
    BY <1>2 DEF StepBy, WritesBack
  <2>2. QED
    BY <1>1, <2>1, SnapLastFrame DEF RequestsSound, Continues
<1>3. ASSUME NEW u \in Ids, users[u] # NoUser, users'[u] = users[u]
      PROVE  DocLast(u)'
  BY <1>1, <1>3, DocLastFrame DEF DocumentsSound
<1>4. MailsSound'
  BY OthersStay DEF MailsSound
<1>5. QED
  BY <1>2, <1>3, <1>4

LEMMA Quiet ==
  ASSUME EmailInv, Types', NEW S, StepBy(S, {}), PostsNothing, mails' = mails, users' = users,
         \A r \in Requests \cap S : /\ Placed(r)' /\ VerifySound(r)'
                                    /\ Snapped(r)' => SnapSound(r)'
                                    /\ WritesBack(r)' => SnapLast(r)'
  PROVE  EmailInv'
<1>1. RequestsSound'
  BY OthersStay, LastsStay DEF RequestsSound
<1>2. DocumentsSound'
  BY OthersStay, LastsStay DEF DocumentsSound
<1>3. MailsSound'
  BY LastsStay
<1>4. QED
  BY <1>1, <1>2, <1>3 DEF EmailInv

---------------------------------------------------------------------------
(* Arrivals. *)

LEMMA EnterIs ==
  ASSUME EmailInv, NEW r \in Requests, NEW entered \in RequestRecord, Enter(r, entered),
         UNCHANGED <<users, mails, lost, faults>>
  PROVE  /\ req[r].at = "idle" /\ Types' /\ StepBy({r}, {}) /\ PostsNothing
         /\ req'[r].at = entered.at /\ req'[r].after = Answered
         /\ IF entered.at \in Pending
              THEN /\ req'[r].kind = entered.kind /\ req'[r].user = entered.user
                   /\ req'[r].token = entered.token /\ req'[r].snap = entered.snap
              ELSE \/ /\ req'[r].at = "ok" /\ req'[r].kind = entered.kind
                      /\ req'[r].token = entered.token /\ req'[r].user = entered.user
                   \/ req'[r].kind = "register" /\ req'[r].token = None
<1>1. Types /\ req \in [Requests -> RequestRecord]
  BY DEF EmailInv, Types
<1>2. PICK b : b = Kept([entered EXCEPT !.after = Answered])
  OBVIOUS
<1>3. req[r].at = "idle" /\ req' = [req EXCEPT ![r] = b]
  BY <1>2 DEF Enter
<1>4. NewRequest \in RequestRecord
  BY DEF NewRequest, RequestRecord, Kinds
<1>5. /\ b \in RequestRecord /\ b.at = entered.at /\ b.after = Answered
      /\ IF entered.at \in Pending
           THEN /\ b.kind = entered.kind /\ b.user = entered.user
                /\ b.token = entered.token /\ b.snap = entered.snap
           ELSE \/ /\ b.at = "ok" /\ b.kind = entered.kind
                   /\ b.token = entered.token /\ b.user = entered.user
                \/ b.kind = "register" /\ b.token = None
  <2>1. PICK e : e = [entered EXCEPT !.after = Answered]
    OBVIOUS
  <2>2. /\ e \in RequestRecord /\ e.at = entered.at /\ e.after = Answered
        /\ e.kind = entered.kind /\ e.user = entered.user
        /\ e.token = entered.token /\ e.snap = entered.snap
    BY <2>1 DEF RequestRecord, Answered
  <2>3. CASE e.at \in Pending
    <3>1. b = e
      BY <1>2, <2>1, <2>3 DEF Kept
    <3>2. QED
      BY <2>2, <2>3, <3>1
  <2>4. CASE e.at \notin Pending /\ e.at = "ok"
    <3>1. b = [e EXCEPT !.snap = NoUser]
      BY <1>2, <2>1, <2>4 DEF Kept
    <3>2. QED
      BY <2>2, <2>4, <3>1 DEF RequestRecord, Pending
  <2>5. CASE e.at \notin Pending /\ e.at # "ok"
    <3>1. b = [NewRequest EXCEPT !.at = e.at, !.after = e.after]
      BY <1>2, <2>1, <2>5 DEF Kept
    <3>2. QED
      BY <1>4, <2>2, <2>5, <3>1 DEF RequestRecord, NewRequest
  <2>6. QED
    BY <2>3, <2>4, <2>5
<1>6. req'[r] = b /\ \A q \in Requests \ {r} : req'[q] = req[q]
  BY <1>1, <1>3
<1>7. Types'
  BY <1>1, <1>3, <1>5 DEF Types
<1>8. StepBy({r}, {})
  <2>1. Forward
    BY <1>3, <1>6 DEF Forward, Proceeds, Answers
  <2>2. QED
    BY <1>6, <2>1 DEF StepBy, Touched
<1>9. PostsNothing
  BY <1>3, <1>6 DEF PostsNothing
<1>10. QED
  BY <1>3, <1>5, <1>6, <1>7, <1>8, <1>9

\* What EmailInv asks of the request that has just entered.
LEMMA Entered ==
  ASSUME EmailInv, NEW r \in Requests, NEW entered \in RequestRecord, Enter(r, entered),
         UNCHANGED <<users, mails, lost, faults>>,
         entered.at \in {"insert", "check", "write"} \cup Answers,
         entered.at = "insert" => entered.user = r /\ entered.kind \in Creating,
         entered.at \in {"check", "write"}
           => entered.kind \in Kinds \ Creating /\ entered.user \in Ids,
         entered.at = "check" => entered.kind \in {"update", "edit"},
         entered.kind = "resend" => entered.at # "ok",
         entered.kind # "verify" => entered.token = None,
         entered.at \in {"check", "write"} /\ entered.kind \in Reading
           => /\ entered.user \in Live /\ entered.snap = users[entered.user]
              /\ entered.kind = "resend" => entered.snap.has["email"] # None,
         entered.at = "write" /\ entered.kind = "verify" /\ entered.token # None
           => Mailed(entered.user, entered.token)
  PROVE  EmailInv'
<1>1. /\ req[r].at = "idle" /\ Types' /\ StepBy({r}, {}) /\ PostsNothing
      /\ req'[r].at = entered.at /\ req'[r].after = Answered
      /\ IF entered.at \in Pending
           THEN /\ req'[r].kind = entered.kind /\ req'[r].user = entered.user
                /\ req'[r].token = entered.token /\ req'[r].snap = entered.snap
           ELSE \/ /\ req'[r].at = "ok" /\ req'[r].kind = entered.kind
                   /\ req'[r].token = entered.token /\ req'[r].user = entered.user
                \/ req'[r].kind = "register" /\ req'[r].token = None
  BY EnterIs
<1>2. Forward /\ Types /\ RequestsSound /\ DocumentsSound /\ MailsSound
  BY <1>1 DEF StepBy, EmailInv
<1>3. Placed(r)'
  <2>1. Answered \subseteq Answered'
    BY <1>2 DEF Answered, Forward, Proceeds
  <2>2. users'[r] = NoUser
    BY <1>1, <1>2 DEF RequestsSound, Placed
  <2>3. CASE entered.at \in Pending
    BY <1>1, <2>1, <2>2, <2>3 DEF Placed, Pending, Answers, Creating
  <2>4. CASE entered.at \in Answers
    BY <1>1, <2>1, <2>2, <2>4 DEF Placed, Pending, Answers
  <2>5. QED
    BY <2>3, <2>4 DEF Pending
<1>4. VerifySound(r)'
  BY <1>1 DEF VerifySound, Mailed, Pending
<1>5. ASSUME Snapped(r)'
      PROVE  SnapSound(r)'
  <2>0. PICK u, z : u = entered.user /\ z = users[u].has["emailToken"]
    OBVIOUS
  <2>1. /\ entered.at \in {"check", "write"} /\ entered.kind \in Reading
        /\ req'[r].user = u /\ req'[r].snap = users[u] /\ u \in Live
        /\ entered.kind = "resend" => users[u].has["email"] # None
    BY <1>1, <1>5, <2>0 DEF Snapped, Pending, Answers
  <2>2. /\ u \in Ids /\ users[u] # NoUser /\ Holds(users[u]) /\ Began(u)
        /\ DrawnFor(z, u) /\ (u \in Requests => req[u].kind # "resend")
    BY <1>2, <2>0, <2>1 DEF Live, DocumentsSound, DocSound, Creating
  <2>3. Began(u)' /\ DrawnFor(z, u)'
    <3>1. Began(u)'
      BY <1>2, <2>2, BeganStays
    <3>2. DrawnFor(z, u)'
      BY <1>2, <2>2, NeverResendsIdle, DrawnStays DEF Forward, Proceeds, DrawnFor
    <3>3. QED
      BY <3>1, <3>2
  <2>4. Began(req[r].user)' /\ DrawnFor(req[r].snap.has["emailToken"], req[r].user)'
    BY <2>0, <2>1, <2>3 DEF Began, DrawnFor
  <2>5. u \in Requests => req'[u].kind # "resend"
    BY <1>2, <2>2, EmailAssumption DEF Forward, Proceeds, Began
  <2>6. QED
    BY <1>1, <2>1, <2>2, <2>4, <2>5 DEF SnapSound, Holds, Pending
<1>6. ASSUME WritesBack(r)'
      PROVE  SnapLast(r)'
  <2>1. /\ entered.at \in {"check", "write"} /\ entered.kind \in Reading
        /\ req'[r].user = entered.user /\ req'[r].snap = users[entered.user]
        /\ entered.user \in Live
    BY <1>1, <1>6 DEF WritesBack, Pending, Answers, Reading
  <2>2. DocLast(entered.user)
    BY <1>2, <2>1 DEF Live, DocumentsSound
  <2>3. DocLast(entered.user)'
    BY <1>1, <1>2, <2>2, DocLastFrame
  <2>4. PICK u, z : /\ u = entered.user /\ z = users[u].has["emailToken"]
                    /\ req'[r].user = u /\ req'[r].snap.has["emailToken"] = z
                    /\ users'[u].has["emailToken"] = z
    BY <1>1, <2>1
  <2>5. \A i \in DOMAIN mails' : LastAbout(u, i)' => Excused(u, z, i)'
    BY <2>3, <2>4 DEF DocLast, Excused
  <2>6. ASSUME NEW i \in DOMAIN mails', LastAbout(req[r].user, i)'
        PROVE  Excused(req[r].user, req[r].snap.has["emailToken"], i)'
    <3>1. LastAbout(u, i)'
      BY <2>4, <2>6 DEF LastAbout
    <3>2. QED
      BY <2>4, <2>5, <3>1 DEF Excused, WroteToken, Overlap
  <2>7. QED
    BY <2>6 DEF SnapLast
<1>7. QED
  BY <1>1, <1>3, <1>4, <1>5, <1>6, Quiet

\* A token that is stored and known was mailed to the user who holds it.
LEMMA KnownIsMailed ==
  ASSUME EmailInv, NEW u \in Live, NEW token \in Known, token # None,
         users[u].has["emailToken"] = token
  PROVE  Mailed(u, token)
<1>1. PICK i \in DOMAIN mails : mails[i].token = token
  BY DEF Known
<1>2. MailSound(i) /\ DocSound(u)
  BY DEF EmailInv, MailsSound, DocumentsSound, Live
<1>3. PICK w : w = mails[i].user
  OBVIOUS
<1>4. /\ w \in Requests => req[w].kind # "resend"
      /\ token = w \/ (token \in Requests /\ req[token].kind = "resend" /\ req[token].user = w)
      /\ token \in Requests => req[token].at = "ok"
  BY <1>1, <1>2, <1>3 DEF MailSound
<1>5. (u \in Requests => req[u].kind # "resend") /\ DrawnFor(token, u)
  BY <1>2 DEF DocSound, Creating
<1>6. w = u
  BY <1>4, <1>5 DEF DrawnFor
<1>7. QED
  BY <1>1, <1>3, <1>6 DEF Mailed

\* What a request that arrives is, field by field.
LEMMA EnteredFields ==
  ASSUME NEW kind \in Kinds, NEW u \in Ids, NEW address \in Addresses \cup {None},
         NEW token \in Ids \cup {None}, NEW snap \in Document \cup {NoUser},
         NEW at \in Pending \cup Answers, NEW x,
         x = [kind |-> kind, at |-> at, user |-> u, address |-> address,
              token |-> token, snap |-> snap, after |-> {}]
  PROVE  /\ x \in RequestRecord /\ x.at = at /\ x.kind = kind
         /\ x.user = u /\ x.token = token /\ x.snap = snap
<1>1. {} \in SUBSET Requests /\ at \in {"idle"} \cup Pending \cup Answers
  OBVIOUS
<1>2. x \in RequestRecord
  BY <1>1 DEF RequestRecord
<1>3. QED
  BY <1>2

LEMMA ArriveStays ==
  ASSUME EmailInv, NEW r \in Requests, Arrive(r)
  PROVE  EmailInv'
<1>0. /\ EmailAssumption /\ Types /\ r \in Ids /\ NewRequest \in RequestRecord
      /\ NewRequest.token = None
  BY EmailAssumption DEF EmailInv, Types, NewRequest, RequestRecord, Kinds, Ids
<1>1. ASSUME NEW kind \in Kinds, NEW address \in Addresses \cup {None}, Add(r, kind, address)
      PROVE  EmailInv'
  <2>1. PICK at, entered :
          /\ at = IF ~ Taken(address) THEN "insert"
                  ELSE IF kind = "import" THEN "ok" ELSE "conflict"
          /\ entered = [NewRequest EXCEPT !.kind = kind, !.user = r, !.address = address,
                                          !.at = at]
          /\ Enter(r, entered) /\ kind \in Creating
          /\ UNCHANGED <<users, mails, lost, faults>>
    BY <1>1 DEF Add, Creating
  <2>2. at \in {"insert", "ok", "conflict"} /\ at \in Pending \cup Answers
    BY <2>1 DEF Pending, Answers
  <2>3. entered = [kind |-> kind, at |-> at, user |-> r, address |-> address,
                    token |-> None, snap |-> NoUser, after |-> {}]
    BY <2>1 DEF NewRequest
  <2>4. /\ entered \in RequestRecord /\ entered.at = at /\ entered.kind = kind
        /\ entered.user = r /\ entered.token = None
    BY <1>0, <2>2, <2>3, EnteredFields
  <2>5. QED
    BY <2>1, <2>4, <2>2, Entered DEF Creating, Reading, Answers
<1>2. ASSUME NEW u \in Ids, NEW kind \in Kinds, NEW address \in Addresses \cup {None},
             Change(r, kind, u, address)
      PROVE  EmailInv'
  <2>1. PICK at, entered :
          /\ at = IF u \in Live THEN "check"
                  ELSE IF kind = "update" THEN "forbidden" ELSE "notFound"
          /\ entered = [NewRequest EXCEPT !.kind = kind, !.user = u, !.address = address,
                                          !.at = at, !.snap = users[u]]
          /\ Enter(r, entered) /\ kind \in {"update", "edit"}
          /\ UNCHANGED <<users, mails, lost, faults>>
    BY <1>2 DEF Change
  <2>2. users[u] \in Document \cup {NoUser}
    BY <1>0 DEF Types
  <2>3. at \in {"check", "forbidden", "notFound"} /\ at \in Pending \cup Answers
    BY <2>1 DEF Pending, Answers
  <2>4. entered = [kind |-> kind, at |-> at, user |-> u, address |-> address,
                    token |-> None, snap |-> users[u], after |-> {}]
    BY <2>1 DEF NewRequest
  <2>5. /\ entered \in RequestRecord /\ entered.at = at /\ entered.kind = kind
        /\ entered.user = u /\ entered.token = None /\ entered.snap = users[u]
    BY <1>0, <2>2, <2>3, <2>4, EnteredFields
  <2>6. QED
    BY <2>1, <2>5, <2>3, Entered DEF Creating, Reading, Answers
<1>3. ASSUME NEW u \in Ids, Resend(r, u)
      PROVE  EmailInv'
  <2>1. PICK at, entered :
          /\ at = IF u \in Live /\ users[u].has["email"] # None THEN "write" ELSE "notFound"
          /\ entered = [NewRequest EXCEPT !.kind = "resend", !.user = u,
                                          !.at = at, !.snap = users[u]]
          /\ Enter(r, entered) /\ UNCHANGED <<users, mails, lost, faults>>
    BY <1>3 DEF Resend
  <2>2. users[u] \in Document \cup {NoUser}
    BY <1>0 DEF Types
  <2>3. at \in {"write", "notFound"} /\ at \in Pending \cup Answers
    BY <2>1 DEF Pending, Answers
  <2>4. entered = [kind |-> "resend", at |-> at, user |-> u, address |-> None,
                    token |-> None, snap |-> users[u], after |-> {}]
    BY <2>1 DEF NewRequest
  <2>5. /\ entered \in RequestRecord /\ entered.at = at /\ entered.kind = "resend"
        /\ entered.user = u /\ entered.token = None /\ entered.snap = users[u]
    BY <1>0, <2>2, <2>3, <2>4, EnteredFields DEF Kinds
  <2>6. QED
    BY <2>1, <2>5, <2>3, Entered DEF Creating, Reading, Answers, Kinds
<1>4. ASSUME NEW u \in Ids, NEW token \in Known, Verify(r, u, token)
      PROVE  EmailInv'
  <2>1. PICK at, entered :
          /\ at = IF u \notin Live THEN "error"
                  ELSE IF users[u].has["verifiedEmail"] THEN "conflict"
                  ELSE IF users[u].has["emailToken"] # token THEN "forbidden" ELSE "write"
          /\ entered = [NewRequest EXCEPT !.kind = "verify", !.user = u, !.token = token,
                                          !.at = at]
          /\ Enter(r, entered) /\ UNCHANGED <<users, mails, lost, faults>>
    BY <1>4 DEF Verify
  <2>2. token \in Ids \cup {None}
    <3>1. \A i \in DOMAIN mails : mails[i] \in MailRecord
      BY <1>0 DEF Types
    <3>2. QED
      BY <3>1 DEF Known, MailRecord
  <2>3. /\ at \in {"error", "conflict", "forbidden", "write"}
        /\ at = "write" => u \in Live /\ users[u].has["emailToken"] = token
    BY <2>1, Zenon
  <2>4. at \in Pending \cup Answers
    BY <2>3 DEF Pending, Answers
  <2>5. entered = [NewRequest EXCEPT !.kind = "verify", !.user = u, !.token = token,
                                     !.at = at]
    BY <2>1, Zenon
  <2>6. Enter(r, entered) /\ UNCHANGED <<users, mails, lost, faults>>
    BY <2>1, Zenon
  <2>7. entered = [kind |-> "verify", at |-> at, user |-> u, address |-> None,
                    token |-> token, snap |-> NoUser, after |-> {}]
    BY <2>5 DEF NewRequest
  <2>8. /\ entered \in RequestRecord /\ entered.at = at /\ entered.kind = "verify"
        /\ entered.user = u /\ entered.token = token
    BY <1>0, <2>2, <2>4, <2>7, EnteredFields DEF Kinds
  <2>9. at = "write" /\ token # None => Mailed(u, token)
    BY <2>3, KnownIsMailed
  <2>10. QED
    BY <2>3, <2>6, <2>8, <2>9, Entered DEF Creating, Reading, Answers, Kinds
<1>5. ASSUME NEW u \in Ids, NEW kind \in Kinds, Other(r, kind, u)
      PROVE  EmailInv'
  <2>1. PICK entered :
          /\ entered = [NewRequest EXCEPT !.kind = kind, !.user = u, !.at = "write",
                                          !.snap = users[u]]
          /\ Enter(r, entered) /\ kind \in {"writeBack", "remove"}
          /\ kind = "writeBack" => u \in Live
          /\ UNCHANGED <<users, mails, lost, faults>>
    BY <1>5 DEF Other
  <2>2. users[u] \in Document \cup {NoUser}
    BY <1>0 DEF Types
  <2>3. /\ entered \in RequestRecord /\ entered.at = "write" /\ entered.kind = kind
        /\ entered.user = u /\ entered.token = None /\ entered.snap = users[u]
    BY <1>0, <2>2, <2>1 DEF RequestRecord, Pending, Answers
  <2>4. QED
    BY <2>1, <2>3, Entered DEF Creating, Reading, Answers
<1>6. QED
  BY <1>1, <1>2, <1>3, <1>4, <1>5 DEF Arrive

---------------------------------------------------------------------------
(* Look-ups and failures. *)

\* A request is answered, or goes to its next step.
LEMMA AnswerIs ==
  ASSUME Types, NEW r \in Requests, NEW at \in Answers, Answer(r, at)
  PROVE  /\ req' \in [Requests -> RequestRecord]
         /\ \A q \in Requests \ {r} : req'[q] = req[q]
         /\ req'[r].at = at /\ req'[r].after = req[r].after
         /\ IF at = "ok" THEN /\ req'[r].kind = req[r].kind /\ req'[r].user = req[r].user
                              /\ req'[r].token = req[r].token
                         ELSE req'[r].kind = "register" /\ req'[r].token = None
<1>1. req \in [Requests -> RequestRecord] /\ NewRequest \in RequestRecord
  BY DEF Types, NewRequest, RequestRecord, Kinds
<1>2. PICK e, b : e = [req[r] EXCEPT !.at = at] /\ b = Kept(e)
  OBVIOUS
<1>3. req' = [req EXCEPT ![r] = b]
  BY <1>2 DEF Answer
<1>4. /\ e \in RequestRecord /\ e.at = at /\ e.after = req[r].after
      /\ e.kind = req[r].kind /\ e.user = req[r].user /\ e.token = req[r].token
  BY <1>1, <1>2 DEF RequestRecord
<1>5. at \notin Pending
  BY DEF Answers, Pending
<1>6. CASE at = "ok"
  <2>1. b = [e EXCEPT !.snap = NoUser]
    BY <1>2, <1>4, <1>5, <1>6 DEF Kept
  <2>2. QED
    BY <1>1, <1>3, <1>4, <1>6, <2>1 DEF RequestRecord
<1>7. CASE at # "ok"
  <2>1. b = [NewRequest EXCEPT !.at = e.at, !.after = e.after]
    BY <1>2, <1>4, <1>5, <1>7 DEF Kept
  <2>2. QED
    BY <1>1, <1>3, <1>4, <1>7, <2>1 DEF RequestRecord, NewRequest
<1>8. QED
  BY <1>6, <1>7

LEMMA GotoIs ==
  ASSUME Types, NEW r \in Requests, NEW at \in Pending, Goto(r, at)
  PROVE  /\ req' \in [Requests -> RequestRecord]
         /\ \A q \in Requests \ {r} : req'[q] = req[q]
         /\ req'[r].at = at /\ req'[r].after = req[r].after
         /\ req'[r].kind = req[r].kind /\ req'[r].user = req[r].user
         /\ req'[r].token = req[r].token /\ req'[r].snap = req[r].snap
<1>1. req \in [Requests -> RequestRecord]
  BY DEF Types
<1>2. PICK e : e = [req[r] EXCEPT !.at = at]
  OBVIOUS
<1>3. /\ e \in RequestRecord /\ e.at = at /\ e.after = req[r].after
      /\ e.kind = req[r].kind /\ e.user = req[r].user
      /\ e.token = req[r].token /\ e.snap = req[r].snap
  BY <1>1, <1>2 DEF RequestRecord
<1>4. req' = [req EXCEPT ![r] = e]
  BY <1>1, <1>2 DEF Goto
<1>5. QED
  BY <1>1, <1>3, <1>4

LEMMA CheckStays ==
  ASSUME EmailInv, NEW r \in Requests, Check(r)
  PROVE  EmailInv'
<1>1. Types /\ RequestsSound /\ DocumentsSound /\ MailsSound /\ Placed(r)
  BY DEF EmailInv, RequestsSound
<1>2. /\ req[r].at = "check" /\ UNCHANGED <<users, mails, lost, faults>>
      /\ Answer(r, "conflict") \/ Goto(r, "write")
  BY DEF Check
<1>3. req[r].kind \in {"update", "edit"} /\ req[r].user \in Ids
  BY <1>1, <1>2 DEF Placed
<1>4. /\ req' \in [Requests -> RequestRecord]
      /\ \A q \in Requests \ {r} : req'[q] = req[q]
      /\ req'[r].after = req[r].after
      /\ \/ /\ req'[r].at = "conflict" /\ req'[r].kind = "register" /\ req'[r].token = None
         \/ /\ req'[r].at = "write" /\ Continues(r) /\ req'[r].token = req[r].token
  BY <1>1, <1>2, AnswerIs, GotoIs DEF Answers, Pending, Continues
<1>5. Forward
  BY <1>2, <1>3, <1>4 DEF Forward, Proceeds, Answers, Continues
<1>6. StepBy({r}, {})
  BY <1>2, <1>4, <1>5 DEF StepBy, Touched
<1>7. Types' /\ PostsNothing
  BY <1>1, <1>2, <1>4 DEF Types, PostsNothing
<1>8. Placed(r)'
  <2>1. Answered \subseteq Answered'
    BY <1>5 DEF Answered, Forward, Proceeds
  <2>2. QED
    BY <1>1, <1>2, <1>3, <1>4, <2>1 DEF Placed, Continues, Creating, Kinds
<1>9. VerifySound(r)'
  BY <1>3, <1>4 DEF VerifySound, Continues
<1>10. ASSUME Snapped(r)'
       PROVE  SnapSound(r)'
  <2>1. Continues(r) /\ Snapped(r)
    BY <1>2, <1>3, <1>4, <1>10 DEF Snapped, Reading
  <2>2. Touched(req[r].user, {})
    BY <1>2 DEF Touched
  <2>3. SnapSound(r)
    BY <1>1, <2>1 DEF RequestsSound
  <2>4. QED
    BY <1>1, <1>5, <2>1, <2>2, <2>3, SnapFrame
<1>11. ASSUME WritesBack(r)'
       PROVE  SnapLast(r)'
  <2>1. Continues(r) /\ WritesBack(r)
    BY <1>2, <1>4, <1>11 DEF WritesBack, Continues
  <2>2. QED
    BY <1>1, <1>2, <1>5, <1>7, <2>1, SnapLastFrame DEF RequestsSound
<1>12. QED
  BY <1>2, <1>6, <1>7, <1>8, <1>9, <1>10, <1>11, Quiet

LEMMA FailStays ==
  ASSUME EmailInv, NEW aborted \in SUBSET Running,
         NEW undelivered \in SUBSET (DOMAIN mails \ lost), Fail(aborted, undelivered)
  PROVE  EmailInv'
<1>1. Types /\ RequestsSound
  BY DEF EmailInv
<1>2. /\ req' = [r \in Requests |->
                   IF r \in aborted THEN Kept([req[r] EXCEPT !.at = "error"]) ELSE req[r]]
      /\ users' = users /\ mails' = mails /\ lost' = lost \cup undelivered
      /\ faults < MaxFaults /\ faults' = faults + 1
  BY DEF Fail
<1>3. \A r \in Requests \ aborted : req'[r] = req[r]
  BY <1>2
<1>4. ASSUME NEW r \in aborted
      PROVE  /\ req'[r] \in RequestRecord /\ req'[r].at = "error" /\ req[r].at \in Pending
             /\ req'[r].kind = "register" /\ req'[r].token = None
             /\ req'[r].after = req[r].after /\ r \in Requests
  <2>1. r \in Requests /\ req[r].at \in Pending /\ req[r] \in RequestRecord
    BY <1>1, <1>4 DEF Running, Types
  <2>2. PICK e : e = [req[r] EXCEPT !.at = "error"]
    OBVIOUS
  <2>3. e.at = "error" /\ e.after = req[r].after /\ e.after \in SUBSET Requests
    BY <2>1, <2>2 DEF RequestRecord
  <2>4. req'[r] = [NewRequest EXCEPT !.at = e.at, !.after = e.after]
    BY <1>2, <2>1, <2>2, <2>3 DEF Kept, Pending
  <2>5. NewRequest \in RequestRecord
    BY DEF NewRequest, RequestRecord, Kinds
  <2>6. QED
    BY <2>1, <2>3, <2>4, <2>5 DEF RequestRecord, NewRequest, Answers
<1>5. Forward
  BY <1>2, <1>3, <1>4 DEF Forward, Proceeds, Answers, Pending
<1>6. StepBy(aborted, {})
  BY <1>2, <1>3, <1>5 DEF StepBy, Touched
<1>7. PostsNothing
  BY <1>3, <1>4 DEF PostsNothing
<1>8. Types'
  <2>1. req' \in [Requests -> RequestRecord]
    <3>1. \A r \in Requests : req'[r] \in RequestRecord
      BY <1>1, <1>3, <1>4 DEF Types
    <3>2. QED
      BY <1>2, <3>1
  <2>2. faults' \in 0..MaxFaults
    BY <1>1, <1>2, EmailAssumption DEF Types
  <2>3. QED
    BY <1>1, <1>2, <2>1, <2>2 DEF Types
<1>9. ASSUME NEW r \in Requests \cap aborted
      PROVE  Placed(r)' /\ VerifySound(r)' /\ ~ Snapped(r)' /\ ~ WritesBack(r)'
  <2>1. Placed(r)
    BY <1>1 DEF RequestsSound
  <2>2. Answered \subseteq Answered'
    BY <1>5 DEF Answered, Forward, Proceeds
  <2>3. QED
    BY <1>4, <1>9, <2>1, <2>2 DEF Placed, VerifySound, Snapped, WritesBack, Mailed
<1>10. QED
  BY <1>2, <1>6, <1>7, <1>8, <1>9, Quiet

---------------------------------------------------------------------------
(* Writes. *)

\* Values for some fields of a document.
Values(new) ==
  /\ DOMAIN new \subseteq Fields
  /\ "email" \in DOMAIN new => new["email"] \in Addresses \cup {None}
  /\ "emailToken" \in DOMAIN new => new["emailToken"] \in Ids \cup {None}
  /\ "verifiedEmail" \in DOMAIN new => new["verifiedEmail"] \in BOOLEAN

LEMMA AssignedIs ==
  ASSUME NEW d, Holds(d), NEW r \in Requests, NEW new, Values(new)
  PROVE  /\ Holds(Assigned(d, r, new))
         /\ \A f \in Fields :
              IF f \in DOMAIN new
                THEN /\ Assigned(d, r, new).has[f] = new[f]
                     /\ Assigned(d, r, new).by[f] = IF new[f] # d.has[f] THEN r ELSE d.by[f]
                ELSE /\ Assigned(d, r, new).has[f] = d.has[f]
                     /\ Assigned(d, r, new).by[f] = d.by[f]
<1> DEFINE V == Addresses \cup Ids \cup BOOLEAN \cup {None}
           has == [f \in Fields |-> IF f \in DOMAIN new THEN new[f] ELSE d.has[f]]
           by == [f \in Fields |-> IF f \in DOMAIN new /\ new[f] # d.has[f] THEN r
                                   ELSE d.by[f]]
<1>1. d.has \in [Fields -> V] /\ d.by \in [Fields -> Ids] /\ r \in Ids
  BY DEF Holds, Document, Ids
<1>2. \A f \in Fields : f \in DOMAIN new => new[f] \in V
  BY DEF Values, Fields
<1>3. has \in [Fields -> V] /\ by \in [Fields -> Ids]
  BY <1>1, <1>2
<1>4. /\ Assigned(d, r, new).has = has /\ Assigned(d, r, new).by = by
      /\ Assigned(d, r, new) \in Document
  BY <1>3 DEF Assigned, Document
<1>5. Holds(Assigned(d, r, new))
  BY <1>4 DEF Holds, Values, Fields
<1>6. QED
  BY <1>4, <1>5

\* Request r, which is writing, sets fields of its user.
LEMMA SetIs ==
  ASSUME EmailInv, NEW r \in Requests, NEW new, Values(new), Set(r, new),
         req[r].at = "write", req[r].kind # "remove"
  PROVE  /\ users' \in [Ids -> Document \cup {NoUser}]
         /\ \A x \in Ids \ {req[r].user} : users'[x] = users[x]
         /\ req[r].user \in Ids
         /\ users[req[r].user] = NoUser => users'[req[r].user] = NoUser
         /\ users[req[r].user] # NoUser
              => /\ r # req[r].user
                 /\ users'[req[r].user] = Assigned(users[req[r].user], r, new)
                 /\ Holds(users'[req[r].user])
         /\ \A x \in Ids : Touched(x, {r} \ {x})
<1>1. Types /\ Placed(r) /\ DocumentsSound
  BY DEF EmailInv, RequestsSound
<1>2. PICK u : u = req[r].user
  OBVIOUS
<1>3. u \in Ids /\ req[r].kind \notin Creating
  BY <1>1, <1>2 DEF Placed
<1>4. users \in [Ids -> Document \cup {NoUser}]
  BY <1>1 DEF Types
<1>5. /\ \A x \in Ids \ {u} : users'[x] = users[x]
      /\ users[u] = NoUser => users'[u] = NoUser
      /\ users[u] # NoUser => users'[u] = Assigned(users[u], r, new)
      /\ DOMAIN users' = Ids
  BY <1>2, <1>3, <1>4 DEF Set
<1>6. ASSUME users[u] # NoUser
      PROVE  /\ r # u /\ Holds(users'[u])
             /\ \A f \in Fields : \/ /\ users'[u].has[f] = users[u].has[f]
                                     /\ users'[u].by[f] = users[u].by[f]
                                  \/ users'[u].by[f] = r
  <2>1. Holds(users[u]) /\ (u \in Requests => req[u].kind \in Creating)
    BY <1>1, <1>3, <1>6 DEF DocumentsSound, DocSound
  <2>2. QED
    BY <1>3, <1>5, <1>6, <2>1, AssignedIs
<1>7. users' \in [Ids -> Document \cup {NoUser}]
  <2>1. users'[u] \in Document \cup {NoUser}
    BY <1>5, <1>6 DEF Holds
  <2>2. \A x \in Ids : users'[x] \in Document \cup {NoUser}
    BY <1>4, <1>5, <2>1
  <2>3. users' = [users EXCEPT ![u] = users'[u]]
    BY <1>2, <1>3, <1>4 DEF Set
  <2>4. QED
    BY <1>4, <2>1, <2>3
<1>8. ASSUME NEW x \in Ids
      PROVE  Touched(x, {r} \ {x})
  <2>1. CASE x # u
    BY <1>5, <2>1 DEF Touched
  <2>2. CASE x = u
    BY <1>5, <1>6, <2>2 DEF Touched
  <2>3. QED
    BY <2>1, <2>2
<1>9. QED
  BY <1>2, <1>3, <1>5, <1>6, <1>7, <1>8

\* A request that ends with a write of what it was sent, or of what it had read.
LEMMA WriteEnds ==
  ASSUME EmailInv, NEW r \in Requests, NEW new, Values(new), Set(r, new),
         req[r].at = "write", req[r].kind \notin {"remove", "resend"}, Answer(r, "ok"),
         UNCHANGED <<mails, lost, faults>>,
         "emailToken" \in DOMAIN new
           => WritesBack(r) /\ new["emailToken"] = req[r].snap.has["emailToken"]
  PROVE  EmailInv'
<1>1. Types /\ RequestsSound /\ DocumentsSound /\ MailsSound /\ Placed(r) /\ VerifySound(r)
  BY DEF EmailInv, RequestsSound
<1>2. /\ req' \in [Requests -> RequestRecord]
      /\ \A q \in Requests \ {r} : req'[q] = req[q]
      /\ req'[r].at = "ok" /\ req'[r].after = req[r].after /\ req'[r].kind = req[r].kind
      /\ req'[r].user = req[r].user /\ req'[r].token = req[r].token
  BY <1>1, AnswerIs DEF Answers
<1>3. PICK u : u = req[r].user
  OBVIOUS
<1>4. /\ users' \in [Ids -> Document \cup {NoUser}]
      /\ \A x \in Ids \ {u} : users'[x] = users[x]
      /\ u \in Ids /\ (users[u] = NoUser => users'[u] = NoUser)
      /\ users[u] # NoUser => /\ r # u /\ Holds(users'[u])
                              /\ users'[u] = Assigned(users[u], r, new)
      /\ \A x \in Ids : Touched(x, {r} \ {x})
  BY <1>3, SetIs
<1>5. Forward
  BY <1>2 DEF Forward, Proceeds, Answers
<1>6. StepBy({r}, {r})
  <2>1. {r} \subseteq {r} \cap Running
    BY DEF Running, Pending
  <2>2. QED
    BY <1>2, <1>4, <1>5, <2>1 DEF StepBy
<1>7. Types' /\ PostsNothing
  BY <1>1, <1>2, <1>4 DEF Types, PostsNothing
<1>8. Placed(r)' /\ VerifySound(r)' /\ ~ Snapped(r)' /\ ~ WritesBack(r)'
  <2>1. Answered \subseteq Answered'
    BY <1>5 DEF Answered, Forward, Proceeds
  <2>2. QED
    BY <1>1, <1>2, <2>1 DEF Placed, VerifySound, Mailed, Snapped, WritesBack
<1>9. ASSUME users[u] # NoUser
      PROVE  DocSound(u)' /\ DocLast(u)'
  <2>1. DocSound(u) /\ DocLast(u) /\ Holds(users[u])
    BY <1>1, <1>4, <1>9 DEF DocumentsSound, DocSound
  <2>2. \A f \in Fields :
          IF f \in DOMAIN new
            THEN /\ users'[u].has[f] = new[f]
                 /\ users'[u].by[f] = IF new[f] # users[u].has[f] THEN r ELSE users[u].by[f]
            ELSE /\ users'[u].has[f] = users[u].has[f]
                 /\ users'[u].by[f] = users[u].by[f]
    BY <1>4, <1>9, <2>1, AssignedIs
  <2>3. \A f \in Fields : \/ /\ users'[u].has[f] = users[u].has[f]
                             /\ users'[u].by[f] = users[u].by[f]
                          \/ /\ users'[u].by[f] = r
                             /\ r \in Requests /\ req[r].at # "idle"
    BY <2>2
  <2>4. CASE /\ users'[u].has["emailToken"] = users[u].has["emailToken"]
             /\ users'[u].by["emailToken"] = users[u].by["emailToken"]
    <3>1. DocLast(u)'
      BY <1>1, <1>5, <1>7, <2>1, <2>4, DocLastFrame
    <3>2. req'[r].token = None \/ Mailed(u, req[r].token)'
      <4>1. req[r].token = None \/ Mailed(u, req[r].token)
        BY <1>1, <1>3 DEF Placed, VerifySound
      <4>2. QED
        BY <1>2, <4>1 DEF Mailed
    <3>3. QED
      BY <1>1, <1>4, <1>5, <1>9, <2>1, <2>3, <2>4, <3>1, <3>2, DocChanged
  <2>5. CASE "emailToken" \in DOMAIN new /\ users'[u].has["emailToken"] = new["emailToken"]
    <3>0. PICK z : z = req[r].snap.has["emailToken"]
      OBVIOUS
    <3>1. WritesBack(r) /\ users'[u].has["emailToken"] = z
      BY <2>5, <3>0
    <3>2. SnapSound(r) /\ SnapLast(r)
      BY <1>1, <3>1 DEF RequestsSound, WritesBack, Snapped, Reading
    <3>3. DrawnFor(z, u) /\ req[r].token = None
      BY <1>1, <1>3, <3>0, <3>1, <3>2 DEF SnapSound, WritesBack, Placed
    <3>4. DrawnFor(z, u)'
      BY <1>1, <1>5, <3>3, NeverResendsIdle, DrawnStays
      DEF Forward, Proceeds, DrawnFor, Answers
    <3>5. DrawnFor(users[u].has["emailToken"], u)'
      BY <3>1, <3>4 DEF DrawnFor
    <3>6. WroteToken(r, u)'
      BY <1>2, <1>3, <3>1 DEF WroteToken, WritesBack
    <3>7. TokenBy(u, r)'
      BY <3>6 DEF TokenBy
    <3>8. DocSound(u)'
      BY <1>1, <1>2, <1>4, <1>5, <1>9, <2>1, <2>3, <3>3, <3>5, <3>7, DocChanged
    <3>9. DocLast(u)'
      <4> SUFFICES ASSUME NEW i \in DOMAIN mails, LastAbout(u, i)
                   PROVE  ExcusedNext(u, z, i)
        BY <3>1 DEF DocLast, LastAbout, ExcusedNext, Excused, WroteToken, Overlap, OverlapNext
      <4>1. Excused(u, z, i) \/ Overlap(r, mails[i].token)
        BY <1>3, <3>0, <3>2 DEF SnapLast
      <4>2. CASE Excused(u, z, i)
        BY <1>1, <1>5, <1>7, <4>2, ExcusedStays DEF MailsSound
      <4>3. CASE Overlap(r, mails[i].token)
        <5>1. OverlapNext(r, mails[i].token)
          BY <1>1, <1>5, <4>3, MailOverlapStays DEF MailsSound
        <5>2. QED
          BY <3>6, <5>1 DEF ExcusedNext, WroteToken
      <4>4. QED
        BY <4>1, <4>2, <4>3
    <3>10. QED
      BY <3>8, <3>9
  <2>6. QED
    BY <2>2, <2>4, <2>5 DEF Fields
<1>10. DocumentsSound'
  <2>1. ASSUME NEW x \in Ids, users'[x] # NoUser
        PROVE  DocSound(x)' /\ DocLast(x)'
    <3>1. CASE x = u
      BY <1>4, <1>9, <2>1, <3>1
    <3>2. CASE x # u
      BY <1>4, <1>6, <1>7, <2>1, <3>2, OthersStay, LastsStay
    <3>3. QED
      BY <3>1, <3>2
  <2>2. QED
    BY <2>1 DEF DocumentsSound
<1>11. RequestsSound' /\ MailsSound'
  BY <1>6, <1>7, <1>8, OthersStay, LastsStay DEF RequestsSound
<1>12. QED
  BY <1>7, <1>10, <1>11 DEF EmailInv

LEMMA SetVerifiedStays ==
  ASSUME EmailInv, NEW r \in Requests, SetVerified(r)
  PROVE  EmailInv'
<1>1. PICK new : new = [f \in {"verifiedEmail"} |-> TRUE]
  OBVIOUS
<1>2. /\ Set(r, new) /\ Answer(r, "ok") /\ UNCHANGED <<mails, lost, faults>>
      /\ req[r].at = "write" /\ req[r].kind = "verify"
  BY <1>1 DEF SetVerified, Writes
<1>3. Values(new) /\ "emailToken" \notin DOMAIN new
  BY <1>1 DEF Values, Fields
<1>4. QED
  BY <1>2, <1>3, WriteEnds

LEMMA SetAddressStays ==
  ASSUME EmailInv, NEW r \in Requests, SetAddress(r)
  PROVE  EmailInv'
<1>1. PICK new : new = [f \in IF req[r].address = None THEN {} ELSE {"email"} |-> req[r].address]
  OBVIOUS
<1>2. /\ Set(r, new) /\ Answer(r, "ok") /\ UNCHANGED <<mails, lost, faults>>
      /\ req[r].at = "write" /\ req[r].kind = "edit"
  BY <1>1 DEF SetAddress, Writes
<1>3. req[r].address \in Addresses \cup {None}
  BY DEF EmailInv, Types, RequestRecord
<1>4. Values(new) /\ "emailToken" \notin DOMAIN new
  BY <1>1, <1>3 DEF Values, Fields
<1>5. QED
  BY <1>2, <1>4, WriteEnds

\* What a request that hands back a document writes.
LEMMA BackIs ==
  ASSUME EmailInv, NEW r \in Requests, NEW all, NEW new,
         all = [f \in Fields |-> IF Writes(r, "update") /\ f = "email"
                                   THEN req[r].address ELSE req[r].snap.has[f]],
         new = [f \in {g \in Fields : all[g] # None} |-> all[f]],
         req[r].at = "write", req[r].kind \in {"writeBack", "update"}
  PROVE  /\ WritesBack(r) /\ Snapped(r) /\ Values(new)
         /\ "emailToken" \in DOMAIN new => new["emailToken"] = req[r].snap.has["emailToken"]
<1>1. WritesBack(r) /\ Snapped(r)
  BY DEF WritesBack, Snapped, Reading
<1>2. req[r].address \in Addresses \cup {None} /\ Holds(req[r].snap)
  BY <1>1 DEF EmailInv, Types, RequestRecord, RequestsSound, SnapSound
<1>3. /\ all["email"] \in {req[r].address, req[r].snap.has["email"]}
      /\ all["emailToken"] = req[r].snap.has["emailToken"]
      /\ all["verifiedEmail"] = req[r].snap.has["verifiedEmail"]
  BY DEF Fields
<1>4. /\ all["email"] \in Addresses \cup {None}
      /\ all["emailToken"] \in Ids \cup {None}
      /\ all["verifiedEmail"] \in BOOLEAN
  BY <1>2, <1>3 DEF Holds
<1>5. DOMAIN new \subseteq Fields /\ \A f \in DOMAIN new : new[f] = all[f]
  OBVIOUS
<1>6. Values(new)
  BY <1>4, <1>5 DEF Values
<1>7. QED
  BY <1>1, <1>3, <1>5, <1>6

LEMMA WriteBackStays ==
  ASSUME EmailInv, NEW r \in Requests, WriteBack(r)
  PROVE  EmailInv'
<1>1. PICK all, new :
        /\ all = [f \in Fields |-> IF Writes(r, "update") /\ f = "email"
                                     THEN req[r].address ELSE req[r].snap.has[f]]
        /\ new = [f \in {g \in Fields : all[g] # None} |-> all[f]]
  OBVIOUS
<1>2. /\ Set(r, new) /\ Answer(r, "ok") /\ UNCHANGED <<mails, lost, faults>>
      /\ req[r].at = "write" /\ req[r].kind \in {"writeBack", "update"}
  BY <1>1 DEF WriteBack, Writes
<1>3. QED
  BY <1>1, <1>2, BackIs, WriteEnds

LEMMA DeleteStays ==
  ASSUME EmailInv, NEW r \in Requests, Delete(r)
  PROVE  EmailInv'
<1>1. Types /\ RequestsSound /\ DocumentsSound /\ Placed(r)
  BY DEF EmailInv, RequestsSound
<1>2. PICK u : u = req[r].user
  OBVIOUS
<1>3. /\ req[r].at = "write" /\ req[r].kind = "remove" /\ Answer(r, "ok")
      /\ UNCHANGED <<mails, lost, faults>> /\ users' = [users EXCEPT ![u] = NoUser]
  BY <1>2 DEF Delete, Writes
<1>4. /\ req' \in [Requests -> RequestRecord]
      /\ \A q \in Requests \ {r} : req'[q] = req[q]
      /\ req'[r].at = "ok" /\ req'[r].after = req[r].after /\ req'[r].kind = "remove"
      /\ req'[r].token = None
  BY <1>1, <1>3, AnswerIs DEF Answers, Placed
<1>5. /\ users' \in [Ids -> Document \cup {NoUser}]
      /\ \A x \in Ids : users'[x] = users[x] \/ users'[x] = NoUser
  BY <1>1, <1>3 DEF Types
<1>6. Forward
  BY <1>1, <1>3, AnswerIs, <1>4 DEF Forward, Proceeds, Answers
<1>7. StepBy({r}, {})
  BY <1>4, <1>5, <1>6 DEF StepBy, Touched
<1>8. Types' /\ PostsNothing
  BY <1>1, <1>3, <1>4, <1>5 DEF Types, PostsNothing
<1>9. Placed(r)' /\ VerifySound(r)' /\ ~ Snapped(r)' /\ ~ WritesBack(r)'
  <2>1. Answered \subseteq Answered'
    BY <1>6 DEF Answered, Forward, Proceeds
  <2>2. QED
    BY <1>1, <1>3, <1>4, <2>1 DEF Placed, VerifySound, Snapped, WritesBack
<1>10. RequestsSound' /\ MailsSound'
  BY <1>3, <1>7, <1>8, <1>9, OthersStay, LastsStay DEF RequestsSound
<1>11. DocumentsSound'
  BY <1>3, <1>5, <1>7, <1>8, OthersStay, LastsStay DEF DocumentsSound
<1>12. QED
  BY <1>8, <1>10, <1>11 DEF EmailInv

LEMMA StoreTokenStays ==
  ASSUME EmailInv, NEW r \in Requests, StoreToken(r)
  PROVE  EmailInv'
<1>1. Types /\ RequestsSound /\ DocumentsSound /\ MailsSound /\ Placed(r)
  BY DEF EmailInv, RequestsSound
<1>2. PICK u, new, s, d : /\ u = req[r].user /\ new = [f \in {"emailToken"} |-> r]
                          /\ d = req[r].snap /\ s = Assigned(d, r, new)
  OBVIOUS
<1>3. /\ Set(r, new) /\ UNCHANGED <<mails, lost, faults>>
      /\ req[r].at = "write" /\ req[r].kind = "resend"
      /\ req' = [req EXCEPT ![r].at = "emit", ![r].snap = s]
  BY <1>2 DEF StoreToken, Writes
<1>4. Values(new) /\ r \in Ids /\ new["emailToken"] = r /\ DOMAIN new = {"emailToken"}
  BY <1>2 DEF Values, Fields, Ids
<1>5. SnapSound(r)
  BY <1>1, <1>3 DEF RequestsSound, Snapped, Reading
<1>6. /\ Holds(d) /\ u \in Ids /\ Began(u) /\ d.has["email"] # None
      /\ u \in Requests => req[u].kind # "resend"
      /\ users[u] # NoUser
           => \A f \in Fields : \/ d.has[f] = users[u].has[f]
                                \/ users[u].by[f] # u /\ Overlap(r, users[u].by[f])
  BY <1>2, <1>3, <1>5 DEF SnapSound
<1>7. /\ Holds(s) /\ s.has["emailToken"] = r
      /\ \A f \in Fields \ {"emailToken"} : s.has[f] = d.has[f]
  BY <1>2, <1>4, <1>6, AssignedIs DEF Fields
<1>8. /\ req' \in [Requests -> RequestRecord]
      /\ \A q \in Requests \ {r} : req'[q] = req[q]
      /\ req'[r].at = "emit" /\ req'[r].snap = s /\ req'[r].kind = "resend"
      /\ req'[r].user = u /\ req'[r].token = None /\ req'[r].after = req[r].after
  <2>1. req \in [Requests -> RequestRecord]
    BY <1>1 DEF Types
  <2>2. PICK e : e = [req[r] EXCEPT !.at = "emit", !.snap = s]
    OBVIOUS
  <2>3. req[r].token = None
    BY <1>1, <1>3 DEF Placed
  <2>4. /\ e \in RequestRecord /\ e.at = "emit" /\ e.snap = s /\ e.kind = "resend"
        /\ e.user = u /\ e.token = None /\ e.after = req[r].after
    <3>1. /\ req[r] \in RequestRecord /\ s \in Document
          /\ req[r].kind = "resend" /\ req[r].user = u /\ req[r].token = None
      BY <1>2, <1>3, <1>7, <2>1, <2>3 DEF Holds
    <3>2. QED
      BY <2>2, <3>1 DEF RequestRecord, Pending
  <2>5. req' = [req EXCEPT ![r] = e]
    BY <1>3, <2>1, <2>2
  <2>6. QED
    BY <2>1, <2>4, <2>5
<1>9. /\ users' \in [Ids -> Document \cup {NoUser}]
      /\ \A x \in Ids \ {u} : users'[x] = users[x]
      /\ users[u] = NoUser => users'[u] = NoUser
      /\ users[u] # NoUser => /\ Holds(users'[u])
                              /\ users'[u] = Assigned(users[u], r, new)
      /\ \A x \in Ids : Touched(x, {r} \ {x})
  BY <1>2, <1>3, <1>4, SetIs
<1>10. Forward
  BY <1>1, <1>2, <1>3, <1>8 DEF Forward, Proceeds, Answers, Placed
<1>11. StepBy({r}, {r})
  <2>1. {r} \subseteq {r} \cap Running
    BY <1>3 DEF Running, Pending
  <2>2. QED
    BY <1>8, <1>9, <1>10, <2>1 DEF StepBy
<1>12. Types' /\ PostsNothing
  BY <1>1, <1>3, <1>8, <1>9 DEF Types, PostsNothing
<1>13. DrawnFor(r, u)'
  BY <1>8 DEF DrawnFor
<1>14. ASSUME users[u] # NoUser
       PROVE  /\ \A f \in Fields : \/ /\ users'[u].has[f] = users[u].has[f]
                                      /\ users'[u].by[f] = users[u].by[f]
                                   \/ users'[u].by[f] = r
              /\ users'[u].has["emailToken"] = r
              /\ \A f \in Fields \ {"emailToken"} :
                   users'[u].has[f] = users[u].has[f] /\ users'[u].by[f] = users[u].by[f]
  <2>1. Holds(users[u])
    BY <1>1, <1>6, <1>14 DEF DocumentsSound, DocSound
  <2>2. QED
    BY <1>4, <1>9, <1>14, <2>1, AssignedIs DEF Fields
<1>15. SnapSound(r)'
  <2>1. ASSUME users'[u] # NoUser, NEW f \in Fields
        PROVE  \/ s.has[f] = users'[u].has[f]
               \/ users'[u].by[f] # u /\ OverlapNext(r, users'[u].by[f])
    <3>1. users[u] # NoUser
      BY <1>9, <2>1
    <3>2. CASE f = "emailToken"
      BY <1>7, <1>14, <3>1, <3>2
    <3>3. CASE f # "emailToken" /\ d.has[f] = users[u].has[f]
      BY <1>7, <1>14, <2>1, <3>1, <3>3
    <3>4. CASE f # "emailToken" /\ users[u].by[f] # u /\ Overlap(r, users[u].by[f])
      <4>1. PICK w : w = users[u].by[f]
        OBVIOUS
      <4>2. req[w].at # "idle"
        BY <1>1, <1>6, <3>1, <3>4, <4>1 DEF DocumentsSound, DocSound
      <4>3. OverlapNext(r, w)
        BY <1>3, <1>10, <3>4, <4>1, <4>2, OverlapStays DEF Overlap, OverlapNext
      <4>4. QED
        BY <1>14, <3>1, <3>4, <4>1, <4>3
    <3>5. QED
      BY <1>6, <3>1, <3>2, <3>3, <3>4
  <2>2. Began(u)'
    BY <1>6, <1>10, BeganStays
  <2>3. Began(req[r].user)' /\ DrawnFor(req[r].snap.has["emailToken"], req[r].user)'
    BY <1>7, <1>8, <1>13, <2>2 DEF Began, DrawnFor
  <2>4. u \in Requests => req'[u].kind # "resend"
    BY <1>6, <1>10, EmailAssumption DEF Forward, Proceeds, Began
  <2>5. QED
    BY <1>6, <1>7, <1>8, <2>1, <2>3, <2>4
    DEF SnapSound, Holds, Overlap, OverlapNext, Fields
<1>16. Placed(r)' /\ VerifySound(r)' /\ ~ WritesBack(r)'
  <2>1. Answered \subseteq Answered'
    BY <1>10 DEF Answered, Forward, Proceeds
  <2>2. QED
    BY <1>1, <1>6, <1>8, <2>1 DEF Placed, VerifySound, WritesBack
<1>17. ASSUME users[u] # NoUser
       PROVE  DocSound(u)' /\ DocLast(u)'
  <2>1. DocSound(u) /\ users'[u].has["emailToken"] = r
    BY <1>1, <1>6, <1>14, <1>17 DEF DocumentsSound
  <2>2. req'[r].snap.has["email"] # None
    BY <1>6, <1>7, <1>8 DEF Fields
  <2>3. TokenBy(u, r)' /\ DrawnFor(users[u].has["emailToken"], u)'
    BY <1>8, <1>13, <2>1, <2>2 DEF TokenBy, DrawnFor
  <2>4. DocSound(u)'
    BY <1>1, <1>3, <1>6, <1>8, <1>9, <1>10, <1>14, <1>17, <2>1, <2>3, DocChanged DEF Fields
  <2>5. DocLast(u)'
    BY <1>8, <2>1, <2>2 DEF DocLast, Excused
  <2>6. QED
    BY <2>4, <2>5
<1>18. DocumentsSound'
  <2>1. ASSUME NEW x \in Ids, users'[x] # NoUser
        PROVE  DocSound(x)' /\ DocLast(x)'
    <3>1. CASE x = u
      BY <1>9, <1>17, <2>1, <3>1
    <3>2. CASE x # u
      BY <1>3, <1>9, <1>11, <1>12, <2>1, <3>2, OthersStay, LastsStay
    <3>3. QED
      BY <3>1, <3>2
  <2>2. QED
    BY <2>1 DEF DocumentsSound
<1>19. RequestsSound' /\ MailsSound'
  BY <1>3, <1>11, <1>12, <1>15, <1>16, OthersStay, LastsStay DEF RequestsSound
<1>20. QED
  BY <1>12, <1>18, <1>19 DEF EmailInv

LEMMA InsertStays ==
  ASSUME EmailInv, NEW r \in Requests, Insert(r)
  PROVE  EmailInv'
<1>1. Types /\ RequestsSound /\ DocumentsSound /\ MailsSound /\ Placed(r)
  BY DEF EmailInv, RequestsSound
<1>2. PICK d, address, token, verified :
        /\ address = req[r].address
        /\ token = IF req[r].kind = "register" THEN r ELSE None
        /\ verified = (req[r].kind = "import")
        /\ d = Registered(r, address, token, verified)
  OBVIOUS
<1>3. /\ req[r].at = "insert" /\ UNCHANGED <<mails, lost, faults>>
      /\ users' = [users EXCEPT ![r] = d]
      /\ \/ /\ req[r].kind = "register"
            /\ req' = [req EXCEPT ![r].at = "emit", ![r].snap = users'[r]]
         \/ req[r].kind # "register" /\ Answer(r, "ok")
  BY <1>2, Zenon DEF Insert
<1>4. /\ r \in Ids /\ req[r] \in RequestRecord /\ req[r].user = r /\ req[r].kind \in Creating
      /\ users[r] = NoUser /\ ~ Began(r) /\ req[r].token = None
  BY <1>1, <1>3, EmailAssumption DEF Placed, Types, Ids, Began, Creating
<1>5. /\ Holds(d) /\ d.has["emailToken"] \in {None, r}
      /\ req[r].kind = "register" => d.has["emailToken"] = r
      /\ \A f \in Fields : d.by[f] = r
  <2> DEFINE V == Addresses \cup Ids \cup BOOLEAN \cup {None}
             has == [f \in Fields |-> CASE f = "email" -> address
                                        [] f = "emailToken" -> token
                                        [] OTHER -> verified]
             by == [f \in Fields |-> r]
  <2>1. d.has = has /\ d.by = by /\ d = [has |-> has, by |-> by]
    BY <1>2 DEF Registered
  <2>2. address \in Addresses \cup {None} /\ token \in Ids \cup {None} /\ verified \in BOOLEAN
    BY <1>2, <1>4 DEF RequestRecord
  <2>3. /\ has["email"] = address /\ has["emailToken"] = token
        /\ has["verifiedEmail"] = verified
    BY DEF Fields
  <2>4. has \in [Fields -> V] /\ by \in [Fields -> Ids]
    BY <1>4, <2>2
  <2>5. d \in Document
    BY <2>1, <2>4 DEF Document
  <2>6. QED
    BY <1>2, <2>1, <2>2, <2>3, <2>5 DEF Holds
<1>6. /\ users' \in [Ids -> Document \cup {NoUser}] /\ users'[r] = d
      /\ \A x \in Ids \ {r} : users'[x] = users[x]
  BY <1>1, <1>3, <1>4, <1>5 DEF Types, Holds
<1>7. /\ req' \in [Requests -> RequestRecord]
      /\ \A q \in Requests \ {r} : req'[q] = req[q]
      /\ req'[r].kind = req[r].kind /\ req'[r].user = r
      /\ req'[r].token = None /\ req'[r].after = req[r].after
      /\ \/ req'[r].at = "ok"
         \/ req'[r].at = "emit" /\ req[r].kind = "register" /\ req'[r].snap = d
  <2>1. CASE /\ req[r].kind = "register"
             /\ req' = [req EXCEPT ![r].at = "emit", ![r].snap = users'[r]]
    <3>1. PICK e : e = [req[r] EXCEPT !.at = "emit", !.snap = d]
      OBVIOUS
    <3>2. /\ e \in RequestRecord /\ e.at = "emit" /\ e.snap = d /\ e.kind = "register"
          /\ e.user = r /\ e.token = None /\ e.after = req[r].after
      BY <1>4, <1>5, <2>1, <3>1 DEF RequestRecord, Pending, Holds
    <3>3. req \in [Requests -> RequestRecord]
      BY <1>1 DEF Types
    <3>4. req' = [req EXCEPT ![r] = [req[r] EXCEPT !.at = "emit", !.snap = d]]
      BY <1>6, <2>1, <3>3
    <3>5. req' = [req EXCEPT ![r] = e]
      BY <3>1, <3>4
    <3>6. /\ req'[r] = e /\ \A q \in Requests \ {r} : req'[q] = req[q]
          /\ req' \in [Requests -> RequestRecord]
      BY <3>2, <3>3, <3>5
    <3>7. QED
      BY <2>1, <3>2, <3>6
  <2>2. CASE Answer(r, "ok")
    BY <1>1, <1>4, <2>2, AnswerIs DEF Answers
  <2>3. QED
    BY <1>3, <2>1, <2>2
<1>8. Forward
  BY <1>3, <1>4, <1>7 DEF Forward, Proceeds, Answers, Creating
<1>9. StepBy({r}, {})
  BY <1>4, <1>6, <1>7, <1>8 DEF StepBy, Touched
<1>10. Types' /\ PostsNothing
  BY <1>1, <1>3, <1>6, <1>7 DEF Types, PostsNothing
<1>11. Began(r)' /\ DrawnFor(users[r].has["emailToken"], r)'
  BY <1>4, <1>5, <1>6, <1>7 DEF Began, DrawnFor
<1>12. Placed(r)' /\ VerifySound(r)' /\ ~ WritesBack(r)'
  <2>1. Answered \subseteq Answered'
    BY <1>8 DEF Answered, Forward, Proceeds
  <2>2. QED
    BY <1>1, <1>4, <1>7, <2>1 DEF Placed, VerifySound, WritesBack, Creating
<1>13. ASSUME Snapped(r)'
       PROVE  SnapSound(r)'
  <2>1. /\ req'[r].at = "emit" /\ req[r].kind = "register" /\ req'[r].snap = users'[r]
        /\ req'[r].user = r
    BY <1>6, <1>7, <1>13 DEF Snapped
  <2>2. Began(req[r].user)' /\ DrawnFor(req[r].snap.has["emailToken"], req[r].user)'
    BY <1>11, <2>1 DEF Began, DrawnFor
  <2>3. QED
    BY <1>4, <1>5, <1>6, <1>7, <2>1, <2>2 DEF SnapSound, Holds
<1>14. DocSound(r)' /\ DocLast(r)'
  <2>1. DocSound(r)'
    BY <1>4, <1>5, <1>6, <1>7, <1>11 DEF DocSound, Holds, TokenBy, Fields
  <2>2. \A i \in DOMAIN mails : mails[i].user # r
    BY <1>1, <1>4 DEF MailsSound, MailSound
  <2>3. QED
    BY <1>3, <2>1, <2>2 DEF DocLast, LastAbout
<1>15. DocumentsSound'
  <2>1. ASSUME NEW x \in Ids, users'[x] # NoUser
        PROVE  DocSound(x)' /\ DocLast(x)'
    <3>1. CASE x = r
      BY <1>14, <3>1
    <3>2. CASE x # r
      BY <1>3, <1>6, <1>9, <1>10, <2>1, <3>2, OthersStay, LastsStay
    <3>3. QED
      BY <3>1, <3>2
  <2>2. QED
    BY <2>1 DEF DocumentsSound
<1>16. RequestsSound' /\ MailsSound'
  BY <1>3, <1>9, <1>10, <1>12, <1>13, OthersStay, LastsStay DEF RequestsSound
<1>17. QED
  BY <1>10, <1>15, <1>16 DEF EmailInv

---------------------------------------------------------------------------
(* The mail. *)

\* What is known of a request that emits, whether it mails or not.
Emitting(r) ==
  /\ SnapSound(r) /\ req[r].at = "emit" /\ req[r].snap.has["emailToken"] = r
  /\ \/ req[r].kind = "register" /\ req[r].user = r
     \/ req[r].kind = "resend" /\ req[r].user \in Ids /\ r # req[r].user
  /\ r \in Requests \ Answered

LEMMA EmitIs ==
  ASSUME EmailInv, NEW r \in Requests, Emit(r)
  PROVE  /\ Emitting(r) /\ StepBy({r}, {}) /\ UNCHANGED <<users, lost, faults>>
         /\ mails' = Posted(req[r].user, req[r].snap.has["email"], r)
         /\ req' \in [Requests -> RequestRecord]
         /\ \A q \in Requests \ {r} : req'[q] = req[q]
         /\ req'[r].at = "ok" /\ req'[r].after = req[r].after
         /\ req'[r].kind = req[r].kind /\ req'[r].user = req[r].user
         /\ Placed(r)' /\ VerifySound(r)' /\ ~ Snapped(r)' /\ ~ WritesBack(r)'
<1>1. Types /\ RequestsSound /\ Placed(r)
  BY DEF EmailInv, RequestsSound
<1>2. /\ req[r].at = "emit" /\ Answer(r, "ok") /\ UNCHANGED <<users, lost, faults>>
      /\ mails' = Posted(req[r].user, req[r].snap.has["email"],
                         req[r].snap.has["emailToken"])
  BY DEF Emit
<1>3. SnapSound(r) /\ req[r].snap.has["emailToken"] = r
  BY <1>1, <1>2 DEF RequestsSound, Snapped, SnapSound
<1>4. Emitting(r)
  BY <1>1, <1>2, <1>3 DEF Emitting, Placed, SnapSound, Answered, Answers
<1>5. /\ req' \in [Requests -> RequestRecord]
      /\ \A q \in Requests \ {r} : req'[q] = req[q]
      /\ req'[r].at = "ok" /\ req'[r].after = req[r].after
      /\ req'[r].kind = req[r].kind /\ req'[r].user = req[r].user
      /\ req'[r].token = req[r].token
  BY <1>1, <1>2, AnswerIs DEF Answers
<1>6. Forward
  <2>1. \A q \in Requests : Proceeds(req[q], req'[q])
    BY <1>2, <1>5 DEF Proceeds, Answers
  <2>2. \A i \in DOMAIN mails : i \in DOMAIN mails' /\ mails'[i] = mails[i]
    BY <1>1, <1>2 DEF Posted, Types
  <2>3. QED
    BY <2>1, <2>2 DEF Forward
<1>7. StepBy({r}, {})
  BY <1>2, <1>5, <1>6 DEF StepBy, Touched
<1>8. Placed(r)' /\ VerifySound(r)' /\ ~ Snapped(r)' /\ ~ WritesBack(r)'
  <2>1. Answered \subseteq Answered'
    BY <1>6 DEF Answered, Forward, Proceeds
  <2>2. QED
    BY <1>1, <1>2, <1>5, <2>1 DEF Placed, VerifySound, Snapped, WritesBack
<1>9. QED
  BY <1>2, <1>3, <1>4, <1>5, <1>7, <1>8

\* A token that r has drawn is not one of another user.
LEMMA TokenElsewhere ==
  ASSUME NEW r \in Requests, Emitting(r), NEW u \in Ids \ {req[r].user},
         u \in Requests => req[u].kind # "resend",
         NEW z, DrawnFor(z, u)
  PROVE  z # r
  BY EmailAssumption DEF DrawnFor, Emitting, Ids

LEMMA EmitStays ==
  ASSUME EmailInv, NEW r \in Requests, Emit(r)
  PROVE  EmailInv'
<1>1. Types /\ RequestsSound /\ DocumentsSound /\ MailsSound
  BY DEF EmailInv
<1>2. PICK u, address : u = req[r].user /\ address = req[r].snap.has["email"]
  OBVIOUS
<1>3. /\ Emitting(r) /\ StepBy({r}, {}) /\ UNCHANGED <<users, lost, faults>>
      /\ mails' = Posted(u, address, r)
      /\ req' \in [Requests -> RequestRecord]
      /\ \A q \in Requests \ {r} : req'[q] = req[q]
      /\ req'[r].at = "ok" /\ req'[r].after = req[r].after
      /\ req'[r].kind = req[r].kind /\ req'[r].user = u
      /\ Placed(r)' /\ VerifySound(r)' /\ ~ Snapped(r)' /\ ~ WritesBack(r)'
  BY <1>2, EmitIs
<1>4. CASE address = None
  <2>1. mails' = mails
    BY <1>3, <1>4 DEF Posted
  <2>2. PostsNothing
    BY <1>2, <1>3, <1>4 DEF PostsNothing
  <2>3. Types'
    BY <1>1, <1>3, <2>1 DEF Types
  <2>4. QED
    BY <1>3, <2>1, <2>2, <2>3, Quiet
<1>5. CASE address # None
  <2>1. Forward /\ r \in Ids /\ r # None
    BY <1>3, EmailAssumption DEF StepBy, Ids
  <2>2. PICK n, m : n = Len(mails) + 1 /\ m = [user |-> u, to |-> address, token |-> r]
    OBVIOUS
  <2>3. /\ u \in Ids /\ Began(u) /\ (u \in Requests => req[u].kind # "resend")
        /\ address \in Addresses
        /\ users[u] # NoUser
             => \A f \in Fields : \/ req[r].snap.has[f] = users[u].has[f]
                                  \/ users[u].by[f] # u /\ Overlap(r, users[u].by[f])
    BY <1>2, <1>3, <1>5 DEF Emitting, SnapSound, Holds
  <2>4. m \in MailRecord /\ m.user = u /\ m.token = r /\ m.to = address
    BY <2>1, <2>2, <2>3 DEF MailRecord
  <2>5. /\ mails' = Append(mails, m) /\ mails' \in Seq(MailRecord)
        /\ n \in DOMAIN mails' /\ mails'[n] = m /\ n \notin DOMAIN mails
        /\ DOMAIN mails' = DOMAIN mails \cup {n} /\ n \in Nat
        /\ \A i \in DOMAIN mails : mails'[i] = mails[i] /\ i \in Nat /\ i < n
    <3>1. mails' = Append(mails, m)
      BY <1>3, <1>5, <2>1, <2>2 DEF Posted
    <3>2. mails \in Seq(MailRecord)
      BY <1>1 DEF Types
    <3>3. QED
      BY <2>2, <2>4, <3>1, <3>2
  <2>6. Types'
    BY <1>1, <1>3, <2>5 DEF Types
  <2>7. ASSUME NEW x \in Ids, NEW i \in DOMAIN mails', LastAbout(x, i)'
        PROVE  IF x = u THEN i = n ELSE i \in DOMAIN mails /\ LastAbout(x, i)
    BY <2>4, <2>5, <2>7 DEF LastAbout
  <2>8. ASSUME NEW x \in Ids \ {u}, x \in Requests => req[x].kind # "resend",
               NEW z, DrawnFor(z, x), NEW i \in DOMAIN mails, Excused(x, z, i)
        PROVE  ExcusedNext(x, z, i)
    <3>1. z # r
      BY <1>2, <1>3, <2>8, TokenElsewhere
    <3>2. z \in Requests /\ req[z].at = "emit" => req'[z].at # "ok"
      BY <1>3, <3>1
    <3>3. QED
      BY <1>1, <2>1, <2>8, <3>2, ExcusedGoesOn DEF MailsSound
  <2>9. ASSUME NEW q \in Requests \ {r}, WritesBack(q)'
        PROVE  SnapLast(q)'
    <3>0. PICK x, z : x = req[q].user /\ z = req[q].snap.has["emailToken"]
      OBVIOUS
    <3>1. req'[q] = req[q] /\ WritesBack(q) /\ SnapSound(q) /\ SnapLast(q)
      BY <1>1, <1>3, <2>9 DEF WritesBack, RequestsSound, Snapped, Reading
    <3>2. x \in Ids /\ DrawnFor(z, x) /\ (x \in Requests => req[x].kind # "resend")
      BY <3>0, <3>1 DEF SnapSound
    <3> SUFFICES ASSUME NEW i \in DOMAIN mails', LastAbout(x, i)'
                 PROVE  ExcusedNext(x, z, i) \/ OverlapNext(q, mails'[i].token)
      BY <3>0, <3>1
      DEF SnapLast, LastAbout, ExcusedNext, Excused, WroteToken, Overlap, OverlapNext
    <3>3. CASE x = u
      <4>1. mails'[i].token = r
        BY <2>4, <2>5, <2>7, <3>2, <3>3
      <4>2. q \in Running /\ r \in Running
        BY <1>3, <3>1 DEF WritesBack, Emitting, Running, Pending
      <4>3. Overlap(q, r) /\ req[q].at # "idle" /\ req[r].at # "idle"
        BY <1>1, <4>2, RunningOverlap DEF Running, Pending
      <4>4. OverlapNext(q, r)
        BY <2>1, <4>3, OverlapStays DEF Overlap, OverlapNext
      <4>5. QED
        BY <4>1, <4>4
    <3>4. CASE x # u
      <4>1. i \in DOMAIN mails /\ LastAbout(x, i) /\ mails'[i] = mails[i]
        BY <2>5, <2>7, <3>2, <3>4
      <4>2. Excused(x, z, i) \/ Overlap(q, mails[i].token)
        BY <3>0, <3>1, <4>1 DEF SnapLast
      <4>3. CASE Excused(x, z, i)
        BY <2>8, <3>2, <3>4, <4>1, <4>3
      <4>4. CASE Overlap(q, mails[i].token)
        BY <1>1, <2>1, <3>1, <4>1, <4>4, MailOverlapStays DEF MailsSound, WritesBack
      <4>5. QED
        BY <4>2, <4>3, <4>4
    <3>5. QED
      BY <3>3, <3>4
  <2>10. ASSUME NEW x \in Ids, users[x] # NoUser
         PROVE  DocLast(x)'
    <3>0. PICK z, w : z = users[x].has["emailToken"] /\ w = users[x].by["emailToken"]
      OBVIOUS
    <3>1. /\ DrawnFor(z, x) /\ TokenBy(x, w) /\ DocLast(x)
          /\ x \in Requests => req[x].kind # "resend"
      BY <1>1, <2>10, <3>0 DEF DocumentsSound, DocSound, Creating
    <3> SUFFICES ASSUME NEW i \in DOMAIN mails', LastAbout(x, i)'
                 PROVE  ExcusedNext(x, z, i)
      BY <1>3, <3>0
      DEF DocLast, LastAbout, ExcusedNext, Excused, WroteToken, Overlap, OverlapNext
    <3>2. CASE x = u
      <4>1. mails'[i].token = r
        BY <2>4, <2>5, <2>7, <3>2
      <4>2. z = r \/ (w # u /\ Overlap(r, w))
        BY <1>3, <2>3, <2>10, <3>0, <3>2 DEF Emitting, Fields
      <4>3. CASE z = r
        BY <4>1, <4>3 DEF ExcusedNext
      <4>4. CASE w # u /\ Overlap(r, w) /\ WroteToken(w, u)
        <5>1. w \in Requests /\ req[w].at # "idle" /\ req[r].at # "idle" /\ WroteToken(w, u)'
          BY <1>3, <2>1, <4>4, WroteStays DEF Overlap, WroteToken, Emitting
        <5>2. OverlapNext(w, r)
          BY <2>1, <4>4, <5>1, OverlapStays DEF Overlap, OverlapNext
        <5>3. QED
          BY <3>2, <4>1, <5>1, <5>2 DEF ExcusedNext, WroteToken
      <4>5. CASE /\ w # u /\ Overlap(r, w) /\ w \in Requests /\ w = z
                 /\ \/ req[w].at = "error"
                    \/ req[w].at = "emit" /\ req[w].snap.has["email"] # None
        BY <1>3, <4>5 DEF ExcusedNext, Overlap
      <4>6. QED
        BY <3>0, <3>1, <3>2, <4>2, <4>3, <4>4, <4>5 DEF TokenBy
    <3>3. CASE x # u
      <4>1. i \in DOMAIN mails /\ LastAbout(x, i)
        BY <2>7, <3>3
      <4>2. Excused(x, z, i)
        BY <3>0, <3>1, <4>1 DEF DocLast
      <4>3. QED
        BY <2>8, <3>1, <3>3, <4>1, <4>2
    <3>4. QED
      BY <3>2, <3>3
  <2>11. MailSound(n)'
    <3>1. Began(u)' /\ (u \in Requests => req'[u].kind # "resend")
      BY <2>1, <2>3, BeganStays, EmailAssumption DEF Forward, Proceeds, Began
    <3>2. r = u \/ (req'[r].kind = "resend" /\ req'[r].user = u)
      BY <1>2, <1>3 DEF Emitting
    <3>3. ASSUME users[u] # NoUser, NEW g, g = users[u].by["email"],
                 g = r \/ PrecedesNext(g, r)
          PROVE  address = users[u].has["email"]
      <4>1. ~ Overlap(r, g)
        BY <1>3, <3>3, EmailAssumption DEF Overlap, PrecedesNext
      <4>2. QED
        BY <1>2, <2>3, <3>3, <4>1 DEF Fields
    <3>4. QED
      BY <1>3, <2>4, <2>5, <3>1, <3>2, <3>3 DEF MailSound, Began, Precedes, PrecedesNext
  <2>12. RequestsSound'
    BY <1>3, <2>9, OthersStay DEF RequestsSound
  <2>13. DocumentsSound'
    BY <1>3, <2>10, OthersStay DEF DocumentsSound
  <2>14. MailsSound'
    BY <1>3, <2>5, <2>11, OthersStay DEF MailsSound
  <2>15. QED
    BY <2>6, <2>12, <2>13, <2>14 DEF EmailInv
<1>6. QED
  BY <1>4, <1>5

---------------------------------------------------------------------------
(* The invariant holds. *)

\* The mails of Init carry to each seed its own token.
LEMMA FirstMails ==
  ASSUME Init
  PROVE  /\ mails \in Seq(MailRecord)
         /\ \A i \in DOMAIN mails :
              \E u \in Seeds : mails[i] = [user |-> u, to |-> SeedAddress[u], token |-> u]
         /\ \A u \in Seeds : \E i \in DOMAIN mails : mails[i].user = u /\ mails[i].token = u
<1> DEFINE mail(u) == [user |-> u, to |-> SeedAddress[u], token |-> u]
           S == {mail(u) : u \in Seeds}
           f == [u \in Seeds |-> mail(u)]
<1>1. S \subseteq MailRecord
  BY EmailAssumption DEF MailRecord, Ids
<1>2. f \in Surjection(Seeds, S)
  BY DEF Surjection
<1>3. IsFiniteSet(S)
  BY <1>2, EmailAssumption, FS_Surjection
<1>4. Cardinality(S) \in Nat
  BY <1>3, FS_CardinalityType
<1>5. /\ mails \in [1..Cardinality(S) -> S]
      /\ \A i, j \in 1..Cardinality(S) : i # j => mails[i] # mails[j]
  <2>1. mails \in SetToSeqs(S)
    BY DEF Init
  <2> HIDE DEF S
  <2>2. QED
    BY <2>1 DEF SetToSeqs
<1>6. mails \in Seq(MailRecord)
  <2> HIDE DEF S
  <2>1. PICK n \in Nat : n = Cardinality(S)
    BY <1>4
  <2>2. mails \in [1..n -> MailRecord]
    BY <1>1, <1>5, <2>1
  <2>3. QED
    BY <2>1, <2>2
<1>7. \A s \in S : \E i \in 1..Cardinality(S) : mails[i] = s
  <2> HIDE DEF S
  <2>1. PICK n \in Nat : n = Cardinality(S)
    BY <1>4
  <2>2. mails \in Injection(1..n, S)
    BY <1>5, <2>1 DEF Injection, IsInjective
  <2>3. Cardinality(1..n) = n
    BY FS_Interval
  <2>4. mails \in Surjection(1..n, S)
    BY <1>3, <2>1, <2>2, <2>3, FS_Injection
  <2>5. \A s \in S : \E i \in 1..n : mails[i] = s
    BY <2>4, Zenon DEF Surjection
  <2>6. QED
    BY <2>1, <2>5
<1>8. ASSUME NEW u \in Seeds
      PROVE  \E i \in DOMAIN mails : mails[i].user = u /\ mails[i].token = u
  <2>1. /\ mail(u) \in S
        /\ mail(u).user = u /\ mail(u).token = u
    OBVIOUS
  <2> HIDE DEF S, mail
  <2>2. PICK i \in 1..Cardinality(S) : mails[i] = mail(u)
    BY <1>7, <2>1
  <2>3. i \in DOMAIN mails
    BY <1>5, <2>2
  <2>4. QED
    BY <2>1, <2>2, <2>3
<1>9. QED
  BY <1>4, <1>5, <1>6, <1>8

LEMMA InitHolds == Init => EmailInv
<1> SUFFICES ASSUME Init
             PROVE  EmailInv
  OBVIOUS
<1>1. /\ users = [u \in Ids |-> IF u \in Seeds
                                  THEN Registered(u, SeedAddress[u], u, FALSE) ELSE NoUser]
      /\ req = [r \in Requests |-> NewRequest] /\ lost = {} /\ faults = 0
  BY DEF Init
<1>2. /\ NewRequest \in RequestRecord /\ NewRequest.at = "idle" /\ NewRequest.after = {}
      /\ NewRequest.kind = "register" /\ NewRequest.token = None
  BY DEF NewRequest, RequestRecord, Kinds
<1>3. ASSUME NEW u \in Seeds
      PROVE  /\ u \in Ids /\ u \notin Requests /\ Holds(users[u]) /\ users[u].has["email"] = SeedAddress[u]
             /\ users[u].has["emailToken"] = u /\ users[u].has["verifiedEmail"] = FALSE
             /\ \A f \in Fields : users[u].by[f] = u
  <2> DEFINE V == Addresses \cup Ids \cup BOOLEAN \cup {None}
             has == [f \in Fields |-> CASE f = "email" -> SeedAddress[u]
                                        [] f = "emailToken" -> u
                                        [] OTHER -> FALSE]
             by == [f \in Fields |-> u]
  <2>1. u \in Ids /\ u \notin Requests /\ SeedAddress[u] \in Addresses
    BY EmailAssumption DEF Ids
  <2>2. users[u].has = has /\ users[u].by = by /\ users[u] = [has |-> has, by |-> by]
    BY <1>1, <2>1 DEF Registered
  <2>3. /\ has["email"] = SeedAddress[u] /\ has["emailToken"] = u
        /\ has["verifiedEmail"] = FALSE
    BY DEF Fields
  <2>4. has \in [Fields -> V] /\ by \in [Fields -> Ids]
    BY <2>1
  <2>5. users[u] \in Document
    BY <2>2, <2>4 DEF Document
  <2>6. QED
    BY <2>1, <2>2, <2>3, <2>5 DEF Holds
<1>4. \A u \in Ids \ Seeds : users[u] = NoUser
  BY <1>1
<1>5. Types
  <2>1. \A u \in Ids : users[u] \in Document \cup {NoUser}
    BY <1>3, <1>4 DEF Holds
  <2>2. users \in [Ids -> Document \cup {NoUser}]
    BY <1>1, <2>1
  <2>3. req \in [Requests -> RequestRecord] /\ lost \subseteq DOMAIN mails
    BY <1>1, <1>2
  <2>4. faults \in 0..MaxFaults
    BY <1>1, EmailAssumption
  <2>5. QED
    BY <2>2, <2>3, <2>4, FirstMails DEF Types
<1>6. RequestsSound
  BY <1>1, <1>2, <1>4, EmailAssumption
  DEF RequestsSound, Placed, VerifySound, Snapped, WritesBack, Ids, Answered, Answers
<1>7. ASSUME NEW i \in DOMAIN mails
      PROVE  mails[i].user \in Seeds /\ mails[i].token = mails[i].user
             /\ mails[i].to = SeedAddress[mails[i].user]
  BY FirstMails
<1>8. DocumentsSound
  <2>1. ASSUME NEW u \in Ids, users[u] # NoUser
        PROVE  DocSound(u) /\ DocLast(u)
    <3>1. u \in Seeds
      BY <1>4, <2>1
    <3>2. DocSound(u)
      BY <1>3, <3>1 DEF DocSound, Began, DrawnFor, TokenBy, Fields
    <3>3. DocLast(u)
      BY <1>3, <1>7, <3>1 DEF DocLast, LastAbout, Excused
    <3>4. QED
      BY <3>2, <3>3
  <2>2. QED
    BY <2>1 DEF DocumentsSound
<1>9. MailsSound
  BY <1>3, <1>7 DEF MailsSound, MailSound, Began
<1>10. QED
  BY <1>5, <1>6, <1>8, <1>9 DEF EmailInv

LEMMA NextHolds == EmailInv /\ [Next]_vars => EmailInv'
<1> SUFFICES ASSUME EmailInv, [Next]_vars
             PROVE  EmailInv'
  OBVIOUS
<1>1. ASSUME NEW r \in Requests, Arrive(r) \/ Step(r)
      PROVE  EmailInv'
  BY <1>1, ArriveStays, InsertStays, CheckStays, StoreTokenStays, EmitStays,
     SetVerifiedStays, SetAddressStays, WriteBackStays, DeleteStays DEF Step
<1>2. ASSUME NEW aborted \in SUBSET Running,
             NEW undelivered \in SUBSET (DOMAIN mails \ lost), Fail(aborted, undelivered)
      PROVE  EmailInv'
  BY <1>2, FailStays
<1>3. CASE UNCHANGED vars
  <2>1. users' = users /\ req' = req /\ mails' = mails /\ lost' = lost /\ faults' = faults
    BY <1>3 DEF vars
  <2>2. StepBy({}, {}) /\ PostsNothing
    BY <2>1 DEF StepBy, Forward, Proceeds, Touched, PostsNothing
  <2>3. Types'
    BY <2>1 DEF EmailInv, Types
  <2>4. QED
    BY <2>1, <2>2, <2>3, Quiet
<1>4. QED
  BY <1>1, <1>2, <1>3 DEF Next

\* The inductive invariant: what requests have read, documents and mails say
\* about each other in every state of the requests of src/auth and src/emails.
THEOREM EmailInvariant == Spec => []EmailInv
  BY InitHolds, NextHolds, PTL DEF Spec

---------------------------------------------------------------------------
(* Theorems. *)

\* The variables have their types, and a mail of emails.event-handler carries
\* a token drawn for the user it is about.
THEOREM TypeCorrect == Spec => []TypeOK
<1>1. ASSUME EmailInv
      PROVE  TypeOK
  <2>1. Types /\ MailsSound
    BY <1>1 DEF EmailInv
  <2>2. ASSUME NEW i \in DOMAIN mails
        PROVE  /\ mails[i] \in [user : Ids, to : Addresses, token : Ids]
               /\ \/ mails[i].token = mails[i].user
                  \/ /\ req[mails[i].token].kind = "resend"
                     /\ req[mails[i].token].user = mails[i].user
    <3>1. MailSound(i) /\ mails[i] \in MailRecord
      BY <2>1 DEF Types, MailsSound
    <3>2. QED
      BY <3>1 DEF MailSound, MailRecord
  <2>3. QED
    BY <2>1, <2>2 DEF TypeOK, Types, RequestRecord
<1>2. QED
  BY <1>1, EmailInvariant, PTL

\* verify-user-email: the address of a user verified by a token is the one the
\* token was mailed to, unless it was given by a request that had not ended
\* when the one that drew the token began.
THEOREM VerifiedAddressHadToken == Spec => []VerifiedAddressGotToken
<1>1. ASSUME EmailInv
      PROVE  VerifiedAddressGotToken
  <2>1. DocumentsSound /\ MailsSound
    BY <1>1 DEF EmailInv
  <2>2. ASSUME NEW u \in Live, NEW v, v = users[u].by["verifiedEmail"],
               users[u].has["verifiedEmail"], v # u, req[v].token # None
        PROVE  \E i \in DOMAIN mails :
                 /\ mails[i].user = u /\ mails[i].token = req[v].token
                 /\ \/ users[u].by["email"] = req[v].token
                    \/ Precedes(users[u].by["email"], req[v].token)
                    => mails[i].to = users[u].has["email"]
    <3>1. users[u] # NoUser /\ DocSound(u)
      BY <2>1 DEF Live, DocumentsSound
    <3>2. users[u].has["verifiedEmail"] = TRUE
      BY <2>2, <3>1 DEF DocSound, Holds
    <3>3. PICK i \in DOMAIN mails : mails[i].user = u /\ mails[i].token = req[v].token
      BY <2>2, <3>1, <3>2 DEF DocSound, Mailed
    <3>4. MailSound(i)
      BY <2>1 DEF MailsSound
    <3>5. QED
      BY <3>1, <3>3, <3>4 DEF MailSound
  <2>3. QED
    BY <2>2 DEF VerifiedAddressGotToken
<1>2. QED
  BY <1>1, EmailInvariant, PTL

\* resend-email-verification, update-user and the write-backs: the token of the
\* last mail about a user is stored, but for requests that overlapped the
\* mail's, and for a newer token whose mail is still to come or failed.
THEOREM LastMailCounts == Spec => []LastMailWorks
<1>1. ASSUME EmailInv
      PROVE  LastMailWorks
  <2>1. ASSUME NEW u \in Live, NEW i \in DOMAIN mails, LastAbout(u, i),
               mails[i].token # users[u].has["emailToken"]
        PROVE  \E r \in Requests :
                 \/ WroteToken(r, u) /\ Overlap(r, mails[i].token)
                 \/ r = users[u].has["emailToken"] /\ req[r].at \in {"emit", "error"}
    BY <1>1, <2>1 DEF EmailInv, DocumentsSound, Live, DocLast, Excused
  <2>2. QED
    BY <2>1 DEF LastMailWorks
<1>2. QED
  BY <1>1, EmailInvariant, PTL

---------------------------------------------------------------------------

\* What a write changes, the writer was asked for, or had read before another
\* request, which it overlapped, set the field.
LEMMA SetGives ==
  ASSUME EmailInv, NEW r \in Requests, NEW new, Values(new), Set(r, new),
         req[r].at = "write", req[r].kind # "remove",
         \A f \in DOMAIN new : \/ AsksFor(r, f, new[f])
                               \/ Snapped(r) /\ new[f] = req[r].snap.has[f],
         NEW u \in Live, NEW f \in Fields, users'[u] # NoUser,
         users'[u].has[f] # users[u].has[f]
  PROVE  /\ r \in Running /\ req[r].user = u
         /\ AsksFor(r, f, users'[u].has[f]) \/ Overlap(r, users[u].by[f])
<1>1. DocumentsSound /\ RequestsSound /\ u \in Ids /\ users[u] # NoUser
  BY DEF EmailInv, Live
<1>2. r \in Running
  BY DEF Running, Pending
<1>3. req[r].user = u /\ users'[u] = Assigned(users[u], r, new)
  BY <1>1, SetIs
<1>4. Holds(users[u])
  BY <1>1 DEF DocumentsSound, DocSound
<1>5. f \in DOMAIN new /\ users'[u].has[f] = new[f]
  BY <1>3, <1>4, AssignedIs
<1>6. CASE AsksFor(r, f, new[f])
  BY <1>2, <1>3, <1>5, <1>6
<1>7. CASE Snapped(r) /\ new[f] = req[r].snap.has[f]
  <2>1. SnapSound(r)
    BY <1>1, <1>7 DEF RequestsSound
  <2>2. QED
    BY <1>1, <1>2, <1>3, <1>5, <1>7, <2>1 DEF SnapSound
<1>8. QED
  BY <1>5, <1>6, <1>7

\* The five writers of the three fields: a value that nobody asked for comes
\* back only through a request that overlapped who had set the present one.
THEOREM OldValuesOverlap == Spec => OldValuesNeedOverlap
<1>1. ASSUME EmailInv, [Next]_vars, NEW u \in Live, NEW f \in Fields,
             users'[u] # NoUser, users'[u].has[f] # users[u].has[f]
      PROVE  \E r \in Running :
               /\ req[r].user = u
               /\ AsksFor(r, f, users'[u].has[f]) \/ Overlap(r, users[u].by[f])
  <2>1. users' # users /\ users[u] # NoUser /\ u \in Ids
    BY <1>1 DEF Live
  <2>2. users \in [Ids -> Document \cup {NoUser}] /\ RequestsSound
    BY <1>1 DEF EmailInv, Types
  <2>3. PICK r \in Requests : \/ Insert(r) \/ StoreToken(r) \/ SetVerified(r)
                              \/ SetAddress(r) \/ WriteBack(r) \/ Delete(r)
    <3>1. ~ UNCHANGED users
      BY <2>1
    <3>2. QED
      BY <1>1, <3>1 DEF Next, vars, Step, Arrive, Add, Change, Resend, Verify, Other,
                        Check, Emit, Fail
  <2>4. ~ Insert(r)
    <3>1. req[r].at = "insert" => users[r] = NoUser
      BY <2>2 DEF RequestsSound, Placed
    <3>2. QED
      BY <1>1, <2>1, <2>2, <3>1 DEF Insert
  <2>5. ~ Delete(r)
    <3>1. CASE u = req[r].user
      BY <1>1, <2>1, <2>2, <3>1 DEF Delete
    <3>2. CASE u # req[r].user
      BY <1>1, <2>1, <2>2, <3>2 DEF Delete
    <3>3. QED
      BY <3>1, <3>2
  <2>6. CASE StoreToken(r)
    <3>1. PICK new : new = [g \in {"emailToken"} |-> r]
      OBVIOUS
    <3>2. Set(r, new) /\ req[r].at = "write" /\ req[r].kind = "resend"
      BY <2>6, <3>1 DEF StoreToken, Writes
    <3>3. Values(new) /\ (\A g \in DOMAIN new : AsksFor(r, g, new[g]))
      BY <3>1, <3>2 DEF Values, Fields, AsksFor, Ids
    <3>4. QED
      BY <1>1, <3>2, <3>3, SetGives
  <2>7. CASE SetVerified(r)
    <3>1. PICK new : new = [g \in {"verifiedEmail"} |-> TRUE]
      OBVIOUS
    <3>2. Set(r, new) /\ req[r].at = "write" /\ req[r].kind = "verify"
      BY <2>7, <3>1 DEF SetVerified, Writes
    <3>3. Values(new) /\ (\A g \in DOMAIN new : AsksFor(r, g, new[g]))
      BY <3>1, <3>2 DEF Values, Fields, AsksFor
    <3>4. QED
      BY <1>1, <3>2, <3>3, SetGives
  <2>8. CASE SetAddress(r)
    <3>1. PICK new : new = [g \in IF req[r].address = None THEN {} ELSE {"email"}
                              |-> req[r].address]
      OBVIOUS
    <3>2. /\ Set(r, new) /\ req[r].at = "write" /\ req[r].kind = "edit"
          /\ req[r].address \in Addresses \cup {None}
      BY <1>1, <2>8, <3>1 DEF SetAddress, Writes, EmailInv, Types, RequestRecord
    <3>3. Values(new) /\ (\A g \in DOMAIN new : AsksFor(r, g, new[g]))
      BY <3>1, <3>2 DEF Values, Fields, AsksFor
    <3>4. QED
      BY <1>1, <3>2, <3>3, SetGives
  <2>9. CASE WriteBack(r)
    <3>1. PICK all, new :
            /\ all = [g \in Fields |-> IF Writes(r, "update") /\ g = "email"
                                         THEN req[r].address ELSE req[r].snap.has[g]]
            /\ new = [g \in {h \in Fields : all[h] # None} |-> all[g]]
      OBVIOUS
    <3>2. Set(r, new) /\ req[r].at = "write" /\ req[r].kind \in {"writeBack", "update"}
      <4>1. req[r].at = "write" /\ req[r].kind \in {"writeBack", "update"}
        BY <2>9 DEF WriteBack, Writes
      <4>2. Set(r, new)
        BY <2>9, <3>1, ZenonT(40) DEF WriteBack
      <4>3. QED
        BY <4>1, <4>2
    <3>3. Snapped(r) /\ Values(new)
      BY <1>1, <3>1, <3>2, BackIs, SMTT(40)
    <3>4. ASSUME NEW g \in DOMAIN new
          PROVE  AsksFor(r, g, new[g]) \/ new[g] = req[r].snap.has[g]
      <4>1. new[g] = all[g] /\ g \in Fields
        BY <3>1
      <4>2. CASE Writes(r, "update") /\ g = "email"
        BY <3>1, <4>1, <4>2 DEF AsksFor, Writes
      <4>3. CASE ~ (Writes(r, "update") /\ g = "email")
        BY <3>1, <4>1, <4>3
      <4>4. QED
        BY <4>2, <4>3
    <3>5. QED
      BY <1>1, <3>2, <3>3, <3>4, SetGives
  <2>10. QED
    BY <2>3, <2>4, <2>5, <2>6, <2>7, <2>8, <2>9
<1>2. EmailInv /\ [Next]_vars
        => [\A u \in Live, f \in Fields :
              users'[u] # NoUser /\ users'[u].has[f] # users[u].has[f]
                => \E r \in Running :
                     /\ req[r].user = u
                     /\ AsksFor(r, f, users'[u].has[f]) \/ Overlap(r, users[u].by[f])]_vars
  BY <1>1
<1>3. QED
  BY <1>2, EmailInvariant, PTL DEF Spec, OldValuesNeedOverlap

---------------------------------------------------------------------------
(* Requests about one user that do not overlap. *)

UserInTurn == \A q, r \in Running : q # r => req[q].user # req[r].user

Going == Pending \cup {"ok"}

\* A request that has read user u and goes on, or has ended well.
Spoken == {"resend", "verify", "update", "edit", "writeBack"}
Speaks(r, u) == req[r].kind \in Spoken /\ req[r].at \in Going /\ req[r].user = u

\* Of two such requests one had answered when the other began, and the request
\* that created the user had, too.
Ordered ==
  \A r \in Requests, u \in Ids :
    Speaks(r, u) =>
      /\ u \in Requests => req[u].at \in Answers /\ u \in req[r].after
      /\ \A t \in Requests \ {r} :
           Speaks(t, u) => t \in req[r].after \/ r \in req[t].after

\* So had, when a request that runs began, whoever gave its user a field.
Settled ==
  /\ \A u \in Live, f \in Fields :
       LET giver == users[u].by[f] IN giver \in Running => req[giver].user = u
  /\ \A r \in Running : req[r].user \in Live
       => \A f \in Fields : users[req[r].user].by[f] \in Seeds \cup {r} \cup req[r].after

TurnInv == Ordered /\ Settled

\* A step of a request that has begun.
Advances(r) ==
  /\ r \in Running /\ req[r].user \in Ids
  /\ \A q \in Requests \ {r} : req'[q] = req[q]
  /\ req'[r].after = req[r].after /\ req'[r].at \in Pending \cup Answers
  /\ req'[r].at \in Going => req'[r].kind = req[r].kind /\ req'[r].user = req[r].user
  /\ \A u \in Ids \ {req[r].user} : users'[u] = users[u]
  /\ LET u == req[r].user
     IN users'[u] # NoUser
          => /\ users[u] = NoUser => req[r].at = "insert"
             /\ \A f \in Fields : \/ users[u] # NoUser /\ users'[u].by[f] = users[u].by[f]
                                  \/ users'[u].by[f] = r

LEMMA QuietAdvances ==
  ASSUME EmailInv, NEW r \in Requests, users' = users, req[r].user \in Ids, req[r].at \in Pending,
         \/ \E at \in Answers : Answer(r, at)
         \/ \E at \in Pending : Goto(r, at)
  PROVE  Advances(r)
<1>1. Types
  BY DEF EmailInv
<1>2. /\ \A q \in Requests \ {r} : req'[q] = req[q]
      /\ req'[r].after = req[r].after /\ req'[r].at \in Pending \cup Answers
      /\ req'[r].at \in Going => req'[r].kind = req[r].kind /\ req'[r].user = req[r].user
  BY <1>1, AnswerIs, GotoIs DEF Going, Pending, Answers
<1>3. QED
  BY <1>2 DEF Advances, Running

LEMMA SetAdvances ==
  ASSUME EmailInv, NEW r \in Requests, NEW new, Values(new), Set(r, new),
         req[r].at = "write", req[r].kind # "remove",
         \A q \in Requests \ {r} : req'[q] = req[q],
         req'[r].after = req[r].after, req'[r].at \in {"emit", "ok"},
         req'[r].kind = req[r].kind, req'[r].user = req[r].user
  PROVE  Advances(r)
<1>1. /\ req[r].user \in Ids
      /\ \A x \in Ids \ {req[r].user} : users'[x] = users[x]
      /\ users[req[r].user] = NoUser => users'[req[r].user] = NoUser
      /\ users[req[r].user] # NoUser
           => users'[req[r].user] = Assigned(users[req[r].user], r, new)
  BY SetIs
<1>2. users[req[r].user] # NoUser => Holds(users[req[r].user])
  BY <1>1 DEF EmailInv, DocumentsSound, DocSound
<1>3. ASSUME users[req[r].user] # NoUser, NEW f \in Fields
      PROVE  users'[req[r].user].by[f] \in {users[req[r].user].by[f], r}
  BY <1>1, <1>2, <1>3, AssignedIs
<1>4. QED
  BY <1>1, <1>3 DEF Advances, Running, Pending, Answers

LEMMA StepAdvances ==
  ASSUME EmailInv, NEW r \in Requests, Step(r)
  PROVE  Advances(r)
<1>1. Types /\ Placed(r) /\ (Snapped(r) => SnapSound(r)) /\ req[r] \in RequestRecord
  BY DEF EmailInv, RequestsSound, Types
<1>2. req[r].at \in {"check", "write", "emit", "insert"} => req[r].user \in Ids
  BY <1>1 DEF Placed, Ids
<1>3. ASSUME Answer(r, "ok")
      PROVE  /\ \A q \in Requests \ {r} : req'[q] = req[q]
             /\ req'[r].after = req[r].after /\ req'[r].at = "ok"
             /\ req'[r].kind = req[r].kind /\ req'[r].user = req[r].user
  BY <1>1, <1>3, AnswerIs DEF Answers
<1>4. CASE Check(r)
  BY <1>2, <1>4, QuietAdvances DEF Check, Answers, Pending
<1>5. CASE Emit(r)
  BY <1>2, <1>5, QuietAdvances DEF Emit, Answers, Pending
<1>6. CASE StoreToken(r)
  <2>1. PICK new, s : /\ new = [f \in {"emailToken"} |-> r]
                      /\ s = Assigned(req[r].snap, r, new)
    OBVIOUS
  <2>2. /\ Set(r, new) /\ req[r].at = "write" /\ req[r].kind = "resend"
        /\ req' = [req EXCEPT ![r].at = "emit", ![r].snap = s]
    BY <1>6, <2>1 DEF StoreToken, Writes
  <2>3. Values(new)
    BY <2>1 DEF Values, Fields, Ids
  <2>4. /\ \A q \in Requests \ {r} : req'[q] = req[q]
        /\ req'[r].after = req[r].after /\ req'[r].at = "emit"
        /\ req'[r].kind = req[r].kind /\ req'[r].user = req[r].user
    BY <1>1, <2>2 DEF Types, RequestRecord
  <2>5. QED
    BY <2>2, <2>3, <2>4, SetAdvances
<1>7. CASE SetVerified(r)
  <2>1. PICK new : new = [g \in {"verifiedEmail"} |-> TRUE]
    OBVIOUS
  <2>2. Set(r, new) /\ req[r].at = "write" /\ req[r].kind = "verify" /\ Answer(r, "ok")
    BY <1>7, <2>1 DEF SetVerified, Writes
  <2>3. Values(new)
    BY <2>1 DEF Values, Fields
  <2>4. QED
    BY <1>3, <2>2, <2>3, SetAdvances
<1>8. CASE SetAddress(r)
  <2>1. PICK new : new = [g \in IF req[r].address = None THEN {} ELSE {"email"}
                            |-> req[r].address]
    OBVIOUS
  <2>2. /\ Set(r, new) /\ req[r].at = "write" /\ req[r].kind = "edit" /\ Answer(r, "ok")
        /\ req[r].address \in Addresses \cup {None}
    BY <1>1, <1>8, <2>1 DEF SetAddress, Writes, RequestRecord
  <2>3. Values(new)
    BY <2>1, <2>2 DEF Values, Fields
  <2>4. QED
    BY <1>3, <2>2, <2>3, SetAdvances
<1>9. CASE WriteBack(r)
  <2>1. PICK all, new :
          /\ all = [g \in Fields |-> IF Writes(r, "update") /\ g = "email"
                                       THEN req[r].address ELSE req[r].snap.has[g]]
          /\ new = [g \in {h \in Fields : all[h] # None} |-> all[g]]
    OBVIOUS
  <2>2. /\ Set(r, new) /\ req[r].at = "write" /\ req[r].kind \in {"writeBack", "update"}
        /\ Answer(r, "ok")
    <3>1. req[r].at = "write" /\ req[r].kind \in {"writeBack", "update"} /\ Answer(r, "ok")
      BY <1>9 DEF WriteBack, Writes
    <3>2. Set(r, new)
      BY <1>9, <2>1, ZenonT(40) DEF WriteBack
    <3>3. QED
      BY <3>1, <3>2
  <2>3. Values(new)
    BY <2>1, <2>2, BackIs, SMTT(40)
  <2>4. QED
    BY <1>3, <2>2, <2>3, SetAdvances
<1>10. CASE Delete(r)
  <2>1. /\ Answer(r, "ok") /\ req[r].at = "write" /\ users' = [users EXCEPT ![req[r].user] = NoUser]
    BY <1>10 DEF Delete, Writes
  <2>2. users'[req[r].user] = NoUser /\ \A u \in Ids \ {req[r].user} : users'[u] = users[u]
    BY <1>1, <1>2, <2>1 DEF Types
  <2>3. QED
    BY <1>2, <1>3, <2>1, <2>2 DEF Advances, Running, Pending, Answers
<1>11. CASE Insert(r)
  <2>1. PICK d : d = Registered(r, req[r].address,
                       IF req[r].kind = "register" THEN r ELSE None,
                       req[r].kind = "import")
    OBVIOUS
  <2>2. /\ req[r].at = "insert" /\ users' = [users EXCEPT ![r] = d]
        /\ \/ req' = [req EXCEPT ![r].at = "emit", ![r].snap = users'[r]]
           \/ Answer(r, "ok")
    BY <1>11, <2>1 DEF Insert
  <2>3. req[r].user = r /\ r \in Ids /\ \A f \in Fields : d.by[f] = r
    BY <1>1, <2>1, <2>2 DEF Placed, Ids, Registered
  <2>4. /\ \A q \in Requests \ {r} : req'[q] = req[q]
        /\ req'[r].after = req[r].after /\ req'[r].at \in {"emit", "ok"}
        /\ req'[r].kind = req[r].kind /\ req'[r].user = req[r].user
    <3>1. CASE req' = [req EXCEPT ![r].at = "emit", ![r].snap = users'[r]]
      BY <1>1, <3>1 DEF Types, RequestRecord
    <3>2. CASE Answer(r, "ok")
      BY <1>3, <3>2
    <3>3. QED
      BY <2>2, <3>1, <3>2
  <2>5. users'[r] = d /\ \A u \in Ids \ {r} : users'[u] = users[u]
    BY <1>1, <2>2, <2>3 DEF Types
  <2>6. QED
    BY <2>2, <2>3, <2>4, <2>5 DEF Advances, Running, Pending, Answers
<1>12. QED
  BY <1>4, <1>5, <1>6, <1>7, <1>8, <1>9, <1>10, <1>11 DEF Step

\* The first step of a request.
Arrives(r) ==
  /\ req[r].at = "idle" /\ UNCHANGED <<users, mails>>
  /\ \A q \in Requests \ {r} : req'[q] = req[q]
  /\ req'[r].after = Answered /\ req'[r].at \in (Pending \ {"emit"}) \cup Answers
  /\ req'[r].at \in Pending /\ req'[r].kind \in {"update", "writeBack"}
       => req'[r].snap = users[req'[r].user]
  /\ req'[r].at \in Going /\ req'[r].kind \in Spoken
       => req'[r].at \in Pending /\ req'[r].user \in Live

LEMMA EnterArrives ==
  ASSUME EmailInv, NEW r \in Requests, NEW entered \in RequestRecord, Enter(r, entered),
         UNCHANGED <<users, mails, lost, faults>>,
         entered.at \in (Pending \ {"emit"}) \cup Answers,
         entered.at \in Pending /\ entered.kind \in {"update", "writeBack"}
           => entered.snap = users[entered.user],
         entered.kind \in Spoken /\ entered.at \in Pending => entered.user \in Live,
         entered.at = "ok" => entered.kind \notin Spoken
  PROVE  Arrives(r)
<1>1. /\ req[r].at = "idle" /\ StepBy({r}, {})
      /\ req'[r].at = entered.at /\ req'[r].after = Answered
      /\ IF entered.at \in Pending
           THEN /\ req'[r].kind = entered.kind /\ req'[r].user = entered.user
                /\ req'[r].token = entered.token /\ req'[r].snap = entered.snap
           ELSE \/ /\ req'[r].at = "ok" /\ req'[r].kind = entered.kind
                   /\ req'[r].token = entered.token /\ req'[r].user = entered.user
                \/ req'[r].kind = "register" /\ req'[r].token = None
  BY EnterIs
<1>2. \A q \in Requests \ {r} : req'[q] = req[q]
  BY <1>1 DEF StepBy
<1>3. QED
  BY <1>1, <1>2 DEF Arrives, Going, Spoken

LEMMA ArriveArrives ==
  ASSUME EmailInv, NEW r \in Requests, Arrive(r)
  PROVE  Arrives(r)
<1>0. Types /\ r \in Ids /\ NewRequest \in RequestRecord
  BY DEF EmailInv, Types, NewRequest, RequestRecord, Kinds, Ids
<1>1. ASSUME NEW kind \in Kinds, NEW address \in Addresses \cup {None}, Add(r, kind, address)
      PROVE  Arrives(r)
  <2>1. PICK at, entered :
          /\ at = IF ~ Taken(address) THEN "insert"
                  ELSE IF kind = "import" THEN "ok" ELSE "conflict"
          /\ entered = [NewRequest EXCEPT !.kind = kind, !.user = r, !.address = address,
                                          !.at = at]
          /\ Enter(r, entered) /\ kind \in Creating
          /\ UNCHANGED <<users, mails, lost, faults>>
    BY <1>1 DEF Add, Creating
  <2>2. at \in {"insert", "ok", "conflict"} /\ at \in Pending \cup Answers
    BY <2>1 DEF Pending, Answers
  <2>3. entered = [kind |-> kind, at |-> at, user |-> r, address |-> address,
                    token |-> None, snap |-> NoUser, after |-> {}]
    BY <2>1 DEF NewRequest
  <2>4. /\ entered \in RequestRecord /\ entered.at = at /\ entered.kind = kind
    BY <1>0, <2>2, <2>3, EnteredFields
  <2>5. QED
    BY <2>1, <2>2, <2>4, EnterArrives DEF Creating, Spoken, Pending, Answers
<1>2. ASSUME NEW u \in Ids, NEW kind \in Kinds, NEW address \in Addresses \cup {None},
             Change(r, kind, u, address)
      PROVE  Arrives(r)
  <2>1. PICK at, entered :
          /\ at = IF u \in Live THEN "check"
                  ELSE IF kind = "update" THEN "forbidden" ELSE "notFound"
          /\ entered = [NewRequest EXCEPT !.kind = kind, !.user = u, !.address = address,
                                          !.at = at, !.snap = users[u]]
          /\ Enter(r, entered) /\ UNCHANGED <<users, mails, lost, faults>>
    BY <1>2 DEF Change
  <2>2. at \in {"check", "forbidden", "notFound"} /\ (at = "check" => u \in Live)
    BY <2>1
  <2>3. at \in Pending \cup Answers
    BY <2>2 DEF Pending, Answers
  <2>4. users[u] \in Document \cup {NoUser}
    BY <1>0 DEF Types
  <2>5. entered = [kind |-> kind, at |-> at, user |-> u, address |-> address,
                    token |-> None, snap |-> users[u], after |-> {}]
    BY <2>1 DEF NewRequest
  <2>6. /\ entered \in RequestRecord /\ entered.at = at /\ entered.kind = kind
        /\ entered.user = u /\ entered.snap = users[u]
    BY <1>0, <2>4, <2>5, <2>3, EnteredFields
  <2>7. QED
    BY <2>2, <2>1, <2>6, EnterArrives DEF Pending, Answers
<1>3. ASSUME NEW u \in Ids, Resend(r, u)
      PROVE  Arrives(r)
  <2>1. PICK at, entered :
          /\ at \in {"write", "notFound"} /\ (at = "write" => u \in Live)
          /\ entered = [NewRequest EXCEPT !.kind = "resend", !.user = u,
                                          !.at = at, !.snap = users[u]]
          /\ Enter(r, entered) /\ UNCHANGED <<users, mails, lost, faults>>
    BY <1>3 DEF Resend
  <2>2. users[u] \in Document \cup {NoUser}
    BY <1>0 DEF Types
  <2>3. at \in Pending \cup Answers
    BY <2>1 DEF Pending, Answers
  <2>4. entered = [kind |-> "resend", at |-> at, user |-> u, address |-> None,
                    token |-> None, snap |-> users[u], after |-> {}]
    BY <2>1 DEF NewRequest
  <2>5. /\ entered \in RequestRecord /\ entered.at = at /\ entered.kind = "resend"
        /\ entered.user = u
    BY <1>0, <2>2, <2>4, <2>3, EnteredFields DEF Kinds
  <2>6. QED
    BY <2>1, <2>5, EnterArrives DEF Pending, Answers
<1>4. ASSUME NEW u \in Ids, NEW token \in Known, Verify(r, u, token)
      PROVE  Arrives(r)
  <2>1. PICK at, entered :
          /\ at = IF u \notin Live THEN "error"
                  ELSE IF users[u].has["verifiedEmail"] THEN "conflict"
                  ELSE IF users[u].has["emailToken"] # token THEN "forbidden" ELSE "write"
          /\ entered = [NewRequest EXCEPT !.kind = "verify", !.user = u, !.token = token,
                                          !.at = at]
          /\ Enter(r, entered) /\ UNCHANGED <<users, mails, lost, faults>>
    BY <1>4 DEF Verify
  <2>2. at \in {"error", "conflict", "forbidden", "write"} /\ (at = "write" => u \in Live)
    BY <2>1, Zenon
  <2>3. at \in Pending \cup Answers
    BY <2>2 DEF Pending, Answers
  <2>4. token \in Ids \cup {None}
    <3>1. \A i \in DOMAIN mails : mails[i] \in MailRecord
      BY <1>0 DEF Types
    <3>2. QED
      BY <3>1 DEF Known, MailRecord
  <2>5. entered = [NewRequest EXCEPT !.kind = "verify", !.user = u, !.token = token,
                                     !.at = at]
    BY <2>1, Zenon
  <2>6. Enter(r, entered) /\ UNCHANGED <<users, mails, lost, faults>>
    BY <2>1, Zenon
  <2>7. entered = [kind |-> "verify", at |-> at, user |-> u, address |-> None,
                    token |-> token, snap |-> NoUser, after |-> {}]
    BY <2>5 DEF NewRequest
  <2>8. /\ entered \in RequestRecord /\ entered.at = at /\ entered.kind = "verify"
        /\ entered.user = u
    BY <1>0, <2>4, <2>7, <2>3, EnteredFields DEF Kinds
  <2>9. QED
    BY <2>2, <2>6, <2>8, EnterArrives DEF Pending, Answers
<1>5. ASSUME NEW u \in Ids, NEW kind \in Kinds, Other(r, kind, u)
      PROVE  Arrives(r)
  <2>1. PICK entered :
          /\ entered = [NewRequest EXCEPT !.kind = kind, !.user = u, !.at = "write",
                                          !.snap = users[u]]
          /\ Enter(r, entered) /\ kind \in {"writeBack", "remove"}
          /\ kind = "writeBack" => u \in Live
          /\ UNCHANGED <<users, mails, lost, faults>>
    BY <1>5 DEF Other
  <2>2. users[u] \in Document \cup {NoUser}
    BY <1>0 DEF Types
  <2>3. /\ entered \in RequestRecord /\ entered.at = "write" /\ entered.kind = kind
        /\ entered.user = u /\ entered.snap = users[u]
    BY <1>0, <2>1, <2>2 DEF RequestRecord, Pending, Answers
  <2>4. QED
    BY <2>1, <2>3, EnterArrives DEF Pending, Answers, Spoken
<1>6. QED
  BY <1>1, <1>2, <1>3, <1>4, <1>5 DEF Arrive

\* Who gave a user that is there a field, and who created it, has begun.
LEMMA GiversBegan ==
  ASSUME EmailInv, NEW u \in Live
  PROVE  /\ \A f \in Fields :
              users[u].by[f] \in Seeds \/ (users[u].by[f] \in Requests
                                             /\ req[users[u].by[f]].at # "idle")
         /\ u \in Requests => /\ req[u].at \in Pending \cup Answers
                              /\ req[u].at \in Pending => req[u].user = u
<1>1. DocSound(u) /\ u \in Ids
  BY DEF EmailInv, DocumentsSound, Live
<1>2. u \in Requests => req[u] \in RequestRecord /\ Placed(u)
  BY DEF EmailInv, Types, RequestsSound
<1>3. Began(u) /\ (u \in Requests => req[u].kind \in Creating)
  BY <1>1 DEF DocSound
<1>4. u \in Requests => /\ req[u].at \in Pending \cup Answers
                        /\ req[u].at \in Pending => req[u].user = u
  BY <1>2, <1>3, EmailAssumption DEF Began, RequestRecord, Placed, Pending, Creating
<1>5. ASSUME NEW f \in Fields
      PROVE  users[u].by[f] \in Seeds \/ (users[u].by[f] \in Requests
                                            /\ req[users[u].by[f]].at # "idle")
  BY <1>1, <1>3, EmailAssumption DEF DocSound, Began, Ids
<1>6. QED
  BY <1>4, <1>5

LEMMA ArrivesInTurn ==
  ASSUME EmailInv, TurnInv, UserInTurn', NEW r \in Requests, Arrives(r)
  PROVE  TurnInv'
<1>0. \A q \in Requests : req[q].at \in {"idle"} \cup Pending \cup Answers
  BY DEF EmailInv, Types, RequestRecord
<1>1. ASSUME NEW q \in Running, req'[r].at \in Pending
      PROVE  req[q].user # req'[r].user
  <2>1. q # r /\ req'[q] = req[q]
    BY DEF Arrives, Running, Pending
  <2>2. q \in Running' /\ r \in Running'
    BY <1>1, <2>1 DEF Running
  <2>3. QED
    BY <2>1, <2>2 DEF UserInTurn
<1>2. ASSUME NEW u \in Ids, Speaks(r, u)'
      PROVE  /\ u \in Requests => req'[u].at \in Answers /\ u \in req'[r].after
             /\ \A t \in Requests \ {r} : Speaks(t, u) => t \in req'[r].after
  <2>1. req'[r].at \in Pending /\ req'[r].user = u /\ u \in Live
    BY <1>2 DEF Speaks, Arrives
  <2>2. ASSUME u \in Requests PROVE req'[u].at \in Answers /\ u \in req'[r].after
    <3>1. req[u].at \in Pending \cup Answers /\ (req[u].at \in Pending => req[u].user = u)
      BY <2>1, <2>2, GiversBegan
    <3>2. u \notin Running
      BY <1>1, <2>1, <3>1 DEF Running
    <3>3. QED
      BY <2>2, <3>1, <3>2 DEF Running, Answered, Arrives, Answers
  <2>3. ASSUME NEW t \in Requests, Speaks(t, u) PROVE t \in req'[r].after
    <3>1. t \notin Running
      BY <1>1, <2>1, <2>3 DEF Speaks
    <3>2. QED
      BY <2>3, <3>1 DEF Running, Answered, Arrives, Answers, Speaks, Going
  <2>4. QED
    BY <2>2, <2>3
<1>3. \A q \in Requests \ {r}, u \in Ids : Speaks(q, u)' => Speaks(q, u)
  BY DEF Arrives, Speaks
<1>4. ASSUME NEW q \in Requests \ {r}, NEW u \in Ids, Speaks(q, u)'
      PROVE  /\ u \in Requests => req'[u].at \in Answers /\ u \in req'[q].after
             /\ \A t \in Requests \ {q} :
                  Speaks(t, u)' => t \in req'[q].after \/ q \in req'[t].after
  <2>1. Speaks(q, u) /\ req'[q] = req[q]
    BY <1>3, <1>4 DEF Arrives
  <2>2. u \in Requests => u # r /\ req'[u].at \in Answers /\ u \in req'[q].after
    BY <2>1 DEF TurnInv, Ordered, Arrives, Answers
  <2>3. ASSUME NEW t \in Requests \ {q}, Speaks(t, u)'
        PROVE  t \in req'[q].after \/ q \in req'[t].after
    <3>1. CASE t = r
      BY <1>2, <2>1, <2>3, <3>1
    <3>2. CASE t # r
      <4>1. Speaks(t, u) /\ req'[t] = req[t]
        BY <1>3, <2>3, <3>2 DEF Arrives
      <4>2. QED
        BY <2>1, <2>3, <4>1 DEF TurnInv, Ordered
    <3>3. QED
      BY <3>1, <3>2
  <2>4. QED
    BY <2>2, <2>3
<1>5. Ordered'
  BY <1>2, <1>3, <1>4 DEF Ordered
<1>6. Live' = Live
  BY DEF Arrives, Live
<1>7. ASSUME NEW u \in Live, NEW f \in Fields, users[u].by[f] \in Running'
      PROVE  req'[users[u].by[f]].user = u
  <2>1. users[u].by[f] # r /\ users[u].by[f] \in Requests
    BY <1>7, GiversBegan, EmailAssumption DEF Running, Arrives
  <2>2. users[u].by[f] \in Running
    BY <1>7, <2>1 DEF Running, Arrives
  <2>3. QED
    BY <2>1, <2>2 DEF TurnInv, Settled, Arrives
<1>8. ASSUME NEW q \in Running', req'[q].user \in Live, NEW f \in Fields
      PROVE  users[req'[q].user].by[f] \in Seeds \cup {q} \cup req'[q].after
  <2>1. CASE q # r
    BY <1>8, <2>1 DEF Running, Arrives, TurnInv, Settled
  <2>2. CASE q = r
    <3>1. PICK u, w : u = req'[r].user /\ w = users[u].by[f]
      OBVIOUS
    <3>2. u \in Live /\ req'[r].at \in Pending
      BY <1>8, <2>2, <3>1 DEF Running
    <3>3. w \in Running => req[w].user = u
      BY <3>1, <3>2 DEF TurnInv, Settled
    <3>4. w \notin Running
      BY <1>1, <3>1, <3>2, <3>3
    <3>5. w \in Seeds \/ (w \in Requests /\ req[w].at # "idle")
      BY <3>1, <3>2, GiversBegan
    <3>6. w \in Seeds \cup Answered
      BY <1>0, <3>4, <3>5 DEF Running, Answered
    <3>7. QED
      BY <2>2, <3>1, <3>6 DEF Arrives
  <2>3. QED
    BY <2>1, <2>2
<1>9. Settled'
  BY <1>6, <1>7, <1>8 DEF Settled, Arrives
<1>10. QED
  BY <1>5, <1>9 DEF TurnInv

\* Requests that go on or fail, and documents that at most one of them writes.
LEMMA OrderedGoesOn ==
  ASSUME Ordered,
         \A r \in Requests :
           /\ req[r].at \in Answers => req'[r] = req[r]
           /\ req'[r].after = req[r].after
           /\ \A u \in Ids : Speaks(r, u)' => Speaks(r, u)
  PROVE  Ordered'
<1>1. \A r \in Requests, u \in Ids : Speaks(r, u)' => Speaks(r, u)
  OBVIOUS
<1>2. QED
  BY <1>1 DEF Ordered

LEMMA AdvancesInTurn ==
  ASSUME EmailInv, TurnInv, UserInTurn, NEW r \in Requests, Advances(r)
  PROVE  TurnInv'
<1>1. Ordered'
  <2>1. \A q \in Requests : /\ req[q].at \in Answers => req'[q] = req[q]
                            /\ req'[q].after = req[q].after
    BY DEF Advances, Running, Pending, Answers
  <2>2. ASSUME NEW q \in Requests, NEW u \in Ids, Speaks(q, u)'
        PROVE  Speaks(q, u)
    BY <2>2 DEF Advances, Speaks, Going, Running
  <2>3. QED
    BY <2>1, <2>2, OrderedGoesOn DEF TurnInv
<1>2. \A q \in Running' : q \in Running /\ req'[q].user = req[q].user
                          /\ req'[q].after = req[q].after
  BY DEF Advances, Running, Going
<1>3. ASSUME NEW u \in Live', NEW f \in Fields, users'[u].by[f] \in Running'
      PROVE  req'[users'[u].by[f]].user = u
  <2>1. CASE users'[u].by[f] = r /\ u = req[r].user
    BY <1>2, <1>3, <2>1
  <2>2. CASE users[u] # NoUser /\ users'[u].by[f] = users[u].by[f]
    BY <1>2, <1>3, <2>2 DEF TurnInv, Settled, Live
  <2>3. QED
    BY <1>3, <2>1, <2>2 DEF Advances, Live
<1>4. ASSUME NEW q \in Running', req'[q].user \in Live', NEW f \in Fields
      PROVE  users'[req'[q].user].by[f] \in Seeds \cup {q} \cup req'[q].after
  <2>1. PICK u : u = req[q].user
    OBVIOUS
  <2>2. /\ q \in Running /\ req'[q].user = u /\ u \in Ids /\ users'[u] # NoUser
        /\ req'[q].after = req[q].after
    BY <1>2, <1>4, <2>1 DEF Live
  <2>3. CASE users[u] # NoUser /\ users'[u].by[f] = users[u].by[f]
    BY <2>1, <2>2, <2>3 DEF TurnInv, Settled, Live
  <2>4. CASE users'[u].by[f] = r /\ u = req[r].user
    <3>1. r \in Running /\ req[q].user = req[r].user
      BY <2>1, <2>4 DEF Advances
    <3>2. q = r
      BY <2>2, <3>1 DEF UserInTurn
    <3>3. QED
      BY <2>2, <2>4, <3>2
  <2>5. QED
    BY <2>2, <2>3, <2>4 DEF Advances
<1>5. Settled'
  BY <1>3, <1>4 DEF Settled
<1>6. QED
  BY <1>1, <1>5 DEF TurnInv

LEMMA FailInTurn ==
  ASSUME EmailInv, TurnInv, NEW aborted \in SUBSET Running, NEW undelivered,
         Fail(aborted, undelivered)
  PROVE  TurnInv'
<1>1. ASSUME NEW q \in Requests
      PROVE  IF q \in aborted THEN req'[q].at = "error" /\ req'[q].after = req[q].after
             ELSE req'[q] = req[q]
  <2>1. CASE q \in aborted
    <3>1. PICK e : e = [req[q] EXCEPT !.at = "error"]
      OBVIOUS
    <3>2. e.at = "error" /\ e.after = req[q].after
      BY <3>1 DEF EmailInv, Types, RequestRecord
    <3>3. req'[q] = Kept(e)
      BY <2>1, <3>1 DEF Fail
    <3>4. Kept(e) = [NewRequest EXCEPT !.at = e.at, !.after = e.after]
      BY <3>2 DEF Kept, Pending
    <3>5. QED
      BY <2>1, <3>2, <3>3, <3>4 DEF NewRequest
  <2>2. CASE q \notin aborted
    BY <2>2 DEF Fail
  <2>3. QED
    BY <2>1, <2>2
<1>2. Ordered'
  <2>1. \A q \in Requests : /\ req[q].at \in Answers => req'[q] = req[q]
                            /\ req'[q].after = req[q].after
    BY <1>1 DEF Running, Pending, Answers
  <2>2. ASSUME NEW q \in Requests, NEW u \in Ids, Speaks(q, u)'
        PROVE  Speaks(q, u)
    BY <1>1, <2>2 DEF Speaks, Going, Pending
  <2>3. QED
    BY <2>1, <2>2, OrderedGoesOn DEF TurnInv
<1>3. \A q \in Running' : q \in Running /\ req'[q] = req[q]
  BY <1>1 DEF Running, Pending
<1>4. users' = users /\ Live' = Live
  BY DEF Fail, Live
<1>5. Settled'
  BY <1>3, <1>4 DEF Settled, TurnInv
<1>6. QED
  BY <1>2, <1>5 DEF TurnInv

LEMMA TurnStays == EmailInv /\ TurnInv /\ UserInTurn /\ UserInTurn' /\ [Next]_vars => TurnInv'
<1> SUFFICES ASSUME EmailInv, TurnInv, UserInTurn, UserInTurn', [Next]_vars PROVE TurnInv'
  OBVIOUS
<1>1. ASSUME NEW r \in Requests, Arrive(r) PROVE TurnInv'
  BY <1>1, ArriveArrives, ArrivesInTurn
<1>2. ASSUME NEW r \in Requests, Step(r) PROVE TurnInv'
  BY <1>2, StepAdvances, AdvancesInTurn
<1>3. ASSUME NEW aborted \in SUBSET Running, NEW undelivered, Fail(aborted, undelivered)
      PROVE  TurnInv'
  BY <1>3, FailInTurn
<1>4. CASE UNCHANGED vars
  BY <1>4 DEF vars, TurnInv, Ordered, Speaks, Settled, Live, Running
<1>5. QED
  BY <1>1, <1>2, <1>3, <1>4 DEF Next

LEMMA InitTurn == Init => TurnInv
<1> SUFFICES ASSUME Init PROVE TurnInv
  OBVIOUS
<1>1. \A r \in Requests : req[r].at = "idle"
  BY DEF Init, NewRequest
<1>2. Ordered
  BY <1>1 DEF Ordered, Speaks, Going, Pending
<1>3. Settled
  <2>1. Running = {}
    BY <1>1 DEF Running, Pending
  <2>2. QED
    BY <2>1 DEF Settled
<1>4. QED
  BY <1>2, <1>3 DEF TurnInv

LEMMA TurnAlways == Spec /\ []UserInTurn => []TurnInv
  BY InitTurn, TurnStays, EmailInvariant, PTL DEF Spec

\* When the requests about a user do not overlap, its address, token and flag
\* are only given values that were asked for: writing the whole document back
\* undoes nothing.
THEOREM OnlyAskedInTurn ==
  Spec /\ []UserInTurn
    => [][\A u \in Live, f \in Fields :
            users'[u] # NoUser /\ users'[u].has[f] # users[u].has[f]
              => \E r \in Running :
                   req[r].user = u /\ AsksFor(r, f, users'[u].has[f])]_vars
<1> DEFINE Overlaps ==
             \A u \in Live, f \in Fields :
               users'[u] # NoUser /\ users'[u].has[f] # users[u].has[f]
                 => \E r \in Running :
                      /\ req[r].user = u
                      /\ AsksFor(r, f, users'[u].has[f]) \/ Overlap(r, users[u].by[f])
           Asked ==
             \A u \in Live, f \in Fields :
               users'[u] # NoUser /\ users'[u].has[f] # users[u].has[f]
                 => \E r \in Running :
                      req[r].user = u /\ AsksFor(r, f, users'[u].has[f])
<1>1. ASSUME TurnInv, NEW u \in Live, NEW f \in Fields, NEW r \in Running, req[r].user = u
      PROVE  ~ Overlap(r, users[u].by[f])
  BY <1>1, EmailAssumption DEF TurnInv, Settled, Overlap
<1>2. TurnInv /\ Overlaps => Asked
  BY <1>1
<1>3. Spec => [][Overlaps]_vars
  BY OldValuesOverlap DEF OldValuesNeedOverlap
<1> HIDE DEF Overlaps, Asked
<1>4. Spec /\ []UserInTurn => [][Asked]_vars
  BY <1>2, <1>3, TurnAlways, PTL
<1>5. QED
  BY <1>4 DEF Asked

\* And the token of the last mail about a user is the one that is stored, unless
\* who drew the one that is stored has yet to post it, or failed.
THEOREM LastMailWorksInTurn ==
  Spec /\ []UserInTurn
    => [](\A u \in Live : \A i \in DOMAIN mails :
            LastAbout(u, i) /\ mails[i].token # users[u].has["emailToken"]
              => LET drawer == users[u].has["emailToken"]
                 IN drawer \in Requests /\ req[drawer].at \in {"emit", "error"})
<1> DEFINE Works ==
             \A u \in Live : \A i \in DOMAIN mails :
               LastAbout(u, i) /\ mails[i].token # users[u].has["emailToken"]
                 => LET drawer == users[u].has["emailToken"]
                    IN drawer \in Requests /\ req[drawer].at \in {"emit", "error"}
<1>1. ASSUME EmailInv, TurnInv, NEW u \in Live, NEW i \in DOMAIN mails, LastAbout(u, i),
             NEW r \in Requests, WroteToken(r, u)
      PROVE  ~ Overlap(r, mails[i].token)
  <2>1. PICK t : t = mails[i].token
    OBVIOUS
  <2>2. /\ t = u \/ (t \in Requests /\ req[t].kind = "resend" /\ req[t].user = u)
        /\ t \in Requests => req[t].at = "ok"
    BY <1>1, <2>1 DEF EmailInv, MailsSound, MailSound, LastAbout
  <2>3. Speaks(r, u) /\ u \in Ids
    BY <1>1 DEF WroteToken, Speaks, Spoken, Going, Live
  <2>4. CASE t = u
    BY <1>1, <2>1, <2>3, <2>4 DEF TurnInv, Ordered, Overlap
  <2>5. CASE t \in Requests /\ req[t].kind = "resend" /\ req[t].user = u
    <3>1. Speaks(t, u)
      BY <2>2, <2>5 DEF Speaks, Spoken, Going
    <3>2. QED
      BY <1>1, <2>1, <2>3, <2>5, <3>1 DEF TurnInv, Ordered, Overlap
  <2>6. QED
    BY <2>2, <2>4, <2>5
<1>2. EmailInv /\ TurnInv /\ LastMailWorks => Works
  BY <1>1 DEF LastMailWorks
<1> HIDE DEF Works
<1>3. Spec /\ []UserInTurn => []Works
  BY <1>2, TurnAlways, EmailInvariant, LastMailCounts, PTL
<1>4. QED
  BY <1>3 DEF Works

---------------------------------------------------------------------------
(* A stored token and its mail. *)

\* Token t was mailed to user u, or is excused: who drew it has yet to mail it,
\* was cut off, or is a registration without address.
Due(u, t) ==
  \/ t = None
  \/ Mailed(u, t)
  \/ /\ t \in Requests
     /\ \/ req[t].at = "error"
        \/ req[t].at = "emit" /\ req[t].user = u
        \/ req[t].at = "ok" /\ req[t].kind = "register" /\ req[t].address = None

\* The same after a step.
DueNext(u, t) ==
  \/ t = None
  \/ \E i \in DOMAIN mails' : mails'[i].user = u /\ mails'[i].token = t
  \/ /\ t \in Requests
     /\ \/ req'[t].at = "error"
        \/ req'[t].at = "emit" /\ req'[t].user = u
        \/ req'[t].at = "ok" /\ req'[t].kind = "register" /\ req'[t].address = None

\* A registration mails the address it was sent.
Greets(r) ==
  req[r].at = "emit" /\ req[r].kind = "register" => req[r].snap.has["email"] = req[r].address

\* So it is with every token in a document, and with every token a request is
\* going to put back.
DueInv ==
  /\ \A r \in Requests : Greets(r)
  /\ \A r \in Requests : WritesBack(r) => Due(req[r].user, req[r].snap.has["emailToken"])
  /\ \A u \in Ids : users[u] # NoUser => Due(u, users[u].has["emailToken"])

\* What is due stays so while request r, which has drawn no token, goes on.
LEMMA DueStays ==
  ASSUME NEW r \in Requests, req[r].at \notin {"emit"} \cup Answers, mails' = mails,
         \A q \in Requests \ {r} : req'[q] = req[q],
         NEW u, NEW t, Due(u, t)
  PROVE  DueNext(u, t)
<1>1. CASE t = None \/ Mailed(u, t)
  BY <1>1 DEF Mailed, DueNext
<1>2. CASE /\ t \in Requests
           /\ \/ req[t].at = "error"
              \/ req[t].at = "emit" /\ req[t].user = u
              \/ req[t].at = "ok" /\ req[t].kind = "register" /\ req[t].address = None
  <2>1. t # r
    BY <1>2 DEF Answers
  <2>2. QED
    BY <1>2, <2>1 DEF DueNext
<1>3. QED
  BY <1>1, <1>2 DEF Due

\* What a step of request r has to show.
LEMMA DueGoesOn ==
  ASSUME DueInv, NEW r \in Requests,
         \A q \in Requests \ {r} : req'[q] = req[q],
         \A u, t : Due(u, t) => DueNext(u, t),
         Greets(r)',
         WritesBack(r)' => DueNext(req'[r].user, req'[r].snap.has["emailToken"]),
         \A u \in Ids : users'[u] # NoUser
           => \/ users[u] # NoUser /\ users'[u].has["emailToken"] = users[u].has["emailToken"]
              \/ DueNext(u, users'[u].has["emailToken"])
  PROVE  DueInv'
<1>1. \A q \in Requests : Greets(q)'
  BY DEF DueInv, Greets
<1>2. ASSUME NEW q \in Requests, WritesBack(q)'
      PROVE  DueNext(req'[q].user, req'[q].snap.has["emailToken"])
  BY <1>2 DEF DueInv, WritesBack
<1>3. ASSUME NEW u \in Ids, users'[u] # NoUser
      PROVE  DueNext(u, users'[u].has["emailToken"])
  BY <1>3 DEF DueInv
<1>4. QED
  BY <1>1, <1>2, <1>3 DEF DueInv, Due, DueNext, Mailed

LEMMA ArriveDue ==
  ASSUME EmailInv, DueInv, NEW r \in Requests, Arrive(r)
  PROVE  DueInv'
<1>1. Arrives(r)
  BY ArriveArrives
<1>2. \A u, t : Due(u, t) => DueNext(u, t)
  BY <1>1, DueStays DEF Arrives, Answers
<1>3. Greets(r)'
  BY <1>1 DEF Greets, Arrives, Answers
<1>4. ASSUME WritesBack(r)'
      PROVE  DueNext(req'[r].user, req'[r].snap.has["emailToken"])
  <2>1. /\ req'[r].user \in Live /\ req'[r].snap = users[req'[r].user]
    BY <1>1, <1>4 DEF Arrives, WritesBack, Pending, Going, Spoken
  <2>2. PICK w \in Ids : w = req'[r].user /\ users[w] # NoUser
    BY <2>1 DEF Live
  <2>3. Due(w, users[w].has["emailToken"])
    BY <2>2 DEF DueInv
  <2>4. QED
    BY <1>2, <2>1, <2>2, <2>3
<1>5. QED
  BY <1>1, <1>2, <1>3, <1>4, DueGoesOn DEF Arrives

LEMMA InsertDue ==
  ASSUME EmailInv, DueInv, NEW r \in Requests, Insert(r)
  PROVE  DueInv'
<1>1. Types /\ Placed(r)
  BY DEF EmailInv, RequestsSound
<1>2. PICK d : d = Registered(r, req[r].address, IF req[r].kind = "register" THEN r ELSE None,
                              req[r].kind = "import")
  OBVIOUS
<1>3. /\ req[r].at = "insert" /\ UNCHANGED <<mails, lost, faults>>
      /\ users' = [users EXCEPT ![r] = d]
      /\ \/ /\ req[r].kind = "register"
            /\ req' = [req EXCEPT ![r].at = "emit", ![r].snap = users'[r]]
         \/ req[r].kind # "register" /\ Answer(r, "ok")
  BY <1>2, Zenon DEF Insert
<1>4. /\ r \in Ids /\ req[r].user = r /\ req \in [Requests -> RequestRecord]
      /\ d.has["email"] = req[r].address
      /\ d.has["emailToken"] = IF req[r].kind = "register" THEN r ELSE None
      /\ users \in [Ids -> Document \cup {NoUser}]
  BY <1>1, <1>2, <1>3 DEF Placed, Types, Ids, Registered, Fields
<1>5. /\ users'[r] = d /\ \A u \in Ids \ {r} : users'[u] = users[u]
  BY <1>3, <1>4
<1>6. /\ \A q \in Requests \ {r} : req'[q] = req[q]
      /\ IF req[r].kind = "register"
           THEN /\ req'[r].at = "emit" /\ req'[r].user = r /\ req'[r].snap = d
                /\ req'[r].address = req[r].address
           ELSE req'[r].at = "ok"
  BY <1>1, <1>3, <1>4, <1>5, AnswerIs DEF Answers, RequestRecord
<1>7. \A u, t : Due(u, t) => DueNext(u, t)
  BY <1>3, <1>6, DueStays DEF Answers
<1>8. Greets(r)' /\ ~ WritesBack(r)'
  BY <1>4, <1>6 DEF Greets, WritesBack
<1>9. DueNext(r, d.has["emailToken"])
  BY <1>4, <1>6 DEF DueNext
<1>10. QED
  BY <1>5, <1>6, <1>7, <1>8, <1>9, DueGoesOn

LEMMA CheckDue ==
  ASSUME EmailInv, DueInv, NEW r \in Requests, Check(r)
  PROVE  DueInv'
<1>1. Types /\ req[r].at = "check" /\ UNCHANGED <<users, mails>>
      /\ (Answer(r, "conflict") \/ Goto(r, "write"))
  BY DEF Check, EmailInv
<1>2. /\ \A q \in Requests \ {r} : req'[q] = req[q]
      /\ \/ req'[r].at = "conflict"
         \/ /\ req'[r].at = "write" /\ req'[r].kind = req[r].kind
            /\ req'[r].user = req[r].user /\ req'[r].snap = req[r].snap
  BY <1>1, AnswerIs, GotoIs DEF Answers, Pending
<1>3. \A u, t : Due(u, t) => DueNext(u, t)
  BY <1>1, <1>2, DueStays DEF Answers
<1>4. Greets(r)'
  BY <1>2 DEF Greets
<1>5. WritesBack(r)' => DueNext(req'[r].user, req'[r].snap.has["emailToken"])
  BY <1>1, <1>2, <1>3 DEF DueInv, WritesBack
<1>6. QED
  BY <1>1, <1>2, <1>3, <1>4, <1>5, DueGoesOn

LEMMA StoreTokenDue ==
  ASSUME EmailInv, DueInv, NEW r \in Requests, StoreToken(r)
  PROVE  DueInv'
<1>1. Types /\ DocumentsSound
  BY DEF EmailInv
<1>2. PICK u, new, s : /\ u = req[r].user /\ new = [f \in {"emailToken"} |-> r]
                       /\ s = Assigned(req[r].snap, r, new)
  OBVIOUS
<1>3. /\ Set(r, new) /\ UNCHANGED <<mails, lost, faults>>
      /\ req[r].at = "write" /\ req[r].kind = "resend"
      /\ req' = [req EXCEPT ![r].at = "emit", ![r].snap = s]
  BY <1>2 DEF StoreToken, Writes
<1>4. Values(new) /\ r \in Ids /\ new["emailToken"] = r /\ DOMAIN new = {"emailToken"}
  BY <1>2 DEF Values, Fields, Ids
<1>5. /\ \A x \in Ids \ {u} : users'[x] = users[x]
      /\ u \in Ids
      /\ users[u] = NoUser => users'[u] = NoUser
      /\ users[u] # NoUser => users'[u] = Assigned(users[u], r, new)
  BY <1>2, <1>3, <1>4, SetIs
<1>6. users'[u] # NoUser => users'[u].has["emailToken"] = r
  BY <1>1, <1>4, <1>5, AssignedIs DEF DocumentsSound, DocSound, Fields
<1>7. /\ \A q \in Requests \ {r} : req'[q] = req[q]
      /\ req'[r].at = "emit" /\ req'[r].user = u /\ req'[r].kind = "resend"
  BY <1>1, <1>2, <1>3 DEF Types, RequestRecord
<1>8. \A w, t : Due(w, t) => DueNext(w, t)
  BY <1>3, <1>7, DueStays DEF Answers
<1>9. Greets(r)' /\ ~ WritesBack(r)'
  BY <1>7 DEF Greets, WritesBack
<1>10. DueNext(u, r)
  BY <1>7 DEF DueNext
<1>11. QED
  BY <1>5, <1>6, <1>7, <1>8, <1>9, <1>10, DueGoesOn

\* The mail is posted, unless it is that of a registration without address.
LEMMA EmitDue ==
  ASSUME EmailInv, DueInv, NEW r \in Requests, Emit(r)
  PROVE  DueInv'
<1>1. /\ Emitting(r) /\ users' = users
      /\ mails' = Posted(req[r].user, req[r].snap.has["email"], r)
      /\ \A q \in Requests \ {r} : req'[q] = req[q]
      /\ req'[r].at = "ok" /\ req'[r].kind = req[r].kind
      /\ ~ WritesBack(r)' /\ mails \in Seq(MailRecord)
  BY EmitIs DEF EmailInv, Types
<1>2. req'[r].address = req[r].address
  <2>1. PICK e : e = [req[r] EXCEPT !.at = "ok"]
    OBVIOUS
  <2>2. req[r] \in RequestRecord /\ req \in [Requests -> RequestRecord]
    BY DEF EmailInv, Types
  <2>3. e.at = "ok" /\ e.address = req[r].address /\ e \in RequestRecord
    BY <2>1, <2>2 DEF RequestRecord, Answers
  <2>4. Kept(e) = [e EXCEPT !.snap = NoUser]
    BY <2>3 DEF Kept, Pending
  <2>5. req' = [req EXCEPT ![r] = Kept(e)]
    BY <2>1 DEF Emit, Answer
  <2>6. QED
    BY <2>2, <2>3, <2>4, <2>5 DEF RequestRecord
<1>3. r # None
  BY EmailAssumption DEF Ids
<1>4. PICK w, to : w = req[r].user /\ to = req[r].snap.has["email"]
  OBVIOUS
<1>5. CASE to = None
  <2>1. mails' = mails
    BY <1>1, <1>4, <1>5 DEF Posted
  <2>2. req'[r].kind = "register" /\ req'[r].address = None
    BY <1>1, <1>2, <1>4, <1>5 DEF Emitting, SnapSound, DueInv, Greets
  <2>3. ASSUME NEW u, NEW t, Due(u, t)
        PROVE  DueNext(u, t)
    <3>1. CASE t = r
      BY <1>1, <2>2, <3>1 DEF DueNext
    <3>2. CASE t # r
      BY <1>1, <2>1, <2>3, <3>2 DEF Due, DueNext, Mailed
    <3>3. QED
      BY <3>1, <3>2
  <2>4. QED
    BY <1>1, <2>3, DueGoesOn DEF Greets
<1>6. CASE to # None
  <2>1. PICK mail : mail = [user |-> w, to |-> to, token |-> r]
    OBVIOUS
  <2>2. mails' = Append(mails, mail)
    BY <1>1, <1>3, <1>4, <1>6, <2>1 DEF Posted
  <2>3. /\ \A i \in DOMAIN mails : i \in DOMAIN mails' /\ mails'[i] = mails[i]
        /\ Len(mails) + 1 \in DOMAIN mails' /\ mails'[Len(mails) + 1] = mail
    BY <1>1, <2>2
  <2>4. ASSUME NEW u, NEW t, Due(u, t)
        PROVE  DueNext(u, t)
    <3>1. CASE Mailed(u, t)
      BY <2>3, <3>1 DEF Mailed, DueNext
    <3>2. CASE t = r /\ ~ Mailed(u, t) /\ t # None
      <4>1. w = u
        BY <1>1, <1>4, <2>4, <3>2 DEF Due, Emitting
      <4>2. QED
        BY <2>1, <2>3, <3>2, <4>1 DEF DueNext
    <3>3. CASE t # r /\ ~ Mailed(u, t)
      BY <1>1, <2>4, <3>3 DEF Due, DueNext
    <3>4. QED
      BY <3>1, <3>2, <3>3, <1>3
  <2>5. QED
    BY <1>1, <2>4, DueGoesOn DEF Greets
<1>7. QED
  BY <1>5, <1>6

\* A write gives the user the token that the request puts back, or leaves it.
LEMMA SetDue ==
  ASSUME EmailInv, DueInv, NEW r \in Requests, NEW new, Values(new), Set(r, new),
         req[r].at = "write", req[r].kind # "remove", Answer(r, "ok"), mails' = mails,
         "emailToken" \in DOMAIN new
           => WritesBack(r) /\ new["emailToken"] = req[r].snap.has["emailToken"]
  PROVE  DueInv'
<1>1. Types /\ DocumentsSound
  BY DEF EmailInv
<1>2. PICK u : u = req[r].user
  OBVIOUS
<1>3. /\ \A x \in Ids \ {u} : users'[x] = users[x]
      /\ u \in Ids
      /\ users[u] = NoUser => users'[u] = NoUser
      /\ users[u] # NoUser => users'[u] = Assigned(users[u], r, new)
  BY <1>2, SetIs
<1>4. /\ \A q \in Requests \ {r} : req'[q] = req[q]
      /\ req'[r].at = "ok"
  BY <1>1, AnswerIs DEF Answers
<1>5. \A w, t : Due(w, t) => DueNext(w, t)
  BY <1>4, DueStays DEF Answers
<1>6. Greets(r)' /\ ~ WritesBack(r)'
  BY <1>4 DEF Greets, WritesBack
<1>7. ASSUME users'[u] # NoUser
      PROVE  \/ users[u] # NoUser /\ users'[u].has["emailToken"] = users[u].has["emailToken"]
             \/ DueNext(u, users'[u].has["emailToken"])
  <2>1. users[u] # NoUser /\ Holds(users[u]) /\ users'[u] = Assigned(users[u], r, new)
    BY <1>1, <1>3, <1>7 DEF DocumentsSound, DocSound
  <2>2. CASE "emailToken" \in DOMAIN new
    <3>1. users'[u].has["emailToken"] = req[r].snap.has["emailToken"]
      BY <2>1, <2>2, AssignedIs DEF Fields
    <3>2. Due(u, req[r].snap.has["emailToken"])
      BY <1>2, <2>2 DEF DueInv
    <3>3. QED
      BY <1>5, <3>1, <3>2
  <2>3. CASE "emailToken" \notin DOMAIN new
    BY <2>1, <2>3, AssignedIs DEF Fields
  <2>4. QED
    BY <2>2, <2>3
<1>8. QED
  BY <1>3, <1>4, <1>5, <1>6, <1>7, DueGoesOn

LEMMA WritesDue ==
  ASSUME EmailInv, DueInv, NEW r \in Requests,
         SetVerified(r) \/ SetAddress(r) \/ WriteBack(r) \/ Delete(r)
  PROVE  DueInv'
<1>1. CASE SetVerified(r)
  <2>1. PICK new : new = [f \in {"verifiedEmail"} |-> TRUE]
    OBVIOUS
  <2>2. Values(new) /\ "emailToken" \notin DOMAIN new
    BY <2>1 DEF Values, Fields
  <2>3. QED
    BY <1>1, <2>1, <2>2, SetDue DEF SetVerified, Writes
<1>2. CASE SetAddress(r)
  <2>1. PICK new : new = [f \in IF req[r].address = None THEN {} ELSE {"email"} |-> req[r].address]
    OBVIOUS
  <2>2. Values(new) /\ "emailToken" \notin DOMAIN new
    BY <2>1 DEF Values, Fields, EmailInv, Types, RequestRecord
  <2>3. QED
    BY <1>2, <2>1, <2>2, SetDue DEF SetAddress, Writes
<1>3. CASE WriteBack(r)
  <2>1. PICK all, new :
          /\ all = [f \in Fields |-> IF Writes(r, "update") /\ f = "email"
                                       THEN req[r].address ELSE req[r].snap.has[f]]
          /\ new = [f \in {g \in Fields : all[g] # None} |-> all[f]]
    OBVIOUS
  <2>2. /\ Set(r, new) /\ Answer(r, "ok") /\ mails' = mails
        /\ req[r].at = "write" /\ req[r].kind \in {"writeBack", "update"}
    BY <1>3, <2>1 DEF WriteBack, Writes
  <2>3. QED
    BY <2>1, <2>2, BackIs, SetDue
<1>4. CASE Delete(r)
  <2>1. /\ Types /\ Placed(r) /\ req[r].at = "write" /\ req[r].kind = "remove"
        /\ users' = [users EXCEPT ![req[r].user] = NoUser] /\ mails' = mails
        /\ Answer(r, "ok")
    BY <1>4 DEF EmailInv, RequestsSound, Delete, Writes
  <2>2. \A u \in Ids : users'[u] # NoUser => users'[u] = users[u]
    BY <2>1 DEF Types
  <2>3. (\A q \in Requests \ {r} : req'[q] = req[q]) /\ req'[r].at = "ok"
    BY <2>1, AnswerIs DEF Answers
  <2>4. \A u, t : Due(u, t) => DueNext(u, t)
    BY <2>1, <2>3, DueStays DEF Answers
  <2>5. Greets(r)' /\ ~ WritesBack(r)'
    BY <2>3 DEF Greets, WritesBack
  <2>6. QED
    BY <2>2, <2>3, <2>4, <2>5, DueGoesOn
<1>5. QED
  BY <1>1, <1>2, <1>3, <1>4

\* Requests that are cut off excuse the tokens they have drawn.
LEMMA FailDue ==
  ASSUME EmailInv, DueInv, NEW aborted \in SUBSET Running,
         NEW undelivered \in SUBSET (DOMAIN mails \ lost), Fail(aborted, undelivered)
  PROVE  DueInv'
<1>1. /\ users' = users /\ mails' = mails
      /\ \A q \in Requests \ aborted : req'[q] = req[q]
      /\ \A q \in aborted : req'[q] = Kept([req[q] EXCEPT !.at = "error"])
      /\ aborted \subseteq Requests /\ Types
  BY DEF Fail, EmailInv, Running
<1>2. ASSUME NEW q \in aborted
      PROVE  req'[q].at = "error"
  <2>1. PICK e : e = [req[q] EXCEPT !.at = "error"]
    OBVIOUS
  <2>2. e.at = "error"
    BY <1>1, <2>1 DEF Types, RequestRecord
  <2>3. Kept(e) = [NewRequest EXCEPT !.at = e.at, !.after = e.after]
    BY <2>2 DEF Kept, Pending
  <2>4. [NewRequest EXCEPT !.at = e.at, !.after = e.after].at = "error"
    BY <2>2 DEF NewRequest
  <2>5. req'[q] = Kept(e)
    BY <1>1, <2>1, Zenon
  <2>6. QED
    BY <2>3, <2>4, <2>5, Zenon
<1>3. \A u, t : Due(u, t) => DueNext(u, t)
  BY <1>1, <1>2 DEF Due, DueNext, Mailed
<1>4. ASSUME NEW q \in Requests
      PROVE  /\ Greets(q)'
             /\ WritesBack(q)' => DueNext(req'[q].user, req'[q].snap.has["emailToken"])
  <2>1. CASE q \in aborted
    BY <1>2, <2>1 DEF Greets, WritesBack
  <2>2. CASE q \notin aborted
    BY <1>1, <1>3, <2>2 DEF DueInv, Greets, WritesBack
  <2>3. QED
    BY <2>1, <2>2
<1>5. ASSUME NEW u \in Ids, users'[u] # NoUser
      PROVE  DueNext(u, users'[u].has["emailToken"])
  BY <1>1, <1>3, <1>5 DEF DueInv
<1>6. QED
  BY <1>4, <1>5 DEF DueInv, Due, DueNext, Mailed

LEMMA InitDue == Init => DueInv
<1> SUFFICES ASSUME Init
             PROVE  DueInv
  OBVIOUS
<1>1. \A r \in Requests : req[r].at = "idle"
  BY DEF Init, NewRequest
<1>2. ASSUME NEW u \in Ids, users[u] # NoUser
      PROVE  Due(u, users[u].has["emailToken"])
  <2>1. u \in Seeds /\ users[u].has["emailToken"] = u
    BY <1>2 DEF Init, Registered, Fields
  <2>2. \E i \in DOMAIN mails : mails[i].user = u /\ mails[i].token = u
    BY <2>1, FirstMails
  <2>3. QED
    BY <2>1, <2>2 DEF Due, Mailed
<1>3. QED
  BY <1>1, <1>2 DEF DueInv, Greets, WritesBack

\* register-user stores the token, then mails it, as resend-email-verification
\* does: a user whose token was never posted is one whose request was cut off
\* between the two, or has yet to post it, or who registered without address.
THEOREM StoredTokensArePosted == Spec => []TokensArePosted
<1>1. EmailInv /\ DueInv /\ [Next]_vars => DueInv'
  <2> SUFFICES ASSUME EmailInv, DueInv, [Next]_vars
               PROVE  DueInv'
    OBVIOUS
  <2>1. ASSUME NEW r \in Requests, Arrive(r) \/ Step(r)
        PROVE  DueInv'
    BY <2>1, ArriveDue, InsertDue, CheckDue, StoreTokenDue, EmitDue, WritesDue DEF Step
  <2>2. ASSUME NEW aborted \in SUBSET Running,
               NEW undelivered \in SUBSET (DOMAIN mails \ lost), Fail(aborted, undelivered)
        PROVE  DueInv'
    BY <2>2, FailDue
  <2>3. CASE UNCHANGED vars
    BY <2>3 DEF vars, DueInv, Due, Mailed, Greets, WritesBack
  <2>4. QED
    BY <2>1, <2>2, <2>3 DEF Next
<1>2. DueInv => TokensArePosted
  BY DEF DueInv, Due, Mailed, TokensArePosted, Live
<1>3. QED
  BY <1>1, <1>2, InitDue, EmailInvariant, PTL DEF Spec

============================================================================
