---------------------------- MODULE Credentials ----------------------------
(***************************************************************************)
(* The other requests that write the documents of password recovery: the   *)
(* change with the old password, the reset with a mailed link, the update  *)
(* of one's own data, and writes of the password alone (administrators,    *)
(* customer events).                                                       *)
(*                                                                         *)
(* The first three read a document, change it in memory and hand all of it *)
(* to findOneAndUpdate, so they write recovery fields and a password that  *)
(* may have changed since they read them.                                  *)
(***************************************************************************)
EXTENDS Recovery

CONSTANTS
  Writers,
  WriterKinds,
  LinkTtl      \* expiresIn '15m'

ASSUME CredentialsAssumption ==
  /\ Writers \cap (Requests \cup {Original, Wrong}) = {}
  /\ WriterKinds \subseteq {"change", "link", "update", "set"}
  /\ LinkTtl \in Nat \ {0}

VARIABLES
  writer,   \* the requests
  stored,   \* accounts whose recovery fields have been written once
  links     \* signed links: the account and the deadline

allVars == <<vars, writer, stored, links>>

\* snap and before are kept: the document and the spent secrets at the time
\* of the read.  A document nobody has stored a code in has no recovery fields.
NewWriter ==
  [kind |-> "change", email |-> NoEmail, at |-> "idle", snap |-> NewUser,
   hasFields |-> FALSE, before |-> {}]

Read(w, kind, u) ==
  /\ writer[w].at = "idle"
  /\ kind \in WriterKinds
  /\ writer' = [writer EXCEPT ![w] =
       [kind |-> kind, email |-> u, at |-> "write", snap |-> users[u],
        hasFields |-> u \in stored, before |-> spent]]
  /\ UNCHANGED <<vars, stored, links>>

Forbidden(w, kind) ==
  /\ writer[w].at = "idle"
  /\ kind \in WriterKinds
  /\ writer' = [writer EXCEPT ![w].at = "forbidden"]
  /\ UNCHANGED <<vars, stored, links>>

\* The old password is compared with the document that was read.
ChangeWithOld(w, u, old) ==
  IF old = users[u].password THEN Read(w, "change", u) ELSE Forbidden(w, "change")

\* A signed link names the account and its deadline; it is not recorded, so
\* it may be used again.
MailLink(u) ==
  /\ "link" \in WriterKinds
  /\ links' = links \cup {[email |-> u, until |-> now + LinkTtl]}
  /\ UNCHANGED <<vars, writer, stored>>

ResetWithLink(w, link) ==
  IF now < link.until THEN Read(w, "link", link.email)
  ELSE Forbidden(w, "link")

\* Mutants of Merged: a secret the snapshot lacks is not written; the expiries
\* are not written; the update of one's data writes the absent password; the
\* reset by link writes the password it has read.
MergedSkipsUnset(user, w) ==
  LET snap == writer[w].snap
  IN IF writer[w].kind = "set" THEN [user EXCEPT !.password = w]
     ELSE [user EXCEPT !.hash = IF snap.hash = NoSecret THEN @ ELSE snap.hash,
             !.proof = IF snap.proof = NoSecret THEN @ ELSE snap.proof]
MergedKeepsExpiry(user, w) ==
  LET snap == writer[w].snap
  IN IF writer[w].kind = "set" \/ ~ writer[w].hasFields
       THEN [user EXCEPT !.password = w]
     ELSE [snap EXCEPT !.expiresAt = user.expiresAt,
                       !.proofExpiresAt = user.proofExpiresAt]
MergedDropsPassword(user, w) ==
  [writer[w].snap EXCEPT !.password =
     IF writer[w].kind = "update" THEN NoSecret ELSE w]

MergedForgetsLink(user, w) ==
  LET snap == writer[w].snap
  IN IF writer[w].kind \in {"set", "change"} THEN [user EXCEPT !.password = w]
     ELSE [user EXCEPT !.password = snap.password]

\* The new document as the update's arguments determine it.  A field that the
\* document read did not have is not written; a block is such a field until
\* there is one.
Merged(user, w) ==
  LET snap == writer[w].snap
      password == IF writer[w].kind = "update" THEN snap.password ELSE w
  IN IF writer[w].kind = "set" THEN [user EXCEPT !.password = w]
     ELSE IF writer[w].hasFields THEN [snap EXCEPT !.password = password]
     ELSE [user EXCEPT !.password = password, !.attempts = snap.attempts,
             !.blockedUntil =
               IF snap.blockedUntil = Never THEN @ ELSE snap.blockedUntil]

Write(w) ==
  LET u == writer[w].email
  IN /\ writer[w].at = "write"
     /\ users' = [users EXCEPT ![u] = Merged(@, w)]
     /\ writer' = [writer EXCEPT ![w].at = "ok"]
     /\ UNCHANGED <<limiterVars, req, delivered, spent, stored, links>>

\* A step of password recovery; the first code of an account brings the
\* recovery fields into its document.
RecoveryStep ==
  /\ Next
  /\ stored' = stored \cup {u \in Accounts : users'[u].hash # NoSecret}
  /\ UNCHANGED <<writer, links>>

---------------------------------------------------------------------------

CredentialsInit ==
  /\ Init
  /\ writer = [w \in Writers |-> NewWriter]
  /\ stored = {}
  /\ links = {}

CredentialsNext ==
  \/ RecoveryStep
  \/ \E u \in Accounts : MailLink(u)
  \/ \E w \in Writers :
       \/ \E u \in Accounts : \E old \in {users[u].password, Wrong} :
            ChangeWithOld(w, u, old)
       \/ \E link \in links : ResetWithLink(w, link)
       \/ \E u \in Accounts, kind \in {"update", "set"} : Read(w, kind, u)
       \/ Write(w)

CredentialsSpec == CredentialsInit /\ [][CredentialsNext]_allVars

---------------------------------------------------------------------------
(* Properties. *)

SecretsIn(user) == {user.hash, user.proof} \ {NoSecret}

Passwords == Requests \cup Writers \cup {Original}

\* The variables have their types, a request that has read is about an
\* account, and a document that holds a secret has had its fields stored.
CredentialsTypeOK ==
  /\ \A w \in Writers :
       /\ writer[w].at \in {"idle", "write", "ok", "forbidden"}
       /\ writer[w].at \in {"write", "ok"}
            => writer[w].kind \in WriterKinds /\ writer[w].email \in Accounts
       /\ writer[w].before \subseteq spent
       /\ [writer[w].snap EXCEPT !.password = Original] \in UserRecord
  /\ \A u \in Accounts :
       /\ users[u].password \in Passwords
       /\ [users[u] EXCEPT !.password = Original] \in UserRecord
       /\ SecretsIn(users[u]) # {} => u \in stored
  /\ links \subseteq [email : Accounts, until : Nat]

\* A consumed secret is in a document again only because a request that had
\* read it before it was consumed wrote the whole document back: recovery
\* itself never revives one.
RevivedByWriteBack ==
  \A u \in Accounts : \A s \in SecretsIn(users[u]) \cap spent :
    \E w \in Writers : /\ writer[w].at = "ok"
                       /\ writer[w].email = u
                       /\ s \in SecretsIn(writer[w].snap)
                       /\ s \notin writer[w].before

\* A password is set by the request that brought it; it comes back only with
\* an update of one's data that had read it before the present one was set:
\* the changes and the resets, which write whole documents too, bring none back.
PasswordsReturnByUpdate ==
  [][\A u \in Accounts :
       LET p == users'[u].password
       IN p # users[u].password
            => \/ p \in Requests /\ req[p].at = "burn" /\ req[p].email = u
               \/ \E w \in Writers :
                    /\ writer[w].at = "write" /\ writer'[w].at = "ok"
                    /\ writer[w].email = u
                    /\ p = w \/ (writer[w].kind = "update"
                                 /\ writer[w].snap.password = p)]_allVars

===========================================================================
