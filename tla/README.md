# TLA+ verification of the authentication service

The repository is a NestJS service that registers and logs in users, lets them
recover a password, and keeps organizations, participants (the membership of a
user in an organization) and profiles. Its state is in MongoDB (through
Mongoose) and, for the rate limiter of password recovery, in Redis. Several
requests run at once: each handler is an `async` function, so every `await` is
a point where other requests of the same process, other processes of the same
deployment, the clock and failures interleave. No handler uses a transaction,
a unique index or a compare-and-set.

This directory holds TLA+ modules of that program, TLC configurations that
check them on small instances, and TLAPS proofs. All paths below are relative
to the repository.

## Inventory

| Component | State | Operations | Interacts with | Hard to test |
|---|---|---|---|---|
| OTP rate limiter, `src/recovery/services/otp-rate-limit.service.ts` | Redis keys per document: generate counter, validate counter, failure counter, lock | assertGenerateAllowed, assertValidateAllowed, registerValidateFailure, clearValidateFailures | called by the three recovery services | every operation is several Redis commands; commands fail, lose their answer or run twice; deadlines pass in between |
| Password recovery, `src/recovery` | recovery fields of the user document: code hash, its expiry, reset proof with its own copy of the expiry, attempts, block | generate-code, validate-code, change-password | limiter, user repository, mail service | decisions on a snapshot, unconditional writes after further awaits, failure after the write |
| Registration and administration of users, `src/auth/usecases/commands/{register-user,update-user}`, `src/admin/users` | e-mail, document, phone of user documents; the first participant | register, update-user, admin create, update, remove, list | e-mail events, participants | check-then-write on three identifiers; two collections without a transaction |
| Sequential index, `src/auth/database/providers/schema/user.schema.ts`, `scripts/add-indexes-migration.ts` | `index` of user documents | pre-save hook, migration | every creation of a user | maximum-plus-one read before the write |
| Customer synchronisation, `src/customers` | user documents | upsert on customer.created and customer.updated | Redis pub/sub | duplicated, reordered, overlapping events |
| Password change and reset by link, `src/auth/usecases/commands/{change-user-password,reset-password}` | `password` | change with the old password; mail a 15 minute JWT; set with the JWT | recovery, through the user document | the whole document is written back |
| E-mail verification, `src/auth/usecases/commands/verify-user-email`, `src/auth/services/resend-email-verification.service.ts` | emailToken, verifiedEmail | verify, resend | every request that creates a user or writes its e-mail, or the whole document; e-mail events | a token judged on a document read before the write; two tokens stored and mailed in different orders |
| Login and token contents, `src/auth/services` | none (reads) | login, login without metadata, refresh-token-info | users, participants, organizations | three resolutions of the same accesses; several reads of collections that change |
| Accesses, `src/accesses` | none (reads) | get-access, get-accesses | participants, organizations | a fourth resolution of the same accesses |
| Organizations and participants, `src/organizations`, `src/admin/organizations` | organizations, participants | create, update, remove, bulk insert | login and accesses | check-then-create by name; read-merge-save of metadata |
| Commission configuration, `src/organizations/participants/utils` | metadata of participants | applyCommissionDefaults, mergeMetadata | admin participants | what a partial update keeps |
| Profiles, `src/profiles` | participants | get, put (upsert) | accesses, removal of users | two overlapping upserts; access that is lost between check and write; a user that is gone |
| E-mail events, `src/emails` | none | three event handlers | mail service | failures nobody awaits |
| CSV export, `src/admin/users/users.service.ts` | the file `exports/users.csv` | export | the upload service | two exports share the file while one is streamed |
| Guards, core, bootstrap | none | | | |

What makes each component correct:

* **Limiter**: a bounded number of admissions in any interval; no key is
  refused for ever; enough failures lead to a lockout; a lockout holds.
* **Recovery**: a document holds one secret at a time; a consumed secret is
  gone; a secret dies with its code's lifetime; tokens are accepted only in
  time and for the account they were drawn for; every judged token was counted;
  every request is answered.
* **Accounts**: two users share an identifier or an index only when their
  writers overlapped, or when a writer that does not check (the customer
  upsert) wrote it; a participant outlives its user only through a create or a
  put that overlapped the removal, or a put that came after it.
* **Credentials**: a password that was changed comes back only through an
  overlapping update of the profile, a consumed secret only through an
  overlapping write-back.
* **E-mail verification**: a verified address is the one the token was mailed to,
  unless it was given after the token was drawn (then the old token verifies it,
  overlap or not); a stored token was mailed, unless its request was cut off; the
  token of the last mail works unless requests overlapped; an old address, token
  or flag comes back only between requests that overlapped.
* **Accesses**: a user without contradicting participants gets the same
  organizations from every login and from the refresh, or, when a participant has
  no organization, none from any login; nothing is told that no document ever
  supported, nothing is left out that held all the time.
* **Participants, commission, profiles**: a second profile of a user in an
  organization, an equal name, a profile without access or a lost field of a
  configuration needs requests that overlapped (or an update that moves a
  participant, an owner who names an organization); merging keeps what an update
  does not mention.

## Modules

| Module | Models | State |
|---|---|---|
| `OtpRateLimit` | the limiter, one action per Redis command | written, checked |
| `OtpRateLimitProofs` | its theorems | proved |
| `SecretExchange` | what recovery promises about its secrets, as an abstract specification | written |
| `Recovery` | the three recovery services over the limiter (`Limiter == INSTANCE OtpRateLimit WITH Calls <- Requests`); implements `SecretExchange` (`Secrecy == INSTANCE SecretExchange WITH ...`) | written, checked |
| `RecoveryProofs` | its theorems | proved |
| `RecoveryLimiterProofs` | what the limiter's theorems give recovery, and what recovery gives the limiter | proved |
| `Credentials` | the other requests that write a password, next to those of `Recovery` (`EXTENDS Recovery`) | written, checked |
| `CredentialsProofs` | its theorems | proved |
| `EmailVerification` | the e-mail address, its token and the flag verifiedEmail, every request that writes one of them, and the mails | written, checked |
| `EmailVerificationProofs` | its theorems | proved |
| `Accounts` | registration, administration, customer events and the index migration over the user collection | written, checked |
| `AccountsProofs` | its theorems | proved |
| `CommissionConfig` | defaults and merge of a participant's commissionConfig, as operators | written, proved about |
| `Participants` | organizations, participants and profiles as overlapping requests (`EXTENDS CommissionConfig`) | written, checked |
| `ParticipantsProofs` | its theorems | proved |
| `Accesses` | the four resolutions of a user's organizations and roles while the requests of `Participants` run (`EXTENDS Participants`) | written, checked |
| `AccessesProofs` | theorems about every reader, about logins, and about the merge | proved |
| `MCOtpRateLimit`, `MCRecovery`, `MCCredentials`, `MCEmailVerification`, `MCAccounts`, `MCParticipants`, `MCAccesses` | symmetry sets, the throttle key function, seeds and payloads for TLC | |

### OtpRateLimit

`redis` maps a key, `<<kind, document>>` with kind `gen`, `val`, `lock` or
`fail`, to a value and a deadline; `Never` is a key without one. `call` is what
each process is doing: the operation, the document and the command it is about
to send. `granted` is a history: the times at which each gate admitted a call
of each document. `now` is the clock, `faults` how often Redis has failed.

| Action | Code |
|---|---|
| `Begin` | entry of one of the four operations |
| `GetLock` | `redis.get(lockKey)` in assertValidateAllowed |
| `Incr`, `Expire` | the two commands of assertThrottle and of registerValidateFailure; EXPIRE follows only the INCR that drew 1 |
| `SetLock`, `Del` | `SET lock 1 EX ...` and the DEL after it; the DEL of both keys in clearValidateFailures |
| `Fail` | a command throws: withRedis turns it into 503; the command ran or did not |
| `Resend` | ioredis repeats a command whose answer was lost (`maxRetriesPerRequest`), so its effect may happen twice |
| `Tick` | time passes; Redis purges keys whose deadline is reached |

Redis is external; its semantics (INCR keeps the deadline, SET with EX sets it,
EXPIRE on a missing key does nothing) is that of `InMemoryRedisLike`, the
in-memory stand-in the repository ships, and agrees with Redis on these
commands. `Spec` lets a process make any number of calls, one after the other;
`OneShotSpec` allows one per process and is what TLC runs, because it loses no
interleaving of a bounded number of calls. A theorem (`OneShotIsSpec`) states
that it is a restriction of `Spec`.

### Recovery

`users` holds the recovery fields and the password of each account, `req` each
request with its snapshot of the document and its program counter, `delivered`
the secrets that have reached their owner, `spent` (history) the secrets that
an accepted request consumed. A secret is named by the request that drew it, so
it is fresh; a six-digit collision is not modelled. One action per stretch
between two awaits:

| Action | Code |
|---|---|
| `Start` | findByEmail, then the call of the limiter's gate |
| `Refused` | the gate throws (429 or 503) |
| `GenerateUnknown`, `DrawCode`, `StoreCode`, `Mail` | create-recovery-generate-code |
| `TokenForUnknown`, `Judge`, `Miss`, `BurnCode` | post-recovery-validate-code (the first three also change-password) |
| `ChangePassword` | update-password-with-code |
| `FailureRegistered`, `FailuresCleared` | the answer after the last call of the limiter |
| `Abort` | MongoDB rejects the update, or the process restarts |

A write whose answer is lost equals a write followed by `Abort`, which the model
has. A request presents a secret that was delivered, or `Wrong`.

### SecretExchange

An account accepts at most one secret, up to a deadline; a fresh secret is
accepted for at most `Ttl`; whoever was given one may exchange it for another
with the same deadline, or for a new password, after which the account accepts
none; a secret that was replaced never comes back. It has no limiter, no
requests and no snapshots: one step draws a secret and stores it. The mapping
reads the documents for what an account accepts (`Accepts`) and the requests for
what was or may be given (`Given`): a request that judged a token has settled
its terms, and its write is the exchange. The abstract specification does not
promise that a secret is exchanged once: two requests judged on the same
document both write (finding 2).

### Credentials

The module adds to `Recovery` the requests `writer` that change a password
without a code: with the old password, with a mailed link, through the update of
one's own data (which writes the password it has read), and plain writes of the
password (`"set"`: administrators, customer events). `Merged` is what the code's
`findOneAndUpdate({ _id }, user)` does with a hydrated document: every field the
document had when it was read is written, with the value it had then. A document
in which no code was ever stored has no secret or expiry to write, only
`otpAttempts` (`stored` remembers who has).

| Action | Code |
|---|---|
| `ChangeWithOld` | findByEmail and compareSync in change-user-password |
| `MailLink`, `ResetWithLink` | request-reset-email signs a 15 minute JWT; request-reset-password verifies it and reads the user. The JWT is not recorded anywhere, so a link may be used again until it expires |
| `Read` | the read of update-user, and the arrival of a plain write |
| `Write` | the `findOneAndUpdate` that ends all of them |
| `RecoveryStep` | any step of `Recovery` |

### EmailVerification

`users` holds of each user its address, its token and its flag, and (history)
who gave each its value; `req` the requests, with the document they read and
(history) the requests that had answered before they began; `mails` the mails in
the order they were posted, `lost` those that never arrive. A mail that is late is
one whose token nobody presents yet. A token is named by the request that drew it.

| Action | Code |
|---|---|
| `Add`, `Insert` | register-user, admin create, the customer event: look-up and insert; only a registration draws a token, a customer counts as verified |
| `Resend`, `StoreToken`, `Emit` | resend-email-verification: read, `findByIdAndUpdate`, the event with the document that was read |
| `Verify`, `SetVerified` | verify-user-email: the token is compared on the document read, the flag is set by id |
| `Change`, `Check`, `WriteBack`, `SetAddress` | update-user (whole document) and the administrators' update (what was sent) |
| `Other`, `WriteBack`, `Delete` | password change and reset by link, which write the whole document back; removal |
| `Fail` | MongoDB rejects a command; or the process ends, with the requests it ran and the mails it was posting: the handlers in `src/emails` are not awaited, so a rejected mail is an unhandled rejection |

Of the identifiers only the address is looked up here (`Accounts` has all of
them), and the participant of the administrators' update is left out. What a
request that has ended had read is forgotten (`Kept`).

### Accounts

`users` is the collection, one record per user with what each attribute holds
and (history) which requests wrote it; `profiles` the users with a participant;
`req` the requests with their program counters and (history) the requests each
one overlapped. A user is named by the request that created it.

| Action | Code |
|---|---|
| `Register`, `Create`, `Update`, `Edit`, `Event`, `RemoveAccount`, `Migrate` | the first step of register-user, admin create, update-user, admin update, the customer event handler, admin remove, the migration script |
| `Lookup`, `Check` | the look-ups of identifiers, one step per query |
| `Number`, `Insert`, `InsertProfile` | the pre-save hook's read of the greatest index, the insert, the participant created last |
| `WriteBack`, `WriteGiven`, `WriteProfile`, `SaveCustomer` | the writes of update-user (whole document), admin update, customer upsert (changed fields; the metadata, and in it the customer id that was read, as a whole) |
| `PutProfile`, `UpsertProfile` | `PUT profiles`, which upserts a participant of the user its token or its body names and looks no user up |
| `RemoveProfiles`, `RemoveUser` | deleteMany of the participants, then the user |
| `ReadMax`, `AssignNumber` | the migration's read of the greatest index, and one update per user |
| `Abort` | MongoDB fails or the process stops |

Points of the code the model takes over as they are: the update of one's own
data looks its e-mail up without leaving the user itself out; the look-up of its
option `findDuplicates` is `findOne({ where: ... })`, a filter on a field called
`where`, and finds nobody; `undefined` fields are stripped from filters and
updates by Mongoose; the migration takes old users in any order because
`createdAt` defaults to a date evaluated once, at start-up. Restrictions: one
organization; `findDuplicates` is sent together with the field it names (alone, it
would erase the field); of a participant only its existence, which the look-ups of
`PUT profiles` for an organization do not bear on (a refused request writes
nothing). Seeds have a participant each. What a request that
has ended had read is forgotten (`Ended`). An attribute that a request writes
back as it has read it, in the whole document or past a look-up that it skips, counts
as copied: the history keeps the earlier writers next to the request (`Over`).

### Participants and CommissionConfig

`participants`, `orgs` and `users` are the collections (of a user only its
identifiers), `req` the requests. A participant has its scalars (identifiers,
role, organization), its user, its metadata and (history, `by`) the requests
that wrote each field of its commissionConfig; `met` (history) says which
requests overlapped. A commissionConfig is a function from field paths to
values, with `Unset` for a field that is not there; what an object without fields
and an absent object have in common is all the code looks at.

| Action | Code |
|---|---|
| `AddParticipant`, `SetParticipant`, `RemoveParticipant`, `EraseParticipant` | POST, PATCH and DELETE of organizations/:o/participants |
| `InsertParticipant`, `FindParticipant`, `SaveParticipant`, `DeleteParticipant` | the administrators' bulk insert, update (findById, merge, save) and deletion |
| `PutProfile`, `CheckOwner`, `Upsert`, `InsertProfile` | put-profile: two look-ups, then the upsert, whose search and insertion are two steps because no index is unique |
| `Found`, `AdminFound`, `InsertOrg`, `Rename`, `Dissolve` | organizations: created by their owner or by administrators (name looked up first), updated, deleted |
| `EditUser`, `WriteUser`, `WriteProfile` | the participant's part of the administrators' update of a user |

Taken over as they are: a deletion by an administrator and an update ignore the
organization in the path; deleting an organization leaves its participants;
`save` writes the fields that differ from what was read, the metadata as a whole;
`PUT profiles` and the administrators' update of a user replace the metadata; the
latter, sent without an organization, takes any participant of the user (the filter
loses the field), and writes the organization it was sent after two more awaits, so
it moves a participant back that was moved meanwhile. `PUT profiles` sets the body as
it is, since no pipe strips it: besides the metadata the identifiers are among what
it writes. That the body may also replace the user and the organization it names,
after they were taken from the token and the header, is any user and organization
of the action. A bulk insert is modelled for one participant.

The documentation of the partial update (`src/docs/api_documentation.md:518`) says
that defaults are applied to the new fields only. The code applies them to the
merged configuration (`applyCommissionDefaults` at the end of `mergeMetadata`), and
so does `Merge`: `MergeCompletes` says that afterwards no field with a default is
missing or null, sent or not. No stored value is lost by it (`MergeKeepsFields`).

### Accesses

`reader` is what each reader has read so far, one step per query; `seen` is a
history of what held since it started: every holding (`held`), and those that
held all the time (`kept`, `owned`). Where several participants fit, the code
takes the first of an unsorted result, so the model takes any.

| Action | Code |
|---|---|
| `Login`, `ReadPrimary`, `ReadSecondary`, `CheckOwned`, `ReadOrgs` | login-user (Passos 1 to 7), and its copy in the administrators' users.service |
| `Refresh`, `ReadRelations`, `ReadRefreshOrgs` | refresh-token-info |
| `GetAccess`, `ReadParticipant` | get-access |
| `GetAccesses`, `ReadParticipants`, `ReadOwned`, `ReadListOrgs` | get-accesses; its two parallel queries end in either order, the organizations of the participants are read in one step |

The resolutions differ, and the model keeps the differences: login and refresh go
by identifiers, the other two by userId; only the login compares the other
identifiers, and only for its secondary matches; a participant without a role is
`member` at login and `owner` elsewhere. And only the login, with its copy, takes
`String(organizationId)`: of a participant without organization that is the string
`undefined` or `null`, which the query for organizations rejects, so the login
answers 500 (`Unreadable`) where the refresh answers with the other organizations.
Such participants are ordinary: an administrators' create without an organization
makes one. No code sets `deletedAt`, so the filters
on it are left out. A user without any identifier (whose refresh fails) is not
modelled.

## Runs

| Run | Shows | Bounds |
|---|---|---|
| `OtpRateLimit.cfg` | type, burst bound, lockouts hold, whatever fails; while Redis answers, deadlines, refusals that end, failures that lead to a lockout | 4 calls on 1 key, limits 2, window 2, 1 fault, time 0..4 |
| `OtpRefusalForever.cfg` | violated: "try again within 1 hour" | 2 calls, 1 fault |
| `Recovery.cfg` | implements `SecretExchange`; a consumed secret is gone; tokens are accepted in time, judged tokens are counted, lockouts lifted by success only | 3 requests, 1 account, lifetimes 1, time 0..1 |
| `RecoveryFaults.cfg` | implements `SecretExchange` across accounts with one fault; every request is answered | 2 requests, 2 accounts and an unknown address, 1 fault, time 0..1 |
| `RecoverySingleUse.cfg` | violated: "Single-use OTP" | 3 requests |
| `Credentials.cfg` | write-backs keep one secret at a time and the lifetimes of secrets; only they revive a consumed one, and only the profile update an earlier password | 2 recovery requests, 1 other of every kind, 1 account, time 0..1 |
| `EmailVerification.cfg` | a verified address is the one mailed, or was given after the token was drawn; a stored token was posted, unless its request was cut off; last mails and old values go wrong only between requests that overlap | 3 requests of every kind, 1 registered user, 2 addresses, 1 fault |
| `EmailChangeUnmailed.cfg` | violated: "Envia novo e-mail de verificação quando o e-mail do usuário é alterado" | 3 updates or resends |
| `Accounts.cfg` | type; duplicates and equal numbers need an overlap or a customer event; a participant loses its user only by an overlap or a put after the removal; after a migration everybody has a number; a request changes what it was asked to | 3 requests of every kind, 2 users without a number, 1 fault |
| `AccountsSequential.cfg` | violated: "numérico sequencial (1, 2, 3...)" | 2 registrations |
| `Participants.cfg` | second profiles, equal names, profiles without access and lost fields need an overlap, an update that moves, or an owner who names | 3 requests of every kind, 1 user, 2 organizations, 1 participant |
| `Accesses.cfg` | answers are what held at some moment, and all that held throughout, unless a login fails; logins and refresh agree, or all logins fail | 1 reader of every kind, 2 requests, 2 participants, 2 organizations |

**Bounds.** A key's behaviour depends on no other key, except that an account's
address selects it, so one key with the calls that share it is the interesting
case; `RecoveryFaults` adds two accounts behind one key. Four calls with limit
2 reach a full window, its end and a full next one (2 * Limit admissions, of which
`BoundedBurst` allows one less in a window), and enough failures for a lockout
with two calls racing to count them; one fault is a lost deadline, a lost lock or
a command that ran twice. The lockout outlives or is outlived by the window in
different runs (`Lockout` 1 and 2 against `Window` 2). Three requests are one
generate, and two that race for its code, or a generate, a validate and a
change. In `Credentials` one write-back next to a generate and a validate is the
smallest run in which a burned code returns. In `EmailVerification` an old token
comes back when two resends overlap, or a resend and a write-back; a third
request verifies with it, or asks for another mail. In `Accounts` a duplicate takes two requests and an update that puts an
old value back past a look-up takes three; the two users at the start are old
ones without a number, so that a migration can stop, or be overtaken, between two of
them; the payloads give one phone and one e-mail to compete for. An orphan takes two
requests: a removal and what overlaps it, or a put that comes after it. In `Participants` a lost
field takes two updates, or a replacement next to a merge; the stored
configuration has a rule, a payment field and a commission, the payloads touch
each of them, one with a null; of the two organizations one holds the participant, so
that a profile can be moved away and back. In `Accesses` the user is a member of one
organization through two participants, one by e-mail and one by phone and as a
profile, and owns the other; two requests can move, remove or rename what a reader
has read. `MaxTime` bounds the clock
and is large enough for a window to end and begin again; `MaxFaults` bounds the
number of faults. `CHECK_DEADLOCK FALSE` is set because a run ends when the
clock and the requests are used up.

**Symmetry.** Calls and requests are interchangeable (the run that checks
liveness, `RecoveryFaults`, has no symmetry).

**Fairness.** `RecoveryFaults` checks that every request is answered, under weak
fairness of each request's next step, which includes its steps in the limiter: an `async` function is
resumed once its awaited promise settles, ioredis settles every command (with
an error after its retries), Mongoose and axios settle every call. Nothing is
assumed of the clock, of the arrival of requests or of faults.

## Findings

1. **A counter that never expires** (`RefusalIsTemporary` with a fault): only
   the INCR that draws 1 is followed by EXPIRE. When the EXPIRE fails, or the
   first INCR runs twice, the key refuses its document for ever, although the
   message says to try again within an hour. As long as Redis has not failed the
   property holds (`RefusalIsTemporaryWithRedis`), and is proved.
2. **Codes used twice** (`CodeUsedOnce`): a comment calls the code single-use;
   two overlapping requests that read the same document both succeed, because
   the write does not compare. The reset proof is consumed the same way by
   change-password. What holds is `SpentIsGone`: no request that reads the
   document after the burn is accepted with that secret, as long as only the
   recovery services write it. A password change, a reset by link or a profile
   update that read the document before the burn writes the code, or the proof,
   back (and the profile update an old password, `PasswordsReturnByUpdate`);
   `RevivedByWriteBack` says that nothing else revives one, and
   `SecretsExpireWithTheirCode` that its deadline is still that of the code it
   stems from. `ConsumedOnceInTurn` and `NothingRevivedInTurn` say which overlaps
   it takes.
3. **Duplicate numbers** (`NumbersUnique`): two overlapping creations draw the
   same index, which is documented as sequential. Identifiers are no different:
   two overlapping registrations of one e-mail both succeed, since no index is
   unique. What holds is `NumbersNeedOverlap` and `DuplicatesNeedOverlap`, and
   what would hold if those requests took turns is `NumbersUniqueInTurn` and
   `IdentifiersUniqueInTurn`.
4. **A new address is not mailed** (`NewAddressIsMailed`): the documentation of
   the event `users.update-email` says a verification is mailed when the address
   changes; neither update emits it, and neither takes `verifiedEmail` away, so a
   changed address stays verified. Nor does either replace the token: a token
   mailed to the old address verifies the new one, with no overlap at all.
   `VerifiedAddressGotToken` says that this, an address given after the token was
   drawn, is the only way another address than the one mailed is verified.

The limiter's comments speak of at most 3 requests an hour in a sliding window;
its window is fixed, and `BoundedBurst` (2 * MAX - 1 calls in any hour, proved)
is the bound it keeps.

## Proofs

Eight modules hold theorems; each proves its results for every value of the
constants that the module's named assumption allows, with no bound on requests,
documents or time. The runs check the same formulas on small instances first.

Most properties of the document collections excuse what happens when requests
overlap (`NumbersNeedOverlap`, `OldValuesNeedOverlap`, ...), because nothing in
the code keeps requests apart. The theorems whose names end in `InTurn` say the
other half: what holds without an excuse in the behaviours in which certain
requests do not overlap. Their hypothesis names the requests and nothing else
is restricted: the clock, faults, and every other request run as in `Spec`. It
says what a lock or a transaction around those requests would give, and that
those are the requests it would have to hold. Each hypothesis is a state
predicate that holds at the start and in every behaviour where the named requests
take turns, retries and failures included. The runs `recovery_single_use` and
`accounts_sequential` show that without it the conclusion is false.

### The limiter

| Theorem of `OtpRateLimitProofs` | Property |
|---|---|
| `TypeCorrect` | `TypeOK` |
| `BurstIsBounded` | `BoundedBurst` |
| `LockoutHolds` | `LockHolds` |
| `ReliableCountersExpire` | `CountersExpire` |
| `ReliableRefusal` | `RefusalIsTemporaryWithRedis` |
| `ReliableFailuresLock` | `FailuresLock` |

`BoundedBurst` is not inductive: it speaks of the history only, and nothing in
it keeps the next admission apart from the earlier ones. The invariant `Paced`
ties the history to the counter: the admissions of the current window are at
most the counter's value, those that are older lie before it, and the counter's
deadline is at least a window after its first admission. The last three
properties speak of the time before the first fault (`faults = 0`); they rest on
`OwedInv` (every counter without a deadline has exactly the calls in flight that
owe it one) and `DeadlineInv` (a deadline is never further away than its time to
live).

### Recovery

| Theorem of `RecoveryProofs` | Property |
|---|---|
| `TypeCorrect` | `TypeOK` |
| `ConsumedIsGone` | `SpentIsGone` |
| `HoldsOneSecret` | `OneSecretAtATime` |
| `ExpiresWithCode` | `SecretsExpireWithTheirCode` |
| `AcceptsInTime` | `AcceptedInTime` |
| `RecoveryKeepsSecrets` | `KeepsSecrets`, the refinement of `SecretExchange` |
| `ConsumedOnceInTurn` | no secret is accepted and consumed twice, if `DecideInTurn` |
| `CodeUsedOnceInTurn` | `CodeUsedOnce`, if `DecideInTurn` |

That every behaviour of `Recovery` is one of the limiter holds by construction,
since recovery takes the limiter's steps from an instance of it; the lemma
`RecoveryUsesLimiter` says so, to carry the limiter's theorems over. The invariant `SecretInv`
has the documents (`DocumentsSound`: one secret, named by a request that drew it
for this account, with the deadline of its code), the requests (`RequestsSound`:
the snapshot of a request was a sound document, and what a request that judged
its token is about to write follows from it), and that what was delivered or
consumed was drawn. `SpentIsGone` alone is not inductive: a request that read
the document before the burn and has yet to write would bring the secret back;
`RequestsSound` says that what it writes is fresh. The refinement maps a step
that draws a secret, and one that judges a token, to a stutter or a change of
what may be given, and the write to the exchange.

`CodeUsedOnce` is what the run `recovery_single_use` refutes. `DecideInTurn` says
that of the requests that present a token for one address, no two are between
the look-up of the document and the write that removes the secret; up to that
write only, the answer may come later, and generates may overlap anything. Then
what a request has read is not consumed (`ReadsFresh`) and no two requests have
consumed the same (`UsedApart`).

### Recovery with its limiter

| Theorem of `RecoveryLimiterProofs` | Property |
|---|---|
| `RecoveryBurstIsBounded` | `BoundedBurst` of the limiter inside recovery |
| `RecoveryLimiterRecovers` | `CountersExpire`, `RefusalIsTemporaryWithRedis` and `FailuresLock` of it |
| `OnlySuccessLiftsLock` | `LockLiftedBySuccess` |
| `JudgedCounted` | `JudgedAreCounted` |
| `NobodyStrands` | at every await a request has a step of its own or a command in flight, and no command outlives its request |

`LimiterInside` composes the two: that recovery uses the limiter (`UsesLimiter`) carries every theorem about the
limiter over to whatever uses it (`LimiterBounds`, `LimiterLocks`,
`LimiterRecovers`), provided the limits and times it is given are those the limiter
assumes (`LimiterAssumption`). None of these proofs asks what a document holds: of
the requests they need the fields (`Shaped`), and a step may be one of recovery or
of anybody who leaves the limiter and the requests of recovery alone (`AnyStep`).
So the same lemmas serve `Spec` and, below, `CredentialsSpec`. `LockHolds` alone says that a
clearing call may delete a lock; which requests make such a call is recovery's
part. `TiedInv` ties the call to its request: at the gate a request calls for
its own key, and it clears only after it has consumed a secret. For
`JudgedAreCounted` the requests past the gate, judged or not yet (`Through`), are
counted against the numbers drawn: a request joins them only with the INCR that
drew one, and no later step, not even of a request whose EXPIRE is resent, adds
one.

`NobodyStrands` is the safety half of `RequestsAnswered`: the limiter answers a
call in one of six ways, recovery handles two to four of them at each await, and a
pair that neither side expects would leave a request waiting for good. `WaitInv`
says which operation a request awaits at each place (`Awaited`) and that its call
is on the course of that operation (`Course`: the commands it sends and the ends
it can come to), faults and resent commands included. What fairness adds stays
with TLC.

### Credentials

| Theorem of `CredentialsProofs` | Property |
|---|---|
| `CredentialsTyped` | `CredentialsTypeOK` |
| `OnlyWriteBackRevives` | `RevivedByWriteBack` |
| `WriteBackHoldsOneSecret` | `OneSecretAtATime` |
| `WriteBackKeepsDeadlines` | `SecretsExpireWithTheirCode` |
| `WriteBackAcceptsInTime` | `AcceptedInTime` |
| `OnlyUpdatesReturnPasswords` | `PasswordsReturnByUpdate` |
| `NothingRevivedInTurn` | `SpentIsGone`, if `BurnsApart` |
| `NoPasswordReturnsInTurn` | every new password is the one its request brought, if `BurnsApart` and `UpdatesApart` |
| `CredentialsLimited` | `BoundedBurst`, `CountersExpire`, `RefusalIsTemporaryWithRedis` and `FailuresLock` of the limiter |
| `OthersLiftNoLock` | `LockLiftedBySuccess` |
| `WriteBackIsJudgedCounted` | `JudgedAreCounted` |
| `OthersStrandNobody` | what `NobodyStrands` says of recovery alone |

Writing whole documents back costs recovery `SpentIsGone`, and with it the
refinement of `SecretExchange`; `RevivedByWriteBack` takes its place. The invariant
`CredentialsInv` keeps `DocumentsSound` and `RequestsSound` of `RecoveryProofs`
and adds `WritersSound`: the document a writer has read was sound, and what was
consumed in it by then another writer had brought back (`Carries`); what is
consumed later the writer itself revives. That a write-back does not mix two
generations rests on `Fielded`: where a secret is held, or has been read, a code
was once stored, and from then on every document that is read has hash, expiry and
proof to write.

`BurnsApart`: while a writer of an account is between its read and its write, no
recovery request of that account is at the point of being written. That one
overlap is all that revives a secret: without it neither a document nor a
document on its way back holds one (`SpentNowhere`). `UpdatesApart`: nor is an
update of one's data about to write next to a request that sets the password;
two updates may overlap, and so may two requests that set it. Then an update
still holds the present password when it writes it (`UpdatesFresh`).

The limiter loses nothing: the other requests do not call it, and they change no
request of recovery (`WritersSpareLimiter`), so each of its steps is an `AnyStep`
and the lemmas of `RecoveryLimiterProofs` apply. A document put back revives its
secret, but a token that is compared with it has still gone through the gate of
its key, a lockout is still lifted only by a request of recovery that consumed a
secret, and no request waits for an answer that never comes.

### E-mail verification

| Theorem of `EmailVerificationProofs` | Property |
|---|---|
| `TypeCorrect` | `TypeOK` |
| `VerifiedAddressHadToken` | `VerifiedAddressGotToken` |
| `LastMailCounts` | `LastMailWorks` |
| `StoredTokensArePosted` | `TokensArePosted` |
| `OldValuesOverlap` | `OldValuesNeedOverlap` |
| `OnlyAskedInTurn` | address, token and flag change only as asked, if `UserInTurn` |
| `LastMailWorksInTurn` | the last mail's token is the stored one unless the mail of the stored one is still to come or failed, if `UserInTurn` |

The assumption is that the users at the start are finitely many, named apart from
the requests, and have addresses. `LastMailWorks` speaks of documents and mails
only; what decides it is on the way in the requests: the token a write-back has
read, and the mail a resend has yet to post. The invariant `EmailInv` says of each
request what it has read (`SnapSound`: each field is still what the user holds, or
another request it overlapped has given the user's), of each document who gave it
its token (`DocSound`, `TokenBy`), of each mail whose token it carries and to which
address it went (`MailSound`), and of the last mail about a user that its token is
the stored one or is excused, for the document (`DocLast`) and for the token a
write-back is going to put back (`SnapLast`). When a mail is posted it becomes the
last, and the excuses of every other request that runs are that it overlaps the
one that mails. Each step is of one form (`StepBy`): a few requests go on, those that
write are running, and what the others claim stays true (`OthersStay`,
`LastsStay`).

This proof corrected a property: `LastMailWorks` had excused only the request that
gave the user the token that is stored. That can be a write-back which began after
the last mail and puts back the token of a resend that had overlapped it; the case
takes four requests, one more than the run has.

`TokensArePosted` is the other side of a lost mail: a token is stored before its mail
is posted, so which stored tokens was nobody mailed? One whose request has yet to
post it, or was cut off in between; one a registration without address drew, which
has nowhere to post it; no other, although a write-back may store again a token it
read long before. `DueInv` says it of what the write-backs have read too (`Due`), and
that a request past its write has its token to post (`Greets`).

`UserInTurn` says that the requests that run are about different users; requests
about two users still overlap in every way. Then whoever gave a user a field, and
whoever drew a mail's token, had answered before the next one about that user
began (`Settled`, `Ordered`), so the overlap the other theorems excuse cannot be.
What remains of `LastMailWorksInTurn` is failure: a token is stored before its mail
is posted.

### Accounts

| Theorem of `AccountsProofs` | Property |
|---|---|
| `TypeCorrect` | `TypeOK` |
| `DuplicatesOnlyByOverlap` | `DuplicatesNeedOverlap` |
| `NumbersOnlyByOverlap` | `NumbersNeedOverlap` |
| `NumberedAfterAnyMigration` | `NumberedAfterMigration` |
| `OrphansOnlyByOverlap` | `OrphansNeedOverlap` |
| `OnlyAskedChanges` | `ChangesAreAskedFor` |
| `NumbersUniqueInTurn` | `NumbersUnique`, if the requests that write a number run one at a time |
| `IdentifiersUniqueInTurn` | e-mail, document and phone are unique but for those a customer event gave, if registrations, creates, updates and edits run one at a time |
| `NoOrphansInTurn` | every participant has its user, if no removal runs beside an administrators' create or `PUT profiles` (`Apart(ProfileKinds, {"remove"})`), and profiles are put only of users that exist (`PutsAreOfUsers`) |
| `NothingLostInTurn` | a value changes only to one that is sent, if the requests that write users, removals aside, run one at a time |

That two users share an attribute only past an overlap says nothing about the
requests on their way. The invariant `AccountsInv` adds a claim for each of
them: about every value it is going to write, either nobody has it, or the
request has yet to look it up, or it overlapped who wrote it, or that was an
event (`Claims`); the same for the number it has read and for the users the
migration has yet to number (`Numbering`), and for participants that are being
removed (`Orphans`). `OrphansNeedOverlap` is a property of the steps: a user that
is gone may have a participant already, by a put that came after the removal. A step changes one request and one user; what the others
claim stays true because a step only adds overlaps, and a writer overlaps
whoever runs. The greatest number exists because the users are finite.

The proof changed the model: an update that skips the look-up of a value because
it equals what was read hands on that value, so its earlier writers have to stay
in the history; without them `DuplicatesNeedOverlap` was false, with four
requests, which is more than TLC had explored.

The four theorems `InTurn` rest on who wrote what: every value in a document, and
in what an update has read, was given by a request of a kind that writes it
(`AuthorsInv`). An overlap with one of those is then an overlap of two kinds the hypothesis keeps
apart (`Apart`, from which `NeverMet`). The other kinds may overlap each other and
them: numbers need the five kinds that write one kept apart, orphans only removals
from creates and puts. For orphans that is not enough, because `PUT profiles` looks
no user up: with a token that outlives the user, or another user in its body, it
leaves an orphan without any overlap; `PutsAreOfUsers` excludes exactly this.

### Participants

| Theorem of `ParticipantsProofs` | Property | Assumption |
|---|---|---|
| `TypeCorrect` | `TypeOK` | |
| `ProfilesOnlyByOverlap` | `ProfilesNeedOverlap` | `SeedsDiffer` |
| `NamesOnlyByOverlap` | `NamesNeedOverlap` | `SeedsDiffer` |
| `ProfilesOnlyWithAccess` | `ProfilesNeedAccess` | |
| `UpdatesKeepFields` | `UpdateKeepsFields` | |
| `ProfilesUniqueInTurn` | one profile per user and organization unless an update moved one there, if no two requests that put a profile overlap | `SeedsDiffer` |
| `NamesUniqueInTurn` | names are unique, if administrators found organizations in turn and owners neither found nor rename any | `SeedsDiffer` |
| `UpdatesLoseNothingInTurn` | an administrators' update changes a field that is set only to what it was sent, if it overlaps no request that writes a commissionConfig | `SeedsUnwritten` |

`SeedsDiffer` says of the documents at the start what the two properties say:
no user has two profiles in an organization, no two organizations share a name.
The invariant `ParticipantsInv` has the same form as that of `Accounts`: `Claims`
says of a request between its reads and its write which profiles it could clash
with (`Placed`, `Rivals`, `Edits`), what its snapshot has kept and who has changed
it since (`Merges`), on what its access rests (`Supported`), and which names it
has looked up (`Namesakes`). Every action is shown to be of one form (`Acts`): one
request begins or goes on, one document at most changes, everybody's overlaps
grow; that the claims of the others survive is proved once, from this form.

This proof changed the model too: an administrators' edit of a user writes the
organization it was sent, which an overlapping merge may have replaced
meanwhile; the property had excused the merge only. The runs now have two
organizations, so that TLC meets this case.

The theorems `InTurn` are about the same kinds of overlap as in `Accounts`; here
the documents name who created them (`CreatorsKnown`) and who wrote each field
(`ConfigsAuthored`, which at the start needs `SeedsUnwritten`: nobody is recorded
as having written the documents that are there). Stating the first of them showed
that `ProfilesNeedOverlap` excused too much: a participant without organization
counted as moved there by any update that was sent none. `Moved` now asks for an
update that was sent the organization.

### Accesses and the merge

| Theorem of `AccessesProofs` | Property |
|---|---|
| `AccessesOnlyRead` | every behaviour of `Accesses` is one of `Participants` |
| `AnswersTyped` | `AccessesTypeOK` |
| `OnlyHeldIsTold` | `ToldWasHeld` |
| `AllKeptIsTold` | `KeptIsTold` |
| `EveryLoginAgrees` | `LoginsAgree` |
| `MergeKeepsFields` | an update keeps every known field it does not send |
| `MergeCompletes` | after an update no field with a default is missing or null |
| `MergeRepeats` | the same update twice in a row leaves what it left once |
| `MergesCommute` | two updates that set no field in common leave the same in either order |

`AccessesProofs` extends `ParticipantsProofs`: a reader writes nothing
(`AccessesOnlyRead`), so the invariants of the documents are at hand. The
invariant `ReadersInv` has two parts for every reader. `Good` speaks of the
reader's own record and of the history of what the user had since it started:
which queries it has behind it (`Stage`), that each participant or organization it
remembers is in that history (`Backed`), that what it has told is (`Told`), and
that what was there throughout is remembered or told (`Complete`). `Watched` says
that the history includes what the user has now. A history only grows, and what
was there throughout only shrinks, so a step of a request keeps `Good`
(`Grows`); a step of a reader is one query on the documents as they are now, and
`Watched` puts its result into the history.

`KeptIsTold` excuses a login that fails: the history keeps the participants without
organization that carried an identifier of the user meanwhile (`loose`), and a
login that has failed had read one of them.

`LoginsAgree` needs no invariant: it compares the participants four queries find
in one and the same state. If one of the matching participants is in no
organization every login finds it and fails, whichever identifier it goes by. The lemma `FoundByEveryLogin` shows that a participant
without a contradicting identifier is found by the first or the second query of
a login exactly when some identifier matches, which is the refresh's filter.

The laws of the merge rest on `MergeIs`: the three early returns of
`mergeMetadata` (no metadata yet, none sent, no commissionConfig sent) are
cases of one rule, with an absent document for an empty one. The defaults are
what makes `MergesCommute` more than a remark on functions: the first update
fills in defaults that the second finds stored.

### Only model-checked

Liveness (`RequestsAnswered`): fairness and ENABLED are beyond the prover;
`NobodyStrands` proves what it needs of the states. Every safety property that a
passing run checks is also proved.

## Not modelled

* The legacy plaintext `passwordToken` (a code stored by an earlier version):
  nothing writes it any more.
* Collisions of six-digit codes, bcrypt, and the text of mails and answers.
* The limiter's in-memory store: the unit tests use it; the factory always connects
  to a Redis (`REDIS_HOST`, or localhost), which all processes share.
* Fields of a raw `PUT profiles` or participant body that are not in its DTO.
* The CSV export: it changes no collection. Its hazard is a file of a fixed name
  that two overlapping exports share.
* The listings of participants (findAll, findOne): they change nothing; they join
  users and participants in memory by `===`, where two missing documents are
  equal.
* `findDuplicates` without the field it names, in update-user: the field would be
  erased.
* Guards, core classes and bootstrap: stateless, or wiring.

## Plan

What is left: the shared file of the CSV export, and the participant listings.
Every safety property a passing run checks is stated by a theorem; the liveness
properties stay with TLC.
