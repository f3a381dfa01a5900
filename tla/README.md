# HumanGuard: specifications, checks and proofs

TLA+ modules for the HumanGuard backend (`src/backend`, Go): what it keeps in
memory and in PostgreSQL, how its handlers and background goroutines interleave,
and what can be relied on; and two client programs as far as they share state
with it. TLC checks small instances; the TLA+ proof system (`tlapm`) proves
every safety property of the passing runs, the refinements included, for every
value of the constants. Source positions are given as `file:line` below `src/`.

Contents: 1 the system, 2 the modules, 3 the visitor gate, 4 operators'
access, 5 files, 6 the detector, 7 accounts, 8 edits of rows, 9 the limiter and
the front door, 10 the tracker, 11 the runs and their bounds, 12 fairness,
13 proofs, 14 disagreements between code and documents, 15 what is not
modelled, 16 what could come next.

## 1 The system

HumanGuard stands in front of web sites. A *visitor's* page asks
`POST /api/check` whether to let the visitor in and sends batches of behaviour
to `POST /api/behavior/{id}`; an *operator* (site owner or administrator) logs
in to a dashboard, manages sites, blacklists, files and API keys.

| component | state | operations | what makes it hard | what makes it correct |
|---|---|---|---|---|
| Visitor check (`backend/handlers/visitor_session.go:96`) | the request, a pointer to the session | look up site, blacklist, session; open or prolong a session; decide | every lookup may be stale when used; failing lookups are skipped | an answer names a session of the asking site; a listed address is shut out |
| Behaviour intake (`backend/handlers/behaviour.go:21`, `:139`) | the session's metrics | store a batch, start an analysis in the background | analyses outlive request and session | an analysis touches its own session only |
| Detector (`backend/detector/detector.go`) | none that survives a call (every caller builds its own) | prefilter, deep filter, write score, block, blacklist | five store accesses with nothing held between them | scores are percentages; only visitors are barred; verdicts are carried out |
| Visitor session store (`backend/storage/session.go`) | `sync.Map` of pointers, cleanup loop | create, get, prolong, block, reap | inspect-then-delete; objects written through shared pointers | stale sessions go, ids are not shared by sites |
| Blacklist (`backend/storage/blacklist.go`) | table | upsert, delete, lookup | analyses and handlers write the same row, and it goes with its site | only visitors are barred by the detector; a verdict ends in a bar |
| Sites (`backend/handlers/site.go`, `backend/storage/site.go`) | table with settings | create, edit, activate, suspend, delete | read-modify-write of whole rows; sessions in memory are not told | an edit is lost only to one that overlapped it; what is deleted stays gone; sites have owners |
| Operator sessions (`backend/auth/session_manager.go`, `auth.go`, `middleware.go`) | `sync.Map` of sessions, tokens in clients' hands, cleanup loop | login, authenticate and prolong, log out, revoke, reap | look up, then prolong, then act; restart forgets the sessions but not the tokens | who is out stays out; abandoned sessions go |
| API keys (`backend/handlers/api_keys.go`, `backend/storage/api_keys.go`) | table | create, use, revoke, delete, expire | row, owner and use are three steps | dead keys are refused; keys have owners; only people change them |
| Accounts, OAuth (`backend/handlers/user.go`, `backend/storage/user.go`) | tables users, user_oauth | register, log in, change role, password, avatar, delete | first login through a provider twice at once; failing look-ups taken for none; read-modify-write | an identity is let in to one account, again and again; passwords change at the hands of their holders |
| Files (`backend/handlers/file.go`, `backend/storage/{file,share,s3,minio}.go`) | blobs, tables files and shares, progress map | upload through a pipe, delete, share, download | two stores without a transaction; a goroutine per upload; cancelled contexts | what was acknowledged is there; deletion finishes; progress tells the truth |
| Rate limiter (`backend/middleware/ratelimit.go`) | map of token buckets, cleanup loop | admit, create, evict | lookup and creation under different locks; eviction by a time written without one; a limiter may be replaced or evicted while requests hold it | eviction neither gives tokens nor takes them; beyond the rule only races of first requests give, and that is bounded |
| CSRF (`backend/middleware/csrf.go`, `frontend/src/api/client.ts`) | cookie and token in the browser | hand out, compare, fetch again | the two copies part | a token is refused only after trouble; a page that is reloaded gets through |
| Behaviour tracker (`frontend/src/lib/behavior-tracker.ts`, with `backend/handlers/behaviour.go:96` and `backend/storage/session.go:128`) | counters, timer; the session's metrics map | collect, send, stop, merge | batches overtake each other, are lost, are in flight when it stops; two mix in one map; the session ends under an open page | while the session stays the server ends with the page's count; samples leave with an answer |
| Reaction (`backend/reaction`), metrics, stateless middleware, dashboard, deployment | - | - | - | not modelled, see 15 |

How they interact: HTTP handlers run concurrently, one goroutine per request,
and share the two `sync.Map` stores (pointers, no locks) and the database (each
statement atomic, hardly ever a transaction). `SubmitBehavior` starts a
goroutine that runs the detector, which writes to the session store and the
blacklist. Each store has a cleanup goroutine. A restart empties everything in
memory; tables, blobs and clients' tokens stay.

## 2 The modules

| module | models | composed of |
|---|---|---|
| `RiskScoring` | the arithmetic of the detector, as operators | - |
| `DetectorRun`, `MCDetectorRun` | one analysis and one check over detailed inputs | extends `RiskScoring` |
| `VisitorGate`, `MCVisitorGate` | check, intake, detector, session store, blacklist, site status, restart, interleaved | extends `RiskScoring`; refines `SessionLedger` |
| `SessionLedger` | what the gate promises, abstractly | extends `RiskScoring` |
| `VisitorGateProofs` | theorems about `VisitorGate` | extends `VisitorGate`, TLAPS |
| `DetectorRunProofs` | theorems about `DetectorRun` | extends `DetectorRun`, TLAPS |
| `Access` | operator sessions, tokens, API keys, middleware, accounts as far as access goes | refines `CredentialLedger` |
| `CredentialLedger` | what access promises, abstractly | - |
| `AccessProofs` | theorems about `Access` | extends `Access`, TLAPS |
| `Uploads` | files: upload, goroutine, backends, tables, deletion, shares | refines `FileLedger` |
| `FileLedger` | what stored files promise, abstractly | - |
| `UploadsProofs` | theorems about `Uploads` | extends `Uploads`, TLAPS |
| `Accounts`, `MCAccounts` | registration, provider logins, default administrator, deletion | refines `Directory` |
| `Directory` | what accounts promise, abstractly | - |
| `AccountsProofs` | theorems about `Accounts` | extends `Accounts`, TLAPS |
| `Edits`, `MCEdits` | reading and writing back the rows of accounts and sites | - |
| `EditsProofs` | theorems about `Edits` | extends `Edits`, TLAPS |
| `RateLimiter` | the map of token buckets with its cleanup | - |
| `FrontDoor` | a browser's tabs through limiter and CSRF comparison | extends `RateLimiter`, whose specification it implements |
| `FrontDoorProofs` | theorems about both | extends `FrontDoor`, TLAPS |
| `Tracker` | the behaviour tracker, the network, and how the server writes batches into the session's map | - |
| `TrackerProofs` | theorems about `Tracker` | extends `Tracker`, TLAPS |

Conventions. Every access to shared state that another goroutine can come in
between of is one action; a record field `pc` says which access comes next, and
the definitions carry the names of the functions they translate. Failing calls
are alternatives of the action, limited by `MaxFaults` (not in `Tracker`, where
any number of batches may be lost or refused). Definitions commented
"(Mutation: ...)" are not part of the specification: each is the wrong version
of the definition that follows, which a property is known to detect.
Definitions whose comment says *history* record something the program does not
keep, for properties only; they guard no action.

Timestamps: the clock is a natural number, and an action that reads the time
and then writes it is one instant. `ExpiresAt` is read and written by several
goroutines without a lock; the builds are for 64-bit machines, where what
comparisons of two such times look at is one word, so a reader sees the value
before or after - which the interleaving of the actions gives.

## 3 The visitor gate (`VisitorGate`)

*State.* `site` (status column), `ban` (blacklist rows: until when, and by
whom), `stored` (keys of the session map), `sess` (the objects), `used` (ids
drawn), `check` (requests), `job` (behaviour requests with their analyses),
`cleaner` (cleanup loop), `now`, `faults`. Keys and objects are apart
because handlers hold pointers: a handler may prolong, score or block an object
whose key is gone.

*Actions.* `CheckArrives`, `CheckGetSite`, `CheckIsBlacklisted`,
`CheckGetSession`, `CheckCreateSession`, `CheckUpdateActivity`, `CheckDecide`,
`CheckCaptchaPassed` are `CheckRequest` from top to bottom, with every early
return; `SubmitBehavior`, `SubmitMetrics`, `TriggerAnalysis` the intake;
`Prefilter`, `DeepFilter`, `UpdateRiskScore`, `ConfirmSession`, `BlockSession`,
`BanAddress` one analysis; `CleanupTick`, `CleanupInspect`, `CleanupDelete`,
`CleanupDone` one round of the loop (`Range` may or may not reach keys stored
meanwhile: `Stored`); `ListAddress`, `UnlistAddress`, `SetSiteStatus`,
`DeleteSite` (together `SiteStep`) the handlers that operators call; `Tick` and
`Restart` the environment. The score a batch adds up to is drawn from
`BatchScores`, as `DetectorRun` treats the rules.

*Who calls `SiteStep`* the model does not say. The handlers of the blacklist
(`backend/handlers/site.go:288`, `:352`) ask for the owner of the site or an
administrator; those that edit, suspend or delete a site (`:113`, `:156`,
`:172`, `:195`) ask for a login only, and a deletion takes the site's bars along.
So no property here speaks of owners; see 14.

*A map written by two batches at once* (`behaviour.go:103`): what two of them
leave behind when they mix key by key is the matter of `Tracker` (10); to the
gate it is one more value of `metrics`. The Go runtime may also notice and end
the process; that is a `Restart`, which is possible at any time.

*Properties.* `AnswersNameOwnSite`, `AutoBanNamesVisitor`, `Inv` (with
`RiskIsPercent`), `SitesDoNotInterfere`, the refinement
`ImplementsLedger`, and the liveness properties `StaleIsReaped`,
`VerdictIsCarriedOut`, `ListingShutsOut`.

*The ledger.* `SessionLedger` keeps no clock, no pointers and no handlers: an
id is new, live or gone, belongs to one place, has a score that changes only
while it lives. A bar changes in three ways: the detector makes it permanent, for
a place that some id was given to; a handler of the blacklist writes or removes
it while the site exists; it goes with the site. The mapping is at the end of `VisitorGate`: "live" is a stored key, "gone" an id
drawn and no longer stored.

## 4 Operators' access (`Access`)

*State.* `users` (role of each account), `keys` (api_keys), `issued`, `stored`,
`sess`, `used` (as above, for `UserSessionManager`), `token` (what each login
handed out), `req` (requests), `cleaner`, `now`.

*Actions.* A login is `LoginAccepted` (the row is read and the secrets
compared) and `OpenSession`. A request with a token is `TokenArrives`
(`ValidateToken`), `GetSession`, `UpdateLastSeen`; with a key `KeyArrives`,
`GetAPIKeyByHash`, `GetUserByID`. From there ("run") it becomes any handler:
`Logout`, `ForceRevokeSession`, `CreateAPIKey`, `RevokeAPIKey` (with
`DeleteAPIKey`), `UpdateUser`, `DeleteUser`, each with the second step it takes
later (`DeleteSession`, `SetRevoked`, `EraseKey`, `WriteUser`), or
`OtherHandler`, which changes nothing here. `UserSessionManager.Get` on an
expired session deletes it by id in a second step, like `Logout`.

*Ghost.* `late` remembers whether the credential was dead when the request
arrived; no guard reads it.

*Properties.* `LoggedOutIsRefused`, `RevokedKeyIsRefused`: a request that
arrives with a dead credential never gets in, in spite of requests that looked
the credential up earlier and go on prolonging or revoking. (A request that was
under way may finish; the code promises nothing else.) `PeopleChangeKeys`:
between the comparison of the owner and the change of the key nothing can make
the change someone else's. `AbandonedIsReaped`: liveness of the cleanup loop.
`KeysHaveOwners`, a part of `Inv`, joins the foreign key with a login that
outlives the account.

*The ledger.* `CredentialLedger` has no clock, no cleanup loop and no look-ups
between which something may happen. A request is let in at one instant: with a
session that is good then, or with a key that is good and, an instant later, an
owner who exists. From there on it acts as the person it was let in as. The
ledger says which conditions the handlers set, not which they should: keys are
made with a session, for oneself, while one has an account; they are ended with a
session of their owner or of an administrator; an administrator closes accounts,
which take their keys along and leave their sessions; and whoever is in, by
session or by key, sets any account's role, because `UpdateUser`
(`backend/handlers/user.go:379`) has no other test (14). A request whose role was
taken away meanwhile goes on with the one it was let in with. In the mapping (at the end of `Access`) a stored session is
good for the person of its token, a key for its owner while `KeyIsGood`, and a
request is let in when `GetSession` or `GetUserByID` finds what it looks for;
prolonging a session, the cleanup loop's inspection and the clock are stutters
unless a key runs out, and a write that finds the row gone is a leave.

## 5 Files (`Uploads`)

*State.* `backend` ("local" or "minio"), `rows`, `shares`, `users`, `blobs` and
`size` (the storage), `up` (uploads: handler, goroutine, progress entry), `op`
(deletions and shares), `acked`, `wanted` (history), `drawn`, `faults`.

*Actions.* `UploadArrives`; the goroutine's `ReadPart`, `WritePipe`,
`CountBytes`; the handler's `Save`, `MarkCompleted`, `CreateFile`, `UndoSave`;
`SaveFails`, after which the goroutine may be left in `WritePipe` for ever, as
in the code; `ClientLeaves` (net/http cancels the request's context when the
connection fails, so `CreateFile` fails); `DeleteArrives`, `DeleteBlob`,
`DeleteRow`; `ShareArrives`, `CreateShare`; `DeleteUser`; `Restart`.
`CreateFile` and `DeleteRow` may report an error although the row was written
or deleted: the answer of the database, or the context, was lost.

The backends differ in three things that matter: a local file exists from the
first byte, an object of MinIO from the last; removing what is not there is an
error locally and none in MinIO; what fails half-way leaves a local fragment.

*Properties.* `AcknowledgedIsStored` and `AcknowledgedIsRecorded` (a 201 is
kept), `CompletedIsCounted` (the handler marks progress
completed only after the goroutine's last count, because the synchronous pipe
is closed after it), `UploadsEnd`, `ObjectDeletionFinishes`. `SharesHaveFiles`
is a part of `Inv`.

*The ledger.* `FileLedger` has no pipe, no backends and no blobs apart from
rows: an upload becomes a file with whole content in one step (the INSERT of
`CreateFile`) or leaves nothing to be seen; its id was never used before; content
is lost only where nobody was promised it, that is, when the upload was not
answered or its deletion was asked for; a share points to a file, and a closed
account takes files and shares along. The mapping: a file is a row, its content
the blob under the same id, and an upload is on its way until its handler is
done. Reading, piping, counting, a partial local file and a failing save are
stutters.

## 6 The detector (`RiskScoring`, `DetectorRun`)

Each rule is an operator on plain values; `DetectorRun` runs `Prefilter`,
`DeepFilter` and the check over every combination of the inputs in
`MCDetectorRun`: each threshold of each rule just below and just above. An
absent section of metrics equals a section of zeros, for no rule fires on it.
The divisions by the duration are multiplied out; beyond 130 seconds a few
durations round the other way in float64, and the configuration stays below.
`PersonIsAllowed` and `RobotIsStopped` say what the scoring is for.

## 7 Accounts (`Accounts`)

*State.* `up` (the server listens), `rows` (users table: address, and whether
there is a password), `links` (user_oauth), `req` (requests), `drawn`,
`entered` (history: the accounts an identity was let in to), `faults`. An
address is a mailbox and whether it is written in lower case: `GetUserByEmail`
looks for the lower case of what it is given among the addresses *as they were
stored* (`backend/storage/user.go:154`), while `CreateUser` stores what it is
given and the unique index compares what is stored.

*Actions.* `EnsureDefaultAdmin` before the server listens; a registration is
`RegisterArrives`, `CheckEmailExists`, `RegisterUser`; a callback is
`OAuthArrives`, then `GetUserByOAuth`, `GetUserByEmail`, `CreateUser`,
`AddUserOAuth` - the four calls of `GetOrCreateUserByOAuth`, each of which may
fail, and where a failing look-up counts as "nobody" - and `OpenSession`.
`DeleteUser` takes the links along, `Stop` ends the process. What a provider
says of an identity is `Profile`; `MailOf` picks the address as
`GetUserInfo` does, GitHub's list of addresses included. `GetUserInfo` does not
look at the status of a reply: one of Google's or Keycloak's that is JSON without
a person decodes to the empty id and address, which is an identity like any other
and may be one of `Identities` (the theorems cover it, the run has none).

*Properties.* `SameAccountAgain`: of all the accounts an identity was ever let
in to, one exists at most - two first logins at once, a registration in
between, a lost link, a failed look-up notwithstanding. `KeepsGettingIn`: it is
let in again and again. Both are about identities whose address their provider
writes in lower case; the others are the subject of an observation in 14.

*The directory.* `Directory` has no links, no look-ups that fail and no
insertions that are refused: an address has one holder at a time, an id one
account for ever, and an identity is let in to the account that holds its
address at the instant it is recognised, or that is enrolled with it at that
instant. The mapping: holders are the rows by address, and a request is
recognised from `GetUserByOAuth`, `GetUserByEmail` or the INSERT of `CreateUser`
on. That a link is followed without a look at the address is what makes the
refinement worth stating: nothing keeps a link and an address together but the
order in which they are written.

## 8 Edits of rows (`Edits`)

*State.* `rows` (each column holds the number of the edit that wrote it),
`owner` and `domain` of sites, `drawn`, `edits`, `req`: what a request was
asked to change, the copy of the row it read, and (history) which columns were
written by others since.

*Actions.* `Arrive` (any of seven kinds of request), `ReadRow` (`GetUserByID`,
`GetSite`; the comparison of the old password), `WriteRow` (one UPDATE
statement, which carries back more columns than the request named for accounts
and sites: `Carried`), `GiveUp` (every error), `CreateSite`, `DeleteSite`,
`DeleteUser`.

*Properties.* `LostOnlyToOverlap` says exactly what the read-modify-write of
`UpdateSite` and `UpdateUser` can lose: a column changes unasked only if
somebody wrote it between the reading and the writing of the row.
`PasswordsChangeByHolders`, `DeletedStaysGone`, `SitesHaveOwners`.

## 9 The limiter and the front door (`RateLimiter`, `FrontDoor`)

*Limiter.* `visitors` (the map), `tokens` and `age` of each limiter, `call`
(requests in `getLimiter` and `Allow`), and two history variables. `allowance` is
the bucket the rule speaks of, one to a key: it is charged for every request
admitted, by whichever limiter, fills with time, and is neither reset nor thrown
away; below zero it shows how much more was admitted. `extra` counts what races
gave a key since that bucket was last full. `Lookup`, `Touch`, `Create` and
`Admit`/`Refuse` are separate steps, because the first holds the read lock, the
second no lock, the third the write lock: two first requests of an address
both create a limiter, and the second replaces the first. `Tick` is
`rate.Limiter`: a token for every bucket.

`OnlyRacesGiveMore`: what the next request of a key finds (`InForce`) is never
less than `allowance` - nobody is refused what the rule leaves - and exceeds it by
at most `extra`: the tokens that a limiter replaced in a race of first requests
had given out, and one for each request admitted by a limiter that is no longer
the key's, replaced or evicted. `extra` is zero again once the bucket of the rule
is full. Throwing limiters away after ten minutes gives nothing, because every
rule fills its bucket within ten minutes less the minute that a request may stall
(`LimiterRules`, evaluated for all rules of `backend/cmd/server/main.go:333`).

*Front door.* The tabs of one browser share the cookie `jar`; each `tab` keeps
the token it was given. `StartFetch`, the limiter's steps, `CSRFTokenHandler`
with `EnsureCSRFCookie`, `ReceiveToken` are `getCSRFToken`; `FetchRefused` and
`FetchLost` (the answer, or its body only) its `catch`; `Send`,
`CSRFMiddleware`, `RequestRefused` a request; `Expire` and `Reload` the browser.
`RefusedOnlyAfterTrouble`: a token is refused only if the cookie expired or two
fetches without a cookie overlapped since the page was loaded, or this very
request's fetch failed. `GetsThrough`: a tab whose user reloads it after a
refusal is accepted again and again, or limited again and again. The client
never asks for a new token by itself, so without the reload nothing would make
it recover.

## 10 The tracker (`Tracker`)

*State.* `page`, `moves` and `samples` (the tracker), `flight` (batches),
`session` (whether the server still has it), `stored` (its metrics), `handler`
(`SubmitBehavior` at work on a batch, and the key its loop is at).

*Actions.* Counters are sent whole, samples once: a `fetch` whose answer arrives,
with whatever status, clears them (`Resume`). `Flush` is the timer, `FlushOnHide`
and `Leave` the beacons, `Stop` sets `destroyed` before the last `flush`, which
therefore sends nothing. The server writes a batch with two loops over the map
that the session itself uses: `MergeKey` is an iteration of
`backend/handlers/behaviour.go:102`; `UpdateSessionMetrics`, `ReadKey` and
`WriteKey` are `backend/storage/session.go:128`, whose loop reads each key of the
map and writes it back to the same place. The order of keys is open, as Go leaves
it. Two handlers do so at once with no lock, so that the stored count may be of
one batch and the samples of another, and an old value may be written over a new
one. `RefuseBatch` and `Lose` are possible for every batch, any number of times.
`Lapse` is the end of the session: half an hour after the last check, after a
block, or with the process; batches do not prolong it, and afterwards every one of
them is refused.

*Properties.* `CountsConverge`: the server ends with the count of the page,
however batches overtake each other, are lost or mix - provided that the session
stays, that the page is neither left nor its tracker stopped, that the visitor
comes to rest (`MaxMoves`), and that the server is without a batch at hand now and
then (`Pause`: with batches at work all the time, an old value could be carried
on for ever). `SamplesGoWithAnswers`: which samples may vanish unsent - those
taken while a batch was under way - and that no others do. `Inv`: a batch is the
page as it was, and of the samples the page still holds it lacks the later ones
only; of what is stored each key by itself is of the past, so that the server is
never ahead of the page - but a stored sample may be later than the stored count,
and the invariant does not say otherwise.

## 11 Runs and bounds

| run | question | bounds, and why they are enough |
|---|---|---|
| `DetectorRun` | is the scoring right near every limit? | all combinations of values around the limits; the rules look at nothing else |
| `GateSafety` | can sessions, answers or scores cross between sites? | two sites, two sessions: the least with something to confuse; one request and one analysis in flight, which with the cleanup loop and a restart give every pair of steps; the clock stands still and `Ttl = 0`, so what is inactive is reapable |
| `GateBans` | does the detector bar visitors only, and does the gate refine `SessionLedger`? | one place is enough, bars of other places are separate rows; one fault, one unit of time so that bars run out |
| `GateLiveness` | does what must happen happen? | no symmetry; one database call may fail, so lookups that let a listed address pass are included; bars come from the detector and are lifted by an operator (operators who set them are in `GateBans`); no restarts, which forget an analysis for good |
| `Access` | are dead credentials refused, are keys changed by those who may, does access refine `CredentialLedger`, do abandoned sessions go? | two requests at once (one looks up while the other ends the session), one account, one session, one key that may run out, time to expire once; any number of each is the matter of the proofs (with one account the run tests of `PeopleChangeKeys` that keys are not changed by key; whose keys they are is the theorem `OnlyPeopleChangeKeys`) |
| `Uploads` | are acknowledgements kept, does storage refine `FileLedger`, do uploads and deletions end? | two files (a deletion must not touch the other), one upload, two other requests (a share races a deletion, two deletions race), one buffer, one fault anywhere |
| `Accounts` | is an identity let in to one account, the one with its address (`Directory`), and again and again? | one mailbox in two spellings and the empty address, two identities of it, the administrator has it too: everybody meets; two requests; two faults, so that a look-up and the link after it may fail; one deletion |
| `Edits` | what can overlapping edits lose? | two requests, two edits of any kind: the least that overlap; one account, two sites, one domain |
| `FrontDoor` | who gets more or less than the rule, when is a token refused? | two tabs, so that fetches, first requests and the shared cookie race; one bucket of two tokens, idle after three ticks, a stall of one; three limiters in memory suffice for two requests and the map; one expiry or lost answer |
| `Tracker` | does the server end with the page's count, and is it ever ahead? | two batches that overtake each other and mix in the map, two moves, one sample, so that the limit on samples bites; losses and refusals without a bound |
| `GateLiveSession`, `UploadsDelete` | findings, see 14 | the smallest instance that shows the disagreement |

`MaxTime`, `MaxFaults`, `MaxDeletes`, `MaxEdits`, `MaxMoves`, the sets of ids
and `Chunks` are the only bounds. The clock (`Tick`) stands still at `MaxTime`; when
session ids run out, `LoginFails` and `CheckCreateFails` end the request, which
the program cannot meet; all other behaviour is the program's. `CHECK_DEADLOCK FALSE` stands where a behaviour
ends: `DetectorRun` after its answer, `Uploads` when its file ids are used up
and every account is deleted, `Edits` when no edit and no id is left, `Tracker`
when the page is gone.

Symmetry is used in runs without liveness only, over ids that no definition
tells apart.

## 12 Fairness

* Weak fairness of each request's or analysis' own steps, where a liveness
  property needs it: goroutines are scheduled and database calls return. Nobody
  is obliged to send a request, log in, or use a handler that changes something.
* Weak fairness of the cleanup loops: they are driven by `time.Ticker`. `Access`
  assumes nothing else: abandoned sessions go whether or not a request that was
  begun is ever finished.
* `ReadPart` is fair because `ReadTimeout` (`backend/cmd/server/main.go:281`)
  ends a body that stops arriving.
* `Uploads` assumes of its users one thing: an owner whose file is still listed
  after a deletion asks again. This is strong fairness, because in the model
  the slots of `Ops` may be taken by others now and then; the server has no
  such slots.
* `Accounts`: the server is started again after it ended, and an identity keeps
  coming back (strong fairness, for the same reason as in `Uploads`).
* `FrontDoor`: a tab goes on with what it has begun, and its user reloads it
  after a refusal (strong fairness, as a refused tab may also act again first).
* `Tracker`: the timer of `setInterval` goes on while the page is open; a handler
  that has begun ends, and an answer that came back is taken; and of the batches
  sent again and again not all are lost or refused while the session is stored
  (strong fairness of `ReceiveBatch`). That the session stays and that the server
  pauses are no assumptions on the steps but conditions of `CountsConverge`.

## 13 Proofs

`tlapm` checks the eight proof modules to the last leaf. They hold for any sets
of sites, addresses, sessions, requests, analyses, users, keys, files,
identities, tabs and batches, and any bounds. The assumptions are those the modules
declare: the empty ids are not ids, `NoBan` and `Forever` are not times, times,
scores and counts are natural numbers, `AgentScores` are percentages, addresses
are closed under `ToLower`, a bucket fills before it is idle (`LimiterIdle`).

*Detector.* `RiskStaysPercent`, `PeopleAreAllowed`, `RobotsAreStopped` and
`StagesOnlyAdd`, for every user agent and all metrics, where the run looks near
the limits. `Inv` says that the score is what the stages passed make of the
inputs; `PrefilterRange`, `EvidenceRange` and `DeepRange` bound the arithmetic.

*Visitor gate.* `TypeCorrect` comes first (one lemma per group of actions).
The safety properties are not inductive by themselves: `AutoBanNamesVisitor`
needs to know that an analysis about to write a bar holds an id that was drawn,
and that a drawn id's site and address never change; `AnswersNameOwnSite`
needs that a request holds a session of its site from the lookup on, although
the key may be deleted and other requests write the object. `Inv` joins these and
the types: `SessionsHaveHomes`, `RequestsAreForSites`, `RequestsHoldTheirSession`,
`AnalysesHoldASession`. The key lemma, `SessionSteps`, says what any step can
do to a session object; `InvStep` has one lemma per conjunct. From `Inv` follow
`AnswersStayOnSite`, `AutoBansNameVisitors`, `ScoresArePercent`; the action
property `SitesAreApart`; and `GateImplementsLedger`, step by step: creation maps
to `Open`, a written score to `Score`, cleanup and restart to `Close`, an
analysis' bar to `Bar`, the handlers of operators to `Relist` and `CloseSite`,
everything else to a stutter.

*Access.* `AccessInvariant` proves types and `Inv` together. The
strengthening is `DeadStaysDead` (once an id has left the store it is never
stored again, because ids are drawn once and prolonging never stores; once a
key is dead no step revives it) and `WriterWasTested` (what a handler saw of a
key's owner still holds when it writes, because rows never change owner).
`DeadKeysStayDead` states the second half of the former; `RequestMovesAlone`
reduces a step to the one request that made it. The properties
`LoggedOutStaysOut`, `RevokedStaysOut`, `KeysAreOwned` and
`OnlyPeopleChangeKeys` follow. `AccessImplementsLedger` needs one conjunct more,
`RequestIsSomebodys`: a request that looks its session up carries the person of
that session's token, which no login changes once it is handed out, and what it
is about to write names a key or an account that is one. `GateIsLedger` takes the
steps up to the moment a request is let in, `HandlerIsLedger` what handlers
write, `CleanerIsLedger`, `TickIsLedger` and `RestartIsLedger` the rest; each
step is one of the ledger's or a stutter.

*Files.* The strengthening of `AcknowledgedIsStored` says that an upload has its
file id to itself until its record is written (`UploadsOwnTheirFiles`,
`UploadIsConsistent`: nobody can delete or share what has no row), that a
deletion under way was asked for (`DeletionsAreWanted`), and how the counts of
the two ends of the pipe go together (`PipeCounts`, from which
`CompletedIsCounted` follows). `UploadKeeps` is the argument for every step of
one upload, `OthersKeep` for everything that only removes rows and blobs.
`UploadsImplementLedger` uses the same invariant: a blob under an id without a
row is invisible (`QuietUploadStep`), what a save writes, whole or in part, is
under an id that has no row yet (`OwnBlobOnly`), and at the INSERT the blob is
whole (`CreateFileIsLedger`).

*Accounts.* `AccountsInvariant`: whatever an identity is linked with, about to
be let in to or was let in to has the address its provider reports, in one of
two spellings, if it still exists; addresses are unique among the accounts that
exist and ids are not drawn twice. For an address in lower case the two
spellings are one, and `OneAccountPerIdentity` follows. So does
`AccountsImplementDirectory`: an account found by a link or by an address holds
one of the identity's spellings (`FoundIsEnter`), an insertion takes an address
nobody holds and an id nobody had (`InsertIsBook`), and what fails on the way is
a stutter, or an account enrolled that nobody is let in to.

*Edits.* `EditsInvariant` ties a request's copy to the row: equal in every
column that is not in `missed`. `EditsLoseOnlyToOverlap` and
`HoldersChangePasswords` follow from it and the one action that changes a row
that stays (`ChangedByEdit`); `DeletedRowsStayGone` needs only that ids are
not drawn twice; `SitesAreOwned` rests on the foreign key.

*Limiter and front door.* `LimiterInvariant`: a limiter has one key, is seen by
its requests no longer ago than they stall, and holds at least what it was
filled with since (`IdleIsFull`), so that an evicted one is full; and the bucket
of the rule, its limiter and what races gave keep their distance in every step
(`OnlyRacesGiveMore` is inductive beside these).
`FrontDoorImplementsLimiter` is the refinement of `LimiterSpec`, every step of
the browser being one of the limiter's or a stutter, and carries the property
over (`RacesAloneGiveMore`). `TokensFollowTheCookie` needs `OneAsks`: while an
answer with a new cookie is under way, nobody outside of trouble counts on
another one.

*Tracker.* `TrackerInvariant` says of the page, the batches, the values handlers
hold and each key of the server's map that none counts more moves than the page
did, that a batch's samples do not go beyond its count, and that a batch lacks
only samples taken after it was built (`LacksOnlyLater`); the last is kept because
only an answer clears samples. That batches mix key by key is no obstacle: what a
handler reads from the map and writes back is of the past like everything there,
and nothing is claimed of two keys together. `SamplesLeaveWithAnswers` and
`ServerIsNeverAhead` follow.

Only model-checked: the liveness properties `StaleIsReaped`,
`VerdictIsCarriedOut`, `ListingShutsOut`, `AbandonedIsReaped`, `UploadsEnd`,
`ObjectDeletionFinishes`, `KeepsGettingIn`, `GetsThrough` and `CountsConverge`,
because fairness is out of the prover's reach. Every other property of a passing
run is a theorem. No induction over data is needed: the models have no recursive
definition.

## 14 Where code and documents disagree

Shown by a run:

* `LiveSessionIsKept` (`GateLiveSession`): sessions live 30 minutes after the
  last request (`docs/1_SRS.md:292`), but the cleanup loop may delete one that a
  request prolonged after it was inspected. The operators' store has the same
  race.
* `DeletionFinishes` (`UploadsDelete`): with local storage a deletion that lost
  its second step can never be finished (`docs/1_SRS.md:185`).

Evident from the code, and part of the models where they concern them:

* `README.md:30` promises reactions configurable by risk level; `CheckRequest`
  compares with 80 and 50 and reads no setting
  (`backend/handlers/visitor_session.go:261`).
* `docs/3_USER_SPECS.md:277`: deleting a site deletes its sessions; they stay in
  memory until they expire (`backend/storage/site.go:203`).
* A file beyond 5 GB is cut off and answered 201 instead of 413 (`README.md:93`,
  `backend/handlers/file.go:152`).
* An account registered or created with capitals in its address is not found by
  that address: the look-up uses the lower case, the row holds the spelling
  given (`backend/storage/user.go:154`, `:13`). Its holder cannot log in with
  the password, and the linking of `docs/1_SRS.md:75` does not find it. The
  model has both spellings; `SameAccountAgain` is claimed for lower case only.
* Google and Keycloak may report no address, and `GetOrCreateUserByOAuth` takes
  the empty one for an address: two such identities share one account. The same
  account is found when a reply is an error written as a JSON object, because
  `GetUserInfo` does not look at the status (`backend/auth/oauth.go:74`, `:147`);
  of GitHub such a reply is the id 0, and the login goes on if the list of
  addresses is answered (that such an id then stands for different persons the
  model, where an identity has one `Profile`, leaves out).
* `docs/3_USER_SPECS.md:219`, `:242` and `:264` let a user activate, suspend and
  delete a site that is the user's (`docs/1_SRS.md:127`: its owner changes the
  settings); `UpdateSite`, `DeleteSite`, `ActivateSite`, `SuspendSite` and
  `UpdateSiteSettings` ask for a login or an API key only
  (`backend/handlers/site.go:113`, `:156`, `:172`, `:195`, `:235`). The models have
  these handlers without a caller, and a deletion lifts the site's bars.
* `docs/1_SRS.md:32` and `docs/3_USER_SPECS.md:468` leave the editing of accounts
  and roles to administrators; the route and `UpdateUser` ask for a login or an API
  key only (`backend/cmd/server/main.go:201`, `backend/handlers/user.go:379`).
  `CredentialLedger` says what the code does (`SetRole`), so that the refinement
  passes: it does not show that roles are safe with administrators.
* `docs/1_SRS.md:308` and `docs/5_SECURITY.md:41` and `:69` state the limits of
  requests without exception. First requests of an address that meet create a
  limiter each, and each limiter admits a full bucket
  (`backend/middleware/ratelimit.go:44`); `OnlyRacesGiveMore` says how much that
  is.
* `docs/1_SRS.md:158`: a batch is stored in the session. Batches do not prolong the
  session (`backend/storage/session.go:128`, against `:72`), so on a page that is
  left open they are answered 404 after half an hour.
* `UpdateSiteSettings` answers 200 for a site that is gone
  (`backend/storage/settings.go:26`). A new site's settings are stored as `{}`
  and read back as all modules off, not as the defaults.
* `stop()` of the tracker sets `destroyed` before its last `flush()`, which then
  sends nothing (`frontend/src/lib/behavior-tracker.ts:158`).

## 15 Not modelled

* Dashboard, nginx, containers, monitoring: no state of their own that a
  property here is about. Metrics: written, never read back. (The gauge of
  active sessions asks for the empty site id and is constantly zero,
  `backend/cmd/server/main.go:355`.)
* CORS, CSP, request ids, logging: stateless.
* JWT signatures, bcrypt, TOTP: taken as the yes or no they give; making a token
  does not fail.
* Who may call the handlers of sites: `VisitorGate` and `Edits` have no caller.
* That a passed captcha is overwritten by an analysis begun before: both orders
  are in `VisitorGate`, no text promises that the reset lasts, and no property
  claims it.
* `backend/reaction`, and the store methods nobody calls.
* In `Uploads`: progress entries of past uploads (never removed), the watcher's
  socket (reads only), the fall-back to local storage when MinIO does not answer
  at start (the backend is fixed), several uploads under one upload id (the
  dashboard draws a fresh one each time).
* In `Access`: `last_used_at`, and the columns of an account other than its
  role (they are in `Edits`).
* In `Accounts`: the `oauth_state` cookie and the exchange of the code, which
  decide only whether a callback arrives; sessions and tokens, which are the
  matter of `Access`; passwords beyond there being one.
* In `RateLimiter`: the choice of the rule by the path, and the addresses in
  `X-Forwarded-For`: a key is given. In `FrontDoor`: the buckets of other paths
  than the token's, which may be empty at any time; exempt paths and reads.
* In `Tracker`: the other counters, which go the same way as the one; the
  analysis a batch starts, which is in `VisitorGate`.

## 16 What could come next

* The composition of `Accounts` with `Access` by their abstract specifications:
  a login of `Directory` is a session of `CredentialLedger`.
* Invariants of the abstract specifications themselves, from which those of the
  components follow through the refinements.
* Several uploads under one upload id, and the watcher's socket.
* A start of the server with another storage backend than before.
