# Keyrail PAM: a verification project

Keyrail is a privileged-access manager: a Fastify API over PostgreSQL and Redis that keeps passwords sealed under
per-tenant keys, lets users *launch* applications with them instead of reading them, and records everything in a
hash-chained audit log, with a React console in front. This directory models the backend and the console's state in TLA+,
checks the models with TLC on small instances and proves their main safety properties with TLAPS for every instance.

Source paths are relative to the repository; `audit.ts` and the like are under `backend/src/`, `store.tsx` under `src/state/`,
`Launcher.tsx` under `src/screens/`.

## 1. Inventory

| Component | State | Operations | Interacts through | What is hard | What makes it correct |
|---|---|---|---|---|---|
| Audit log (`audit.ts`) | `audit_events` per tenant, id sequence, advisory lock | `audit`, `verifyChain` | called by every handler, on a connection and transaction of its own | concurrent appends, failures under the lock, shared lock keys | one unbroken chain in commit order; alterations are reported |
| Launch grants (`vault.ts`) | `launch_grants`, `sessions` | issue, consume, terminate, sweep; deletion of the credential or the application | row locks, audit, the target reached by `perform()` | replay, expiry, rollback after an external effect, a sweep that holds rows and fails | one session per grant, within its bounds, with its trail |
| Keys (`vault.ts`, `crypto.ts`) | `encryption_keys`, sealed columns of `credentials` | create, rotate password, rotate keys, delete | row locks across nested transactions, the target system | overlapping rotations, failure half-way, deadlock | the newest key is active; nothing stored becomes unreadable |
| Browser sessions (`browserManager.ts`) | a Map in memory, Chromium, an interval per session | launch, close, expire | callbacks, timers, the user at the window | everything interleaves at awaits | no orphaned browser or interval; failures stay visible |
| Authentication (`auth.ts`, `routes.ts` 86-178) | Redis tokens and challenges, a Map, `users` | login, MFA, establish, refresh, logout, SSO | Redis without transactions, a row lock | read-then-write races, Redis failures swallowed | one live token per family; what is dead stays dead |
| Pool and transactions (`db.ts`) | 20 connections, the fallback flag | `withTenant`, the `pool` proxy, save and load | every handler; `audit` inside a transaction takes a second connection | nested demand at the limit, sticky fallback | requests end; no transaction changes database half-way |
| Administration (`routes.ts`, `vault.ts`) | users, collections, applications, credentials, connectors and their link tables | create, change, delete, register, revoke | row locks, foreign keys, audit on another connection | checks that lock nothing, two sets of members at once, deadlocks | what is changed is recorded; what is deleted stays deleted |
| Access requests and break-glass (`routes.ts` 601-629, 944-1005, `vault.ts`) | `access_requests`, `approvals` | request, decide, expire, reveal | read by grant issue, swept by the janitor | two deciders | one decision per request |
| Setup (`setup.ts`, `seed.ts`) | the first tenant | check, initialise, seed | `generateDek` on another connection | check-then-act, a key before its tenant | one tenant, complete or absent |
| Process (`main.ts`) | janitor flag, shutdown flag | start, sweep every 30 s, drain | all of the above | overlap and failure of sweeps, a signal in the middle | one sweep at a time; a clean end |
| Console store (`store.tsx`, `App.tsx`) | phase, user, challenge, lists, spinners | check, sign in, second factor, refresh, log out | HTTP, one cookie jar | late answers, overlapping flows | nothing of one user is shown to the next; spinners stop |
| Launch dialog (`Launcher.tsx`) | session, status, error, the access cookie | launch, poll, cancel or hide | the routes of browser sessions | polls out of order, a cookie that lapses, a dialog that goes before its answer | it comes to show the session's state while its cookie lasts; cancelling closes the browser |
| Connector (`connector/main.go`) | allow lists, local chain, tunnel | dial, heartbeat, commands | WebSocket | reconnects, two writers | commands outside the lists are refused and recorded |
| Extension (`browser-extension/`) | one pending grant | store, click | messages, `fetch`, tabs | state used after awaits | a grant is used once, in its domain |
| Schema (`database/migrations/`) | constraints, RLS | | | | tenant isolation |

Screens, the mock target server, deployment scripts and tests hold no protocol of their own and are left out.
`PROJECT.json` lists the components with their status, and under `hazards` the places where the code could go wrong in
a way a test would hardly reach, with the property that looks at it or the reason why none does.

## 2. Modules

| Module | Models | Proofs |
|---|---|---|
| `AppendOnlyLog` | the promise of the audit log: a history per tenant that only grows | |
| `AuditChain` | `audit()` and `verifyChain()` | `AuditChainProofs` |
| `OneTimeGrants` | the promise of the grant path: an offer of one credential to one user, good for one session begun in time | |
| `LaunchGrants` | the grant path of `vault.ts`, its routes and the janitor's sweeps | `LaunchGrantsProofs` |
| `SecretStore` | the promise of the vault while no password is rotated: a secret, once stored, is what its target accepts | |
| `KeyVault` | creation, password rotation, key rotation and deletion of credentials | `KeyVaultProofs` |
| `BrowserLaunch` | `launchBrowserSession` and all of `browserManager.ts` | `BrowserLaunchProofs` |
| `LaunchModal` | the launch dialog, composed with `BrowserLaunch` as its server | `BrowserLaunchProofs` |
| `AuthSessions` | password login, MFA, sessions, refresh and logout | `AuthSessionsProofs` |
| `ConnPool` | the pool, nested transactions, the fallback, the janitor and shutdown | `ConnPoolProofs` |
| `Directory` | the administration routes, access requests and break-glass | `DirectoryProofs` |
| `Setup` | the setup wizard and the seed script | |
| `ConsoleStore` | the console's store and the screens it chooses | `ConsoleStoreProofs` |

Each `MC*` module instantiates one of them for TLC. Definitions whose comment begins with *Fault* are deliberate errors:
variants of an action with a plausible bug, each of which some property must reject. Specifications do not use them.

### Conventions shared by the modules

* A request is a process; its `pc` (or `at`, `run`) names the await it stands at. What happens between two awaits is one
  action.
* A transaction is visible to others when it commits. `audit()` commits on its own; `AuditChain` opens it up, the other
  modules use it as one step, which AuditChain's refinement of `AppendOnlyLog` justifies.
* Any await may reject. A rejection rolls the transaction back and undoes nothing outside the database.
* Identifiers and random tokens are drawn from sets of model values, each once; those sets bound the instance.

### AuditChain

`log[t]` holds the committed rows, `holder[k]` the advisory lock, and a call is `Call`, `Lock`, `ReadLast`, `Insert`,
`Commit`, or `Rollback` at any point after `Call`. A hash is the sequence of everything hashed into it, so two hashes are equal only
when their histories are; the columns that `audit.ts:50` does not hash are kept apart (`unc`), because a change of those
is *not* reported. The lock key is a function of the tenant and may collide. `SerializingLock = FALSE` turns the lock
into pg-mem's no-op (`db.ts:59`): the chain then forks, which is why it is an assumption of the theorems.

### LaunchGrants

A request of `issueLaunchGrant` or `consumeGrant` walks through its statements. Row locks are `lock[g]`; the grant
row is locked by `FOR UPDATE` before it is looked at. RBAC, collection membership and the state of an access request are
nondeterministic outcomes: they decide whether a grant is issued, never what happens to it later. A refusal is two steps:
`Deny` audits it on a connection of its own (`vault.ts:60-90`, `:132`), `Refuse` throws, which rolls the request back.
`TouchCredential` is the `UPDATE` of `last_used_at`, whose row lock two launches of one credential contend for.

The janitor's work on one tenant is one transaction, `sweep`: `SweepBegins` finds the rows of its `DELETE`, `SweepLocks`
waits for each, `SweepCommits` removes them and expires sessions, and `SweepFails`, at any point, undoes all of it.
`DeleteApplication` takes the grants of the application with it, open ones too (`routes.ts:769`, the cascade of
`0001_init.sql:290`), unless a session refers to it. `Terminate` writes the row whatever its status; `ended_at` is not followed,
so that a second termination shows no more than the first. The session keeps the grant it came from and `performed` counts
calls of the target; both are history variables the code does not have. `POST /sessions` issues a grant and then always
fails, because the grant of its inner transaction is committed and its own insert names columns that do not exist; it is
modelled as an issue whose token never reaches the user. Sessions are therefore created by consumption only.

`Opens` is the set of credentials whose username unseals. `vault.ts:146` opens it with the first twelve bytes of the
*password's* tag, so for every row that the code writes the check fails: `Opens = {}` is the deployed behaviour, shown by
the instance `GrantNeverConsumed.cfg` (section 6). The runs give `Opens` a member so that the rest of the path is reached:
what they show is what the path guarantees once that line is right.

It implements `OneTimeGrants`: a stored grant row is an offer, a counted call of the target is a secret handed out, and a grant
that has been deleted is withdrawn, after its retention (`Clean`) or with its application (`Close`); requests, locks, audit and
failures are stutters. The offer's deadline is counted from the moment the request for it arrived, and a session from the moment its
request did, as `now()` is the start of the transaction.

### KeyVault

A blob is the key version that sealed it. A credential row has the version, the secret under its key, and the username
under its key; `read[p]` is what a request's `SELECT` returned, `dirty[p]` what it has written and not committed. An
`UPDATE` waits for a row other transactions have written, then changes the newest version of it, in its own columns only
(READ COMMITTED). `generateDek` and `rotateTenantDek` are transactions of their own inside the outer one. `Work` is
everything but waiting for a row; two rotations that wait for each other are ended by PostgreSQL, which aborts one.
The key cache is left out because a key of a version never changes. A rotation whose version would exceed `MaxVersion`
is aborted: a bound of the model. `Live` is the set of credentials whose adapter reaches a target: there `changePassword()` takes
the new password from whoever knows the old one, or fails to, and `verify()` tells (modelled from how `vault.ts` calls them). The
adapters that `routes.ts` injects for the rest do nothing and verify everything.

Without password rotation it implements `SecretStore`: the content of a stored credential is what its row reveals under the key of
its version. Only the commit of a creation and a deletion show; a rotation of all keys is a stutter from its first statement
to its commit.

### BrowserLaunch

`run[s]` is the await `runPlaywrightLaunch` stands at, `tick[s][k]` the await of the k-th tick in flight, `closer[c]` the
session a closing request waits for. `BrowserGone` is the end of the process together with the `disconnected` handler,
which is registered only once the page exists. What a page shows is nondeterministic. Closing a session that has no
browser is one step: awaiting an absent browser yields for a microtask in which no other callback runs.
The read-only routes and their ownership checks change nothing and are left out.

### LaunchModal

It EXTENDS `BrowserLaunch`: every step is one of the server's or leaves the server alone, so the theorems about browser
sessions hold under it. The dialog posts the launch (`Requested` is the server's side of it, `LaunchAnswered` the console's),
starts a poll each second while the status is not settled (`poll[s][p]` is the status a poll has read and not brought yet),
and shows answers in the order they arrive. `CloseSession`, `CloseServed` and `CloseSessionAnswered` are `handleCloseSession`
and its request; the button that sends it has two labels, "Cancel & Close Browser" and, over an AUTHENTICATED session, "Done /
Hide Modal" (`Launcher.tsx:262`), and `asked` remembers which it was. The dialog goes with the answer or with a failure.
`cookie` is the access cookie of the browser, which lapses five minutes after the login and which the console does not renew
(`CookieChanges`); the server lets no request in without it. A poll that is answered 401 is swallowed (`Launcher.tsx:160`), as
is the 404 of a session that is no longer listed, and the dialog goes on polling; so it does when the session has EXPIRED. The
error screen closes without a request. Answers for a dialog that has gone change nothing.

### AuthSessions

Redis, the process's Map and the user's row are three stores with no common transaction; a request's stage is `at[q]`.
Where the code catches a Redis failure (`.catch(() => {})`) the step has an outcome without its effect; elsewhere
`Fails` ends the request. `Fails` also models that cookies put on the reply before an error are sent with the error.
Anything in Redis may lapse at any time, the mark of a used token among it (60 s, `auth.ts:69`): a token presented after that is
unknown, and starts no revocation. `mfaStore` never lapses. A family is named by its first token. `session:` keys
are written and deleted but no code reads them. A browser may present any refresh token it was ever given, which covers
the cookie path that makes it present superseded ones (`routes.ts:167`). SSO ends in the same `establishSession` and adds
no state. Refusals that only audit and answer (`locked`, unknown user, wrong code) leave the state alone and are not
actions. `raced` and `revoked` are history variables; a family is `revoked` when a sweep of it has come to its end.

### ConnPool

`held[p]` is the stack of connections of a request, the innermost last, `queue` the line of the pool, `left[p]` how often
a request still asks. `withTenant` around `audit()`, `generateDek()` or `getDek()` is one more element on the stack. `Denied`
is everything that makes a query of the pool fail: the two-second timeout, PostgreSQL being away, the pool at its end.
In production it is an error that unwinds the stack level by level; in development it moves the process to pg-mem for
good, whatever else is open. The janitor is one more user of the pool: it lists the tenants, opens one transaction for
each, and resets its flag; a failure of one tenant is logged, a failure to list them rejects a promise nobody holds, which
ends the process. `Signal`, `Drained` and `Exit` are the two handlers of `main.ts`. What the transactions do to the tables is
in the other modules.

### Directory

A request is a record that says what its statements look for (`must`: a `SELECT` before; `hits`: the `WHERE` of the write)
and what they write (`next`: a status, "same" for other columns, "untouched" for none, which locks no row); `Asked` lists the
requests of the routes. Two slots run them statement by statement: `Find`, `Write`,
`Unlink` (the `DELETE` of the links the statement can see), `Link` (one `INSERT` each), `Record` (`audit()` on a
connection of its own), `Commit`. Waiting for rows follows PostgreSQL: a writer holds its row until it ends, an insert
waits for who inserts or deletes the same link or removes what it refers to, and `DeadlockAbort` ends one of those that
wait for each other. `POST /credentials` is recorded once more after its commit (`RecordAgain`), and a break-glass twice before it
(`RecordReveal`, `Record`). `RefuseWord` is a decision whose word the CHECK of `approvals` refuses. Identity, permissions and the
content of the rows are facts of one request and are left out, except that the caller has to be ACTIVE. `raced[h]` is a
history variable: the things other requests have changed since h arrived.

### Setup

A wizard runs `initializeSystem`, a seed script `main` of `seed.ts`; the rows are followed by part (tenant, administrator,
key, the rest). The tenant row of a wizard is in its transaction and the seed's is committed at once; the key is drawn by
`generateDek` on another connection in either case, and its foreign key sees committed rows only. `RowSecurity` says whether
the database user is bound by the policies (the deployment's superuser is not). This is PostgreSQL; in memory there is no such
check, and both of two wizards may complete.

### ConsoleStore

Each operation of the store is a flow in a slot: what it has begun (`op`), which answer it awaits (`at`), whom it was begun
for or which cookie its request carried (`who`). A flow sets the state, awaits, and sets the state again, whatever the others
did; nothing is cancelled. `jar` is the one access cookie of the browser: the server is external and answers a request for the
cookie it was sent with, or fails; a failing answer to a sign-in may bring the cookie all the same (`Refused`), since
`auth.ts:58` puts it on the reply before the statements that may fail. `Goes` also gives the effects of the screens: the Login
screen checks the set-up when it appears, and a form that left the screen has no submit button to press. `old` and `late` are
history variables: a user came or went while a flow awaited, and such a flow has since been answered. The per-entity create
and update helpers end in the refreshes that `Reload` begins.

## 3. Runs

| Run | States | What it asks |
|---|---|---|
| `audit_chain` | 22 525 | three calls, two tenants, one colliding lock key: chain, tamper evidence, commit order, refinement of `AppendOnlyLog`, and every call ends |
| `launch_grants` | 720 896 | two users, two requests, one grant, failures anywhere, sweeps that fail half-way, its application deleted, the clock running past every deadline: single use, the trail of what commits and of what is refused, refinement of `OneTimeGrants` |
| `launch_grants_fair` | 82 140 | requests end, sessions lapse, grants are swept, although row locks are contended and sweeps fail while they hold them |
| `key_vault` | 929 259 | creations, both rotations and deletions overlapping and failing: key states, a rotation that has verified its target is the target's last word, and what alone can part vault and target |
| `key_vault_rekey` | 60 043 | key rotations deadlocking and failing half-way: refinement of `SecretStore`, and every request ends |
| `auth_sessions` | 600 656 | two requests of any kind, Redis failing: tokens, challenges, dead families |
| `directory` | 140 005 | any two administration requests, statement by statement, failing and deadlocking: what a commit rests on, its audit row, and every request ends |
| `conn_pool` | 160 843 | two requests nesting up to three connections and the janitor on a pool of two, signals, PostgreSQL coming and going |
| `console_store` | 27 887 | any two operations of the store overlapping, two people on one tab |
| `browser_launch` | 174 074 | a launch under its dialog: two ticks, two polls, a closer, the user, the deadline, the cookie |
| `vault_rotate_rekey` | violation | section 6 |
| `setup_completes` | violation | section 6 |

Six more instances are kept beside the runs, see section 6: `GrantPerformedTwice.cfg`, `GrantNeverConsumed.cfg`,
`VaultUsername.cfg`, `LoginNeverLocks.cfg` and `HideModal.cfg` are further disagreements and end in a counterexample; `Setup.cfg`
(two wizards, two seeds, failures) and `BrowserLaunchMore.cfg` (the remaining properties of `LaunchModal` and `BrowserLaunch`)
pass.

### Bounds

* *audit_chain*: `MaxId = 5` allows the genesis row and four appends: enough for two tenants' calls to overlap,
  for an id to be lost to a failed call, and for a fork to be followed by another append. Three calls let a third wait
  while one holds the lock and one reads.
* *launch_grants*: a grant and two session ids suffice for a double use; `GrantTTL = SessionTTL = Retention = 1` and
  `MaxTime = 3` reach a fresh, an expired, a kept and a swept grant, and a session that outlives it.
  Two users make a token presented by the wrong one possible. `Faults` says who may fail: requests and the janitor here, the
  janitor alone in `launch_grants_fair`.
* *key_vault*: three versions let two rotations overlap and a third state follow; two credentials are what a deadlock between
  two rotations takes. A third secret lets two rotations of passwords draw one each. `Live = {c1}`: one credential has a
  target to lose, and the other the adapter that does nothing. `key_vault_rekey` leaves password rotation out of `Ops`, since
  with it the property is false (`vault_rotate_rekey`).
* *browser_launch*: sessions share nothing but the code, so one is enough, and the theorems cover any number. Two ticks
  overlap, two polls arrive out of order, and a closing request races the launch and the deadline.
* *auth_sessions*: three tokens are a family's root and the two successors of a race, or two families; one challenge
  answered by two requests; `LockAfter = 1` keeps the ghost counter small and is 5 in `LoginNeverLocks.cfg`.
* *directory*: races, deadlocks and mixed sets take two requests; two users and one of everything else let members be
  linked in opposite orders. `MaxArrivals = 2` bounds the behaviour, and `Present` starts it from two small
  databases, with and without a second user, who is disabled (`Disabled`): there is one caller at first, and who calls matters only to
  `ActsWhileActive`, which is proved. The theorems have no such bounds.
* *conn_pool*: two connections are exhausted by two requests that hold one and ask for another; `MaxAsks = 3` is the
  deepest nesting of the code (handler, `createCredential`, `generateDek`). `MaxTenants = 1` lets a sweep fail at its
  list and at its tenant. Requests come for ever.
* *console_store*: two flows overlap; of the two users one has a second factor; one list stands for each of them, since
  they share no state but the flow that loads them. Logins, polls and page loads are not bounded.

Model values that are interchangeable are declared symmetric, in safety runs only. All runs disable the deadlock check:
requests are finite in number, identifiers run out, and a system with nothing to do may stop.

### Fairness

Used where a property says that something happens. A process that can take its next step does (weak fairness): the event loop
runs every callback that is due, and PostgreSQL, Redis and Playwright bound their answers with timeouts. Waiting for a lock is
strongly fair, because PostgreSQL queues the waiters of a lock. The clock advances and the janitor keeps coming back; its
sweeps may fail any number of times, but not for ever. No fairness is assumed of users, of failures, or of the arrival of
requests. In `BrowserLaunch` the user is never obliged to close anything. `AuthSessions` states no liveness. `Directory`:
statements complete (weak fairness), and who waits for a row is served (strong). `ConnPool`: the process, the interval and
each request go on; nothing forces a request or a signal to come. `ConsoleStore`: a request is answered or fails, the user may
do nothing. `LaunchModal`: the dialog's interval fires, and a poll that the server lets in does not fail for ever. Nobody has
to renew the access cookie, so what the dialog comes to show is promised only while the cookie lasts; a closing request may go
unanswered.

### What passes

* The chain of a tenant is linear in commit order and every alteration of a hashed column of a linked row is reported.
* A grant backs at most one session, reads as used exactly when there is one, and the session is of its user and credential
  and was asked for before the grant expired: `LaunchGrants` implements `OneTimeGrants`. That promises one *session* and not
  that the secret is handed out once, which is not so (section 6). The secret behind a used grant is not unsealed again.
  Terminated sessions stay so, although the janitor and the owner write the same row. A refusal that the code
  audits is in the log before the request is rolled back; the two of `vault.ts:97` and `:101` are not audited.
* The newest key is ACTIVE, key states are ordered by age and only advance, and key rotations by themselves cannot be told
  from doing nothing by whoever reads a password, whatever fails. Rotations of one password overlap in every order: one that
  has verified its target has it to itself and stores what it accepts. Vault and target part in two ways only: a rotation
  fails between the target's change and its commit, or a rotation of all keys writes back the secret it had read.
* A browser with a window is always in the hands of something that will close it, even one whose session was closed before
  it had opened; FAILED is overwritten by nothing but a close; intervals end.
* Without overlapping requests of one family, a family has one live token; a family with nothing
  in Redis and no rotation under way never comes back. That a second presentation revokes the family is *not* among what passes
  (section 6). A challenge answered while Redis obeys is gone from both stores.
* Requests that hold connections and wait for more let go of each other; in production nothing is done in memory, and no
  request goes back to PostgreSQL inside a transaction begun in memory. The janitor returns after sweeps that failed, and
  a signal to a serving process is its end, with no request unanswered and no connection in use.
* Every committed change of the administration routes has an audit row; a deleted user comes back, and a request is decided
  twice, only through a request that had looked before the other one committed; members are what was asked for
  unless somebody else changed them meanwhile; every request ends, deadlocks included.
* The console is shown only for a user. Until an answer arrives after its user has gone, the lists hold nobody else's data;
  a spinner turns only while something is awaited, and a tab that left the console stops asking.
* While the access cookie lasts, the launch dialog comes to show what a session stays at, although its polls overtake each other, and
  "Cancel & Close Browser" closes the browser it has heard of once the server has the request.

## 4. Proofs

Every theorem is about the specification with arbitrary constants, under the named assumptions of its module (`NoWriter`,
`None` and the like lie outside the sets they are added to; bounds are natural numbers). The pattern is the same: an
inductive invariant `IInv` that contains the properties, `Init => IInv`, one lemma per action that it is kept, and a last
step of temporal logic. TLC checked each `IInv` on the instances first.

* **AuditChainProofs**, assuming `SerializingLock`. `LockInv`: who stands between lock and commit holds the lock of its
  key. `OrderInv`: ids are below the sequence, an inserted row is newer than every committed one of its tenant, and the
  hash it read is *still* the newest. These make `Commit` append a row that fits; chain, order and the refinement follow.
  `AlterationReported` needs no invariant: it is about `verifyChain` on any log. `FollowedInv` (ids are unique, and every
  row but the newest of its tenant has a successor that links to it) makes a removed row show, hence `TamperReported`.
* **LaunchGrantsProofs**. `ProcInv` says what a request knows at each stage: that it holds the row it consumes, that the grant
  was unused when it looked and, because of the lock, still is, that what it will insert is new. `TableInv` joins the
  properties with "a used grant was issued before": single use alone is not inductive, since it takes the lock to know that no
  other request is about to record a session. `RefusalInv` says that what a request is about to be refused for is so,
  `SweepInv` that the janitor holds only rows that were past their retention when its transaction began. `TerminationFinal` is
  about the status alone (a second termination does write `ended_at` anew): no sweep that began before the termination and no
  request that commits after it gives the session another one, since a recorded session is new. `Refinement` goes step by
  step: each action of a request is one of `OneTimeGrants` or a stutter. The one thing to add to the invariant is `Driven`:
  whoever is about to record a session has driven the target, so the offer it takes had been handed out. User, credential and
  deadline are part of an offer, so the refinement also says that a session is never of anybody else's, nor begun too late.
  The deletion of an application is `Close`: it takes open offers and no session.
* **KeyVaultProofs**. `KeysInv` says that the newest version is ACTIVE and states are ordered; `ProcInv` that a rotation
  that inserts a version knows its predecessor exists. On top of these stand five invariants about the secrets.
  `GoodInv`, for `NothingLost`: what is stored, read and not yet committed opens and is the target's secret; it assumes that `Ops`
  has no password rotation. With `StoreInv` (nobody else creates the credential that a request creates, and what is about to be
  written over is there) it gives `Refinement`, the implementation of `SecretStore`.
  `RotInv`, for `RotationHolds`, assumes nothing: a secret that a rotation has drawn is in no row but the one the rotation itself
  is about to commit, hence nobody who reads the credential can satisfy a target that has been changed to it.
  `SoundInv`, for `ReadableApart`: without key rotations nobody moves the version of a row, so the one that a password rotation has
  read is the row's own when it seals under it. Either kind of rotation alone is safe; the two together are not.
  `FallsOutOnlyBy` assumes nothing either, neither which adapters reach a target nor what fails: it names the two steps by which
  the vault falls out of step with a target, and `StepInv` shows that there is no third. Whoever does not rotate the keys has
  written at most one row, its own, which it goes on to commit: a new one holds what its target accepts, a rotated one the
  secret drawn for it. With `RotInv` the commit of a rotation keeps the two together, and every other step leaves both alone, is
  a failure of a rotation that may have changed its target (`vault.ts:295-308`; a deadlock's victim is one, as is one that finds
  its target not verified, `vault.ts:301`), or commits a key rotation, with what that had read.
* **BrowserLaunchProofs**. Per session: `Stage` (what exists at each point of the launch), `Honest` (a CLOSED session has no
  open page, an EXPIRED one no armed interval) and the properties. The interesting case is a tick that clears the interval: an
  armed interval implies a page, and none of FAILED, EXPIRED, CLOSED can hold with the page open and the interval armed, so
  the interval is cleared only over a page that has gone, or by the tick that closes the browser. `Frame` carries the
  invariant over for the sessions a step leaves alone. The dialogs of `LaunchModal` take steps of the server or leave it alone
  (`DialogImplementsLaunch`), which carries both properties over; `MInv` adds what a dialog has heard: a status that a poll
  brings is one the session has had, and a failure on its screen, or in an answer still under way, is final
  (`ErrorScreenSafe`), since nothing opens a browser for a session that has failed.
* **AuthSessionsProofs**. What two requests do to one family is not protected by anything, so the invariant is about the
  families on which no two have been at work at once, and `RaceInv` says that the others are marked. `LiveInv`: before the
  presented token is superseded it is the only live one, and between that and its successor there is none: this is what makes
  the one token of a family inductive. `RevokeInv`: while a reuse sweeps, everything left of the family is on its list, hence
  `RevokedIsGoneHolds`, of sweeps that come to their end. `MintInv` says that nobody knows a family that is being founded,
  `NextInv` that a drawn token is nobody else's, `ChallengeInv` the same of a challenge, and that one being spent has left the
  Map; `LockInv` who holds the user's row.
* **ConnPoolProofs**. `Settled`: the connections in memory are on top of those of the pool, and nobody in PostgreSQL's line
  holds memory. `ModeInv`: production never falls back. `DrainInv`: from the end of the pool on no request is in
  flight, which holds because `Arrive` needs a serving process and draining waits for the others. `AccountsHold` is the book
  of the pool: no connection is lent twice (`LentOnce`), the line is exactly those who wait, once each (`InLine`), and a user that
  has ended holds nothing (`GivenBack`), through nesting, timeouts and the fallback. It rests on what joining and leaving
  do to a sequence without duplicates.
* **DirectoryProofs**. `FoundInv`: what a request found of its row still holds as long as nobody else has committed a change
  to it (`raced`); `ActiveInv` the same of its caller. `CountInv` counts, beside what is committed, the
  requests that have been recorded and are about to commit: without them the counts are not inductive. `LinkInv` is about
  what row locks do protect: whoever removes a row and whoever inserts a link to it keep apart (`Apart`), so committed
  links refer to rows that are there and a row being created has none; `MembersLeft` rests on it.
* **ConsoleStoreProofs**. The flows are never cancelled, so the invariant speaks of all of them. `LateInv`: until an answer
  is late, the cookie is the user's, a flow during which nobody came or went signs in only while there is no user, and loads lists
  for the user alone. `FormsInv`: a form is sent for a user. Screens and spinners are inductive with the types.

Every safety property that a passing run checks is a theorem. Only model-checked: every liveness property (their proofs need
`ENABLED`, which the prover does not handle), the dialog's among them, and what `Setup` states. Of `ReadableApart`,
`RevokedIsGoneHolds` and `AccountsHold` it is the other way round: they are proved, and TLC has checked their invariants, but
no run is kept for them. No theorem is about recursive definitions; the chain is an invariant of steps rather than an
induction over its length for that reason.

## 5. Not modelled

* *Connector* (`connector/main.go`). It dials a tunnel that nothing in the repository serves, and no route sends a command: its
  peer would have to be invented. Reading it: `main.go:82` speaks of a chain, but the detail and the tenant are not hashed; a
  restart begins the chain anew and a failed write breaks it (`main.go:93`); the heartbeat and the command loop write one
  websocket (`main.go:208`); the signal is looked at only between connections.
* *Browser extension*. It consumes its grant at a route that does not exist, so each of its behaviours ends at the first
  `fetch`. `background.ts:54` clears the pending grant only after that await.
* *The in-memory database*. Its switch is in `ConnPool` and its lock in `AuditChain`; the debounced save of its tables and their
  reload (`db.ts:75`) are not.
* *SSO* ends in `establishSession`, as password logins do, and is no action of its own. TOTP arithmetic, WebAuthn and
  cryptography are abstracted to their outcome.
* *Row-level security*. The policies are declarative SQL; `Setup` has a constant for whether they bind.
* *Access requests*. No route produces an APPROVED one (the decisions of `/approve` and `/deny` fail on columns that the
  schema does not have), so their expiry and their use by a grant have nothing to begin from. The second approver of a
  break-glass is a fact of one request.
* *Browsers at the exit of the process* are Playwright's to close.
* Rendering, filters, toasts, the mock target, deployment scripts and tests hold no protocol of their own.

## 6. Where code and documents disagree

Shown by runs:

* `vault_rotate_rekey`: `vault.ts:303` re-seals "under current DEK", but under the version read before the target was
  called; a key rotation in between leaves a blob that its row's version does not open. It takes both
  kinds of rotation, as the theorem `ReadableApart` says.
* `setup_completes`: `setup.ts:5` says that the wizard creates the first tenant and its administrator. On PostgreSQL it never
  does: `setup.ts:187` draws the key on another connection, where the tenant that it refers to is not committed yet.

Shown by instances that are not among the runs (`tlc -config X.cfg M.tla` ends in a counterexample):

* `LoginNeverLocks.cfg` (`MCAuthSessions`): `docs/API.md:19` promises a lock after five failures. `auth.ts:82` counts in the
  transaction which the refusal (`auth.ts:80`) throws out of, so `db.ts:174` rolls the count back.
* `GrantPerformedTwice.cfg` (`MCLaunchGrants`): `docs/security/invariants.md:268` says a grant can be consumed only once. One
  *session* comes of it, but when the commit fails after `perform()` (`vault.ts:151`) the target has been driven and will be again.
* `GrantNeverConsumed.cfg` (`MCLaunchGrants`): `docs/security/invariants.md:313` expects a fresh grant to be consumed with 200;
  see `Opens` above.
* `HideModal.cfg` (`MCBrowserLaunch`): the panel over an AUTHENTICATED session says "You can continue using your session"
  (`Launcher.tsx:256`) and the button below it "Done / Hide Modal" (`:262`). It is the other button under another label: its
  request closes the browser.
* `VaultUsername.cfg` (`MCKeyVault`): `vault.ts:335` records "all credentials re-sealed"; `vault.ts:330` moves `key_version` on
  without the username.

Seen while modelling and not given a run:

* `setup.ts:224` writes the first audit row with a zero hash, so `verifyChain` reports every tenant of the wizard as broken.
* `audit.ts:50` hashes five things; actor name, resource, result and address can be changed unseen (`audit.ts:4` says any
  alteration breaks the chain).
* `vault.ts:100` enforces the session limit at issue and not at consumption; `vault.ts:97` and `:101` refuse without an
  audit row (`docs/API.md:60` says every refusal on a sensitive path is audited).
* `vault.ts:301` keeps the old secret after the target was changed (`docs/API.md:37` says roll back).
* `vault.ts:334` retires versions that a concurrent creation still uses (`docs/ARCHITECTURE.md:55`).
* `docs/API.md:22` says that reuse revokes the family. A token is remembered as used for a minute (`auth.ts:69`), after which it is
  merely unknown; the sweep of `auth.ts:68` may fail half-way, which leaves part of the family; two presentations at once both
  rotate (`auth.ts:67-71`); and a rotation may write its token after a revocation has listed the keys. No property of the
  runs says that reuse revokes; `RevokedIsGone` says what a sweep that comes to its end, alone, achieves.
* `routes.ts:141-149` lets two requests answer one challenge, and wrong codes do not consume it (`auth.ts:8`,
  `routes.ts:139`).
* `routes.ts:174` deletes a key nobody reads; the refresh token outlives logout (`docs/API.md:23`).
* `routes.ts:167` sets the rotated cookie for another path than the one it was issued for (`auth.ts:7`).
* `browserManager.ts:77` can overwrite CLOSED or EXPIRED, and a window closed under a running Chromium leaves the process
  and a stale status (`browserManager.ts:72`).

Administration and setup:

* `PATCH /users/:id` looks for a live user and writes by id alone, so it can bring a user back whom a deletion has just
  removed (`routes.ts:303`); `PATCH`, rotation and break-glass of a credential do not look at its deletion at all. There is no
  rule about the last administrator.
* `POST /credentials` commits the credential and then records it a second time: when that fails it answers 500.
* `/approve` and `/deny` fail on a column that is not there; at `/:decision` any word but `approve` goes the way of a denial
  (`routes.ts:619`): `APPROVE` ends as one whose row in `approvals` says APPROVE, other spellings of the two words likewise,
  and every other word is refused by the CHECK of `0001_init.sql:278` and rolled back. Nothing keeps a requester from deciding
  (`docs/architecture/services.md:639`).
* Routes that name columns which the schema does not have, and fail: `audit_events.ts` (it is `at`; `GET /audit-events`, the
  dashboard), `sessions.ip_address` and `user_agent`, `access_requests.requester_id`.
* Deleting an application takes grants that users hold and have not used (`routes.ts:769`, `0001_init.sql:290`), without an audit
  row of theirs.
* `0001_init.sql:203` refers to a table `connectors_stub` that no migration creates. The table that does so is dropped and created
  again a few lines on, but PostgreSQL refuses the statement, and `db.ts:187` sends the file as one query. The modules are about
  the schema that the file describes.
* A break-glass token is stored before its audit rows are written.
* Two wizards with different slugs both complete in memory. A seed that fails leaves a bare tenant, after which the
  wizard refuses; running the seed again repairs it, and re-activates its users.

Console:

* Answers that come after a logout put a user's data back into the store (`store.tsx:343`); `OthersOnlyWhenLate` says
  that nothing else does. A logout that fails leaves the cookie, and the check of the Login screen opens the console
  again (`store.tsx:315`).
* Nothing calls the refresh of the access cookie, so it ends after five minutes; the lists then fail silently
  (`store.tsx:334`), and every poll of a launch dialog is answered 401 and swallowed (`Launcher.tsx:160`): it never comes to show
  an expiry, which is two hours after the launch, unless somebody has signed in meanwhile.
* The challenge of the second factor is kept until a code succeeds: a stale one cannot be left without a reload. One spinner
  serves all flows, so the check's `finally` turns it off under a sign-in.
* The launch dialog polls on when a session has EXPIRED or is no longer listed, and its error screen closes without closing
  the session; a launch that fails at once leaves it without the text of the error. `Launcher.tsx` sends `app.credentialId`
  where `GET /applications` returns `credential_id`.

## 7. Running

`tlc -config AuditChain.cfg MCAuditChain.tla` and so on, as `PROJECT.json` lists them under `runs`; `tlapm
AuditChainProofs.tla` and its siblings for the proofs. A run takes up to four minutes with two workers, the longest
proof module some minutes.
