# Disney World Tracker: specifications and proofs

This directory holds TLA+ models of the API and the mobile application of the
Disney World Tracker, the TLC configurations that check them on small
instances, and proofs that TLAPS checks for every value of the constants. The
modules are written from the source under `apps/api` and `apps/mobile`; paths
below are relative to `apps/api/src/services` unless they start with `apps/`,
`packages/` or `.kiro/`.

Run a check with `tlc -workers 2 -config aggregate.cfg RatingAggregateMC`, and a
proof with `tlapm RatingAggregate_proofs.tla`.

## 1. Inventory

The API is one Node process (Fastify). Requests interleave at every `await`, so
the unit of atomicity is one SQL statement, one Redis command, or the code
between two awaits. Postgres runs at its default READ COMMITTED: a statement
sees what is committed when it starts, an `INSERT` waits for an uncommitted
writer of the same unique key, `FOR UPDATE` locks only rows that exist, and
locks end with the transaction. Several processes of the API may share the
database and Redis; the models do not distinguish them from several requests of
one process. The application is React Native with React Query: its async
functions interleave at every `await` as well, over a network that loses
requests and answers.

| Component | State | Operations | Hard behaviour | What makes it correct |
|---|---|---|---|---|
| Ratings and aggregates (`tracking/rating`, `aggregate`, wired by `apps/api/src/composeServices.ts`) | `ratings`, `aggregate_ratings` | PUT and DELETE of a rating; `updateAggregate` after the commit | two transactions per request with a gap; events in another order than commits; an event lost | the aggregate row equals a recomputation of what it accounts for |
| Reconciler and queue (`aggregate/worker.ts`, `ratingChangedQueue.ts`) | the scheduler's position, the queue | a tick recomputes a batch of experiences; BullMQ jobs with retries | a recomputation between a commit and its event; a job applied and tried again, or overtaken | drift is repaired |
| Leaderboard (`aggregate/leaderboard.ts`, `apps/mobile/src/screens/home/HomeScreen.tsx`) | a Redis key with a TTL, the query of a phone | read through the cache | a slow request stores an old list over a newer one | R11.7 to R11.9: staleness is bounded, the table is seldom read, everybody sees the list in the end |
| Friends (`friends`) | `friend_requests`, `friendships` | send, accept, decline, remove, list, search | check-then-insert, accept against decline, repeated accepts, spellings of ids | Property 21: nothing, one request, or a friendship between two users |
| Sharing (`sharing`) | `shares`, `share_recipients` | create, open, delete for the recipient, list | friendships that end meanwhile, a failure between two INSERTs | Property 22: all recipients or none, friends only |
| Sessions (`auth/sessionMiddleware.ts`, `auth/routes.ts`) | `sessions` | issue, authorise, logout | read, decide, then an UPDATE without a condition; logout in between | Property 14: when a session ends |
| Registration, login and lockout (`auth/routes.ts`, `auth/lockout.ts`) | `users`, `profiles`, `sessions`; a sorted set and a lock in Redis | register, log in, record a failure, clear | three INSERTs; five commands without a transaction, the lock looked up long before the failure is recorded | Property 15: five failures in 15 minutes lock for 15 minutes |
| Rate limiting (`apps/api/src/plugins/rateLimit.ts`) | counters in Redis | count a request | a window that ends while requests wait | the limit of the login route |
| Catalog sync (`catalog`) | `experiences`, `catalog_sync_runs`, `catalog_cache_metadata`, a Redis lock | scheduled and opportunistic sync, reconciliation, read with a 5 s limit, the walk from an entity to its park | lock expiry during a sync, a sync that outlives its read, a run that is applied and recorded as failed, cyclic parents | one sync per key; a failed sync keeps the catalog; the nearest park |
| Completions and notes (`tracking/completion`, `tracking/note`) | `completions`, `notes` | upsert, edit and delete | overlapping requests of one key, time zones | Property 7, R2.6 |
| Stats (`stats`) | none | counts and percentages of every slice | two SELECTs with a sync between them, division by zero, rounding | R3: one instant, exact percentages |
| Profile and avatar (`auth/profileRoutes.ts`, `auth/avatarStore.ts`) | `profiles`, objects of the bucket | update, upload, fetch | the upload succeeds and the UPDATE fails, two uploads overlap | Property 18: the row names an object that is there |
| Mobile app, session and screens (`apps/mobile/src`) | secure storage, the token in memory, the query cache, mutations | start, log in, log out, visit, change something | an old 401 after a new login, a fetch older than a mutation, lost answers, a kill at any await | one user's data and token on a user's screens; a screen at rest shows what is stored |
| Catalog browsing and search (`apps/mobile/src/screens/catalog/CatalogScreen.tsx`, `friends/FriendsSearchScreen.tsx`) | chips, debounced text, one cached answer per combination | choose, type, receive | answers out of order, wildcards in what is typed | the list is the one of the filters |
| Other screens, infrastructure, shared schemas | none of their own | drawing, start-up, validation | none that a model reaches | |

How they interact. A request passes rate limiting and the session middleware,
then its handler. A rating handler calls `emitRatingChanged`, which
`composeServices.ts:147` wires to `aggregateRepo.updateAggregate` and awaits, so
an aggregate failure becomes the rating request's failure. Production starts
neither the BullMQ worker nor the reconciler nor the catalog scheduler; they
are exported and tested. Sharing reads `friendships`. The leaderboard and the
experience pages read `aggregate_ratings`. The catalog sync is the only writer
of `experiences`, which every tracking table references; stats join it. The app
calls the API through `apps/mobile/src/api/client.ts`, whose `apiRequest` reads
the token from secure storage; a 401 clears it and the navigator shows the
sign-in screens.

## 2. Plan

The order of the work was that of what is at stake: `MeanX10`, `RatingAggregate`
and `RatingBoard`, then `AggregateReconcile` with the queue; `Friends` with
`FriendGraph`; `Sharing`; `Sessions`; `CatalogSync` with `CatalogFeed` and
`UpstreamSet` (composed in `CatalogContent`); `Login`; `Leaderboard`; `Tracking`; `Phone`; `Browse`.

What would come next: the composition of `Phone` with `Sharing` and `Friends`,
where the other user's actions change the row that a screen shows.

## 3. Modules

| Module | Models | State and actions |
|---|---|---|
| `MeanX10` | `aggregate/updateMeanX10.ts`, the CHECKs of `aggregate_ratings` | the incremental update and the rounding, as operators |
| `RatingAggregate` | `tracking/rating/repo.ts`, `aggregate/repo.ts`, `emitRatingChanged` | `ratings` and `aggregate_ratings` as committed; one action per statement: `SelectPrior`, `WriteRating`, `CommitRating`, `LockAggregate`, `ReadAggregate`, `WriteAggregate`; `AbortRating` and `LoseEvent` are the failures before and after the commit |
| `RatingBoard` | what the aggregate promises | abstract: ratings, the part of them that is reflected, the published rows |
| `AggregateReconcile` | the reconciler of `aggregate/worker.ts`, `recomputeFromScratch`, `ratingChangedQueue.ts` | `RatingAggregate`, the tick (`StartTick`, `LockForRecompute`, `ScanRatings`, `OverwriteAggregate`, `SkipExperience`, `EndTick`) and the queue (`Enqueue`, `Take`, `Upserted`, `Requeue`, `AppliedAndFails`) |
| `Friends` | `friends/repo.ts`, `canonicalPair.ts`, `friends/routes.ts` | the two tables, one action per statement of the four handlers; `Abort` before a COMMIT |
| `FriendGraph` | Property 21 | abstract: pending pairs, friends, and the pairs whose operations overlapped |
| `Sharing` | `sharing/repo.ts`, `sharing/routes.ts` | the two tables and the friend graph; the three statements of a share, open, delete |
| `Sessions` | `auth/sessionMiddleware.ts`, the SQL of `composeServices.ts`, issue and logout of `auth/routes.ts` | the row of each session, a clock; `Arrive`, `Find`, `Decide`, `UpdateActivity`, `Revoke` |
| `Login` | `handleRegister`, `handleLogin`, `auth/lockout.ts`, the login bucket of `rateLimit.ts` | rows of an address by table, the two Redis keys, the bucket, a clock; `InsertUser`, `InsertProfile`, `InsertSession`; `RateLimit`, `IsLocked`, `Verify`, then `RemoveOld`, `Add`, `ExpireCounter`, `Count`, `SetLock`, or `Clear`, `FetchProfile`, `IssueSession` |
| `Leaderboard` | `aggregate/leaderboard.ts`, the query of `HomeScreen.tsx` | both tables, the key, what each phone holds, with ages in place of dates; `Open`, `Get`, `Query`, `Set`, `Receive`, `SetFails`, `Fail`, `Tick` |
| `Tracking` | `tracking/completion`, `stats`, avatar and read of `auth/profileRoutes.ts` | `experiences`, `completions`, the profile row, the bucket; `Mark`, `Edit`, `Unmark`; `Check`, `Denominators`, `Numerators`, `OverallPercent`; `Upload`, `SetAvatar`; `Sync` and `Befriend` beside them |
| `CatalogSync` | `catalog/{readDecision,sync,reconcile,repo,scheduler}.ts`, `decideRead` of `composeServices.ts` | `experiences`, the time of the last success, the Redis key; a request (`ReadAge`, `Deadline`, `List`) or a job of the scheduler (`RunJob`), and the sync it starts (`Acquire`, `Fetch`, `Compare`, `Apply`, `RecordSuccess`, `RecordFailure`, `Release`), with `Fail`, `Crash`, `Expire` beside them |
| `UpstreamSet` | `buildUpstreamSet`, `resolvePark`, `classify.ts` | the walk over upstream's lists, its two loops as recursive functions, and beside it what it should find, said without loops |
| `CatalogContent` | `runSyncWithLock` | `CatalogSync` over what `UpstreamSet` makes of upstream's answers |
| `CatalogFeed` | R1.13 to R1.16, R1.24 | abstract: the releases of the upstream source and the one readers are shown |
| `Phone` | `apps/mobile`: `App.tsx`, `api/client.ts`, `state/sessionStore.ts`, the navigator, the screens that change something | what runs in each slot; token stored and in memory; one query and the mutations of one screen; the rows at the server. `Hydrate`, `SignIn`, `SignedIn`, `Logout`, `Settle`, `Out`, `Refused`, `Unpublish`, `Restart`; `Visit`, `Fetched`, `NotFetched`, `Press`, `Invalidate`, `NameSaved`, `Sent`, `NotMutated`, `Leave`, `Collect`; `Serve`, `Lose`, `Expire` |
| `Browse` | `CatalogScreen.tsx`, `FriendsSearchScreen.tsx`, `useDebounce.ts`, the two SELECTs they reach | chips, text, cache by key, queries under way, the table; `Choose`, `Type`, `Pause`, `Select`, `Receive`, `FailQuery`, `AgeAnswer`, `Collect`, `Change` |
| `*MC` | | values for TLC |
| `*_proofs` | | invariants, lemmas and theorems of the module of that name; `Catalog_proofs` holds those of `CatalogSync`, `UpstreamSet`, `CatalogContent` and `Browse`, and `SignIn_proofs` those of `Phone` and `Login`. The specifications of `Browse` and `Login` are `BrowseSpec` and `LoginSpec`, so that one module can extend two |

Conventions. A table holds committed rows; what a transaction wrote is in its
handler's `job` until its commit action. Who holds a lock follows from `pc`.
Variables commented "history" do not exist in the code and only serve
properties. `PROJECT.json` maps every definition to its lines. A definition
commented "Mutant" is not part of a model: it is what a plausible slip of the
code would make of the definition after it.

Abstractions. Ratings, ids and times are small integers; names, texts and
payloads are left out unless something is searched in them. In `Friends` an id
is its position in string order, which is all `canonicalPair` looks at, and
`Names` folds two spellings of one uuid. In `Sharing` friendships come and go
one pair at a time, as in every step of `FriendGraph`, which `Friends` implements. In
`Sessions` a login's failure leaves nothing and is not an action; the password
check is in `Login`. In `Login` a moment is one value of the clock for all that
happens in it, and Redis removes a key exactly when it expires.

In `CatalogSync` durations are reduced to what their order allows: a fresh cache
may grow stale, the 5 s and the 10 minutes may be over at any moment. That is
no exaggeration: the client of upstream sets no time limit, and the defaults of
`fetch` (5 minutes for the headers, 5 more between chunks of the body, twice)
exceed the life of the key. `Content` stands for what `UpstreamSet` makes of
upstream's lists, and `CatalogContent` says that it is that (`ContentAssumption`). Name, park and category are one `Detail`, since
`reconcile` compares the three alike. The two calls to upstream are one read: the
destination's list of parks is assumed not to change between them, and children
that do are a release of their own. An experience is named by its upstream id,
from which `internalId` computes the row's. A caller is a request together with
the sync it starts, which goes on when the request is answered; it asks again
only when both are over, so further requests are further callers.

In `Tracking` the snapshot of REPEATABLE READ is taken by the first SELECT, as
Postgres does, and the clock of the server never goes back: `NoneInTheFuture`
rests on it. In `Leaderboard` every list carries `old`, how long ago it stopped
being the true one, so time needs no origin. `Phone` describes React Query by
what the screens use of it. It assumes that the user waits while a form is
submitted, that storage is read faster than a password is typed, and that on
the row of the screen nobody else acts; the fetch of a name stands for `/me` and
the profile after it. In `Browse` a character stands for its class: a letter in
two cases, a wildcard, a backslash, a blank.

## 4. What TLC checks

| Run | Instance | Shows |
|---|---|---|
| `aggregate` | 3 users, 1 experience, 2 handlers, values DELETE, 4, 9, one lost event, one request per row in flight | the row is exact, CHECKs refuse nothing before an event is lost, the mean is the nearest tenth, and the handlers implement `RatingBoard` |
| `reconcile` | 1 user, 2 workers, 1 experience, a queue of 1, 2 attempts, one failure, no client discipline | a recomputation is current when it is written; drift is repaired whatever is lost, overtaken or applied twice; locks always come free |
| `friends` | 2 users and a second spelling, 2 handlers, any overlap, 2 requests | consent, atomic answers, no circle of waits; when exactly the rules of Property 21 and `FriendGraph` are departed from |
| `friends_race` | 2 users, 2 handlers, any overlap | a violation: two mutual requests are pending (section 5) |
| `sharing` | 3 users and an unknown id, 2 handlers, 1 share at a time, clock to 2 | all or none, friends only, settled deliveries |
| `sessions` | 1 session, 2 requests, gap 5, burst 6, idle 7, delay 1, clock to 12 | logout is final, how long sessions last |
| `login` | 1 address, 2 handlers, threshold 2, window 3, 3 requests per bucket, delay 1, one fault, clock to 5 | accounts are whole; what failures lock, what a lock rests on, how many wrong passwords a flood of logins gets checked |
| `leaderboard` | 1 experience, 2 phones, time to live 2, window of the phone 1, delay 1, one failure | how stale a list may be, how often the table is read, and that everybody sees the true list in the end |
| `tracking` | 2 experiences, 2 handlers, 2 zones half a day apart, 2 objects, 2 types, a day of 2 ticks | the answers add up, no date is in the future, percentages are of one instant, the avatar is there |
| `catalog` | 2 requests or jobs with their syncs, 2 experiences, 2 contents, 3 releases; 36864 small answers of upstream | one sync per key, every good diff is complete, the syncs implement `CatalogFeed`, every row is of one release, and the walk finds the nearest park |
| `phone` | 2 users, 3 sessions (both users on the composer, two sessions of one user on the profile, one session on the others), 2 names or notes, 6 kinds of screen, 2 functions under way | own data only, own token only, and a screen at rest shows what is stored |
| `browse` | 3 rows, 2 tables, 5 texts, 3 choices of chips, 2 keys in use | the list is that of the filters |

Why the bounds suffice. Three users are the least for which a mean is published
and dropped again; values 0 (none), 4 and 9 give thirds that round both ways and
halves at even counts. The rules of `Friends` and `Sharing` concern two users,
and two handlers are the least that race; in `Sharing` a third user is a second
recipient. `Friends` with three users, whose requests about different pairs
overlap too, passes all but `Answered` as well (786159 states; that one was not
tried there), and section 6 proves them for any number. `sessions` keeps the
source's order gap < burst < idle and lets the clock pass a whole burst and the
slack of `ContinuousUseEnds` (1 + 6 + 2 < 12);
with three overlapping requests it passes too (16.2 million states), and with
`Hop` one `MaxDelay` longer, or the slack left out, TLC refutes the property, so
neither is padding. In `login` the clock passes a window and a lock; the
threshold of 2 makes a lock need failures of two moments or of two handlers, and
a bucket of 3 lets both handlers go on after it. In `leaderboard` the time to
live, the window and the delay may all be over in one behaviour, and a request
may be slower than another's whole round. In `tracking` two handlers are a
statement and what comes between two statements; the three states of the
catalog drop one experience, move it, and change a category. In `catalog` two
callers race, and each can come back with a new sync while the other's goes on;
the contents alternate, so that over three releases one experience changes and
changes back and the other goes and comes back, and a sync that sleeps through
two of them meets the oldest content again; the small answers contain every
relation of four entities, cycles and gaps among them, with a limit of 2 hops. In
`phone` two slots are a fetch and a mutation, two mutations, or a login beside a
late answer; the second session belongs to another user, or to the same one
where an answer is for the user and not for the session. In `browse` two keys
are an answer on the screen and one that overtakes it. Bounds that are guards are
named in each module (`MaxFailures`, `MaxFaults`, `MaxRequests`, `MaxShares`,
`MaxTime`, `MaxDelay`, `MaxReleases`, `MaxQueued`, `MaxKeys`).

Deadlock is checked by `friends` and `catalog`. The other passing runs say `CHECK_DEADLOCK FALSE`, each because a bound may be reached, or
because an application that nobody touches may rest.

`OneAtATime` of `RatingAggregate` restricts clients: one request per user and
experience in flight. The app's rating control keeps it by its busy flag
(`apps/mobile/src/screens/catalog/RatingControl.tsx:127-192`); nothing in the API
does. `reconcile` runs without it. `Friends` assumes nothing of the kind: two users
act on the same rows whenever they like.

History in `Friends`. Its transactions run at READ COMMITTED, so Property 21 does not
hold of them as it stands. Two history variables say when it may fail. A handler is
`stale` if, since its first SELECT, another one has committed a change of rows
about the same two users. `skews` has the rows that were sent or accepted by a stale
handler, and those that were sent after a look at a pair in the wrong order
(`Misordered`). `OnePending`, `NonePendingOfFriends`, `DeclineIsFinal` and
`MadeByNewAccept` each name the row of `skews` that must be behind a departure, and
`FriendGraph` marks the two users as `muddled` in such a step. So the properties hold of
every overlap that is not one of these, aborts and repeats included; a handler
whose first SELECT comes after the other's commit, or that is about other users,
is never excepted.

Fairness. `FairSpec` of `Friends` and `FairReconcileSpec` assume strong fairness
of each handler's own steps, because Postgres queues lock waiters and a request
is executed until it is answered; nothing is assumed of the arrival of requests,
of failures, or of users. `FairReconcileSpec` also assumes that the job
scheduler fires again and again. `FairSpec` of `Leaderboard` assumes weak fairness of
time, of each request that is being served, and of `Open`: `Refreshed` is about
users who come back to the screen. Its premise, that the tables stay as they are,
leaves the property without a claim about behaviours that change them for ever.

Type invariants. `TypeOK` of `RatingAggregate`, `Friends`, `Sharing`, `Sessions`,
`CatalogSync`, `Leaderboard` and `Phone`, `ReconcileTypeOK` and `LoginTypeOK` are proved
(section 6). Those of `Tracking` and `Browse` hold in the instances of
the table, as the same configurations with one more INVARIANT show.

## 5. Where code and documents differ

Met while modelling, most of them reproduced by changing constants of the run
that has the named property. `friends_race` is a run of its own.

Ratings.
- `FOR UPDATE` locks nothing while the row does not exist
  (`tracking/rating/repo.ts:249`; the comment at 24-28 says otherwise): two
  overlapping first PUTs of one user both emit a delta from nothing, and the
  aggregate counts the user twice. `AggregateExact` with `OneAtATime = FALSE`. With
  a row that exists the deltas telescope, whatever overlaps.
- A retry after a failed aggregate update emits the delta from v to v and repairs
  nothing (`composeServices.ts:147`, comment at 139-142; `aggregate/repo.ts:222-225`);
  production starts no reconciler.
- Two overlapping PUTs of one user whose events are applied in the other order
  take the sum below zero; the CHECK refuses the row and the event is lost
  (`aggregate/repo.ts:376-380` says it cannot). `ChecksNeverFire` with
  `OneAtATime = FALSE`.
- A recomputation between a rating's commit and its event counts it twice until
  the next tick (`aggregate/repo.ts:227-230` says "either way the result is
  consistent").
- `worker.ts:369` takes the first `batchSize` ids on every tick, so later ones
  are never repaired (`aggregate/repo.ts:326-328` speaks of a run "split across
  multiple ticks"). `DriftRepaired` with two experiences and `BatchSize = 1`.
- `leaderboard.ts:250` calls the time to live the only source of staleness; a slow
  request adds its own time to it, see `StaleBound`.

Friends and sharing.
- Two SELECTs at READ COMMITTED do not exclude two mutual requests
  (`friends/repo.ts:339-346`): each of the two transactions looks before the other
  commits, and the unique key (sender, recipient) is of one direction. The comment
  at 281-286 says that "a concurrent INSERT cannot squeeze between the read and the
  write", and that what does "trips the unique violation". The run `friends_race`
  violates `NoSecondPending`, which says so; `OnePending` says that nothing else
  leaves two requests. When one of the two is accepted, the other stays pending
  between friends (`NonePendingOfFriends`).
- An accept whose request is declined after its SELECT still makes friends
  (`friends/repo.ts:446-484`); a second accept that overlaps the first makes friends
  again after a removal. `DeclineIsFinal` and `MadeByNewAccept` except just these,
  by `skews`.
- An id in upper case may order the canonical pair the other way than the stored
  row (`canonicalPair.ts:44-46`): the look for a friendship finds none, and a
  request is sent to a friend. `NonePendingOfFriends` excepts it by `skews`; a
  removal with such an id removes nothing.
- Outside the models: `composeExperiencePayload` keeps a rating that is present
  when `includeRating` is false (`sharing/routes.ts:312-335`), and percentages
  in shared stats are not rounded (R9.7).

Sessions and login.
- `absolute_expires_at` is tested before the idle gap is looked at, so a gap
  longer than the rest of the burst ends the session (`sessionMiddleware.ts:24`
  says it "starts a fresh one"; R6.5 speaks of 30 days). `IdleCheckRejectsNothing`
  proves that the 30-day rule decides nothing.
- A counter that expires between ZADD and EXPIRE takes a failure along, and a
  request that stops between ZADD and SET leaves the account unlocked: `FailuresLock`
  excepts both. A login that succeeds beside failures deletes them, and a SET
  after its DEL locks a user whose counter is empty. Property 15 of
  `.kiro/specs/disney-world-tracker/design.md:619` does not mention the reset by a success.
- A lock does not end sessions that exist.

Catalog.
- A sync that was skipped because another one runs is taken for a success
  (`composeServices.ts:209`; `readDecision.ts:92-93` and 136-137 say what
  `staleCache` means), so a stale list is sent as fresh, and an empty one before
  the first sync is done. No property covers this hazard.
- A request whose own sync failed is answered from the age it read before, so it
  gets 503 although another sync has meanwhile filled the catalog; the comment at
  `readDecision.ts:163-166` accepts it.
- A sync that outlived its key may apply an older release over a newer one.
  `CatalogFeed` allows it (`muddled`), and `SyncRepairs` shows that the next sync
  undoes it.
- The guard against cycles in `resolvePark` decides nothing that the limit of hops
  would not: without it `ParkIsNearest` still holds.

The application.
- A 401 answers the token the request carried, and `client.ts:192-199` deletes the
  one that is stored: a late answer to an old session signs the new one out. The
  query cache is cleared by a logout only, so after a 401 the next user finds it:
  `CacheIsOwn` excepts it by `ejected`.
- An acknowledged mutation whose query no screen observes, or which has no data
  yet, leaves an older fetch under way, whose answer stays on the screen; saving
  a name does not cancel one either. `SettledShows` excepts both by `doubt`,
  as it does mutations whose answer was lost: the completion control then offers
  an insert that the server refuses, and a share is sent twice.
- `queryClient.clear()` (`ProfileScreen.tsx:226-234`) stops no mutation. A name that is
  being saved when its user logs out is written into the cache when it is
  answered (193-206), by then of that user's next session, where another name
  may have been saved since. With two sessions of one user and two names TLC
  finds it; `SettledShows` excepts it by `doubt` too (`NameUnderWay`).
- `isError` hides a control and the draft of a note with it; an error of a
  friend's row fetches nothing.
- A logout whose request is lost leaves the session alive at the server.
- The error state of `CatalogScreen.tsx` replaces the chips that its comment
  (168-171) tells the user to change; and data of an "earlier filter combination"
  (180-183) are not shown for another one: each combination has its own.
- `SenderName` shares the key of a profile with data of another shape; `['me']`
  keeps the old name after a save. `AvatarUpload.tsx`, `CatalogListScreen.tsx` and
  `FriendsScreen.tsx` are reached from no navigator.

## 6. What is proved

All theorems hold for every value of the constants under the ASSUMEs of their
module, which TLC evaluates on the runs above.

- `RatingAggregate_proofs`. `TypeCorrect`. `NoLostUpdate`: the advisory lock is held
  by one handler per experience (`LockExclusive`), so what it read stays
  current. `AggregateIsExact` and `BoardImplemented`, assuming `OneAtATime`: the
  invariant `ExactInv` adds that a row has one request in flight (`RowUnique`)
  and that the previous value a handler holds is the committed one
  (`RowKnown`); without these the abstract `reflected` rating is not a function
  of the state. The arithmetic is in `ExactRowUpdate`: changing one rating
  changes sum and count by what `updateMeanX10` adds. `NoCheckFires`, under the
  same assumption and of experiences none of whose events was lost: the row to be
  written is exact, and the sum of an exact row is between count and ten times
  count (`PointsBounds`). `MeanIsRounded` needs no
  discipline of clients and no exactness: whatever row a handler read, what
  `updateMeanX10` makes of it is rounded (`MeanInv`, `RoundNearest`).
- `RatingAggregate_proofs`, of `AggregateReconcile`. `ReconcileTypeCorrect`;
  `NoUpdateLostToReconciler`: ticks and handlers exclude each other too.
  `ReconcilerOverwritesCurrent`: while a tick holds the scan of an experience, a
  rating differs from what was scanned only if its event is in flight or queued (`ScanInv`).
- `Friends_proofs`. Whatever overlaps, `RowsInv` relates every handler's row to the
  tables: `FriendsConsented`, `AnsweredRequestIsGone`, `RequestsAreUnique`.
  `SkewInv` adds that what a handler that is not stale has read about its two users
  still holds (`View`): an answer of another handler changes only rows about the two
  users of its own request (`SelectsPair`, `RowPair`), and either these are other users or
  the first one is stale from then on (`OthersView`). With it a commit that leaves
  nothing in `skews` is a step of Property 21, and any other is an `Overlap`:
  `OneRequestPerPair`, `NoRequestBetweenFriends`, `DeclinedStaysDeclined`,
  `FriendshipsAreMadeOnce`, `GraphImplemented`, of any users, spellings, handlers
  and overlaps.
- `Sharing_proofs`. `TxInv` says what an uncommitted share will add and that its id
  is nobody else's; `VouchInv` that the history flag records the moment the
  recipients were all friends. `DeliveredToAllOrNone`, `NeverToStrangers`,
  `DeliveriesSettle`.
- `Sessions_proofs`. The row a handler holds may be stale, so the invariant says
  what it guarantees by itself: it ends within a burst of its own last use
  (`HeldEnd`), and it shows a logout that preceded the request (`LogoutShows`).
  `NoUseAfterLogout`, `ExpiresAfterUse`, `IdleCheckRejectsNothing`.
  `UseEndsInTime`: the row of a session may be older than its last use, by the two
  delays of requests that overlap and no more, so what a handler read bounds the
  whole continuous use (`SessionUse`), unless a new one began since (`Fresh`).
- `Catalog_proofs`, of `CatalogSync`. `TypeCorrect`. `OneSyncInFlight`: a sync whose key has not
  expired still holds it (`KeyInv`). `SyncIsComplete`: as long as no other diff
  was applied, the one a sync holds still fits the table it was computed from
  (`DiffInv`). `FeedImplemented` needs two more: a success is recorded only after
  a diff was applied (`StampInv`), and, until a key has expired under a running
  sync, no sync holds a release older than the published one (`OrderInv`).
- `Catalog_proofs`, of `Browse`. `LikeHolds`: ILIKE with what `escapeLikePattern` makes
  of a text finds the text where it stands (`Holds`), whatever wildcards and
  backslashes it has. The three replacements make a code in which every special
  character has a backslash before it (`Coded`, `EscapeLikeCoded`), one after the
  other, since none touches what the one before it put there; and from the code
  of a character on, the pattern matches where the rest of the text stands
  (`MatchesCode`). ORDER BY is a total order of what is found (`CatalogOrders`,
  `PeopleOrders`), so there is one such list (`OrderExists`), it has everything
  once (`OrderCovers`), a prefix of it comes before all the rest (`FirstOfOrder`), and
  a park is one run of it (`OneSection`). The inductive invariant `BrowseInv` is
  short: whatever is kept or under way for a key is what the route answers to
  that key, of the rows it was selected from (`AnswersSelected`); that the list is
  looked up with the key of the chips and the text does the rest.
  `BrowseTypeCorrect`, `ListRight`.
- `Catalog_proofs`, of `UpstreamSet` and `CatalogContent`. `WalkRight`. The loops of
  `resolvePark` and `buildUpstreamSet` can be run for any number of turns
  (`TurnsExist`, `PushesExist`). While the first has not returned, it stands at the
  end of a trail of ancestors none of which gives a park, and has visited just
  these (`Trail`, `Walked`, `HopWalks`); a chain of the definition follows that trail
  (`ChainFollows`). So a loop that returns no park has met a gap or a cycle no chain
  gets past (`DeadEnd`) or has used up its hops, and one that returns a park is at the nearest
  ancestor that gives one (`Arrival`). After n children the second loop holds the
  last accepted child of every id among them (`Built`). `ParkRight`: an applied diff
  gives a row all the data of one release or none of it (`RowsStep`), whichever syncs
  overlapped. `RowsAreFiled` puts the two together.
- `Leaderboard_proofs`. `TypeCorrect`. `ListsAreRecent`: the bound on what is stored
  and shown follows along the way of a list, from the table to a request
  (`ReadAge`), into the key (`StoredAge`, `StoredShort`), into an answer
  (`AnsweredAge`) and onto a phone (`ShownAge`), with each request no older than
  `MaxDelay` (`Young`). `TableIsSpared`: while the key can be
  used, the reads and the phones about to read are no more than the phones and
  the failures; while it cannot, every read is a phone about to set it, or a
  failure (`ReadsInv`).
- `Tracking_proofs`. `AnswersTell`, `DatesArePast`, `AvatarsAreThere`: a date that was
  valid when it was checked stays so (`CheckedDates`, by the monotonicity of
  division, `FloorGrows`), and an upload that is to set the row has put its
  object (`Objects`). `AnswersAreOfOneInstant`: the two counts of a slice are those of the snapshot
  (`MergedCells`, `SlicesAreTrue`), and `Percent` rounds so that 100 is said only
  of all of it (`PercentIsFair`).
- `SignIn_proofs`, of `Phone`. The invariant has two halves. At most one function brings a user
  in, and only while there is none (`OneEnters`); what it is about to publish is
  the stored token, unless that was deleted meanwhile (`Published`): these two
  carry `TokensNotCrossed`. While nobody is signed in there is no cache after a
  clear (`Cleared`), and the fetch that counts carries the token of the user in
  memory, or none yet (`FetchCounts`): so its answer is theirs, and
  `CacheIsTheUsers` follows. `TypeCorrect` beside them.
  `SettledScreensShow` needs to know of every mutation and fetch under way what
  it says of the row (`ShownInv`): an answer on its way to the cache, or the cache,
  is current unless a mutation of that user was served whose answer the phone
  has yet to hear (`FetchIsCurrent`, `CacheIsCurrent`), and hearing it fetches the query
  anew. A name is put into the cache instead: there is one at a time
  (`OneMutation`), so the one answered is the one stored (`NameIsStored`). A share is
  there exactly if the composer says so or is about to hear of it
  (`ShareIsSent`). After a lost answer or a 401 nothing is promised (`Sure`).
- `SignIn_proofs`, of `Login`. `LoginTypeCorrect`. `AccountsAreWhole`: rows that are not
  committed belong to one handler's transaction, whatever else of the address
  runs (`WholeInv`). `LocksAreEarned`: no failure lies in the future (`PastInv`), and
  behind its ZREMRANGEBYSCORE a handler finds none in the key but failures of
  its window (`TrimmedInv`), so what it counts was earned (`EarnedInv`).
  `FailuresAlwaysLock` is the hard one, since no handler can be said to see the
  threshold: of those that overlap, the one that counts last does. So the
  invariant speaks of settled failures, those whose handler is done with the
  lock (`Settled`). A key lives for a window from each failure that had its EXPIRE
  (`KeyLives`), hence each fresh failure of the window is still counted
  (`HeldInv`), hence a settled one that completes a threshold has locked, and the
  lock runs a window from it (`LockInv`). `GuessesAreBounded` counts with
  it: when a login passes the look at the lock there is none, so the settled
  failures are below the threshold and each other one has a handler that
  may still lock; from then on every guess is paid for by a login that was past
  the look (`BoundInv`).

Induction over data. The induction rules of the library take a predicate, which
no prover here can instantiate. Where a proof needs one (ILIKE over a pattern,
FlattenSeq over the pieces of a text, a list over its rows, the turns of a loop) it takes the least
element of a set of numbers instead: `LeastNumber`, from the well-foundedness of
<, and `UpInduction` and `DownInduction` from it, whose parameter is a set. A function that
is defined by recursion is shown to exist first (`LikeExists`, `FlatExists`, `TurnsExist`, `PushesExist`). No module
declares a RECURSIVE operator.

Assumptions that say more than a type: `SESSION_BURST_DURATION` is positive;
`Experience` of `Tracking`, `Phone` of `Leaderboard` and `Item` of `Browse` are finite,
being counted; `NameRank` of `Browse` is injective, since both ORDER BY end with the
id; an answer of upstream in `UpstreamSet` has a destination that is Walt Disney World
(`findWdwDestination` throws otherwise, which is `Fail`) and no child without an id;
a text of `Browse` is over the seven characters of `Char`;
a row of `Leaderboard` has its mean between 1.0 and 10.0 once it has enough
ratings, which the CHECK of the table enforces. `Tracking` adds
numbers up as the cardinality of what they count (`Tally`), and so does `Login`
(`Sum`), because the provers know nothing of folds. `Login` takes no request to
last longer than the window of 15 minutes (`MaxDelay`): `LockIsEarned` is false without
it, as TLC shows with a window of 1, a delay of 3 and three handlers.

Only model-checked: the liveness properties (`Answered`, `DriftRepaired`,
`Refreshed`), since the prover reasons neither about fairness nor ENABLED. Every
other property of the runs is the conclusion of a theorem.

## 7. Not modelled

See `PROJECT.json`, "components". Left out for good: the global bucket of
`rateLimit.ts`, which is of the kind of the login bucket; the payload of a share
(`composePayload`, `sharing/routes.ts:302-414`), sanitising of names and sniffing of
images, which are data; validation schemas, whose bounds are constants; logging,
error envelopes, start-up, migrations and configuration, which are I/O without
state of their own; `StatsScreen.tsx`, which renders one query, and the screens
no navigator reaches; the theme. Read-only listings are the SELECT in the module
of their table, or nothing.
