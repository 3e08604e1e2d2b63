# Formal models of the Cavallo backend

Cavallo is a Django REST backend (PostgreSQL, Redis, Celery, Channels) for a
marketplace of traders and factories: profiles, posts, reels and stories under
human moderation, a social layer, chat, and paid "Featured" placement. This
directory holds TLA+ models of its core logic, the TLC runs that check them, and
proofs checked by TLAPS. Paths such as `monetization/services.py` are relative to
`src/`.

Contents: [1 The system](#1-the-system) · [2 Modules](#2-modules) ·
[3 Featured](#3-featured) · [4 Payments](#4-payments) · [5 Publishing](#5-publishing) ·
[6 Users](#6-users) · [7 Runs](#7-runs) · [8 What the code does not keep](#8-what-the-code-does-not-keep) ·
[9 Proofs](#9-proofs) · [10 Not modelled](#10-what-is-not-modelled) · [11 Plan](#11-plan)

## 1 The system

Processes that act concurrently on the same state:

* gunicorn runs 2 workers that serve HTTP requests
  (`docker-compose.prod.yml:130-132`), one daphne process serves WebSockets
  (`docker-compose.prod.yml:160`), whose database calls run one at a time in a
  single thread (`database_sync_to_async` is thread-sensitive);
* Celery runs tasks in 2 processes, acknowledging a task *before* it runs: a
  task whose worker dies is not repeated. Beat starts the periodic tasks
  (`config/settings/base.py:245-285`);
* PostgreSQL runs READ COMMITTED, without `ATOMIC_REQUESTS`: only an explicit
  `transaction.atomic()` groups statements, and only `select_for_update()`
  makes one transaction wait for another before it reads. A `post_save` receiver of
  a plain `save()` therefore runs after the INSERT has committed; the change views of
  the Django Admin are one transaction, and there it runs before the COMMIT;
* Redis holds the cache, the Celery broker, the channel layers and presence.

The models use exactly these: an unbounded set of web processes and Celery
processes, one action per SQL statement or cache command that another process can
observe or be blocked by, locks held until COMMIT or ROLLBACK, and a crash between
any two steps.

### Components

| component | state it keeps | operations | interacts with | what makes it correct |
|---|---|---|---|---|
| monetization | `FeaturedSubscription` rows, `Plan`, the mirror `BusinessProfile.is_featured` | activate, deactivate, daily expiry, Admin add / re-activate / deactivate | businesses (flag, row lock, cache), payments (calls activate) | one active row per business; the flag mirrors the table; only expired rows are swept; history is kept |
| payments | `Subscription` (a purchase), `Transaction`, `Invoice` (never written) | initiate, gateway callback, daily reconciliation | Paymob, monetization | one period per payment and only for the full amount; records agree with the gateway; a paid payment is granted in the end |
| businesses | `BusinessProfile` (with counters, rating and `is_featured`), `CustomerProfile`, cached public profile | create, PATCH, avatar, public read | every component that keeps a denormalised column there | edits do not undo columns other components own; cached copies are dropped |
| moderation | `ModerationQueue`, `ModerationLog` | enqueue, approve, reject, SLA watch | content and stories (status), notifications | nothing is published without an approval; one decision and one log row per item; the owner is told of no other; nothing is stranded |
| content | `Post`, `Reel` (moderation status and processing status) | create, edit, soft delete, `transcode_reel`, public lists | moderation, social counters | a reel is reviewed only when ready; deleted stays deleted |
| stories | `Story` (24 h), `archived_at` | create, delete, public list, archive sweep | moderation (fast path) | never visible after expiry; archived once |
| social | follows, likes, saves, comments, shares, counters | toggle, comment, share, auto-hide | businesses, content, notifications, feed cache | counters equal the rows they count |
| reports | `Report` | submit | social (auto-hide) | one per reporter and target; a comment is hidden at the threshold |
| ratings | `Rating`, aggregates on the profile | upsert and recompute | businesses | the aggregate equals the average of the rows |
| chat | conversations, participants, messages with status, presence keys | start, send, acknowledge, fetch since, presence | channel layer, notifications | one conversation per pair; status only moves forward; a message is broadcast or pushed or fetched later |
| notifications | `Notification`, preferences | enqueue, dispatch, push, mark read | devices, every source of events | best effort never breaks its source; disabled categories stay silent |
| devices | device tokens | register | notifications | a token belongs to its last registrant |
| feed | nothing but a 90 s cache of page one | home and discover pages by cursor | social, content, monetization | no item twice or skipped across pages |
| search | search vectors | ranked keyset pages | products, content, businesses | pages partition the results |
| categories | a tree, its cached serialisation | Admin edits, tree read | products | depth and parent rules; cache dropped on change |
| products | products with images | CRUD, public list | categories, search | ownership, soft delete |
| analytics | `BusinessDailyStats` | daily rollup | social, content | idempotent; one failing business does not stop the rest |
| accounts | users, refresh tokens (rotated, blacklisted) | register, login, refresh, logout | everything | a blacklisted token is dead |
| core | – | `cache_get_or_set`, soft delete, pagination, uploads, errors | everything | – |
| config, nginx, scripts, locale | – | – | – | – |

### What is hard here

`PROJECT.json` lists every hazard at its line. Four patterns recur:

1. **whole-row saves.** `instance.save()` writes back every column loaded earlier
   (profile PATCH, content edit, soft delete, moderation decision, transcoding);
   columns that others own are lost unless their writer also holds the row's lock
   *and* the saver re-reads under it.
2. **check, then act.** Rows are listed, looked up or counted before a lock or
   without one (expiry sweep, conversations, ratings, message status).
3. **cache fill against invalidation.** `cache_get_or_set` computes and stores in
   two steps, next to a delete that follows the commit.
4. **outside events.** Gateway callbacks are late, repeated, reordered or lost;
   tasks die; the broker refuses work after the row was saved.

## 2 Modules

| module | models | used by |
|---|---|---|
| `Featured` | monetization, the profile's writers, the cached public read | `MCFeatured`, `FeaturedProofs` |
| `PaidPeriods` | what payments promise, in two variables and two actions | refined by `Payments` |
| `Payments` | initiation, gateway, callbacks, reconciliation | `MCPayments`, `PaymentsProofs` |
| `Publication` | what moderation promises: a decision is final, only approved content is public | refined by `Review` |
| `Review` | posts and reels: create, edit, delete, `transcode_reel`, queue, decisions | `Publishing`, `MCEventually`, `ReviewProofs` |
| `Stories` | stories, their decisions, the archive sweep, the queue's SLA watch, view records | `Publishing`, `MCEventually` |
| `Engagement` | follows, likes, saves, comments, shares, reports, their counters, auto-hide, the cached home page | `Publishing`, `MCEventually` |
| `Ratings` | `rate_business`, the aggregate, the daily rollup | `Publishing`, `MCRatings` |
| `Profiles` | onboarding, edits, photo, verification, Admin, the cached public page | `Publishing`, `MCEventually` |
| `Categories` | the Admin's edits of the tree, references to it, its cached copies | `Publishing`, `MCEventually` |
| `Products` | products and variants, their soft deletion, the public list | `Publishing` |
| `Publishing` | what businesses publish: the seven modules above, one turn per question | `MCPublishing`, `PublishingProofs`, `EngagementProofs` |
| `Accounts` | registration, login, rotation, logout, preferences, the Admin's form | `Users` |
| `Chat` | messages, broadcasts, connections, acknowledgements, presence, catching up | `Users`, `MCEventually`, `ChatProofs` |
| `Conversations` | starting a conversation, what a message may carry, its notification text | `Users` |
| `Notifications` | dispatch, preferences, devices, pushes | `Users`, `MCEventually`, `NotificationsProofs` |
| `Keyset` | the order and the pages that feeds and search share (operators only) | `Feeds`, `Search` |
| `Feeds`, `Search` | one reader going from page to page while the world changes | `Users` |
| `Users` | what accounts do: the six modules above, one turn per question | `MCUsers`, `UsersProofs` |
| `*Proofs` | theorems checked by TLAPS | – |
| `MC*` with `*.cfg` | TLC instances: the sizes | – |

`Publishing` and `Users` instantiate a component once for all its sizes: `Stories(c)` is
the module with the fields of the record `c` for its constants, and `Shelf`, `Reports`,
`Days`, ... are the records of the turns, constants themselves. A theorem about `Stories(c)`
is therefore proved once and used in every turn, and the theorems of the composition hold
for all records, of which the runs give one each.

Each component module contains operators marked *Faulty*, placed before the
definition they distort: plausible bugs of that code (a dropped lock, a wrong
filter, a missing reset). No specification uses them. Substituting one for its
definition must make TLC refute the property paired with it in `PROJECT.json`; that
is the evidence that the property depends on the code.

**Conventions.** One action is one SQL statement in autocommit, one COMMIT of a
transaction, or one command to the cache, the broker or the channel layer, unless
nothing outside can observe the steps in between. `pc`, `request`, `job`, `task` hold
what a process works on; an UPDATE of all columns keeps the row as it was loaded in the
process's `copy`. `None` stands for "no row", "no process", "no value". `Max...`
constants bound how many keys are handed out or how many changes are begun; they occur in
guards only.

## 3 Featured

**State.** `subs` is the `FeaturedSubscription` table (`active` / `inactive` rows;
`expires_at` in days), `flag` is `BusinessProfile.is_featured`, `lock` the `FOR
UPDATE` lock of each profile row, `cached` the entry `business_profile:{pk}` reduced
to the flag it shows, `now` the clock. The other variables are the locals of each
process: where it is, the businesses it works on, the plan, the listed ids, the
rows its open transaction has already set inactive (`deact`: uncommitted, hence
invisible to others), the flags it has read (`feat`), the rest of the Admin loop.

**Actions and code.**

| code | actions |
|---|---|
| `activate_subscription` | `BeginActivate` / `NextReactivate`, `LockBusiness`, `Supersede`, `InsertAndCommit`, `DropCache` |
| `deactivate_subscriptions` | `BeginSweep` / `BeginAdminDeactivate` (list the rows), `LockBusiness` (once per row, in key order), `DeactivateUpdate`, `DeactivateSync`, `DeactivateCommit`, `DropCache` |
| `reactivate_selected` | `BeginReactivate`, then one activation per (business, plan), newest first |
| owner's PATCH | `EditLoad`, `EditSave` (all columns, waits for the row lock but does not re-read), `DropCache` |
| Admin form of a profile | `ChangeForm` (the `is_featured` checkbox as submitted; drops no cache) |
| cached public read | `CacheCompute`, `CacheSet`, `CacheExpire`, `InvalidateProfile` |
| failures, time | `Crash`, `Tick` |

`_sync_business_featured_flag` is its SELECT (`DeactivateSync`) followed by its two
UPDATEs, which are visible only with the COMMIT. In `activate_subscription` the
SELECT always finds the row just inserted, so `InsertAndCommit` sets the flag.

**Specifications.** `ServiceSpec` is monetization, reads, crashes. `OwnerSpec` adds
the owner's PATCH. `Spec` adds the Admin's profile form as well.

**What holds.** Under `ServiceSpec` the committed flag always equals "has an active
row" (`FlagMirrors`); an activation's INSERT never meets the unique constraint
(`InsertNeverConflicts`), although rows are listed before locks the sweep ends only
expired rows (`SweepEndsOnlyExpired`), lock waits are not circular
(`NoCircularWait`), rows are history (`HistoryKept`). Under `Spec` all of them but
the first remain, and `OnlyEditDrifts` says the flag is broken only by the very step
in which a whole profile is saved. `StaleCopyIsOwed` says a cached copy goes stale
only while some process still owes its delete or its set, or through the Admin's
form: stale for 300 s at most, since the entry's TTL runs from its `set`.

**What does not.** `FeaturedDrift`: an owner's PATCH loads the profile
(`is_featured` false), an activation commits, the PATCH saves every column: a paying
business is not featured until its next activation or expiry. The docstrings of
`monetization/services.py` and the comment at `businesses/models.py:104-108` rule this
out.

## 4 Payments

**State.** `status` and `reference` are columns of `payments.Subscription` (one
purchase attempt), `txns` the `Transaction` table, `lock` the `FOR UPDATE` lock of a
payment, `grants` counts committed calls of `activate_subscription` for it, `aged`
holds payments older than the one-hour grace period. `attempt` is the gateway: its
transactions in the order it issues them, each for an order (a payment, or nothing
we know), open, then success or failed, and possibly reversed (voided, refunded).
A callback is not a message in a bag: a decided transaction can be delivered any
number of times, at any time, or never, which is delivery late, repeated,
reordered or lost. Amounts include the currency.

**Actions and code.**

| code | actions |
|---|---|
| `initiate_subscription_payment` | `Initiate` (both rows, one transaction), `GatewayAccepts`, `GatewayRefuses` then `MarkTxnFailed` (the two saves of `_mark_failed`) |
| the gateway | `NewAttempt`, `Decide`, `Reverse` |
| `PaymobWebhookView.post` | `Deliver` |
| `process_webhook_event` | `LockPayment`; then, under the lock, `Discard` (duplicate, mismatch, double payment, other payment's transaction), `RecordFailure`, or `BeginGrant` followed by `CommitGrant` or `RollBack` |
| `reconcile_pending_transactions` | `BeginReconcile`, then per payment `AskFinal`, `AskNotFinal` or `AskFails` |
| time, failures | `Age`, `Crash` |

`BeginGrant` and `CommitGrant` are separate because `activate_subscription` waits for
the business row in between: other processes run, this one may die or the call may
raise, and everything written is rolled back. Resolution of an event
(`_resolve_subscription_id`) happens at `Deliver`, before the lock, as in the code.
Callbacks about undecided or reversed transactions return at once and are left out.
Paymob's order id and our merchant reference both identify the payment, so they
are one field. The customer can pay only with the URL returned after
`gateway_reference` is saved; the gateway never reuses a transaction id.

**What holds.** `OnePeriodPerPayment`, `LedgerAgrees`, `TransactionIdsUnique`,
`SettledStays`, and the refinement `KeepsPromise`: with `charged` the payments whose
full amount the gateway has taken and `periods` the grants, every behaviour of
`Payments` is one of `PaidPeriods`. `HalvesOnlyByCrash`: no callback leaves a failed payment
with the pending row it began with; only a request that dies between the two saves of
`_mark_failed` does, and nothing looks at such a payment again.

With fairness, a payment that succeeds and none of whose attempts fails is granted although
all callbacks are lost, unless the gateway takes the money back first
(`PaidFirstTimeIsGranted`). The promise has a premise: from some time on no attempt is open
(`[]<>~Undecided`). If the customer pays, the callback is lost, and a second attempt is
opened on the same page and abandoned, the reconciliation asks the gateway about the latest
attempt only, hears "not final" every day (`payments/tasks.py:132-139`), and the paid first
attempt is never granted. Without the premise TLC shows this trace.

**What does not.** `PaymentsLost`: the first attempt fails and its callback sets
payment and transaction to `failed`. The customer tries again on the same page and
pays; this callback is lost. `_pending_subscriptions` selects only payments that are
still pending, so the reconciliation never asks about this one and the money taken
is never turned into a period (`PaidIsGranted`).

## 5 Publishing

Seven modules, checked together by the run `Publishing`.

### Review

**State.** `row` is the content table (moderation status, `processing_status`,
`is_deleted`), `queue` and `log` are `ModerationQueue` and `ModerationLog`, `told` the
decisions the owner was notified of, `tasks` the reels in the broker, `lock` the
`FOR UPDATE` lock of a queue row; `pc`, `item`, `copy`, `verdict` the processes.

| code | actions |
|---|---|
| `perform_create` (post, reel), the `post_save` receiver, `transcode_reel.delay` | `Create`, `Enqueue`, `Dispatch`, `DispatchFails` |
| PATCH and DELETE | `LoadForWrite`, `SaveEdit`, `SaveDelete` (both save every column) |
| `approve`, `reject` and their view | `Open`, `LockAndLoad`, `Conflict`, `Decide`, `Notify` |
| `transcode_reel` | `StartTranscode`, `MarkProcessing` (`update_fields`), `TranscodeOk` (whole row), `TranscodeFails` (`update_fields`), `Enqueue` |
| failures | `Crash` |

**What holds.** `NothingUnapproved` (no stale save, transcoding or crash ever publishes
what nobody approved), `AuditTrail`, `OnlyStaleSavesHide` (content disagrees with its
decision only by the save of a PATCH or DELETE that loaded the row before it),
`OnlyFailuresStrand` (content that no moderator will ever see comes only from a crash, a
refusing broker, or a save that undoes a deletion or failure), and the refinement
`KeepsPromise` of `Publication`. `DecisionShown` holds while nobody edits.

### Stories

Time is counted in periods of the SLA watch (five minutes); `Tick` waits for the watch of
a period, as Beat runs it at least once in each, and `Ttl` and `Sla` are in that unit.
`Create`, `Enqueue`, `Open`, `LockAndLoad`, `Decide`, `Watch` and `Insert` (a view: the
look, then the INSERT that the unique constraint may refuse), `CheckModerationSla`,
`ExpireStaleStories`, `Crash`. A decision saves the whole story next to the sweep that
stamps `archived_at`. Checked: `NoSilentExpiry`, `ArchivedIsExpired`,
`OneViewPerViewer`; liveness `ExpiredIsArchived`: the stamp a decision undoes is put back.

### Engagement

`rel` holds the rows of follows, likes, saves and reports, `count` the denormalised
counters, `lock` the row or unique key a transaction has written. A toggle is
`Resolve`, `Write` (insert or delete), one `Bump` per counter (an F() UPDATE that takes
the lock of the counter's row), `Commit`, then `After`: the notice and the drop of the
cached home page. `LoadRow`/`SaveRow` are the whole-row saves of owners and moderators,
`AdminFollow` rows made or deleted by the Admin, `ReadFeed`/`StoreFeed`/`ExpireFeed` the
cache of page one. Checked: `OnlyStaleSavesDrift` (a counter leaves its rows only by such
a save, or by the Admin), `HiddenByDistinctReporters`, `CommentNoticesTrue`; liveness
`StalePageEnds`.

### Ratings

`LockUpsert`, `Upsert`, `ReadRows`, `WriteProfile` are the statements of `rate_business`
(the locked row, the write, the aggregate over the rows its READ COMMITTED transaction
sees, the UPDATE); `Start`, `Count`, `Store`, `End` the rollup by Beat or by hand (the
counts of a business are read, then its row is written), `Midnight` the date. Checked, with
two processes: `AverageDriftsByOverlap` (an average stops being exact only at the COMMIT of a
request that missed another's, any other COMMIT makes it exact whatever was wrong before, and
what a request misses was committed after it had read), `CountsNobodyTwice`, `DayComplete`.
That averages are exact is refuted (`RatingsRace`).

### Profiles

`Create`/`Insert`/`SaveCategory` (onboarding), `Patch`/`AdminEdit`/`Save`/`Drop`,
`AdminDelete`, `LoadPhoto`/`SavePhoto`/`RemoveOld`, `Verify`/`Commit` (the receiver drops
the page inside the Admin's transaction), `Compute`/`Put`/`Expire` (the cached read).
Checked, with two processes: `OneProfile`; `PhotoLostOnlyBySaves` (a row comes to name a
file that is gone or doomed only when a whole-row save, of the owner's PATCH or the Admin's
form, brings an old name back); `StalePageIsOwed` (the only ways a cached page becomes
wrong); liveness `PageComesRight`: however it became wrong, it does not stay so.

### Categories and Products

`Categories`: `AdminSave`/`CommitSave`, `AdminDelete`/`CommitDelete` (the collector looks,
the COMMIT may fail on PROTECT or the foreign key), `ValidateProduct`/`InsertProduct`,
`BuildTree`/`PutTree`/`Expire`; the tree itself is `build_category_tree`, a recursive
function. Checked, with two processes: `RefsExist`, `OnlyEndlessVanish`,
`StaleTreeByOverlap` (a copy becomes wrong only by the COMMIT of a transaction during which
it was put, or by a reader that another process has overtaken); liveness `TreeComesRight`.
`Products`: `Create`/`Insert`, `Patch`, `Destroy`, `Save` (all columns), variants, and the
form-data `BooleanField` that keeps an absent value. Checked, with two processes:
`DriftsByStaleSaves` (a product stops being what its owner was last told only by the save of
a row that another request has changed since it was loaded).

## 6 Users

Seven modules, checked together by the run `Users`.

### Accounts

`Register`/`Insert` (the case-insensitive check, then the INSERT that knows the typed
spelling only), `Login`, `Refresh`/`Retire`/`Issue` (rotation: the blacklist is read, the
old token is put on it, the successor is issued), `Logout`/`Revoke`, `ExpireRefresh`,
`ExpireAccess`, `Prefer`/`SavePreference` (`update_fields`), `AdminSet`. The token
library is external; its steps are taken from the settings and calls in `accounts/`.
Checked, with two processes: `TwinsOnlyTogether` (an address has at most as many accounts as
registrations can overlap: who begins when there is one is refused; three spellings, so that
a third account would be possible), `SessionsForkByOverlap` (a session that goes on in one
place is split, or begins again after its end, only by a rotation whose token another request
has retired since it was checked; a logout that was not overtaken ends its session),
`RetiredFirst`. That there is one account, one live token and nothing after a logout is
refuted (section 8).

### Chat and Conversations

`Chat`: a message is `Reserve` (the id), `Insert` (its COMMIT), `Broadcast` or
`BroadcastFails`, `Push`; a connection is `Connect`, `Accept` or `Reject`, `Heartbeat`,
`Forward`, `Close`, `ClearOnline`; an acknowledgement is `AckRead`, `AckSave` in the one
database thread; `Fetch` is the catch-up by id. `CrashAsgi`, `CrashWeb`,
`ExpirePresence` are the failures. An acknowledgement is accepted as the server accepts it:
for any message of the conversation that the account did not send, received or not. Each
connection is a client of its own: what it has received (`seen`), the id it will ask from
(`since`), whether it has asked since it was connected (`caught`). Of clients one thing is
assumed (`Had`): after a connection is cut they ask from a message they have received, or
again from where they asked before. `slipped` is a history variable (no guard reads it): the
messages that a client cannot get by asking, because a greater id was committed or announced
first, or because they were never announced.
Checked: `StatusForward` (two tabs, acknowledgements, crashes), `NothingMissed` (two web
processes, two connections, broadcasts that fail, processes that die): every client has, is
being sent or will fetch each message of the other that has not slipped, so nothing but these
two causes opens a gap; liveness `OnlineAgain`. Without the exception it is refuted
(`NoGap`, section 8).

`Conversations`: `StartWithBusiness`, `StartWithUser`, `Create`, and `Send` with the
validation of what a message carries (text, shared content, a file classified in two
phases). Checked, with two processes, plain and padded ids: `TwinsOnlyTogether` (two accounts
have at most as many conversations as requests can overlap), `AnswerIsBoth` (one is given a
conversation with whom one asked for; who asks for oneself by a padded id, one of one's own),
`NeverBlank`, `ClassifyRight`.

### Notifications

`Enqueue`, `Receive` (acknowledged before it runs), `Check`, `CreateRow`, `ListTokens`,
`Send` (token by token), `Crash`; `LoadPreferences`/`SavePreferences`; `Register`,
`DeleteUser`. Checked: `ToldOnce`, `MutedIsSilent`, `OwnLanguage`; liveness `Heard`.

### Feeds and Search

`Keyset` has the order (featured, time, kind, id), the comparison of the queries
(`RowsAfter`, case by case as in the code) and the merge of two tables cut to a page each.
In `Feeds` a reader goes through Home (followed businesses, then the backfill) or Discover.
A page is three reads: `Open`/`More` (the list of the followed), `ReadFollowing`,
`ReadBackfill`; items are published and taken down, follows and subscriptions change between
any two of them. In `Search` rows are edited, hidden, promoted between pages. Checked: what nobody touched is served once
(`NoRepeat`, `NoSkip`), cutting each table before the merge loses nothing
(`MergeIsExact`), `OnlyFeatured`.

## 7 Runs

| run | specification | instance | checks |
|---|---|---|---|
| `FeaturedServices` | `ServiceSpec` | 2 businesses, 1 web + 1 Celery process, 3 rows, 2 days | `FlagMirrors`, `NoCircularWait`, `HistoryKept` |
| `FeaturedEdits` | `Spec` | 1 business, 2 web + 1 Celery, 2 rows, 2 plans, 2 days | `TypeOK`, `InsertNeverConflicts`, `SweepEndsOnlyExpired`, `OnlyEditDrifts`, `StaleCopyIsOwed` |
| `FeaturedLive` | `FairServiceSpec` | 2 businesses, 1 + 1 processes, 2 rows, 1 day | `FeaturedEnds`, `WorkEnds` |
| `FeaturedDrift` | `OwnerSpec` | 1 business, 1 row | refutes `FlagMirrors` |
| `PaymentsSafety` | `Spec` | 1 payment, 2 web (symmetric) + 1 Celery, 2 rows, 2 transactions, 2 amounts | `TypeOK`, `OnePeriodPerPayment`, `LedgerAgrees`, `TransactionIdsUnique`, `SettledStays`, `HalvesOnlyByCrash` |
| `PaymentsPromise` | `Spec` | 2 payments, 1 + 1 processes, 3 rows, 2 transactions, 2 amounts | `KeepsPromise` |
| `PaymentsLive` | `FairSpec` | 2 payments, 1 + 1, 1 amount | `PaidFirstTimeIsGranted` |
| `PaymentsLost` | `FairSpec` | 1 payment, 1 + 1 | refutes `PaidIsGranted` |
| `Publishing` | `AllSpec` of `Publishing` | the turns below | `Review`'s properties; `ModerationHolds`, `CommentsHold`, `OnlyStaleSavesDrift`, `RatingsHold`, `ProfilesHold`, `CatalogueHolds`, `ComponentTypes` |
| `Users` | `AllSpec` of `Users` | the turns below | `AccountsHold`, `StatusForward`, `NothingMissed`, `ConversationsHold`, `NoticesHold`, `ServedOnce`, `ComponentTypes` |
| `Eventually` | `FairSpec` of `MCEventually` | one turn per component | `ContentMovesOn`, `CopiesComeRight`, `AccountsReached` |
| `RatingsRace` | `RateSpec` | 1 business, 2 customers, 2 processes | refutes `AverageExact` |

**Turns.** The components of `Publishing`, `Users` and `MCEventually` share no
variable, so a step of one commutes with every step of another: a property of one
component holds in their interleaving exactly if it holds in its own behaviours. These
modules therefore choose a `turn` in the initial state; the component that has the turn
moves, the rest stay as they began. Where two questions need different sizes or different
actions (edits or none, requests or the rollup) there are two turns of one module.

`Publishing` has the turns `post`, `reel` (one item, edits, crashes, two web processes and
a worker), `pipeline` (a post and a reel without edits), `stories` (`Ttl` 3, `Sla` 1,
five periods), `toggles`, `marks`, `reports` (two users, at most two relations, threshold
2), `follows saved`, `shares saved` (with whole-row saves), `raters` (two customers, two businesses, two processes), `days` (two workers, Beat and a run
by hand), `photos` (4 files, 6 requests, whole-row saves among them), `onboarding` (two
requests of two accounts, and the cached pages), `tree` (3 categories, 3 edits), `copies` (2
categories, both languages), `products`. `Users` has `entry` (three accounts), `sessions`,
`tokens`, `tabs` (two connections of one account, acknowledgements and presence, one request
at a time and no broadcast lost), `messages` (two requests at a time, without acknowledgements), `starting` (three
accounts), `sending`, `muting`, `pushing`, `feeds` (six items with ties of both kinds, page
size 2, one change), `search`. `MCEventually` has one turn per component. A property named
`...Hold` is the conjunction of the properties its comment lists, each in the turns it is
about; a counterexample names its turn in the first state. One faulty operator is listed
for each such conjunction; every other conjunct has one in its module, too.

**Two processes.** Every turn about web requests has the two processes that are deployed
(`docker-compose.prod.yml:130-132`), except `muting` and `pushing`, whose web side sends one
event and edits preferences while the workers do the rest. Where two overlapping requests
break what a comment of the code says, the run checks what is true instead: which overlap,
and nothing else, breaks it; section 8 has the refuted sentence.

**Bounds.** `SubId`, `Payment`, `TxnPk`, `TxnId` bound how many rows and gateway
transactions a behaviour creates, `MaxTime` the clock; `Room` in `Featured` keeps an
activation from starting when no key is left for it. They are enough for the cases the
properties are about: three rows give a purchase, its successor and a
re-activation next to another business's row; two days let the longer plan outlive a
sweep that the shorter does not; two transactions give a retry after a failure, a
double payment and a reordering of both callbacks; two web processes and one Celery
process give two concurrent callbacks next to the reconciliation, or two
activations next to a sweep. Two businesses are needed for lock order only.
For content, two web processes and a worker give two moderators, or a moderator, an editor
and a transcoding at once on one item; items interact only through a process that is busy
with another, which `pipeline` has. `MaxCount` 2 lets one account undo what another does
beside it; two reporters cross the threshold; a story of three periods expires before,
during and after its review; two messages suffice to be delivered out of order or be
missed between two fetches; three refresh tokens are a session that forks, or one that is
rotated twice; three accounts allow one address more accounts than there are processes, and
three conversations one pair more than that; six items fill three pages across both tiers.
The theorems need none of these bounds.

**Deadlock.** The `Featured` runs and `RatingsRace` check it. The other runs do
not: when all keys are used and every request has been answered, there is nothing left
to do.

**Fairness.** A request or task that is not killed runs on: weak fairness on the
steps after a lock. Processes are not killed for ever (`Killed`: a last step of a process
that leaves behind what its death would leave is no kill). PostgreSQL queues lock waiters:
strong fairness on taking a lock.
Beat starts the sweeps and the reconciliation again and again: strong fairness on
beginning them in some Celery process (`Featured`, `Payments`), weak fairness of
`ExpireStaleStories`. `CommitGrant` and `AskFinal` are strongly fair:
`activate_subscription` and the gateway's status API do not fail every time.
Cached entries have a TTL: weak fairness of `Expire`, `ExpireFeed` where the property is
about stale copies. A connected client sends heartbeats and a closed socket is cleaned
up (`Heartbeat`, `ClearOnline`); a worker takes and finishes tasks (`Work`, the steps of
`transcode_reel`), in instances where nothing dies. Nothing is assumed about callbacks,
customers, owners, moderators, the Admin, or the gateway's results. In `Eventually` the
fairness of all components is a plain conjunction: the fair actions of a component are
disabled in its initial state, hence throughout the turn of another, where they ask nothing.

## 8 What the code does not keep

Three refutations are runs and are listed as findings:

* `FeaturedDrift` — a PATCH of a profile undoes `is_featured` (section 3);
* `PaymentsLost` — a paid retry after a failure is not reconciled (section 4);
* `RatingsRace` — two customers rate at once, each aggregate misses the other's
  uncommitted row and the last UPDATE stays (`ratings/services.py:58`, against lines 14-17).

The modules state more properties that a doc or comment promises and TLC refutes, in the
instances of the runs (two web processes). They are
kept next to the properties that hold, marked *Refuted* in their comment, and are not among
the runs; giving one as INVARIANT or PROPERTY to an instance as described shows the trace.

| property | what happens | where, against what is said |
|---|---|---|
| `Review!DecisionShown` under `Spec` | a PATCH loads a post before its approval and saves after it: pending again, with an approved queue row nobody can decide | `content/views.py:93`; `content/models.py:46-48` |
| `Review!DeletedStaysDeleted` | `transcode_reel`, `approve` or `reject` saves a row loaded before the deletion | `content/tasks.py:200`, `moderation/services.py:181`; `stories/tasks.py:26-27` |
| `Stories!ArchivedOnce` | a decision writes the null of `archived_at` back; the next sweep stamps again | `moderation/services.py:181`; `stories/models.py:108-109` |
| `Engagement!CountersExact` under `SavingSpec` | a profile PATCH writes an old `follower_count` back | `businesses/services.py:116`; `social/views.py:6-9` |
| `Engagement!CommentsOnPublished` | the target is resolved before the transaction and unpublished meanwhile | `social/views.py:393`; `social/views.py:344-346` |
| `Engagement!CachedPageFollows` | a home page computed before a follow is stored after its invalidation | `social/views.py:70`; `social/views.py:60-63` |
| `Ratings!SnapshotOfTheMoment` | the rollup loads every profile when it starts | `analytics/tasks.py:139`; `analytics/tasks.py:27-28` |
| `Profiles!PhotoExists` | a PATCH that loaded the row before its photo was replaced brings back the name of the removed file | `businesses/services.py:116`; line 156 |
| `Profiles!PhotoByItsOwn` | a PATCH writes back the photo it loaded | `businesses/services.py:116`; `businesses/models.py:136-139` |
| `Profiles!OwnEditShows`, `BadgeShows` | a page computed before the change is put in the cache after the drop; the receiver drops it before the COMMIT | `core/cache.py:74`, `businesses/signals.py:37`; `businesses/views.py:232-234`, `businesses/signals.py:12-13` |
| `Categories!NothingVanishes` | the Admin makes a category its own ancestor: the whole circle is in no tree | `categories/services.py:52`; lines 55-57 |
| `Categories!TreeShows` | the tree is read between the receiver's drop and the COMMIT | `categories/signals.py:30`; lines 12-15 |
| `Products!PublicAsWished`, `DeletedIsGone` | a PATCH saves `is_deleted` false again | `products/views.py:149`; lines 124-126 |
| `Products!VariantsOfAlive` | the variant's own address filters by the id of its product only | `products/views.py:264`; `products/models.py:180-181` |
| `Accounts!OneAccount` | two registrations of one address in two spellings; both logins then fail | `accounts/serializers.py:57`; lines 48-50 |
| `Accounts!OneLive` | two refreshes have both checked one token | `config/settings/base.py:336`; lines 316-318 |
| `Accounts!LogoutEnds` | a refresh that checked the token before the logout issues its successor after it | `accounts/services.py:137`; lines 126-127 |
| `Conversations!OneConversation` | both find no conversation and create one | `chat/views.py:158`; lines 67-69 |
| `Chat!NoGap` | a smaller id commits after a greater one was delivered, or its broadcast fails, and is never fetched | `chat/views.py:319`; lines 283-289 |
| `Chat!LiveIsOnline` | a rejected connection's disconnect clears the presence key of an accepted one | `chat/consumers.py:191`; lines 187-189 |
| `Notifications!PatchKeepsOthers` | two PATCHes of different toggles: the later restores what the earlier changed | `notifications/views.py:106`, line 89 |
| `Notifications!PushToOwner` | tokens are listed once; one is registered by another account before its turn | `notifications/services.py:156`; `devices/models.py:22-26` |
| `Feeds!EndIsExhausted` | a business followed between two pages leaves the backfill, and the following tier is not queried again | `feed/services.py:267`; lines 40-50 |

## 9 Proofs

All results hold for every value of the constants, under assumptions that the modules
name and TLC evaluates on the runs:

* keys are natural numbers where they are ordered, `None` is no process, key or row, the
  kinds of content, web and Celery processes, comments and what they are on are distinct,
  plan durations and thresholds are positive, bounds are numbers (`Assumptions` of each
  module, collected in `SizesFit`);
* sets whose size a statement counts are finite: customers and businesses of the ratings, the
  accounts whose number bounds the profiles' keys, categories, the web processes where they
  bound what overlaps; two accounts talk in `Chat`, from any number of connections;
* an account without preferences reads Arabic ("ar" is a language), an id is written plain or
  padded, a page has at least one item.

No theorem assumes how many web processes or workers there are, and none rests on a client
that behaves, but for `Had` in `Missed` (section 6). Every property a passing run checks is
proved, liveness aside: the table of section 7 has no safety property of a passing run
without its theorem.

**`FeaturedProofs`** — inductive invariant `IInv`, four parts:

* `Typed`: `TypeOK` and the shape of each process's locals at each step;
* `LockInv`: whoever is past its lock steps holds the lock of each of its
  businesses, locks are taken in key order;
* `ReadInv`: what a process has written or read inside its transaction (`deact`,
  `feat`) is still what the table says, because every change of a business's rows is
  made under that business's lock;
* `OneActive`: at most one active row per business.

None of the properties is inductive alone: `InsertNeverConflicts` at the
INSERT depends on what happened since `Supersede`, i.e. on `LockInv` and `ReadInv`.
`FlagMirrors` needs them as well and is added as `MirrorInv` under `ServiceSpec`. Most
of the work is done by one frame lemma (`TouchesOnly`): a commit changes rows and
flags only of businesses its process holds.

**`PaymentsProofs`** — inductive invariant `IInv`:

* `HolderInv`: a process between its `FOR UPDATE` and its COMMIT holds the lock of its
  target; `EventInv`: the event a process applies is a decided transaction of its
  target's order; `OpenInv`: a payment is initiated by one process, and nobody can pay
  it before that is done; `GrantInv`: at `activate` the checks made by `BeginGrant`
  still hold;
* `RowInv`: every payment has a row, all its rows have one amount, rows without id
  are not completed; and `LedgerAgrees`, `TransactionIdsUnique`, `OnePeriodPerPayment`.

`GrantInv` is the heart: checks made before `activate_subscription` are still true
when it returns, since every other writer of the payment's rows needs its lock, and
the gateway only moves a success to reversed. `PromiseKept` is proved from it: initial
states map to initial states, `CommitGrant` to `Grant`, a gateway decision to `Charge`
or a stutter (one payment at a time, because transaction ids and orders are unique),
all else to stuttering; that the amounts due never change is a lemma of its own.
`HalvesOnlyByCrash` adds `WaitInv`: a payment has one row without a transaction id, and one
that has a row with an id is not pending any more. So a failure that is recorded for a pending
payment is written to the very row that waits.

**`ReviewProofs`** — inductive invariant `IInv`:

* `WorkInv`: a process works on content that exists, with a row that existed;
* `DecisionInv`: a decision under way holds the lock of a queue row that is still pending;
* `CopyInv`: what any process may still write over a row says "published" only if the
  queue row is approved, and "pending review" while there is no queue row;
* `UnqueuedInv`: content without a queue row is with one process, or in the broker;
* `NothingUnapproved` and `AuditTrail`.

`CopyInv` is what makes stale whole-row saves harmless for publication: an approval is
never taken back, so a copy that says "published" stays justified however old it is; and a
decision finds nothing but "pending" in the queue row it has locked. `HiddenOnlyByOwner`
and `Implements` follow from one more case split over the steps: a step other than `Decide`
decides nothing, and what it makes public was approved.

`StrandedOnlyByFailures` adds `IdleInv` (an idle process works on nothing), `DecisionsShow`
adds `PipelineInv` (without edits what waits to be queued is ready, and the copy a decision
saves is the row as it is).

**`PublishingProofs`** — each component for every record of constants, then the turns.

* Stories: `StoryInv`. The watch runs once in each period, so what it has not flagged is
  younger than `Sla`, or than a period more before its run; that is what makes
  `NoSilentExpiry` inductive. A copy that will be saved was read from the row.
* Products: `ShopInv` (products are numbered; what a request will insert or save, and what it
  will then tell its owner, belong together). That
  only stale saves drift is then a matter of each step: a save that is not stale writes the
  row as it is, with what its owner is told (`ShopDrifts`), and a row under a request is
  changed only by another one's save.
* Categories: `TreeInv` (no reference to what is gone); then `TreeServes`: climbing from a
  category adds one ancestor a step, in a finite table this ends, so an active category
  missing from the tree has ancestors that never end. `TreeStales` goes through the steps: a
  reader's tree is that of the table when it is built (`ReaderFresh`), and only a COMMIT of
  another process changes the table.
* Profiles: `RowsInv` (rows are numbered, hence one to an account), `FilesInv` (a
  file is named for one row only, by the row, a copy of it or a request that will remove it:
  a photo request endangers no other row, and its own only through a copy), `PagesInv` (a
  reader computes the page of a row that exists, and a save of a business's owner goes on to
  the drop), from which every step is shown to keep a page right or to be one of those that
  `StalePageIsOwed` names.
* Ratings: `CountsInv` (a request has aggregated at most the raters there are and its own),
  `DaysInv` (a day that Beat counts or has counted has no open request: they began before its
  end and finished; what a task has counted of such a day and will store is what there is).
  For the drift of an average (`AverageStep`) the types suffice: a COMMIT writes the aggregate its
  request has read, and that is the aggregate of the table unless the request has missed one
  of the same business.
* `TypesAreKept`: the types of all seven components. They are not trivial: a sum of
  scores is a number only by induction over the finite set of raters (`SumNat`), and the
  keys of profiles stay within the number of accounts only by `RowsInv` (`RowsFew`).

**`EngagementProofs`** — `ReactInv`: a transaction holds the unique key it writes, its
row is there exactly if it removes it, and what it has counted and has left to count is
what its row is counted in. From it:

* `ReportsInv`: a comment's counter is the number of its reporters, and it is hidden
  exactly if that has reached `Threshold`; `NoticesInv`: notices are about comments that
  are there and go where they should (`CommentsAreTrue`, `ReactionsAreTrue`);
* `Clean`: counters agree and no open transaction has skipped one. Requests keep it in
  any interleaving (`CountersAreExact`); with whole-row saves only a stale save or the
  Admin ends it (`DriftsAreStaleSaves`). The COMMIT is the core: it adds to each counter of
  its row the one row it adds to the table, by the disjointness of keys and counters, and
  a removed row was counted;
* `EngagementTyped`: a counter that is about to be decremented is positive and its row
  locked, so no interleaving takes a counter below zero.

**`ChatProofs`** — `IdInv` (an id is reserved by one request, and its row has a sender from
the INSERT on), `CommittedInv` (only committed messages travel), `AckInv` (the one
acknowledgement in the database thread is still allowed: only `AckSave` writes a status, and
it needs the thread). `Forwards` follows. `Placed` adds where connections are and that
`since` is an id that was committed. `Missed` rests on `GapInv`, kept whatever fails: what has
not slipped is committed and announced after every smaller id (`InOrder`), and a client has
every such message up to where it will ask from, or, once it has asked, has it or is being
sent it, without a hole (`Complete`).

**`NotificationsProofs`** — `OneWorker` (an event is in the broker or with one worker,
never both), `Progress` (how often an event was told is a function of where its task is),
`Muted` (a category that was off when the event happened is off until somebody turns it on,
which makes the event open): `AtMostOnce`, `Silent`. `Tongues` (a locale a task has read
or a device has registered is one its account spoke) gives `OwnTongue`.

**`UsersProofs`** — the turns of `Users`, with the theorems of `Chat` and `Notifications` and

* Accounts: `BooksInv` (a token was retired before its successor is made, whatever crashes
  between). `NamesInv`: once an address has an account, its accounts and the processes that are
  about to add one are no more than the processes there are, since a registration starts only
  while there is none; `TwinsOnlyTogether` is its corollary. Sessions (`SessionsStep`, over
  `BooksInv`): what can go on with a session (its live tokens and the rotations that retired
  one) is split only by a rotation that was overtaken;
* Conversations: `TalkInv` (what is stored says something and its files are of their kind),
  `AskedInv` (who is about to create a conversation with oneself wrote a padded id),
  `TwinsInv` (as `NamesInv`, of the conversations of two);
* Feeds and search: `PageCut` and `MergeLosesNothing` are about the operators of `Keyset`:
  a page is exactly what lies between its cursor and its last entry, a short one is the
  rest, and cutting each table to a page before the merge loses nothing, since of the first
  n of two ordered sets each is among the first n of its own. On them rest `FeedInv` and
  `SearchInv`: **what nobody touched has been served exactly if the cursor has passed it**,
  of which `NoRepeat` and `NoSkip` are the two halves. While a page of a feed is being read,
  `FeedInv` says it of the page too: the list it read and the entries it has are still right
  for all that nobody touched.

TLC checked the properties as ordinary invariants of the runs before they were proved.

**What proving changed in the models.** `Engagement`: two alternatives of a `CASE` were not
exclusive for all constants, the type of `page` was written with a precedence that two
parsers read differently, and comments must be distinct from what they are on. `Profiles`:
the accounts whose number bounds the keys must be finitely many.

**Induction.** The induction theorems of the library take an operator as parameter, which
the installed provers cannot instantiate. The induction the proofs need is therefore stated
of sets (`Least`, `Induct`, `Iterate` in `PublishingProofs`: a set of numbers with 0 and
every successor is `Nat`), which suffices for climbing a tree, for sums and for the first
rows of a table.

**Model-checked only.** Liveness under fairness, which the installed provers do not handle:
`FeaturedEnds`, `WorkEnds`, `PaidFirstTimeIsGranted`, and the run `Eventually`. So are the
three refutations. Neither do the provers handle `ENABLED` or recursive operators; the
modules with proofs use none.

## 10 What is not modelled

* Rows deleted by hand: the Admin can delete subscriptions, plans without
  subscriptions and payments with their rows, and edit or delete ratings and reports.
  `HistoryKept` and the mirror are statements about the code's own paths. Posts and reels
  in the Admin: its lists use the default manager, hence see only what is public.
* Forms are reduced to the fields a property tells apart. Slugs, texts, prices, images
  (beyond a profile's photo), throttles, passwords and permissions are left out.
* Columns that several components own: a profile's `is_featured` is in `Featured`, its
  counters in `Engagement`, its aggregate in `Ratings`, the rest in `Profiles`; no module
  has all of them at once. The whole-row PATCH is in each but `Ratings`.
* The rollup's other counts (views, followers, likes) have the form of the one modelled. A run
  by hand may count a day that is not over; what the property says is about the runs of Beat.
* A tier of a feed is one read of its two tables, and a page of a search too: what is
  published or changed between those two queries is touched, and for what is not touched it
  makes no difference which of the two saw it.
* The broker does not deliver a task again: a duplicate that `notifications/tasks.py:47-51`
  accepts as a residual risk. `ToldOnce` is about workers that die (lines 39-43), with tasks
  acknowledged before they run.
* In the turn `tabs` requests do not overlap and their broadcasts succeed (`SpacedNext`): they do
  not write a status. In `messages` they overlap, fail and die.
* Which text matches which row of a search, and how well, is an input; the encoding of
  cursors and the refusal of malformed ones are left out.
* Reports of stories, products and businesses are only stored. Typing indicators, lists,
  unread counts and mark-read change no state anything else depends on.
* Signatures, payload parsing, HTTP, the Paymob client, FCM, ffmpeg, storage back ends.
* The whole-second resolution of clocks; the sweeps compare with the time they started, the
  models with the current period.
* The activation that a confirmed payment performs is a single step of `Payments` and
  the protocol of `Featured`; their composition is planned.
* Configuration (it justifies the processes, isolation level and fairness of the models),
  translations, audit scripts, backups.

## 11 Plan

1. `PaidFeature`: `Payments` composed with `Featured`: the transaction that completes a
   payment holds the payment's lock and then waits for the business; no deadlock, and a
   granted period is a `FeaturedSubscription` row.
2. One profile row with every column and every writer, in place of the four views of it.
3. Proofs: of `PaidFeature`, and of the one profile row (a column changes only by its
   owner or by the save of a stale row).
