------------------------------ MODULE Featured ------------------------------
(***************************************************************************)
(* Featured status of a business: monetization/services.py, its callers    *)
(* (Django Admin, the daily expiry sweep, a confirmed payment) and the     *)
(* other two writers and readers of the same state: the owner's PATCH of   *)
(* the profile and the five-minute cache of the public profile.            *)
(*                                                                         *)
(* The database runs READ COMMITTED.  A transaction's own writes stay in   *)
(* the process's variables (deact, feat) until the action that commits     *)
(* them; every action is one SQL statement, one cache command, or the last *)
(* statement of a transaction together with its COMMIT.                    *)
(***************************************************************************)
EXTENDS Integers, FiniteSets

CONSTANTS
  Business,   \* primary keys of BusinessProfile rows
  Plan,       \* the purchasable plans
  Duration,   \* Duration[p]: Plan.duration_days
  SubId,      \* primary keys FeaturedSubscription rows can get
  Web,        \* processes that serve HTTP requests
  Celery,     \* processes that run Celery tasks
  MaxTime,    \* bound on the clock
  None        \* no process, no plan

Worker == Web \cup Celery

ASSUME KeysAreNumbers == Business \subseteq Nat /\ SubId \subseteq Nat
ASSUME DurationIsPositive == Duration \in [Plan -> Nat \ {0}]
ASSUME ProcessesDistinct ==
  Web \cap Celery = {} /\ None \notin Worker /\ None \notin Plan
ASSUME MaxTimeIsNat == MaxTime \in Nat

VARIABLES
  subs,     \* the FeaturedSubscription table
  flag,     \* BusinessProfile.is_featured
  lock,     \* who holds the row lock of a BusinessProfile (FOR UPDATE)
  cached,   \* the public profile cache entry, reduced to is_featured
  now,      \* the clock, in days
  pc,       \* where each process is
  biz,      \* the business rows the process works on
  plan,     \* the plan the process is activating
  ids,      \* the subscription rows the process selected
  deact,    \* rows the process's open transaction has set inactive
  feat,     \* businesses of biz the process has read as featured
  todo      \* rows reactivate_selected has still to go through

table == <<subs, flag, lock, cached, now>>
local == <<pc, biz, plan, ids, deact, feat, todo>>
vars == <<table, local>>

Absent == [state |-> "absent"]
Row == [state : {"active", "inactive"}, business : Business, plan : Plan,
        expires_at : Nat]

Existing == {pk \in SubId : subs[pk].state # "absent"}
Active == {pk \in SubId : subs[pk].state = "active"}
ActiveOf(b) == {pk \in Active : subs[pk].business = b}

Steps == {"idle", "react", "act_lock", "act_supersede", "act_insert",
          "deact_lock", "deact_update", "deact_sync", "deact_commit",
          "drop_cache", "edit", "fill"}

TypeOK ==
  /\ subs \in [SubId -> Row \cup {Absent}]
  /\ flag \in [Business -> BOOLEAN]
  /\ lock \in [Business -> Worker \cup {None}]
  /\ cached \in [Business -> {"miss", "featured", "plain"}]
  /\ now \in Nat
  /\ pc \in [Worker -> Steps]
  /\ biz \in [Worker -> SUBSET Business]
  /\ plan \in [Worker -> Plan \cup {None}]
  /\ ids \in [Worker -> SUBSET SubId]
  /\ deact \in [Worker -> SUBSET SubId]
  /\ feat \in [Worker -> SUBSET Business]
  /\ todo \in [Worker -> SUBSET SubId]

Init ==
  /\ subs = [pk \in SubId |-> Absent]
  /\ flag = [b \in Business |-> FALSE]
  /\ lock = [b \in Business |-> None]
  /\ cached = [b \in Business |-> "miss"]
  /\ now = 0
  /\ pc = [w \in Worker |-> "idle"]
  /\ biz = [w \in Worker |-> {}]
  /\ plan = [w \in Worker |-> None]
  /\ ids = [w \in Worker |-> {}]
  /\ deact = [w \in Worker |-> {}]
  /\ feat = [w \in Worker |-> {}]
  /\ todo = [w \in Worker |-> {}]

-----------------------------------------------------------------------------
(* Row locks.  SELECT ... FOR UPDATE ORDER BY pk takes the rows one by one, *)
(* in key order, and waits for the holder of the next one.                 *)

Goto(w, step) == pc' = [pc EXCEPT ![w] = step]

Unlocked(w) == [b \in Business |-> IF lock[b] = w THEN None ELSE lock[b]]

AllLockedBut(w, b) == \A c \in biz[w] \ {b} : lock[c] = w

\* Faulty: the rows are locked in whatever order the query returns them.
NextToLockAnyOrder(w, b) == b \in biz[w] /\ lock[b] # w

NextToLock(w, b) ==
  /\ b \in biz[w]
  /\ lock[b] # w
  /\ \A c \in biz[w] : c < b => lock[c] = w

\* Faulty: a plain get() instead of select_for_update().
RowIsFreeUnchecked(b) == TRUE

RowIsFree(b) == lock[b] = None

LockBusiness(w, b) ==
  /\ pc[w] \in {"act_lock", "deact_lock"}
  /\ NextToLock(w, b)
  /\ RowIsFree(b)
  /\ lock' = [lock EXCEPT ![b] = w]
  /\ IF AllLockedBut(w, b)
       THEN Goto(w, IF pc[w] = "act_lock" THEN "act_supersede" ELSE "deact_update")
       ELSE UNCHANGED pc
  /\ UNCHANGED <<subs, flag, cached, now, biz, plan, ids, deact, feat, todo>>

-----------------------------------------------------------------------------
(* activate_subscription(business, plan).                                  *)

Activating == {w \in Worker : pc[w] \in {"act_lock", "act_supersede", "act_insert"}}
Queued == {wp \in Worker \X SubId : wp[2] \in todo[wp[1]]}

\* Bound: n more activations fit into SubId next to those already under way.
Room(n) == Cardinality(Activating) + Cardinality(Queued) + n
             <= Cardinality(SubId \ Existing)

\* The Add form of the Admin (web) or a confirmed payment (webhook or
\* reconciliation task) calls activate_subscription.
BeginActivate(w, b, p) ==
  /\ pc[w] = "idle"
  /\ Room(1)
  /\ Goto(w, "act_lock")
  /\ biz' = [biz EXCEPT ![w] = {b}]
  /\ plan' = [plan EXCEPT ![w] = p]
  /\ UNCHANGED <<table, ids, deact, feat, todo>>

SamePurchase(pk, q) ==
  subs[pk].business = subs[q].business /\ subs[pk].plan = subs[q].plan

NewestOfEach(selected) ==
  {pk \in selected : ~ \E q \in selected : q > pk /\ SamePurchase(pk, q)}

\* reactivate_selected evaluates the queryset once; of the selected rows of
\* one (business, plan) only the newest is used.
BeginReactivate(w, selected) ==
  /\ pc[w] = "idle" /\ w \in Web
  /\ selected # {} /\ selected \subseteq Existing
  /\ Room(Cardinality(NewestOfEach(selected)))
  /\ todo' = [todo EXCEPT ![w] = NewestOfEach(selected)]
  /\ Goto(w, "react")
  /\ UNCHANGED <<table, biz, plan, ids, deact, feat>>

\* The loop of reactivate_selected: newest first, each in its own transaction.
NextReactivate(w, pk) ==
  /\ pc[w] = "react"
  /\ pk \in todo[w] /\ \A q \in todo[w] : q <= pk
  /\ Goto(w, "act_lock")
  /\ biz' = [biz EXCEPT ![w] = {subs[pk].business}]
  /\ plan' = [plan EXCEPT ![w] = subs[pk].plan]
  /\ todo' = [todo EXCEPT ![w] = @ \ {pk}]
  /\ UNCHANGED <<table, ids, deact, feat>>

\* UPDATE ... SET is_active=False WHERE business AND is_active.
Supersede(w) ==
  /\ pc[w] = "act_supersede"
  /\ deact' = [deact EXCEPT ![w] = {pk \in Active : subs[pk].business \in biz[w]}]
  /\ Goto(w, "act_insert")
  /\ UNCHANGED <<table, biz, plan, ids, feat, todo>>

\* Faulty: a re-activation flips an old row back on instead of adding one.
NewPkReusesRow(pk) == subs[pk].state # "active"

NewPk(pk) == pk \notin Existing /\ \A q \in SubId : q < pk => q \in Existing

\* The partial unique constraint uniq_active_featured_per_biz.
ConstraintAllows(w) == \A pk \in Active \ deact[w] : subs[pk].business \notin biz[w]

Deactivated(gone) ==
  [pk \in SubId |-> IF pk \in gone
                      THEN [subs[pk] EXCEPT !.state = "inactive"] ELSE subs[pk]]

\* Faulty: expires_at counted backwards.
NewRowSignError(b, p) ==
  [state |-> "active", business |-> b, plan |-> p, expires_at |-> now - Duration[p]]

NewRow(b, p) ==
  [state |-> "active", business |-> b, plan |-> p, expires_at |-> now + Duration[p]]

\* Faulty: the cached public profile is forgotten (finding F-9 of P-094).
AfterCommitNoDrop(w) == Goto(w, IF todo[w] = {} THEN "idle" ELSE "react")

\* transaction.on_commit(_drop_cached_profiles): the drop follows the commit.
AfterCommit(w) == Goto(w, "drop_cache")

\* INSERT the new row, mirror it in is_featured, COMMIT.
InsertAndCommit(w, b, pk) ==
  /\ pc[w] = "act_insert"
  /\ biz[w] = {b}
  /\ NewPk(pk)
  /\ ConstraintAllows(w)
  /\ subs' = [Deactivated(deact[w]) EXCEPT ![pk] = NewRow(b, plan[w])]
  /\ flag' = [flag EXCEPT ![b] = TRUE]
  /\ lock' = Unlocked(w)
  /\ plan' = [plan EXCEPT ![w] = None]
  /\ deact' = [deact EXCEPT ![w] = {}]
  /\ AfterCommit(w)
  /\ UNCHANGED <<cached, now, biz, ids, feat, todo>>

-----------------------------------------------------------------------------
(* deactivate_subscriptions(queryset).                                     *)

\* Faulty: strictly before now.
ExpiredStrictly == {pk \in Active : subs[pk].expires_at < now}

Expired == {pk \in Active : subs[pk].expires_at <= now}

\* The rows are listed before any lock is taken; an empty list returns 0.
BeginDeactivate(w, selected) ==
  /\ pc[w] = "idle"
  /\ selected # {}
  /\ ids' = [ids EXCEPT ![w] = selected]
  /\ biz' = [biz EXCEPT ![w] = {subs[pk].business : pk \in selected}]
  /\ Goto(w, "deact_lock")
  /\ UNCHANGED <<table, plan, deact, feat, todo>>

\* expire_featured_subscriptions (Celery Beat, daily).
BeginSweep(w) == w \in Celery /\ BeginDeactivate(w, Expired)

\* The Admin action "Deactivate selected": the active ones of the selection.
BeginAdminDeactivate(w, selected) ==
  w \in Web /\ selected \subseteq Existing /\ BeginDeactivate(w, selected \cap Active)

\* Faulty: the UPDATE filters by business instead of by the listed rows.
RowsToEndByBusiness(w) == {pk \in Active : subs[pk].business \in biz[w]}

RowsToEnd(w) == ids[w] \cap Active

\* UPDATE ... SET is_active=False WHERE pk IN ids AND is_active.
DeactivateUpdate(w) ==
  /\ pc[w] = "deact_update"
  /\ deact' = [deact EXCEPT ![w] = RowsToEnd(w)]
  /\ Goto(w, "deact_sync")
  /\ UNCHANGED <<table, biz, plan, ids, feat, todo>>

\* Faulty: un-feature without looking.
StillFeaturedBlind(w) == {}

StillFeatured(w) == {b \in biz[w] : \E pk \in ActiveOf(b) : pk \notin deact[w]}

\* _sync_business_featured_flag reads which businesses keep an active row.
DeactivateSync(w) ==
  /\ pc[w] = "deact_sync"
  /\ feat' = [feat EXCEPT ![w] = StillFeatured(w)]
  /\ Goto(w, "deact_commit")
  /\ UNCHANGED <<table, biz, plan, ids, deact, todo>>

\* is_featured of every row in biz becomes what the process has in feat.
WriteFlags(w) == flag' = [b \in Business |-> IF b \in biz[w] THEN b \in feat[w] ELSE flag[b]]

\* UPDATE is_featured, COMMIT.
DeactivateCommit(w) ==
  /\ pc[w] = "deact_commit"
  /\ subs' = Deactivated(deact[w])
  /\ WriteFlags(w)
  /\ lock' = Unlocked(w)
  /\ ids' = [ids EXCEPT ![w] = {}]
  /\ deact' = [deact EXCEPT ![w] = {}]
  /\ feat' = [feat EXCEPT ![w] = {}]
  /\ AfterCommit(w)
  /\ UNCHANGED <<cached, now, biz, plan, todo>>

-----------------------------------------------------------------------------
(* The owner's PATCH /businesses/me/, the change form of BusinessProfile in *)
(* the Admin, and the cached public read.                                  *)

\* The request loads its BusinessProfile instance, is_featured included.
EditLoad(w, b) ==
  /\ pc[w] = "idle" /\ w \in Web
  /\ biz' = [biz EXCEPT ![w] = {b}]
  /\ feat' = [feat EXCEPT ![w] = IF flag[b] THEN {b} ELSE {}]
  /\ Goto(w, "edit")
  /\ UNCHANGED <<table, plan, ids, deact, todo>>

\* profile.save() without update_fields writes every column of the instance;
\* the UPDATE waits for the row lock.
EditSave(w) ==
  /\ pc[w] = "edit"
  /\ \A b \in biz[w] : RowIsFree(b)
  /\ WriteFlags(w)
  /\ feat' = [feat EXCEPT ![w] = {}]
  /\ Goto(w, "drop_cache")
  /\ UNCHANGED <<subs, lock, cached, now, biz, plan, ids, deact, todo>>

\* BusinessProfileAdmin shows is_featured as a checkbox: the form writes what
\* it was submitted with, and nothing drops the cached public profile.
ChangeForm(b, checked) ==
  /\ RowIsFree(b)
  /\ flag' = [flag EXCEPT ![b] = checked]
  /\ UNCHANGED <<subs, lock, cached, now, local>>

\* After the commit (transaction.on_commit, or cache.delete in the PATCH
\* view) the cache entries of the businesses are dropped; an activation that
\* is part of reactivate_selected then goes on with the loop.
DropCache(w) ==
  /\ pc[w] = "drop_cache"
  /\ cached' = [b \in Business |-> IF b \in biz[w] THEN "miss" ELSE cached[b]]
  /\ biz' = [biz EXCEPT ![w] = {}]
  /\ Goto(w, IF todo[w] = {} THEN "idle" ELSE "react")
  /\ UNCHANGED <<subs, flag, lock, now, plan, ids, deact, feat, todo>>

\* cache_get_or_set on a miss: compute from the database ...
CacheCompute(w, b) ==
  /\ pc[w] = "idle" /\ w \in Web
  /\ cached[b] = "miss"
  /\ biz' = [biz EXCEPT ![w] = {b}]
  /\ feat' = [feat EXCEPT ![w] = IF flag[b] THEN {b} ELSE {}]
  /\ Goto(w, "fill")
  /\ UNCHANGED <<table, plan, ids, deact, todo>>

\* ... then cache.set, whatever happened in between.
CacheSet(w) ==
  /\ pc[w] = "fill"
  /\ cached' = [b \in Business |->
                 IF b \in biz[w] THEN IF b \in feat[w] THEN "featured" ELSE "plain"
                 ELSE cached[b]]
  /\ biz' = [biz EXCEPT ![w] = {}]
  /\ feat' = [feat EXCEPT ![w] = {}]
  /\ Goto(w, "idle")
  /\ UNCHANGED <<subs, flag, lock, now, plan, ids, deact, todo>>

\* BUSINESS_PROFILE_CACHE_TTL_SECONDS have passed.
CacheExpire(b) ==
  /\ cached[b] # "miss"
  /\ cached' = [cached EXCEPT ![b] = "miss"]
  /\ UNCHANGED <<subs, flag, lock, now, local>>

\* A save of the owner's User row (post_save receiver) or of the avatar alone
\* drops the entry without touching is_featured.
InvalidateProfile(b) ==
  /\ cached' = [cached EXCEPT ![b] = "miss"]
  /\ UNCHANGED <<subs, flag, lock, now, local>>

-----------------------------------------------------------------------------
(* Failures and time.                                                      *)

\* The process dies or its connection breaks: PostgreSQL rolls back the open
\* transaction and releases its locks; what was committed stays.
Crash(w) ==
  /\ pc[w] # "idle"
  /\ lock' = Unlocked(w)
  /\ biz' = [biz EXCEPT ![w] = {}]
  /\ plan' = [plan EXCEPT ![w] = None]
  /\ ids' = [ids EXCEPT ![w] = {}]
  /\ deact' = [deact EXCEPT ![w] = {}]
  /\ feat' = [feat EXCEPT ![w] = {}]
  /\ todo' = [todo EXCEPT ![w] = {}]
  /\ Goto(w, "idle")
  /\ UNCHANGED <<subs, flag, cached, now>>

Tick ==
  /\ now < MaxTime
  /\ now' = now + 1
  /\ UNCHANGED <<subs, flag, lock, cached, local>>

-----------------------------------------------------------------------------
ActivateStep(w) ==
  \/ \E b \in Business, p \in Plan : BeginActivate(w, b, p)
  \/ \E selected \in SUBSET SubId : BeginReactivate(w, selected)
  \/ \E pk \in SubId : NextReactivate(w, pk)
  \/ Supersede(w)
  \/ \E b \in Business, pk \in SubId : InsertAndCommit(w, b, pk)

DeactivateStep(w) ==
  \/ BeginSweep(w)
  \/ \E selected \in SUBSET SubId : BeginAdminDeactivate(w, selected)
  \/ DeactivateUpdate(w)
  \/ DeactivateSync(w)
  \/ DeactivateCommit(w)

ReadStep(w) ==
  \/ \E b \in Business : CacheCompute(w, b)
  \/ CacheSet(w)

\* Everything except a save of a whole BusinessProfile instance.
ServiceNext ==
  \/ \E w \in Worker :
       \/ ActivateStep(w)
       \/ DeactivateStep(w)
       \/ \E b \in Business : LockBusiness(w, b)
       \/ ReadStep(w)
       \/ DropCache(w)
       \/ Crash(w)
  \/ \E b \in Business : CacheExpire(b) \/ InvalidateProfile(b)
  \/ Tick

EditStep(w) ==
  \/ \E b \in Business : EditLoad(w, b)
  \/ EditSave(w)

Next ==
  \/ ServiceNext
  \/ \E w \in Worker : EditStep(w)
  \/ \E b \in Business, checked \in BOOLEAN : ChangeForm(b, checked)

\* The services alone, the services and the owners, and the whole system.
ServiceSpec == Init /\ [][ServiceNext]_vars
OwnerSpec == Init /\ [][ServiceNext \/ \E w \in Worker : EditStep(w)]_vars
Spec == Init /\ [][Next]_vars

-----------------------------------------------------------------------------
(* Properties.                                                             *)

Mirrors(b) == flag[b] <=> ActiveOf(b) # {}

\* "The flag cannot drift out of sync" (monetization/services.py): whatever
\* the order of activations, expiry sweeps and Admin deactivations, committed
\* is_featured says exactly whether the business has an active subscription.
FlagMirrors == \A b \in Business : Mirrors(b)

\* Once activate_subscription has superseded the old row, its INSERT can never
\* run into uniq_active_featured_per_biz: no other activation has slipped a
\* fresh row in between.
InsertNeverConflicts ==
  \A w \in Worker : pc[w] = "act_insert" => ConstraintAllows(w)

WaitsFor(v, w) ==
  /\ pc[v] \in {"act_lock", "deact_lock"}
  /\ \E b \in Business : NextToLock(v, b) /\ lock[b] = w

\* "In a stable order (pk ASC) so concurrent calls cannot deadlock each
\* other" (deactivate_subscriptions): no two processes wait for each other's
\* business rows.
NoCircularWait ==
  \A v, w \in Worker : ~ (WaitsFor(v, w) /\ WaitsFor(w, v))

\* Subscriptions are history: a row never goes away, never changes its
\* business, plan or expires_at, and once inactive never becomes active again
\* (a re-activation is a new row).
HistoryKept ==
  [][\A pk \in Existing :
       /\ pk \in Existing'
       /\ subs[pk].state = "inactive" => subs'[pk] = subs[pk]
       /\ subs[pk].state = "active" =>
            subs'[pk] \in {subs[pk], [subs[pk] EXCEPT !.state = "inactive"]}]_vars

\* The expiry sweep lists its rows before it takes a lock; what it ends when it
\* commits has nevertheless really expired, even if the business bought a new
\* subscription in between.
SweepEndsOnlyExpired ==
  [][\A w \in Celery : DeactivateCommit(w) =>
       \A pk \in Active : subs'[pk] # subs[pk] => subs[pk].expires_at <= now]_vars

\* With profile edits in the system, is_featured goes wrong only in the step
\* in which an edit or the Admin's form saves a whole profile: no service step
\* ever breaks it.
OnlyEditDrifts ==
  [][\A b \in Business : Mirrors(b) /\ ~ Mirrors(b)' =>
       \/ \E w \in Worker : EditSave(w) /\ b \in biz[w]
       \/ \E checked \in BOOLEAN : ChangeForm(b, checked)]_vars

Stale(b) == cached[b] # "miss" /\ (cached[b] = "featured") # flag[b]

\* A cached public profile goes stale only by a commit whose process still owes
\* the cache its delete, by a reader that stores what it read earlier, or by
\* the Admin's form, which never drops it.
StaleCopyIsOwed ==
  [][\A b \in Business : ~ Stale(b) /\ Stale(b)' =>
       \/ \E w \in Worker :
            /\ b \in biz[w]
            /\ pc[w] = "fill" \/ (pc[w] # "drop_cache" /\ pc'[w] = "drop_cache")
       \/ \E checked \in BOOLEAN : ChangeForm(b, checked)]_vars

-----------------------------------------------------------------------------
(* Liveness of the services.  A request or task that is not killed runs on, *)
(* PostgreSQL serves lock waiters in turn, Celery Beat starts the sweep     *)
(* every day, and processes are not killed for ever.  Nobody has to start   *)
(* an activation, an Admin action or a read.                                *)
StepAfterLock(w) ==
  \/ \E pk \in SubId : NextReactivate(w, pk)
  \/ Supersede(w)
  \/ \E b \in Business, pk \in SubId : InsertAndCommit(w, b, pk)
  \/ DeactivateUpdate(w)
  \/ DeactivateSync(w)
  \/ DeactivateCommit(w)
  \/ DropCache(w)
  \/ CacheSet(w)

\* A last step that leaves behind what a crash would is none.
Killed(w) ==
  Crash(w) /\ ~ (ActivateStep(w) \/ DeactivateStep(w) \/ ReadStep(w) \/ DropCache(w))

Fairness ==
  /\ \A w \in Worker : WF_vars(StepAfterLock(w))
  /\ \A w \in Worker : SF_vars(\E b \in Business : LockBusiness(w, b))
  /\ \A w \in Celery : SF_vars(BeginSweep(w))
  /\ <>[][\A w \in Worker : ~ Killed(w)]_vars

FairServiceSpec == ServiceSpec /\ Fairness

Lapsed(b) == \A pk \in ActiveOf(b) : subs[pk].expires_at <= now

\* Featured status ends: a business whose subscription has expired loses the
\* flag, unless it buys or is granted a new period.
FeaturedEnds ==
  \A b \in Business : (flag[b] /\ Lapsed(b)) ~> (~ flag[b] \/ ~ Lapsed(b))

\* Every request and task ends: nobody waits for a row lock for ever.
WorkEnds == \A w \in Worker : (pc[w] # "idle") ~> (pc[w] = "idle")

=============================================================================
