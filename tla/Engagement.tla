----------------------------- MODULE Engagement -----------------------------
(***************************************************************************)
(* Follows, likes, saves, comments, shares and reports: social/views.py,   *)
(* social/services.py and reports/, with the counters kept beside them.    *)
(*                                                                         *)
(* A request resolves its target, opens a transaction, writes its row and  *)
(* adds F() expressions to counters: each UPDATE takes the lock of the     *)
(* counter's row and applies at the COMMIT.  Next to them owners and       *)
(* moderators save whole rows (businesses/services.py, content/views.py),  *)
(* counters included.                                                      *)
(***************************************************************************)
EXTENDS Integers, FiniteSets, Sequences

CONSTANTS
  User,       \* accounts
  Business,   \* business profiles
  Content,    \* posts and reels
  CommentId,  \* primary keys of comments
  Web,        \* processes that serve HTTP requests
  OwnerOf,    \* the account behind a business or a piece of content
  Kinds,      \* the requests of the instance
  Threshold,  \* COMMENT_AUTO_HIDE_THRESHOLD
  MaxCount,   \* bound: requests start below it (stale saves let counters grow)
  MaxShares,  \* bound on Share rows of one piece of content
  None        \* no process, no cached page

Assumptions ==
  /\ OwnerOf \in [Business \cup Content -> User]
  /\ Kinds \subseteq {"follow", "like", "save", "report", "comment", "share"}
  /\ Threshold \in Nat \ {0} /\ MaxShares \in Nat /\ MaxCount \in Nat
  /\ None \notin Web /\ CommentId \cap (User \cup Business \cup Content) = {}

VARIABLES
  rel,      \* Follow, Like, Save and Report rows: <<kind, user, target>>
  comment,  \* the Comment table
  shares,   \* number of Share rows of a piece of content
  status,   \* status and is_deleted of content; "pending" is any unpublished one
  count,    \* the denormalized counters: <<row, field>>
  lock,     \* who holds the lock of a row or of a unique key
  page,     \* the businesses followed in a user's cached home page
  notices,  \* notices handed to the broker: <<kind, recipient, about>>
  job       \* what each process works on

vars == <<rel, comment, shares, status, count, lock, page, notices, job>>

Row == User \cup Business \cup Content \cup CommentId
Unique == {"follow", "like", "save", "report"}
Key == {"follow"} \X User \X Business \cup {"like", "save"} \X User \X Content
         \cup {"report"} \X User \X (CommentId \cup Content)
Counters == User \X {"following"} \cup Business \X {"followers"}
              \cup Content \X {"likes", "comments", "shares"} \cup CommentId \X {"reports"}

NoComment == [state |-> "absent"]
Comments == [on : Content, by : User, hidden : BOOLEAN]

\* The counters a row is counted in, in the order of the UPDATEs.
CountersOf(kind, u, t) ==
  CASE kind = "follow" -> << <<t, "followers">>, <<u, "following">> >>
    [] kind = "like" -> << <<t, "likes">> >>
    [] kind = "comment" -> << <<t, "comments">> >>
    [] kind = "share" -> << <<t, "shares">> >>
    [] kind = "report" /\ t \in CommentId -> << <<t, "reports">> >>
    [] OTHER -> << >>

Elements(s) == {s[i] : i \in DOMAIN s}

\* The rows of the tables that a counter counts.
RowsOf(c) ==
  Cardinality({k \in rel : c \in Elements(CountersOf(k[1], k[2], k[3]))})
  + (IF c[2] = "comments"
     THEN Cardinality({m \in CommentId : comment[m] # NoComment /\ comment[m].on = c[1]})
     ELSE 0)
  + (IF c[2] = "shares" THEN shares[c[1]] ELSE 0)

Idle == [at |-> "idle"]
At(p, step) == job[p].at = step
Goto(p, j) == job' = [job EXCEPT ![p] = j]
Done(p) == Goto(p, Idle)
Free(p) == lock' = [x \in DOMAIN lock |-> IF lock[x] = p THEN None ELSE lock[x]]
Take(p, x) == lock[x] = None /\ lock' = [lock EXCEPT ![x] = p]

TypeOK ==
  /\ rel \subseteq Key
  /\ comment \in [CommentId -> Comments \cup {NoComment}]
  /\ shares \in [Content -> 0..MaxShares]
  /\ status \in [Content -> {"pending", "published", "deleted"}]
  /\ count \in [Counters -> Nat]
  /\ lock \in [Key \cup Row -> Web \cup {None}]
  /\ page \in [User -> (SUBSET Business) \cup {None}]
  /\ notices \subseteq {"new_follower", "comment_on_content"} \X User \X (User \cup CommentId)
  /\ \A p \in Web :
       job[p].at \in {"idle", "write", "bump", "commit", "after", "page", "save"}

Init ==
  /\ rel = {}
  /\ comment = [m \in CommentId |-> NoComment]
  /\ shares = [c \in Content |-> 0]
  /\ status \in [Content -> {"pending", "published"}]
  /\ count = [c \in Counters |-> 0]
  /\ lock = [x \in Key \cup Row |-> None]
  /\ page = [u \in User |-> None]
  /\ notices = {}
  /\ job = [p \in Web |-> Idle]

-----------------------------------------------------------------------------
(* A request: the target, the row, the counters, the COMMIT                *)

\* Likes and saves take any content that is not deleted, the others published
\* content, and a report also a comment that is still shown.
LikeTargets == {c \in Content : status[c] # "deleted"}
SaveTargets == LikeTargets
CommentTargets == {c \in Content : status[c] = "published"}
ShareTargets == CommentTargets
ReportTargets ==
  CommentTargets \cup {m \in CommentId : comment[m] # NoComment /\ ~comment[m].hidden}

Targets(kind) ==
  CASE kind = "follow" -> Business
    [] kind = "like" -> LikeTargets
    [] kind = "save" -> SaveTargets
    [] kind = "comment" -> CommentTargets
    [] kind = "share" -> ShareTargets
    [] kind = "report" -> ReportTargets

\* POST or DELETE; comments, shares and reports have no DELETE.
Resolve(p, kind, add, u) ==
  /\ At(p, "idle")
  /\ add \/ kind \in {"follow", "like", "save"}
  /\ \A c \in Counters : count[c] <= MaxCount
  /\ \E t \in Targets(kind) :
       Goto(p, [at |-> "write", kind |-> kind, add |-> add, user |-> u, on |-> t])
  /\ UNCHANGED <<rel, comment, shares, status, count, lock, page, notices>>

KeyOf(j) == <<j.kind, j.user, j.on>>

\* Does the statement write a row?  The second INSERT of a key waits for the
\* first and then finds its row; the second DELETE finds none.
GainsAlways(j) == TRUE  \* Faulty: get_or_create, the created flag ignored
Gains(j) == j.kind \in Unique => (KeyOf(j) \notin rel <=> j.add)

\* get_or_create, filter().delete() or create, the first of the transaction.
Write(p) ==
  LET j == job[p]
      todo == IF Gains(j) THEN CountersOf(j.kind, j.user, j.on) ELSE << >>
  IN
  /\ At(p, "write")
  /\ IF Gains(j) /\ j.kind \in Unique THEN Take(p, KeyOf(j)) ELSE UNCHANGED lock
  /\ Goto(p, [at |-> "bump", kind |-> j.kind, add |-> j.add, user |-> j.user,
              on |-> j.on, gain |-> Gains(j), todo |-> todo, hits |-> {}])
  /\ UNCHANGED <<rel, comment, shares, status, count, page, notices>>

\* Does the WHERE of the UPDATE match?  .objects leaves deleted content out.
MatchesUnguarded(c, add) == c[1] \in Content => status[c[1]] # "deleted"  \* Faulty
Matches(c, add) ==
  /\ c[1] \in Content => status[c[1]] # "deleted"
  /\ ~add => count[c] > 0

\* One UPDATE ... SET n = n + 1.  It waits for the row if another holds it.
Bump(p) ==
  LET j == job[p]
      c == Head(j.todo)
  IN
  /\ At(p, "bump") /\ j.todo # << >>
  /\ IF Matches(c, j.add) THEN Take(p, c[1]) ELSE UNCHANGED lock
  /\ Goto(p, [j EXCEPT !.todo = Tail(@),
                       !.hits = IF Matches(c, j.add) THEN @ \cup {c} ELSE @])
  /\ UNCHANGED <<rel, comment, shares, status, count, page, notices>>

\* check_and_hide_if_threshold_exceeded reads the count just written.
HidesLate(n) == n - 1 >= Threshold  \* Faulty: the count before this report
Hides(n) == n >= Threshold

Commit(p) ==
  LET j == job[p]
      k == KeyOf(j)
  IN
  /\ At(p, "bump") /\ j.todo = << >>
  /\ rel' = IF j.gain /\ j.kind \in Unique
            THEN IF j.add THEN rel \cup {k} ELSE rel \ {k}
            ELSE rel
  /\ count' = [c \in Counters |->
                IF c \notin j.hits THEN count[c] ELSE count[c] + (IF j.add THEN 1 ELSE -1)]
  /\ IF j.kind = "share"
     THEN shares[j.on] < MaxShares /\ shares' = [shares EXCEPT ![j.on] = @ + 1]
     ELSE UNCHANGED shares
  /\ CASE j.kind = "comment" ->
            \E m \in CommentId :
              /\ comment[m] = NoComment
              /\ comment' = [comment EXCEPT ![m] =
                              [on |-> j.on, by |-> j.user, hidden |-> FALSE]]
              /\ Goto(p, [at |-> "after", kind |-> "comment", gain |-> TRUE,
                          user |-> j.user, on |-> j.on, about |-> m])
       [] j.kind = "report" /\ j.gain /\ j.on \in CommentId ->
            /\ comment' = [comment EXCEPT ![j.on].hidden =
                            @ \/ Hides(count'[<<j.on, "reports">>])]
            /\ Done(p)
       [] j.kind = "follow" ->
            /\ Goto(p, [at |-> "after", kind |-> "follow", gain |-> j.gain /\ j.add,
                        user |-> j.user, on |-> j.on, about |-> j.user])
            /\ UNCHANGED comment
       [] OTHER -> Done(p) /\ UNCHANGED comment
  /\ Free(p)
  /\ UNCHANGED <<status, page, notices>>

\* The process dies or the request fails: PostgreSQL rolls back; after the
\* COMMIT only the notice and the invalidation are lost.
Crash(p) ==
  /\ ~At(p, "idle")
  /\ Done(p) /\ Free(p)
  /\ UNCHANGED <<rel, comment, shares, status, count, page, notices>>

\* CommentListView for an account that does not moderate.
CommentTable == {m \in CommentId : comment[m] # NoComment}
Sees(u, m) ==
  /\ comment[m].on \in CommentTargets
  /\ ~comment[m].hidden \/ comment[m].by = u

-----------------------------------------------------------------------------
(* After the COMMIT: the notice and the cached home page                   *)

NoticeSelf(j) ==  \* Faulty: no check for one's own content
  IF j.gain
  THEN {<<IF j.kind = "follow" THEN "new_follower" ELSE "comment_on_content",
          OwnerOf[j.on], j.about>>}
  ELSE {}
Notice(j) ==
  IF j.gain /\ OwnerOf[j.on] # j.user
  THEN {<<IF j.kind = "follow" THEN "new_follower" ELSE "comment_on_content",
          OwnerOf[j.on], j.about>>}
  ELSE {}

\* _invalidate_home_feed_cache deletes the page, of a follower's view only.
After(p) ==
  LET j == job[p] IN
  /\ At(p, "after")
  /\ \E sent \in {Notice(j), {}} : notices' = notices \cup sent
  /\ page' = IF j.kind = "follow" THEN [page EXCEPT ![j.user] = None] ELSE page
  /\ Done(p)
  /\ UNCHANGED <<rel, comment, shares, status, count, lock>>

Follows(u) == {b \in Business : <<"follow", u, b>> \in rel}

\* HomeFeedView, a miss of the first page: compute, then store.
ReadFeed(p, u) ==
  /\ At(p, "idle") /\ page[u] = None
  /\ Goto(p, [at |-> "page", user |-> u, seen |-> Follows(u)])
  /\ UNCHANGED <<rel, comment, shares, status, count, lock, page, notices>>

StoreFeed(p) ==
  /\ At(p, "page")
  /\ page' = [page EXCEPT ![job[p].user] = job[p].seen]
  /\ Done(p)
  /\ UNCHANGED <<rel, comment, shares, status, count, lock, notices>>

\* FEED_HOME_CACHE_TTL_SECONDS are over.
ExpireNever(u) == FALSE /\ UNCHANGED vars  \* Faulty: cache.set without a timeout
ExpireFeed(u) ==
  /\ page[u] # None
  /\ page' = [page EXCEPT ![u] = None]
  /\ UNCHANGED <<rel, comment, shares, status, count, lock, notices, job>>

-----------------------------------------------------------------------------
(* Whole-row saves: PATCH of a profile, PATCH, DELETE or decision of content, *)
(* the Admin's form for an account                                         *)

CountersIn(r) == {c \in Counters : c[1] = r}

LoadRow(p, r) ==
  /\ At(p, "idle")
  /\ r \in Content => status[r] # "deleted"
  /\ Goto(p, [at |-> "save", row |-> r, count |-> [c \in CountersIn(r) |-> count[c]],
              status |-> IF r \in Content THEN status[r] ELSE "published"])
  /\ UNCHANGED <<rel, comment, shares, status, count, lock, page, notices>>

SaveRow(p) ==
  LET j == job[p] IN
  /\ At(p, "save") /\ lock[j.row] = None
  /\ count' = [c \in Counters |-> IF c \in CountersIn(j.row) THEN j.count[c] ELSE count[c]]
  /\ IF j.row \in Content
     THEN \E s \in {j.status, "deleted", "published"} :
            /\ s = "published" => j.status \in {"pending", "published"}
            /\ status' = [status EXCEPT ![j.row] = s]
     ELSE UNCHANGED status
  /\ Done(p)
  /\ UNCHANGED <<rel, comment, shares, lock, page, notices>>

\* FollowAdmin: the Admin adds or deletes a Follow row, and no counter.
AdminFollow(k) ==
  /\ lock[k] = None /\ k[1] = "follow"
  /\ rel' = IF k \in rel THEN rel \ {k} ELSE rel \cup {k}
  /\ UNCHANGED <<comment, shares, status, count, lock, page, notices, job>>

-----------------------------------------------------------------------------
Request(p) ==
  \/ \E kind \in Kinds, u \in User : Resolve(p, kind, TRUE, u) \/ Resolve(p, kind, FALSE, u)
  \/ Write(p) \/ Bump(p) \/ Commit(p) \/ After(p)

Feed(p) == StoreFeed(p) \/ \E u \in User : ReadFeed(p, u)
WholeRow(p) == SaveRow(p) \/ \E r \in User \cup Business \cup Content : LoadRow(p, r)

\* Requests alone; with the home page and no crash; with whole-row
\* saves; with the Admin and crashes too.
RequestNext == \E p \in Web : Request(p) \/ Crash(p)
FeedNext == (\E p \in Web : Request(p) \/ Feed(p)) \/ (\E u \in User : ExpireFeed(u))
SavingNext == \E p \in Web : Request(p) \/ WholeRow(p)
Next ==
  \/ SavingNext \/ \E p \in Web : Crash(p)
  \/ \E k \in Key : AdminFollow(k)

FeedSpec == Init /\ [][FeedNext]_vars
\* Redis drops a page whose time is over.
Fairness == \A u \in User : WF_vars(ExpireFeed(u))
FairFeedSpec == FeedSpec /\ Fairness
SavingSpec == Init /\ [][SavingNext]_vars
Spec == Init /\ [][Next]_vars

-----------------------------------------------------------------------------
(* Properties                                                              *)

\* Deleted content keeps its last counts: .objects does not find it.
Counted == {c \in Counters : c[1] \in Content => status[c[1]] # "deleted"}
Exact == \A c \in Counted : count[c] = RowsOf(c)

\* Requests keep every counter equal to the rows it counts, in any order and
\* with any crash: the promise of the F() updates beside the row
\* (social/views.py:5-9).  Refuted with whole-row saves.
CountersExact == Exact

\* The author's readers lose a comment exactly when Threshold different accounts
\* reported it: no report is counted twice, no crossing of the threshold is missed.
HiddenByDistinctReporters ==
  \A m \in CommentTable, u \in User : u # comment[m].by /\ status[comment[m].on] = "published" =>
    (Sees(u, m) <=> Cardinality({v \in User : <<"report", v, m>> \in rel}) < Threshold)

StaleCopy(j) ==
  \/ \E c \in CountersIn(j.row) : count[c] # j.count[c]
  \/ j.row \in Content /\ status[j.row] # j.status

\* Counters agree with their rows and no open transaction has skipped one.
Clean ==
  /\ Exact
  /\ \A p \in Web : At(p, "bump") /\ job[p].gain =>
       \A c \in Counted : c \in Elements(CountersOf(job[p].kind, job[p].user, job[p].on))
         => c \in job[p].hits \cup Elements(job[p].todo)

\* Only the Admin and a whole-row save can move a counter away from its rows: the
\* save of a row read before another request counted, or before it was deleted.
DriftsOnlyBySaves ==
  Clean /\ ~Clean' =>
    \/ \E p \in Web : At(p, "save") /\ job'[p] = Idle /\ StaleCopy(job[p])
    \/ \E k \in Key : AdminFollow(k)
OnlyStaleSavesDrift == [][DriftsOnlyBySaves]_vars

\* A new comment is on published content.  Refuted: the target was resolved before
\* the transaction, and another request unpublished it in between.
CommentsOnPublished ==
  [][\A m \in CommentId : comment[m] = NoComment /\ comment'[m] # NoComment =>
       status[comment'[m].on] = "published"]_vars

\* A home page served from the cache follows what its user follows, once the
\* requests that changed it have returned.  Refuted: a page computed before the
\* follow is stored after the invalidation.
CachedPageFollows ==
  \A u \in User :
    (page[u] # None /\ \A p \in Web : job[p].at \notin {"after", "page"}) =>
      page[u] = Follows(u)

\* The damage is bounded by the page's lifetime: a cached page that misses a follow
\* does not stay.
StalePageEnds ==
  \A u \in User : page[u] \notin {None, Follows(u)} ~> page[u] \in {None, Follows(u)}

\* A notice of a comment is sent for a comment that is committed, and only to the
\* owner of what it is on, never to its author.
CommentNoticesTrue ==
  \A n \in notices : n[1] = "comment_on_content" =>
    /\ comment[n[3]] # NoComment
    /\ n[2] = OwnerOf[comment[n[3]].on] /\ n[2] # comment[n[3]].by
=============================================================================
