--------------------------- MODULE EngagementProofs ---------------------------
(***************************************************************************)
(* Proofs about reactions: a comment is hidden exactly when Threshold      *)
(* different accounts reported it, its notices go where they belong, a     *)
(* counter leaves its rows only with the save of a stale row, and none     *)
(* falls below zero.                                                       *)
(***************************************************************************)
EXTENDS Publishing, TLAPS, FiniteSetTheorems

-----------------------------------------------------------------------------
(* Requests                                                                *)

\* The counters of each kind of row.
LEMMA CountersAre ==
  ASSUME NEW c, NEW u, NEW t
  PROVE  /\ Engagement(c)!CountersOf("follow", u, t) = << <<t, "followers">>, <<u, "following">> >>
         /\ Engagement(c)!CountersOf("like", u, t) = << <<t, "likes">> >>
         /\ Engagement(c)!CountersOf("save", u, t) = << >>
         /\ Engagement(c)!CountersOf("comment", u, t) = << <<t, "comments">> >>
         /\ Engagement(c)!CountersOf("share", u, t) = << <<t, "shares">> >>
         /\ t \in c.CommentId => Engagement(c)!CountersOf("report", u, t) = << <<t, "reports">> >>
         /\ t \notin c.CommentId => Engagement(c)!CountersOf("report", u, t) = << >>
  BY DEF Engagement!CountersOf

\* What each kind of request is about.
Subject(c, kind) ==
  CASE kind = "follow" -> c.Business
    [] kind = "report" -> c.CommentId \cup c.Content
    [] OTHER -> c.Content

\* What is left to count and what has been counted is what the row is counted in.
Counting(c, p) ==
  LET j == job[p]
      all == Engagement(c)!CountersOf(j.kind, j.user, j.on)
  IN
  /\ DOMAIN j = {"at", "kind", "add", "user", "on", "gain", "todo", "hits"}
  /\ j.gain \in BOOLEAN
  /\ \/ j.todo = << >> \/ j.todo = all
     \/ j.kind = "follow" /\ j.todo = << <<j.user, "following">> >>
  /\ j.hits \subseteq Engagement(c)!Elements(all)
  /\ ~j.gain => j.kind \in Engagement(c)!Unique /\ j.todo = << >> /\ j.hits = {}
  /\ j.gain /\ j.kind = "report" /\ j.on \in c.CommentId /\ j.todo = << >> => <<j.on, "reports">> \in j.hits
  /\ j.gain /\ j.kind \in Engagement(c)!Unique =>
       /\ rowLock[Engagement(c)!KeyOf(j)] = p
       /\ Engagement(c)!KeyOf(j) \in rel <=> ~j.add

\* A request works on what it may, and holds the key of the row it writes.
JobOk(c, p) ==
  LET j == job[p] IN
  /\ j.at \in {"idle", "write", "bump", "after", "page", "save"}
  /\ j.at \in {"write", "bump"} =>
       /\ j.kind \in {"follow", "like", "save", "report", "comment", "share"}
       /\ j.user \in c.User /\ j.on \in Subject(c, j.kind) /\ j.add \in BOOLEAN
       /\ j.add \/ j.kind \in {"follow", "like", "save"}
       /\ j.kind = "report" /\ j.on \in c.CommentId => comment[j.on] # Engagement(c)!NoComment
  /\ j.at = "bump" => Counting(c, p)
  /\ j.at = "after" => j.kind \in {"follow", "comment"}
  /\ j.at = "after" /\ j.kind = "comment" =>
       /\ j.about \in c.CommentId /\ comment[j.about] # Engagement(c)!NoComment
       /\ comment[j.about].on = j.on /\ comment[j.about].by = j.user
  /\ j.at = "save" =>
       /\ j.row \in c.User \cup c.Business \cup c.Content
       /\ DOMAIN j.count = Engagement(c)!CountersIn(j.row)
       /\ j.row \in c.Content => j.status \in {"pending", "published"}

\* Tables, locks and requests.
ReactInv(c) ==
  /\ DOMAIN job = c.Web /\ DOMAIN comment = c.CommentId /\ DOMAIN status = c.Content
  /\ DOMAIN count = Engagement(c)!Counters /\ DOMAIN shares = c.Content
  /\ DOMAIN rowLock = Engagement(c)!Key \cup Engagement(c)!Row
  /\ \A x \in c.Content : status[x] \in {"pending", "published", "deleted"}
  /\ \A m \in c.CommentId :
       comment[m] = Engagement(c)!NoComment \/ comment[m] \in Engagement(c)!Comments
  /\ \A p \in c.Web : JobOk(c, p)

\* The key of a row is one of the keys that can be locked.
LEMMA KeysAre ==
  ASSUME NEW c, NEW j, j.kind \in Engagement(c)!Unique, j.user \in c.User, j.on \in Subject(c, j.kind)
  PROVE  Engagement(c)!KeyOf(j) \in Engagement(c)!Key
  BY DEF Engagement!Unique, Engagement!KeyOf, Engagement!Key, Subject

\* No request is at work yet.
LEMMA ReactInit ==
  ASSUME NEW c, Engagement(c)!Init PROVE ReactInv(c)
<1>1. \A p \in c.Web : job[p].at = "idle"  BY DEF Engagement!Init, Engagement!Idle
<1>2. \A p \in c.Web : JobOk(c, p)  BY <1>1 DEF JobOk
<1>3. \A x \in c.Content : status[x] \in {"pending", "published"}
  BY DEF Engagement!Init
<1>4. \A m \in c.CommentId : comment[m] = Engagement(c)!NoComment
  BY DEF Engagement!Init
<1>5. DOMAIN job = c.Web /\ DOMAIN comment = c.CommentId /\ DOMAIN shares = c.Content
  BY DEF Engagement!Init
<1>6. DOMAIN status = c.Content
  BY DEF Engagement!Init
<1>7. DOMAIN count = Engagement(c)!Counters
  BY DEF Engagement!Init
<1>8. DOMAIN rowLock = Engagement(c)!Key \cup Engagement(c)!Row
  BY DEF Engagement!Init
<1> QED  BY <1>2, <1>3, <1>4, <1>5, <1>6, <1>7, <1>8 DEF ReactInv

\* Requests that a step does not run stay as they are: it leaves their locks, and comments
\* stay where they are.
LEMMA JobsOfOthers ==
  ASSUME NEW c, None \notin c.Web, NEW p \in c.Web, NEW q \in c.Web, q # p, JobOk(c, q), job'[q] = job[q],
         \A m \in c.CommentId : comment[m] # Engagement(c)!NoComment =>
                  /\ comment'[m] # Engagement(c)!NoComment
                  /\ comment'[m].on = comment[m].on /\ comment'[m].by = comment[m].by,
         \A k \in Engagement(c)!Key : rowLock[k] = q => rowLock'[k] = q /\ (k \in rel' <=> k \in rel)
  PROVE  JobOk(c, q)'
<1>1. Engagement(c)!NoComment' = Engagement(c)!NoComment  BY DEF Engagement!NoComment
<1> DEFINE j == job[q]
<1>2. CASE j.at = "bump"
  <2>1. j.kind \in Engagement(c)!Unique => Engagement(c)!KeyOf(j) \in Engagement(c)!Key
    BY <1>2, KeysAre DEF JobOk
  <2>2. Counting(c, q)'
    BY <1>2, <2>1 DEF JobOk, Counting, Engagement!KeyOf
  <2> QED  BY <1>2, <2>2 DEF JobOk
<1>3. CASE j.at # "bump"
  BY <1>3 DEF JobOk
<1> QED  BY <1>2, <1>3

\* Comments stay where they are.
CommentsStay(c) ==
  /\ DOMAIN comment' = c.CommentId
  /\ \A m \in c.CommentId : comment'[m] = Engagement(c)!NoComment \/ comment'[m] \in Engagement(c)!Comments
  /\ \A m \in c.CommentId : comment[m] # Engagement(c)!NoComment =>
       /\ comment'[m] # Engagement(c)!NoComment
       /\ comment'[m].on = comment[m].on /\ comment'[m].by = comment[m].by

\* What a step of p leaves of the others' work.
LeavesOthers(c, p) ==
  /\ DOMAIN job' = c.Web /\ \A q \in c.Web : q # p => job'[q] = job[q]
  /\ DOMAIN rowLock' = DOMAIN rowLock
  /\ \A k \in Engagement(c)!Key : rowLock[k] \notin {p, None} =>
       rowLock'[k] = rowLock[k] /\ (k \in rel' <=> k \in rel)
  /\ CommentsStay(c)
  /\ DOMAIN status' = c.Content /\ \A x \in c.Content : status'[x] \in {"pending", "published", "deleted"}
  /\ DOMAIN count' = DOMAIN count /\ DOMAIN shares' = DOMAIN shares

\* So it is enough to look at what p itself works on.
LEMMA ReactAfter ==
  ASSUME NEW c, None \notin c.Web, ReactInv(c), NEW p \in c.Web, LeavesOthers(c, p), JobOk(c, p)'
  PROVE  ReactInv(c)'
<1>1. ASSUME NEW q \in c.Web, q # p PROVE JobOk(c, q)'
  BY <1>1, JobsOfOthers DEF ReactInv, LeavesOthers, CommentsStay
<1>2. \A q \in c.Web : JobOk(c, q)'  BY <1>1
<1> QED
  BY <1>2 DEF ReactInv, LeavesOthers, CommentsStay, Engagement!NoComment, Engagement!Comments,
     Engagement!Counters, Engagement!Key, Engagement!Row

\* Every step keeps ReactInv.
LEMMA ReactStep ==
  ASSUME NEW c, Engagement(c)!Assumptions, ReactInv(c), Engagement(c)!Next PROVE ReactInv(c)'
<1>0. None \notin c.Web /\ c.Kinds \subseteq {"follow", "like", "save", "report", "comment", "share"}
  BY DEF Engagement!Assumptions
<1> USE DEF Engagement!Goto, Engagement!Done, Engagement!At, Engagement!Idle
<1>1. ASSUME NEW p \in c.Web, NEW kind \in c.Kinds, NEW add \in BOOLEAN, NEW u \in c.User,
             Engagement(c)!Resolve(p, kind, add, u)
      PROVE  ReactInv(c)'
  <2>1. LeavesOthers(c, p)
    BY <1>1 DEF Engagement!Resolve, ReactInv, LeavesOthers, CommentsStay
  <2>2. PICK t \in Engagement(c)!Targets(kind) :
          job'[p] = [at |-> "write", kind |-> kind, add |-> add, user |-> u, on |-> t]
    BY <1>1 DEF Engagement!Resolve, ReactInv
  <2>3. /\ t \in Subject(c, kind)
        /\ kind = "report" /\ t \in c.CommentId => comment[t] # Engagement(c)!NoComment
    BY <1>0, <2>2 DEF Subject, Engagement!Targets, Engagement!LikeTargets, Engagement!SaveTargets,
       Engagement!CommentTargets, Engagement!ShareTargets, Engagement!ReportTargets, Engagement!Assumptions
  <2>4. JobOk(c, p)'
    BY <1>0, <1>1, <2>2, <2>3 DEF Engagement!Resolve, JobOk
  <2> QED  BY <1>0, <2>1, <2>4, ReactAfter
<1>2. ASSUME NEW p \in c.Web, Engagement(c)!Write(p) PROVE ReactInv(c)'
  <2> DEFINE j == job[p]
             k == Engagement(c)!KeyOf(j)
  <2>1. /\ j.at = "write" /\ j.kind \in {"follow", "like", "save", "report", "comment", "share"}
        /\ j.user \in c.User /\ j.on \in Subject(c, j.kind) /\ j.add \in BOOLEAN
        /\ j.add \/ j.kind \in {"follow", "like", "save"}
        /\ j.kind = "report" /\ j.on \in c.CommentId => comment[j.on] # Engagement(c)!NoComment
    BY <1>2 DEF Engagement!Write, ReactInv, JobOk
  <2>2. Engagement(c)!Gains(j) \in BOOLEAN
    BY DEF Engagement!Gains
  <2>3. LeavesOthers(c, p)
    <3>1. UNCHANGED rowLock \/ \E x : rowLock[x] = None /\ rowLock' = [rowLock EXCEPT ![x] = p]
      BY <1>2 DEF Engagement!Write, Engagement!Take
    <3>2. /\ UNCHANGED <<rel, comment, shares, status, count>>
          /\ DOMAIN job' = c.Web /\ \A q \in c.Web : q # p => job'[q] = job[q]
      BY <1>2 DEF Engagement!Write, ReactInv
    <3> QED  BY <3>1, <3>2 DEF LeavesOthers, CommentsStay, ReactInv
  <2>4. /\ job'[p] = [at |-> "bump", kind |-> j.kind, add |-> j.add, user |-> j.user, on |-> j.on,
                      gain |-> Engagement(c)!Gains(j),
                      todo |-> IF Engagement(c)!Gains(j)
                               THEN Engagement(c)!CountersOf(j.kind, j.user, j.on) ELSE << >>,
                      hits |-> {}]
        /\ UNCHANGED <<rel, comment>>
    BY <1>2 DEF Engagement!Write, ReactInv
  <2>5. Engagement(c)!Gains(j) /\ j.kind \in Engagement(c)!Unique =>
          rowLock'[k] = p /\ (k \in rel <=> ~j.add)
    <3>1. j.kind \in Engagement(c)!Unique => k \in Engagement(c)!Key
      BY <2>1, KeysAre
    <3> QED  BY <1>2, <2>1, <3>1 DEF Engagement!Write, Engagement!Take, ReactInv, Engagement!Gains
  <2>g. ~Engagement(c)!Gains(j) => j.kind \in Engagement(c)!Unique
    BY DEF Engagement!Gains
  <2>6. Counting(c, p)'
    BY <2>1, <2>2, <2>4, <2>5, <2>g, CountersAre DEF Counting, Engagement!KeyOf
  <2>7. JobOk(c, p)'
    BY <2>1, <2>4, <2>6 DEF JobOk, Subject, Engagement!NoComment
  <2> QED  BY <1>0, <2>3, <2>7, ReactAfter
<1>3. ASSUME NEW p \in c.Web, Engagement(c)!Bump(p) PROVE ReactInv(c)'
  <2> DEFINE j == job[p]
             f == Head(j.todo)
             all == Engagement(c)!CountersOf(j.kind, j.user, j.on)
  <2>1. /\ j.at = "bump" /\ j.kind \in {"follow", "like", "save", "report", "comment", "share"}
        /\ j.user \in c.User /\ j.on \in Subject(c, j.kind) /\ j.add \in BOOLEAN
        /\ j.add \/ j.kind \in {"follow", "like", "save"}
        /\ j.kind = "report" /\ j.on \in c.CommentId => comment[j.on] # Engagement(c)!NoComment
        /\ j.todo # << >> /\ j.gain = TRUE /\ Counting(c, p)
    BY <1>3 DEF Engagement!Bump, ReactInv, JobOk, Counting
  <2>2. LeavesOthers(c, p)
    <3>1. UNCHANGED rowLock \/ \E x : rowLock[x] = None /\ rowLock' = [rowLock EXCEPT ![x] = p]
      BY <1>3 DEF Engagement!Bump, Engagement!Take
    <3>2. /\ UNCHANGED <<rel, comment, shares, status, count>>
          /\ DOMAIN job' = c.Web /\ \A q \in c.Web : q # p => job'[q] = job[q]
      BY <1>3 DEF Engagement!Bump, ReactInv
    <3> QED  BY <3>1, <3>2 DEF LeavesOthers, CommentsStay, ReactInv
  <2>3. /\ job' = [job EXCEPT ![p] = [j EXCEPT !.todo = Tail(j.todo),
             !.hits = IF Engagement(c)!Matches(f, j.add) THEN j.hits \cup {f} ELSE j.hits]]
        /\ UNCHANGED <<rel, comment>>
    BY <1>3 DEF Engagement!Bump
  <2>4. \/ j.todo = all
        \/ j.kind = "follow" /\ j.todo = << <<j.user, "following">> >>
    BY <2>1 DEF Counting
  <2>5. /\ f \in Engagement(c)!Elements(all)
        /\ \/ Tail(j.todo) = << >>
           \/ j.kind = "follow" /\ Tail(j.todo) = << <<j.user, "following">> >>
        /\ j.kind = "report" /\ j.on \in c.CommentId => f = <<j.on, "reports">>
    <3>1. CASE j.kind = "follow"
      <4>1. all = << <<j.on, "followers">>, <<j.user, "following">> >>  BY <3>1, CountersAre
      <4>e. Engagement(c)!Elements(all) = {<<j.on, "followers">>, <<j.user, "following">>}
        BY <4>1 DEF Engagement!Elements
      <4> HIDE DEF all
      <4>2. CASE j.todo = all
        <5>1. f = <<j.on, "followers">> /\ Tail(j.todo) = << <<j.user, "following">> >>  BY <4>1, <4>2
        <5> QED  BY <3>1, <4>e, <5>1
      <4>3. CASE j.todo = << <<j.user, "following">> >>
        <5>1. f = <<j.user, "following">> /\ Tail(j.todo) = << >>  BY <4>3
        <5> QED  BY <3>1, <4>e, <5>1
      <4> QED  BY <2>4, <4>2, <4>3
    <3>2. CASE j.kind # "follow"
      <4>1. j.todo = all /\ all # << >>  BY <2>1, <2>4, <3>2
      <4>2. PICK x : all = <<x>> /\ (j.kind = "report" /\ j.on \in c.CommentId => x = <<j.on, "reports">>)
        BY <2>1, <3>2, <4>1, CountersAre
      <4>3. f = x /\ Tail(j.todo) = << >>  BY <4>1, <4>2
      <4>4. Engagement(c)!Elements(all) = {x}  BY <4>2 DEF Engagement!Elements
      <4> QED  BY <3>2, <4>2, <4>3, <4>4
    <3> QED  BY <3>1, <3>2
  <2>6. j.kind = "report" /\ j.on \in c.CommentId => Engagement(c)!Matches(f, j.add)
    BY <2>1, <2>5 DEF Engagement!Matches, Engagement!Assumptions
  <2>7. /\ DOMAIN job'[p] = {"at", "kind", "add", "user", "on", "gain", "todo", "hits"}
        /\ job'[p].at = "bump" /\ job'[p].kind = j.kind /\ job'[p].user = j.user /\ job'[p].on = j.on
        /\ job'[p].add = j.add /\ job'[p].gain = TRUE /\ job'[p].todo = Tail(j.todo)
        /\ job'[p].hits = IF Engagement(c)!Matches(f, j.add) THEN j.hits \cup {f} ELSE j.hits
    BY <2>1, <2>3 DEF ReactInv, Counting
  <2>8. j.kind \in Engagement(c)!Unique =>
          rowLock'[Engagement(c)!KeyOf(j)] = p /\ (Engagement(c)!KeyOf(j) \in rel' <=> ~j.add)
    <3>1. UNCHANGED rowLock \/ \E x : rowLock[x] = None /\ rowLock' = [rowLock EXCEPT ![x] = p]
      BY <1>3 DEF Engagement!Bump, Engagement!Take
    <3>2. j.kind \in Engagement(c)!Unique => Engagement(c)!KeyOf(j) \in DOMAIN rowLock
      BY <2>1, KeysAre DEF ReactInv
    <3> QED  BY <1>0, <2>1, <2>3, <3>1, <3>2 DEF Counting
  <2>9. Counting(c, p)'
    BY <2>1, <2>5, <2>6, <2>7, <2>8 DEF Counting, Engagement!KeyOf
  <2>10. JobOk(c, p)'
    BY <2>1, <2>3, <2>7, <2>9 DEF JobOk
  <2> QED  BY <1>0, <2>2, <2>10, ReactAfter
<1>4. ASSUME NEW p \in c.Web, Engagement(c)!Commit(p) PROVE ReactInv(c)'
  <2> DEFINE j == job[p]
             k == Engagement(c)!KeyOf(j)
  <2>1. /\ j.at = "bump" /\ j.kind \in {"follow", "like", "save", "report", "comment", "share"}
        /\ j.user \in c.User /\ j.on \in Subject(c, j.kind)
        /\ Counting(c, p)
    BY <1>4 DEF Engagement!Commit, ReactInv, JobOk
  <2>2. /\ UNCHANGED status /\ DOMAIN count' = DOMAIN count /\ DOMAIN shares' = DOMAIN shares
        /\ DOMAIN rowLock' = DOMAIN rowLock
        /\ \A x \in DOMAIN rowLock : rowLock[x] # p => rowLock'[x] = rowLock[x]
    BY <1>4 DEF Engagement!Commit, Engagement!Free, ReactInv
  <2>3. rel' = rel \/ (rowLock[k] = p /\ (rel' = rel \cup {k} \/ rel' = rel \ {k}))
    <3>1. CASE ~(j.gain /\ j.kind \in Engagement(c)!Unique)
      BY <1>4, <3>1 DEF Engagement!Commit
    <3>2. CASE j.gain /\ j.kind \in Engagement(c)!Unique
      <4>1. rel' = IF j.add THEN rel \cup {k} ELSE rel \ {k}  BY <1>4, <3>2 DEF Engagement!Commit
      <4>2. rowLock[k] = p  BY <2>1, <3>2 DEF Counting
      <4> QED  BY <4>1, <4>2
    <3> QED  BY <3>1, <3>2
  <2>4. \/ /\ j.kind = "comment"
           /\ \E m \in c.CommentId :
                /\ comment[m] = Engagement(c)!NoComment
                /\ comment' = [comment EXCEPT ![m] = [on |-> j.on, by |-> j.user, hidden |-> FALSE]]
                /\ job' = [job EXCEPT ![p] = [at |-> "after", kind |-> "comment", gain |-> TRUE,
                                             user |-> j.user, on |-> j.on, about |-> m]]
        \/ /\ j.kind = "report" /\ j.gain /\ j.on \in c.CommentId
           /\ comment' = [comment EXCEPT ![j.on].hidden =
                            @ \/ Engagement(c)!Hides(count'[<<j.on, "reports">>])]
           /\ job' = [job EXCEPT ![p] = Engagement(c)!Idle]
        \/ /\ UNCHANGED comment
           /\ \/ job' = [job EXCEPT ![p] = Engagement(c)!Idle]
              \/ job' = [job EXCEPT ![p] = [at |-> "after", kind |-> "follow", gain |-> j.gain /\ j.add,
                                           user |-> j.user, on |-> j.on, about |-> j.user]]
    BY <1>4 DEF Engagement!Commit
  <2>5. DOMAIN job' = c.Web /\ \A q \in c.Web : q # p => job'[q] = job[q]
    BY <2>4 DEF ReactInv
  <2>6. CommentsStay(c)
    <3>1. CASE UNCHANGED comment  BY <3>1 DEF ReactInv, CommentsStay
    <3>2. ASSUME NEW m \in c.CommentId, comment[m] = Engagement(c)!NoComment, j.kind = "comment",
                 comment' = [comment EXCEPT ![m] = [on |-> j.on, by |-> j.user, hidden |-> FALSE]]
          PROVE  CommentsStay(c)
      <4>1. j.on \in c.Content  BY <2>1, <3>2 DEF Subject
      <4>2. [on |-> j.on, by |-> j.user, hidden |-> FALSE] \in Engagement(c)!Comments
        BY <2>1, <4>1 DEF Engagement!Comments
      <4>3. comment'[m] # Engagement(c)!NoComment  BY <3>2 DEF ReactInv, Engagement!NoComment
      <4> QED  BY <3>2, <4>2, <4>3 DEF ReactInv, CommentsStay
    <3>3. ASSUME j.on \in c.CommentId, j.kind = "report",
                 comment' = [comment EXCEPT ![j.on].hidden =
                              @ \/ Engagement(c)!Hides(count'[<<j.on, "reports">>])]
          PROVE  CommentsStay(c)
      <4>1. comment[j.on] \in Engagement(c)!Comments /\ Engagement(c)!NoComment \notin Engagement(c)!Comments
        BY <1>4, <3>3 DEF ReactInv, JobOk, Engagement!Commit, Engagement!NoComment, Engagement!Comments
      <4>2. PICK h \in BOOLEAN : comment' = [comment EXCEPT ![j.on].hidden = h]
        BY <3>3
      <4>3. /\ [comment[j.on] EXCEPT !.hidden = h] \in Engagement(c)!Comments
            /\ [comment[j.on] EXCEPT !.hidden = h].on = comment[j.on].on
            /\ [comment[j.on] EXCEPT !.hidden = h].by = comment[j.on].by
        BY <4>1 DEF Engagement!Comments
      <4>4. comment'[j.on] = [comment[j.on] EXCEPT !.hidden = h]  BY <3>3, <4>2 DEF ReactInv
      <4> QED  BY <3>3, <4>1, <4>2, <4>3, <4>4 DEF ReactInv, CommentsStay
    <3> QED  BY <2>4, <3>1, <3>2, <3>3
  <2>7. LeavesOthers(c, p)
    BY <2>2, <2>3, <2>5, <2>6 DEF LeavesOthers, CommentsStay, ReactInv
  <2>8. JobOk(c, p)'
    <3>1. CASE job'[p] = Engagement(c)!Idle
      BY <3>1 DEF JobOk
    <3>2. ASSUME NEW m \in c.CommentId, comment[m] = Engagement(c)!NoComment, j.kind = "comment",
                 comment' = [comment EXCEPT ![m] = [on |-> j.on, by |-> j.user, hidden |-> FALSE]],
                 job'[p] = [at |-> "after", kind |-> "comment", gain |-> TRUE,
                            user |-> j.user, on |-> j.on, about |-> m]
          PROVE  JobOk(c, p)'
      <4>1. comment'[m] = [on |-> j.on, by |-> j.user, hidden |-> FALSE]  BY <3>2 DEF ReactInv
      <4> QED  BY <3>2, <4>1 DEF JobOk, Engagement!NoComment
    <3>3. ASSUME job'[p] = [at |-> "after", kind |-> "follow", gain |-> j.gain /\ j.add,
                            user |-> j.user, on |-> j.on, about |-> j.user]
          PROVE  JobOk(c, p)'
      BY <3>3 DEF JobOk
    <3> QED  BY <2>4, <3>1, <3>2, <3>3 DEF ReactInv
  <2> QED  BY <1>0, <2>7, <2>8, ReactAfter
<1>5. ASSUME NEW p \in c.Web, Engagement(c)!After(p) \/ Engagement(c)!Crash(p) PROVE ReactInv(c)'
  <2>1. /\ UNCHANGED <<rel, comment, shares, status, count>>
        /\ job' = [job EXCEPT ![p] = Engagement(c)!Idle]
    BY <1>5 DEF Engagement!After, Engagement!Crash
  <2>2. DOMAIN rowLock' = DOMAIN rowLock /\ \A x \in DOMAIN rowLock : rowLock[x] # p => rowLock'[x] = rowLock[x]
    BY <1>5 DEF Engagement!After, Engagement!Crash, Engagement!Free
  <2>3. LeavesOthers(c, p)
    BY <2>1, <2>2 DEF LeavesOthers, CommentsStay, ReactInv
  <2>4. JobOk(c, p)'
    BY <2>1 DEF JobOk, ReactInv
  <2> QED  BY <1>0, <2>3, <2>4, ReactAfter
<1>6. ASSUME NEW p \in c.Web, NEW r \in c.User \cup c.Business \cup c.Content, Engagement(c)!LoadRow(p, r)
      PROVE ReactInv(c)'
  <2>1. LeavesOthers(c, p)
    BY <1>6 DEF Engagement!LoadRow, LeavesOthers, CommentsStay, ReactInv
  <2>2. job'[p] = [at |-> "save", row |-> r,
                   count |-> [k \in Engagement(c)!CountersIn(r) |-> count[k]],
                   status |-> IF r \in c.Content THEN status[r] ELSE "published"]
    BY <1>6 DEF Engagement!LoadRow, ReactInv
  <2>3. r \in c.Content => status[r] \in {"pending", "published"}
    BY <1>6 DEF Engagement!LoadRow, ReactInv
  <2>4. Engagement(c)!CountersIn(r)' = Engagement(c)!CountersIn(r)
    BY DEF Engagement!CountersIn, Engagement!Counters
  <2>5. JobOk(c, p)'
    BY <2>2, <2>3, <2>4 DEF JobOk, Engagement!CountersIn, Engagement!Counters
  <2> QED  BY <1>0, <2>1, <2>5, ReactAfter
<1>7. ASSUME NEW p \in c.Web, Engagement(c)!SaveRow(p) PROVE ReactInv(c)'
  <2>1. LeavesOthers(c, p)
    <3>1. /\ UNCHANGED <<rel, comment, shares, rowLock>>
          /\ DOMAIN count' = DOMAIN count
          /\ job' = [job EXCEPT ![p] = Engagement(c)!Idle]
      BY <1>7 DEF Engagement!SaveRow, ReactInv
    <3>2. UNCHANGED status \/ \E s \in {job[p].status, "deleted", "published"} :
            status' = [status EXCEPT ![job[p].row] = s]
      BY <1>7 DEF Engagement!SaveRow
    <3>3. job[p].row \in c.Content => job[p].status \in {"pending", "published"}
      BY <1>7 DEF Engagement!SaveRow, ReactInv, JobOk
    <3>4. DOMAIN status' = c.Content /\ \A x \in c.Content : status'[x] \in {"pending", "published", "deleted"}
      BY <3>2, <3>3 DEF ReactInv
    <3> QED  BY <3>1, <3>4 DEF LeavesOthers, CommentsStay, ReactInv
  <2>2. JobOk(c, p)'
    BY <1>7 DEF Engagement!SaveRow, JobOk, ReactInv
  <2> QED  BY <1>0, <2>1, <2>2, ReactAfter
<1>8. ASSUME NEW k \in Engagement(c)!Key, Engagement(c)!AdminFollow(k) PROVE ReactInv(c)'
  <2>1. /\ UNCHANGED <<comment, shares, status, count, rowLock, job>>
        /\ rowLock[k] = None
        /\ \A x : x # k => (x \in rel' <=> x \in rel)
    BY <1>8 DEF Engagement!AdminFollow
  <2>2. \A q \in c.Web : JobOk(c, q)'
    <3>1. ASSUME NEW q \in c.Web, job[q].at = "bump" PROVE Counting(c, q)'
      <4>1. job[q].kind \in Engagement(c)!Unique => Engagement(c)!KeyOf(job[q]) \in Engagement(c)!Key
        BY <3>1, KeysAre DEF ReactInv, JobOk
      <4> QED  BY <1>0, <2>1, <3>1, <4>1 DEF ReactInv, JobOk, Counting, Engagement!KeyOf
    <3> QED  BY <2>1, <3>1 DEF ReactInv, JobOk
  <2> QED  BY <2>1, <2>2 DEF ReactInv
<1> QED
  BY <1>1, <1>2, <1>3, <1>4, <1>5, <1>6, <1>7, <1>8
  DEF Engagement!Next, Engagement!SavingNext, Engagement!Request, Engagement!WholeRow

\* A stuttering step too.
LEMMA ReactStutter ==
  ASSUME NEW c, ReactInv(c), UNCHANGED Engagement(c)!vars PROVE ReactInv(c)'
<1>1. UNCHANGED <<rel, comment, shares, status, count, rowLock, job>>  BY DEF Engagement!vars
<1>2. Engagement(c)!NoComment' = Engagement(c)!NoComment  BY DEF Engagement!NoComment
<1>3. ASSUME NEW q \in c.Web PROVE JobOk(c, q)'
  <2>1. Counting(c, q)' <=> Counting(c, q)  BY <1>1 DEF Counting
  <2> QED  BY <1>1, <1>2, <2>1 DEF ReactInv, JobOk
<1> QED  BY <1>1, <1>2, <1>3 DEF ReactInv

-----------------------------------------------------------------------------
(* Comments: reports and notices                                           *)

\* Who reported a comment.
Reporters(c, m) == {v \in c.User : <<"report", v, m>> \in rel}

\* The counter of a comment is the number of its reporters, and hides it.
ReportsInv(c) ==
  \A m \in c.CommentId :
    /\ IsFiniteSet(Reporters(c, m)) /\ count[<<m, "reports">>] = Cardinality(Reporters(c, m))
    /\ comment[m] = Engagement(c)!NoComment => Reporters(c, m) = {}
    /\ comment[m] # Engagement(c)!NoComment => (comment[m].hidden <=> count[<<m, "reports">>] >= c.Threshold)

\* Nobody has reported yet.
LEMMA ReportsInit ==
  ASSUME NEW c, Engagement(c)!Init PROVE ReportsInv(c)
<1>1. ASSUME NEW m \in c.CommentId
      PROVE  /\ Reporters(c, m) = {} /\ count[<<m, "reports">>] = 0
             /\ comment[m] = Engagement(c)!NoComment
  BY DEF Engagement!Init, Reporters, Engagement!Counters
<1> QED  BY <1>1, FS_EmptySet DEF ReportsInv

\* A step that neither reports a comment nor writes one.
LEMMA ReportsKept ==
  ASSUME NEW c, ReportsInv(c), UNCHANGED comment,
         \A m \in c.CommentId, v \in c.User : <<"report", v, m>> \in rel' <=> <<"report", v, m>> \in rel,
         \A m \in c.CommentId : count'[<<m, "reports">>] = count[<<m, "reports">>]
  PROVE  ReportsInv(c)'
<1>1. ASSUME NEW m \in c.CommentId PROVE Reporters(c, m)' = Reporters(c, m)  BY DEF Reporters
<1> QED  BY <1>1 DEF ReportsInv, Engagement!NoComment

\* The COMMIT of a request.
LEMMA ReportsCommit ==
  ASSUME NEW c, Engagement(c)!Assumptions, ReactInv(c), ReportsInv(c),
         NEW p \in c.Web, Engagement(c)!Commit(p)
  PROVE  ReportsInv(c)'
<1> DEFINE j == job[p]
           k == Engagement(c)!KeyOf(j)
<1>0. /\ c.Threshold \in Nat \ {0} /\ c.CommentId \cap (c.User \cup c.Business \cup c.Content) = {}
  BY DEF Engagement!Assumptions
<1>1. /\ j.at = "bump" /\ j.kind \in {"follow", "like", "save", "report", "comment", "share"}
      /\ j.user \in c.User /\ j.on \in Subject(c, j.kind) /\ j.add \in BOOLEAN
      /\ j.add \/ j.kind \in {"follow", "like", "save"}
      /\ j.kind = "report" /\ j.on \in c.CommentId => comment[j.on] # Engagement(c)!NoComment
      /\ j.todo = << >> /\ Counting(c, p) /\ DOMAIN comment = c.CommentId
  BY DEF Engagement!Commit, Engagement!At, ReactInv, JobOk
<1>2. \A x \in Engagement(c)!Counters :
        count'[x] = IF x \notin j.hits THEN count[x] ELSE count[x] + (IF j.add THEN 1 ELSE -1)
  BY DEF Engagement!Commit
<1>3. \A m \in c.CommentId : <<m, "reports">> \in Engagement(c)!Counters
  BY DEF Engagement!Counters
<1>4. rel' = IF j.gain /\ j.kind \in Engagement(c)!Unique
             THEN IF j.add THEN rel \cup {k} ELSE rel \ {k}
             ELSE rel
  BY DEF Engagement!Commit
<1>5. ASSUME NEW t \in c.CommentId, NEW u \in c.User, j.on = t, j.user = u, j.kind = "report", j.gain
      PROVE  ReportsInv(c)'
  <2>1. /\ j.add /\ <<t, "reports">> \in j.hits /\ k = <<"report", u, t>>
        /\ k \notin rel /\ rel' = rel \cup {k}
    BY <1>1, <1>4, <1>5 DEF Counting, Engagement!Unique, Engagement!KeyOf
  <2>2. \A m \in c.CommentId : m # t => <<m, "reports">> \notin j.hits
    <3>1. Engagement(c)!CountersOf(j.kind, j.user, j.on) = << <<t, "reports">> >>  BY <1>5, CountersAre
    <3>2. Engagement(c)!Elements(Engagement(c)!CountersOf(j.kind, j.user, j.on)) = {<<t, "reports">>}
      BY <3>1 DEF Engagement!Elements
    <3> QED  BY <1>1, <3>2 DEF Counting
  <2>3. comment' = [comment EXCEPT ![t].hidden =
                     comment[t].hidden \/ Engagement(c)!Hides(count'[<<t, "reports">>])]
    BY <1>5 DEF Engagement!Commit
  <2>4. ASSUME NEW m \in c.CommentId, m # t
        PROVE  /\ Reporters(c, m)' = Reporters(c, m) /\ comment'[m] = comment[m]
               /\ count'[<<m, "reports">>] = count[<<m, "reports">>]
    <3>1. Reporters(c, m)' = Reporters(c, m)  BY <2>1, <2>4 DEF Reporters
    <3>2. comment'[m] = comment[m]  BY <1>1, <2>3, <2>4
    <3>3. count'[<<m, "reports">>] = count[<<m, "reports">>]  BY <1>2, <1>3, <2>2, <2>4
    <3> QED  BY <3>1, <3>2, <3>3
  <2>5. /\ Reporters(c, t)' = Reporters(c, t) \cup {u} /\ u \notin Reporters(c, t)
        /\ count'[<<t, "reports">>] = count[<<t, "reports">>] + 1
    <3>1. Reporters(c, t)' = Reporters(c, t) \cup {u}
      BY <1>1, <2>1 DEF Reporters
    <3>2. u \notin Reporters(c, t)  BY <2>1 DEF Reporters
    <3>3. count'[<<t, "reports">>] = count[<<t, "reports">>] + 1
      BY <1>2, <1>3, <1>5, <2>1
    <3> QED  BY <3>1, <3>2, <3>3
  <2>6. /\ IsFiniteSet(Reporters(c, t)')
        /\ count'[<<t, "reports">>] = Cardinality(Reporters(c, t)')
        /\ count[<<t, "reports">>] \in Nat
    <3>1. IsFiniteSet(Reporters(c, t)) /\ count[<<t, "reports">>] = Cardinality(Reporters(c, t))
      BY <1>5 DEF ReportsInv
    <3> QED  BY <2>5, <3>1, FS_AddElement, FS_CardinalityType
  <2>7. /\ comment[t] \in Engagement(c)!Comments
        /\ comment[t].hidden <=> count[<<t, "reports">>] >= c.Threshold
    BY <1>1, <1>5 DEF ReactInv, ReportsInv
  <2>8. /\ comment'[t] # Engagement(c)!NoComment
        /\ comment'[t].hidden <=> count'[<<t, "reports">>] >= c.Threshold
    <3>1. DOMAIN comment[t] = {"on", "by", "hidden"} /\ comment[t].hidden \in BOOLEAN
      BY <2>7 DEF Engagement!Comments
    <3>2. comment'[t] = [comment[t] EXCEPT !.hidden =
            comment[t].hidden \/ Engagement(c)!Hides(count'[<<t, "reports">>])]
      BY <1>1, <1>5, <2>3
    <3>3. comment'[t] # Engagement(c)!NoComment
      <4>1. DOMAIN comment'[t] = {"on", "by", "hidden"}  BY <3>1, <3>2
      <4> QED  BY <4>1 DEF Engagement!NoComment
    <3>4. comment'[t].hidden <=> (comment[t].hidden \/ Engagement(c)!Hides(count'[<<t, "reports">>]))
      <4> HIDE DEF Engagement!Hides
      <4> QED  BY <3>1, <3>2
    <3>5. Engagement(c)!Hides(count'[<<t, "reports">>]) <=> count[<<t, "reports">>] + 1 >= c.Threshold
      BY <2>5 DEF Engagement!Hides
    <3>6. count[<<t, "reports">>] >= c.Threshold => count[<<t, "reports">>] + 1 >= c.Threshold
      BY <1>0, <2>6
    <3> HIDE DEF Engagement!Hides
    <3> QED  BY <2>5, <2>7, <3>3, <3>4, <3>5, <3>6
  <2>9. Engagement(c)!NoComment' = Engagement(c)!NoComment  BY DEF Engagement!NoComment
  <2>10. \A m \in c.CommentId : m = t => comment'[m] # Engagement(c)!NoComment
    BY <2>8
  <2> QED
    <3>1. ASSUME NEW m \in c.CommentId, m # t
          PROVE  /\ IsFiniteSet(Reporters(c, m)') /\ count'[<<m, "reports">>] = Cardinality(Reporters(c, m)')
                 /\ comment'[m] = Engagement(c)!NoComment' => Reporters(c, m)' = {}
                 /\ comment'[m] # Engagement(c)!NoComment' =>
                      (comment'[m].hidden <=> count'[<<m, "reports">>] >= c.Threshold)
      BY <2>4, <2>9, <3>1 DEF ReportsInv
    <3>2. ASSUME NEW m \in c.CommentId, m = t
          PROVE  /\ IsFiniteSet(Reporters(c, m)') /\ count'[<<m, "reports">>] = Cardinality(Reporters(c, m)')
                 /\ comment'[m] = Engagement(c)!NoComment' => Reporters(c, m)' = {}
                 /\ comment'[m] # Engagement(c)!NoComment' =>
                      (comment'[m].hidden <=> count'[<<m, "reports">>] >= c.Threshold)
      BY <2>6, <2>8, <2>9, <3>2
    <3> HIDE DEF j
    <3> QED  BY <3>1, <3>2 DEF ReportsInv
<1>6. CASE ~(j.kind = "report" /\ j.gain /\ j.on \in c.CommentId)
  <2>1. \A m \in c.CommentId : <<m, "reports">> \notin j.hits
    <3>1. Engagement(c)!Elements(<< >>) = {}  BY DEF Engagement!Elements
    <3>2. CASE j.kind = "report"
      BY <1>1, <1>6, <3>1, <3>2, CountersAre DEF Counting
    <3>3. CASE j.kind # "report"
      <4>1. \/ \E x : Engagement(c)!CountersOf(j.kind, j.user, j.on) = <<x>> /\ x[2] # "reports"
            \/ Engagement(c)!CountersOf(j.kind, j.user, j.on) = << >>
            \/ Engagement(c)!CountersOf(j.kind, j.user, j.on) = << <<j.on, "followers">>, <<j.user, "following">> >>
        BY <1>1, <3>3, CountersAre
      <4>2. \A x \in Engagement(c)!Elements(Engagement(c)!CountersOf(j.kind, j.user, j.on)) : x[2] # "reports"
        BY <4>1 DEF Engagement!Elements
      <4> QED  BY <1>1, <4>2 DEF Counting
    <3> QED  BY <3>2, <3>3
  <2>2. \A m \in c.CommentId : count'[<<m, "reports">>] = count[<<m, "reports">>]
    BY <1>2, <1>3, <2>1
  <2>3. \A m \in c.CommentId, v \in c.User : <<"report", v, m>> \in rel' <=> <<"report", v, m>> \in rel
    BY <1>4, <1>6 DEF Engagement!KeyOf
  <2>4. CASE UNCHANGED comment
    BY <2>2, <2>3, <2>4, ReportsKept
  <2>5. ASSUME NEW n \in c.CommentId, comment[n] = Engagement(c)!NoComment,
               comment' = [comment EXCEPT ![n] = [on |-> j.on, by |-> j.user, hidden |-> FALSE]]
        PROVE  ReportsInv(c)'
    <3>1. \A m \in c.CommentId : Reporters(c, m)' = Reporters(c, m)  BY <2>3 DEF Reporters
    <3>2. \A m \in c.CommentId : m # n => comment'[m] = comment[m]  BY <1>1, <2>5
    <3>3. comment'[n] = [on |-> j.on, by |-> j.user, hidden |-> FALSE]  BY <1>1, <2>5
    <3>4. Reporters(c, n) = {} /\ count[<<n, "reports">>] = 0
      BY <2>5, FS_EmptySet DEF ReportsInv
    <3>5. comment'[n] # Engagement(c)!NoComment /\ ~comment'[n].hidden
      BY <3>3 DEF Engagement!NoComment
    <3>6. ~(0 >= c.Threshold)  BY <1>0
    <3>7. Engagement(c)!NoComment' = Engagement(c)!NoComment  BY DEF Engagement!NoComment
    <3> HIDE DEF j, k
    <3> QED  BY <2>2, <3>1, <3>2, <3>4, <3>5, <3>6, <3>7 DEF ReportsInv
  <2> QED  BY <1>6, <2>4, <2>5 DEF Engagement!Commit
<1> QED  BY <1>1, <1>5, <1>6

\* Every step.
LEMMA ReportsStep ==
  ASSUME NEW c, Engagement(c)!Assumptions, ReactInv(c), ReportsInv(c), Engagement(c)!Next
  PROVE  ReportsInv(c)'
<1>1. ASSUME UNCHANGED <<rel, comment, count>> PROVE ReportsInv(c)'
  BY <1>1, ReportsKept
<1>2. ASSUME NEW p \in c.Web, Engagement(c)!SaveRow(p) PROVE ReportsInv(c)'
  <2>1. job[p].row \in c.User \cup c.Business \cup c.Content  BY <1>2 DEF Engagement!SaveRow, Engagement!At, ReactInv, JobOk
  <2>2. ASSUME NEW m \in c.CommentId PROVE count'[<<m, "reports">>] = count[<<m, "reports">>]
    <3>1. /\ <<m, "reports">> \in Engagement(c)!Counters
          /\ <<m, "reports">> \notin Engagement(c)!CountersIn(job[p].row)
      BY <2>1 DEF Engagement!Counters, Engagement!CountersIn, Engagement!Assumptions
    <3> QED  BY <1>2, <3>1 DEF Engagement!SaveRow
  <2>3. UNCHANGED <<rel, comment>>  BY <1>2 DEF Engagement!SaveRow
  <2> QED  BY <2>2, <2>3, ReportsKept
<1>3. ASSUME NEW k \in Engagement(c)!Key, Engagement(c)!AdminFollow(k) PROVE ReportsInv(c)'
  <2>1. /\ k[1] = "follow" /\ UNCHANGED <<comment, count>>
        /\ \A x : x # k => (x \in rel' <=> x \in rel)
    BY <1>3 DEF Engagement!AdminFollow
  <2>2. \A m \in c.CommentId, v \in c.User : <<"report", v, m>> # k  BY <2>1
  <2> QED  BY <2>1, <2>2, ReportsKept
<1>4. ASSUME NEW p \in c.Web, Engagement(c)!Commit(p) PROVE ReportsInv(c)'
  BY <1>4, ReportsCommit
<1>5. ASSUME NEW p \in c.Web,
             \/ \E kind \in c.Kinds, u \in c.User, add \in BOOLEAN : Engagement(c)!Resolve(p, kind, add, u)
             \/ Engagement(c)!Write(p) \/ Engagement(c)!Bump(p) \/ Engagement(c)!After(p) \/ Engagement(c)!Crash(p)
             \/ \E r \in c.User \cup c.Business \cup c.Content : Engagement(c)!LoadRow(p, r)
      PROVE  ReportsInv(c)'
  <2>1. UNCHANGED <<rel, comment, count>>
    BY <1>5 DEF Engagement!Resolve, Engagement!Write, Engagement!Bump, Engagement!After, Engagement!Crash,
       Engagement!LoadRow
  <2> QED  BY <1>1, <2>1
<1> QED
  BY <1>2, <1>3, <1>4, <1>5 DEF Engagement!Next, Engagement!SavingNext, Engagement!Request, Engagement!WholeRow

\* Hidden from readers exactly when Threshold accounts reported it.
LEMMA ReportsShow ==
  ASSUME NEW c, Engagement(c)!Assumptions, ReactInv(c), ReportsInv(c)
  PROVE  Engagement(c)!HiddenByDistinctReporters
<1> SUFFICES ASSUME NEW m \in Engagement(c)!CommentTable, NEW u \in c.User,
                    u # comment[m].by, status[comment[m].on] = "published"
             PROVE  Engagement(c)!Sees(u, m) <=> Cardinality(Reporters(c, m)) < c.Threshold
  BY DEF Engagement!HiddenByDistinctReporters, Reporters, Engagement!Cardinality, Cardinality
<1>1. m \in c.CommentId /\ comment[m] # Engagement(c)!NoComment  BY DEF Engagement!CommentTable
<1>2. comment[m] \in Engagement(c)!Comments  BY <1>1 DEF ReactInv
<1>3. comment[m].on \in c.Content /\ comment[m].hidden \in BOOLEAN  BY <1>2 DEF Engagement!Comments
<1>4. Engagement(c)!Sees(u, m) <=> ~comment[m].hidden
  BY <1>3 DEF Engagement!Sees, Engagement!CommentTargets
<1>5. /\ IsFiniteSet(Reporters(c, m)) /\ count[<<m, "reports">>] = Cardinality(Reporters(c, m))
      /\ comment[m].hidden <=> count[<<m, "reports">>] >= c.Threshold
  BY <1>1 DEF ReportsInv
<1>6. Cardinality(Reporters(c, m)) \in Nat /\ c.Threshold \in Nat
  BY <1>5, FS_CardinalityType DEF Engagement!Assumptions
<1> QED  BY <1>4, <1>5, <1>6

\* A notice of a comment is about a comment in the table.
NoticesInv(c) ==
  \A n \in notices : n[1] = "comment_on_content" =>
    /\ n[3] \in c.CommentId /\ comment[n[3]] # Engagement(c)!NoComment
    /\ n[2] = c.OwnerOf[comment[n[3]].on] /\ n[2] # comment[n[3]].by

\* Comments stay, whatever happens.
LEMMA CommentsAreKept ==
  ASSUME NEW c, ReactInv(c), Engagement(c)!Next,
         NEW m \in c.CommentId, comment[m] # Engagement(c)!NoComment
  PROVE  /\ comment'[m] # Engagement(c)!NoComment
         /\ comment'[m].on = comment[m].on /\ comment'[m].by = comment[m].by
<1>1. CASE UNCHANGED comment  BY <1>1
<1>2. ASSUME NEW n \in c.CommentId, comment[n] = Engagement(c)!NoComment, NEW x,
             comment' = [comment EXCEPT ![n] = x]
      PROVE  comment'[m] = comment[m]
  BY <1>2 DEF ReactInv
<1>3. ASSUME NEW n, NEW h, comment' = [comment EXCEPT ![n].hidden = h]
      PROVE  /\ comment'[m] # Engagement(c)!NoComment
             /\ comment'[m].on = comment[m].on /\ comment'[m].by = comment[m].by
  <2>1. comment[m] \in Engagement(c)!Comments  BY DEF ReactInv
  <2>2. DOMAIN comment[m] = {"on", "by", "hidden"}  BY <2>1 DEF Engagement!Comments
  <2>3. comment'[m] = comment[m] \/ comment'[m] = [comment[m] EXCEPT !.hidden = h]
    BY <1>3 DEF ReactInv
  <2> QED  BY <2>2, <2>3 DEF Engagement!NoComment
<1>4. ASSUME NEW p \in c.Web, Engagement(c)!Commit(p)
      PROVE  \/ UNCHANGED comment
             \/ \E n \in c.CommentId :
                  comment[n] = Engagement(c)!NoComment /\ \E x : comment' = [comment EXCEPT ![n] = x]
             \/ \E n, h : comment' = [comment EXCEPT ![n].hidden = h]
  BY <1>4 DEF Engagement!Commit
<1>5. CASE \E p \in c.Web : Engagement(c)!Commit(p)
  BY <1>1, <1>2, <1>3, <1>4, <1>5
<1>6. CASE ~\E p \in c.Web : Engagement(c)!Commit(p)
  <2>1. UNCHANGED comment
    BY <1>6 DEF Engagement!Next, Engagement!SavingNext, Engagement!Request, Engagement!WholeRow,
       Engagement!Resolve, Engagement!Write, Engagement!Bump, Engagement!After, Engagement!Crash,
       Engagement!LoadRow, Engagement!SaveRow, Engagement!AdminFollow
  <2> QED  BY <1>1, <2>1
<1> QED  BY <1>5, <1>6

\* Only After sends notices.
LEMMA NoticesStep ==
  ASSUME NEW c, Engagement(c)!Assumptions, ReactInv(c), NoticesInv(c), Engagement(c)!Next
  PROVE  NoticesInv(c)'
<1>0. Engagement(c)!NoComment' = Engagement(c)!NoComment  BY DEF Engagement!NoComment
<1>1. ASSUME NEW n \in notices', n[1] = "comment_on_content",
             /\ n[3] \in c.CommentId /\ comment[n[3]] # Engagement(c)!NoComment
             /\ n[2] = c.OwnerOf[comment[n[3]].on] /\ n[2] # comment[n[3]].by
      PROVE  /\ n[3] \in c.CommentId /\ comment'[n[3]] # Engagement(c)!NoComment
             /\ n[2] = c.OwnerOf[comment'[n[3]].on] /\ n[2] # comment'[n[3]].by
  BY <1>1, CommentsAreKept
<1>2. ASSUME NEW n \in notices', n[1] = "comment_on_content"
      PROVE  /\ n[3] \in c.CommentId /\ comment[n[3]] # Engagement(c)!NoComment
             /\ n[2] = c.OwnerOf[comment[n[3]].on] /\ n[2] # comment[n[3]].by
  <2>1. CASE n \in notices  BY <1>2, <2>1 DEF NoticesInv
  <2>2. CASE \E p \in c.Web : Engagement(c)!After(p) /\ n \in Engagement(c)!Notice(job[p])
    <3>1. PICK p \in c.Web : Engagement(c)!After(p) /\ n \in Engagement(c)!Notice(job[p])  BY <2>2
    <3> DEFINE j == job[p]
    <3>2. /\ n[3] = j.about /\ n[2] = c.OwnerOf[j.on] /\ c.OwnerOf[j.on] # j.user
          /\ j.kind # "follow" /\ j.at = "after"
      BY <1>2, <3>1 DEF Engagement!Notice, Engagement!After, Engagement!At
    <3>3. /\ j.about \in c.CommentId /\ comment[j.about] # Engagement(c)!NoComment
          /\ comment[j.about].on = j.on /\ comment[j.about].by = j.user
      BY <3>2 DEF ReactInv, JobOk
    <3> QED  BY <3>2, <3>3
  <2>3. CASE ~\E p \in c.Web : Engagement(c)!After(p)
    <3>1. UNCHANGED notices
      BY <2>3 DEF Engagement!Next, Engagement!SavingNext, Engagement!Request, Engagement!WholeRow,
         Engagement!Resolve, Engagement!Write, Engagement!Bump, Engagement!Commit, Engagement!Crash,
         Engagement!LoadRow, Engagement!SaveRow, Engagement!AdminFollow
    <3> QED  BY <2>1, <3>1
  <2>4. CASE \E p \in c.Web : Engagement(c)!After(p)
    <3>1. PICK p \in c.Web : Engagement(c)!After(p)  BY <2>4
    <3>2. PICK sent \in {Engagement(c)!Notice(job[p]), {}} : notices' = notices \cup sent
      BY <3>1 DEF Engagement!After
    <3>3. n \in notices \/ n \in Engagement(c)!Notice(job[p])  BY <3>2
    <3> QED  BY <2>1, <2>2, <3>1, <3>3
  <2> QED  BY <2>3, <2>4
<1> QED  BY <1>0, <1>1, <1>2 DEF NoticesInv

-----------------------------------------------------------------------------
(* Counters and the rows they count                                        *)

\* The rows of a counter.
RelOf(c, x) == {k \in rel : x \in Engagement(c)!Elements(Engagement(c)!CountersOf(k[1], k[2], k[3]))}
CommentsOn(c, b) == {m \in c.CommentId : comment[m] # Engagement(c)!NoComment /\ comment[m].on = b}
OtherRows(c, x) ==
  (IF x[2] = "comments" THEN Cardinality(CommentsOn(c, x[1])) ELSE 0)
  + (IF x[2] = "shares" THEN shares[x[1]] ELSE 0)

\* The tables are finite.
FiniteInv(c) ==
  /\ IsFiniteSet(rel) /\ IsFiniteSet(Engagement(c)!CommentTable)
  /\ \A b \in c.Content : shares[b] \in Nat

\* And those are finitely many.
LEMMA RowsFinite ==
  ASSUME NEW c, FiniteInv(c), NEW x \in Engagement(c)!Counters
  PROVE  /\ IsFiniteSet(RelOf(c, x)) /\ Cardinality(RelOf(c, x)) \in Nat
         /\ IsFiniteSet(CommentsOn(c, x[1])) /\ Cardinality(CommentsOn(c, x[1])) \in Nat
         /\ OtherRows(c, x) \in Nat
<1>1. RelOf(c, x) \subseteq rel /\ CommentsOn(c, x[1]) \subseteq Engagement(c)!CommentTable
  BY DEF RelOf, CommentsOn, Engagement!CommentTable
<1>2. IsFiniteSet(RelOf(c, x)) /\ IsFiniteSet(CommentsOn(c, x[1]))
  BY <1>1, FS_Subset DEF FiniteInv
<1>3. Cardinality(RelOf(c, x)) \in Nat /\ Cardinality(CommentsOn(c, x[1])) \in Nat
  BY <1>2, FS_CardinalityType
<1>4. x[2] = "shares" => x[1] \in c.Content  BY DEF Engagement!Counters
<1>5. x[2] = "shares" => shares[x[1]] \in Nat  BY <1>4 DEF FiniteInv
<1> QED  BY <1>2, <1>3, <1>5 DEF OtherRows

\* A counter counts the rows of its relation, its comments and its shares.
LEMMA RowsAre ==
  ASSUME NEW c, FiniteInv(c), NEW x \in Engagement(c)!Counters
  PROVE  Engagement(c)!RowsOf(x) = Cardinality(RelOf(c, x)) + OtherRows(c, x)
<1>1. Engagement(c)!RowsOf(x) =
        Cardinality(RelOf(c, x)) + (IF x[2] = "comments" THEN Cardinality(CommentsOn(c, x[1])) ELSE 0)
          + (IF x[2] = "shares" THEN shares[x[1]] ELSE 0)
  BY DEF Engagement!RowsOf, RelOf, CommentsOn, Engagement!Cardinality, Cardinality
<1>2. Cardinality(RelOf(c, x)) \in Nat /\ Cardinality(CommentsOn(c, x[1])) \in Nat  BY RowsFinite
<1>3. x[2] = "shares" => shares[x[1]] \in Nat  BY DEF Engagement!Counters, FiniteInv
<1> QED  BY <1>1, <1>2, <1>3 DEF OtherRows

\* Also after a step.
LEMMA RowsWillBe ==
  ASSUME NEW c, FiniteInv(c)', NEW x \in Engagement(c)!Counters
  PROVE  Engagement(c)!RowsOf(x)' = Cardinality(RelOf(c, x)') + OtherRows(c, x)'
<1>1. Engagement(c)!RowsOf(x)' =
        Cardinality(RelOf(c, x)') + (IF x[2] = "comments" THEN Cardinality(CommentsOn(c, x[1])') ELSE 0)
          + (IF x[2] = "shares" THEN shares'[x[1]] ELSE 0)
  BY DEF Engagement!RowsOf, RelOf, CommentsOn, Engagement!Cardinality, Cardinality
<1>2. RelOf(c, x)' \subseteq rel' /\ CommentsOn(c, x[1])' \subseteq Engagement(c)!CommentTable'
  BY DEF RelOf, CommentsOn, Engagement!CommentTable
<1>3. Cardinality(RelOf(c, x)') \in Nat /\ Cardinality(CommentsOn(c, x[1])') \in Nat
  BY <1>2, FS_Subset, FS_CardinalityType DEF FiniteInv
<1>4. x[2] = "shares" => shares'[x[1]] \in Nat  BY DEF Engagement!Counters, FiniteInv
<1> QED  BY <1>1, <1>3, <1>4 DEF OtherRows

\* The tables are empty.
LEMMA FiniteInit ==
  ASSUME NEW c, Engagement(c)!Init PROVE FiniteInv(c)
<1>1. rel = {} /\ Engagement(c)!CommentTable = {} /\ \A b \in c.Content : shares[b] = 0
  BY DEF Engagement!Init, Engagement!CommentTable
<1> QED  BY <1>1, FS_EmptySet DEF FiniteInv

\* A step adds one row at most.
LEMMA FiniteStep ==
  ASSUME NEW c, ReactInv(c), FiniteInv(c), Engagement(c)!Next PROVE FiniteInv(c)'
<1>1. ASSUME UNCHANGED <<rel, comment, shares>> PROVE FiniteInv(c)'
  BY <1>1 DEF FiniteInv, Engagement!CommentTable, Engagement!NoComment
<1>2. ASSUME NEW k \in Engagement(c)!Key, Engagement(c)!AdminFollow(k) PROVE FiniteInv(c)'
  <2>1. (rel' = rel \cup {k} \/ rel' = rel \ {k}) /\ UNCHANGED <<comment, shares>>
    BY <1>2 DEF Engagement!AdminFollow
  <2>2. IsFiniteSet(rel')  BY <2>1, FS_AddElement, FS_RemoveElement DEF FiniteInv
  <2> QED  BY <2>1, <2>2 DEF FiniteInv, Engagement!CommentTable, Engagement!NoComment
<1>3. ASSUME NEW p \in c.Web, Engagement(c)!Commit(p) PROVE FiniteInv(c)'
  <2> DEFINE k == Engagement(c)!KeyOf(job[p])
  <2>1. rel' = rel \/ rel' = rel \cup {k} \/ rel' = rel \ {k}
    BY <1>3 DEF Engagement!Commit
  <2>2. IsFiniteSet(rel')  BY <2>1, FS_AddElement, FS_RemoveElement DEF FiniteInv
  <2>3. UNCHANGED shares \/ \E b : shares' = [shares EXCEPT ![b] = shares[b] + 1]
    BY <1>3 DEF Engagement!Commit
  <2>4. \A b \in c.Content : shares'[b] \in Nat
    BY <2>3 DEF ReactInv, FiniteInv
  <2>5. \/ \E n \in c.CommentId : \A m \in c.CommentId : m # n => comment'[m] = comment[m]
        \/ UNCHANGED comment
    BY <1>3 DEF Engagement!Commit, ReactInv
  <2>6. \E n : Engagement(c)!CommentTable' \subseteq Engagement(c)!CommentTable \cup {n}
    BY <2>5 DEF Engagement!CommentTable, Engagement!NoComment
  <2>7. IsFiniteSet(Engagement(c)!CommentTable')
    BY <2>6, FS_AddElement, FS_Subset DEF FiniteInv
  <2> QED  BY <2>2, <2>4, <2>7 DEF FiniteInv
<1>4. ASSUME ~\E p \in c.Web : Engagement(c)!Commit(p), ~\E k \in Engagement(c)!Key : Engagement(c)!AdminFollow(k)
      PROVE  UNCHANGED <<rel, comment, shares>>
  BY <1>4 DEF Engagement!Next, Engagement!SavingNext, Engagement!Request, Engagement!WholeRow,
     Engagement!Resolve, Engagement!Write, Engagement!Bump, Engagement!After, Engagement!Crash,
     Engagement!LoadRow, Engagement!SaveRow
<1> QED  BY <1>1, <1>2, <1>3, <1>4

\* What a COMMIT adds to the rows of a counter it adds to the counter.
LEMMA CommitCounts ==
  ASSUME NEW c, ReactInv(c), FiniteInv(c), NEW p \in c.Web, Engagement(c)!Commit(p),
         NEW x \in Engagement(c)!Counters,
         job[p].gain => (x \in job[p].hits <=>
           x \in Engagement(c)!Elements(Engagement(c)!CountersOf(job[p].kind, job[p].user, job[p].on))),
         count[x] = Engagement(c)!RowsOf(x)
  PROVE  count'[x] = Engagement(c)!RowsOf(x)'
<1> DEFINE j == job[p]
           k == Engagement(c)!KeyOf(j)
           all == Engagement(c)!Elements(Engagement(c)!CountersOf(j.kind, j.user, j.on))
<1>1. /\ j.at = "bump" /\ j.kind \in {"follow", "like", "save", "report", "comment", "share"}
      /\ j.user \in c.User /\ j.on \in Subject(c, j.kind) /\ j.add \in BOOLEAN
      /\ j.add \/ j.kind \in {"follow", "like", "save"}
      /\ j.todo = << >> /\ Counting(c, p)
      /\ DOMAIN comment = c.CommentId /\ DOMAIN shares = c.Content
  BY DEF Engagement!Commit, Engagement!At, ReactInv, JobOk
<1>2. count'[x] = IF x \notin j.hits THEN count[x] ELSE count[x] + (IF j.add THEN 1 ELSE -1)
  BY DEF Engagement!Commit
<1>3. rel' = IF j.gain /\ j.kind \in Engagement(c)!Unique
             THEN IF j.add THEN rel \cup {k} ELSE rel \ {k}
             ELSE rel
  BY DEF Engagement!Commit
<1>4. k[1] = j.kind /\ k[2] = j.user /\ k[3] = j.on  BY DEF Engagement!KeyOf
<1>5. /\ IsFiniteSet(RelOf(c, x)) /\ Cardinality(RelOf(c, x)) \in Nat
      /\ IsFiniteSet(CommentsOn(c, x[1])) /\ Cardinality(CommentsOn(c, x[1])) \in Nat
      /\ OtherRows(c, x) \in Nat
  BY RowsFinite
<1>6. count[x] = Cardinality(RelOf(c, x)) + OtherRows(c, x)  BY RowsAre
<1>r. Engagement(c)!RowsOf(x)' = Cardinality(RelOf(c, x)') + OtherRows(c, x)'
  <2>1. Engagement(c)!Next  BY DEF Engagement!Next, Engagement!SavingNext, Engagement!Request
  <2>2. FiniteInv(c)'  BY <2>1, FiniteStep
  <2> QED  BY <2>2, RowsWillBe
<1>7. CASE j.kind \in Engagement(c)!Unique
  <2>1. UNCHANGED shares  BY <1>7 DEF Engagement!Commit, Engagement!Unique
  <2>2. CommentsOn(c, x[1])' = CommentsOn(c, x[1])
    <3>1. CASE UNCHANGED comment  BY <3>1 DEF CommentsOn, Engagement!NoComment
    <3>2. ASSUME NEW t \in c.CommentId, NEW h, comment[t] # Engagement(c)!NoComment,
                 comment' = [comment EXCEPT ![t].hidden = h]
          PROVE  CommentsOn(c, x[1])' = CommentsOn(c, x[1])
      <4>1. DOMAIN comment[t] = {"on", "by", "hidden"}
        BY <3>2 DEF ReactInv, Engagement!Comments
      <4>2. comment'[t] = [comment[t] EXCEPT !.hidden = h]  BY <1>1, <3>2
      <4>3. comment'[t].on = comment[t].on /\ comment'[t] # Engagement(c)!NoComment
        BY <4>1, <4>2 DEF Engagement!NoComment
      <4>4. \A m \in c.CommentId : m # t => comment'[m] = comment[m]  BY <1>1, <3>2
      <4>5. Engagement(c)!NoComment' = Engagement(c)!NoComment  BY DEF Engagement!NoComment
      <4> QED  BY <3>2, <4>3, <4>4, <4>5 DEF CommentsOn
    <3>3. j.kind = "report" /\ j.gain /\ j.on \in c.CommentId => comment[j.on] # Engagement(c)!NoComment
      BY <1>1 DEF ReactInv, JobOk
    <3>4. \/ UNCHANGED comment
          \/ j.on \in c.CommentId /\ comment[j.on] # Engagement(c)!NoComment
             /\ \E h : comment' = [comment EXCEPT ![j.on].hidden = h]
      BY <1>7, <3>3 DEF Engagement!Commit, Engagement!Unique
    <3> QED  BY <3>1, <3>2, <3>4
  <2>3. OtherRows(c, x)' = OtherRows(c, x)  BY <2>1, <2>2 DEF OtherRows
  <2>4. CASE ~j.gain
    <3>1. rel' = rel /\ x \notin j.hits  BY <1>1, <1>3, <2>4 DEF Counting
    <3>2. RelOf(c, x)' = RelOf(c, x)  BY <3>1 DEF RelOf
    <3> QED  BY <1>2, <1>6, <2>3, <3>1, <3>2, <1>r
  <2>5. CASE j.gain /\ j.add
    <3>1. rel' = rel \cup {k} /\ k \notin rel  BY <1>1, <1>3, <1>7, <2>5 DEF Counting
    <3>2. CASE x \in all
      <4>1. RelOf(c, x)' = RelOf(c, x) \cup {k} /\ k \notin RelOf(c, x)
        BY <1>4, <3>1, <3>2 DEF RelOf
      <4>2. Cardinality(RelOf(c, x)') = Cardinality(RelOf(c, x)) + 1  BY <1>5, <4>1, FS_AddElement
      <4> QED  BY <1>2, <1>5, <1>6, <2>3, <2>5, <3>2, <4>2, <1>r
    <3>3. CASE x \notin all
      <4>1. RelOf(c, x)' = RelOf(c, x)  BY <1>4, <3>1, <3>3 DEF RelOf
      <4> QED  BY <1>2, <1>6, <2>3, <2>5, <3>3, <4>1, <1>r
    <3> QED  BY <3>2, <3>3
  <2>6. CASE j.gain /\ ~j.add
    <3>1. rel' = rel \ {k} /\ k \in rel  BY <1>1, <1>3, <1>7, <2>6 DEF Counting
    <3>2. CASE x \in all
      <4>1. RelOf(c, x)' = RelOf(c, x) \ {k} /\ k \in RelOf(c, x)
        BY <1>4, <3>1, <3>2 DEF RelOf
      <4>2. Cardinality(RelOf(c, x)') = Cardinality(RelOf(c, x)) - 1  BY <1>5, <4>1, FS_RemoveElement
      <4> QED  BY <1>2, <1>5, <1>6, <2>3, <2>6, <3>2, <4>2, <1>r
    <3>3. CASE x \notin all
      <4>1. RelOf(c, x)' = RelOf(c, x)  BY <1>4, <3>1, <3>3 DEF RelOf
      <4> QED  BY <1>2, <1>6, <2>3, <2>6, <3>3, <4>1, <1>r
    <3> QED  BY <3>2, <3>3
  <2> QED  BY <2>4, <2>5, <2>6
<1>8. CASE j.kind \notin Engagement(c)!Unique
  <2>1. j.gain /\ j.add /\ rel' = rel /\ (j.kind = "comment" \/ j.kind = "share")
    BY <1>1, <1>3, <1>8 DEF Counting, Engagement!Unique
  <2>2. RelOf(c, x)' = RelOf(c, x)  BY <2>1 DEF RelOf
  <2>3. CASE j.kind = "comment"
    <3>1. UNCHANGED shares  BY <2>3 DEF Engagement!Commit
    <3>2. PICK n \in c.CommentId :
            /\ comment[n] = Engagement(c)!NoComment
            /\ comment' = [comment EXCEPT ![n] = [on |-> j.on, by |-> j.user, hidden |-> FALSE]]
      BY <2>3 DEF Engagement!Commit
    <3>3. comment'[n] # Engagement(c)!NoComment /\ comment'[n].on = j.on
          /\ \A m \in c.CommentId : m # n => comment'[m] = comment[m]
      BY <1>1, <3>2 DEF Engagement!NoComment
    <3>4. Engagement(c)!NoComment' = Engagement(c)!NoComment  BY DEF Engagement!NoComment
    <3>5. Engagement(c)!CountersOf(j.kind, j.user, j.on) = << <<j.on, "comments">> >>
      BY <2>3, CountersAre
    <3>6. all = {<<j.on, "comments">>}  BY <3>5 DEF Engagement!Elements
    <3>7. x \in j.hits <=> x = <<j.on, "comments">>  BY <2>1, <3>6
    <3>8. CASE x = <<j.on, "comments">>
      <4>1. CommentsOn(c, x[1])' = CommentsOn(c, x[1]) \cup {n} /\ n \notin CommentsOn(c, x[1])
        BY <3>2, <3>3, <3>4, <3>8 DEF CommentsOn
      <4>2. Cardinality(CommentsOn(c, x[1])') = Cardinality(CommentsOn(c, x[1])) + 1
        BY <1>5, <4>1, FS_AddElement
      <4>3. x[2] = "comments"  BY <3>8
      <4>4. OtherRows(c, x)' = OtherRows(c, x) + 1  BY <1>5, <3>1, <4>2, <4>3 DEF OtherRows
      <4> QED  BY <1>2, <1>5, <1>6, <2>1, <2>2, <3>7, <3>8, <4>4, <1>r
    <3>9. CASE x # <<j.on, "comments">>
      <4>1. x = <<x[1], x[2]>>  BY DEF Engagement!Counters
      <4>2. x[2] = "comments" => x[1] # j.on  BY <3>9, <4>1
      <4>3. x[2] = "comments" => CommentsOn(c, x[1])' = CommentsOn(c, x[1])
        BY <3>2, <3>3, <3>4, <4>2 DEF CommentsOn
      <4>4. OtherRows(c, x)' = OtherRows(c, x)  BY <3>1, <4>3 DEF OtherRows
      <4> QED  BY <1>2, <1>6, <2>2, <3>7, <3>9, <4>4, <1>r
    <3> QED  BY <3>8, <3>9
  <2>4. CASE j.kind = "share"
    <3>1. UNCHANGED comment /\ shares' = [shares EXCEPT ![j.on] = shares[j.on] + 1]
      BY <2>4 DEF Engagement!Commit
    <3>2. CommentsOn(c, x[1])' = CommentsOn(c, x[1])  BY <3>1 DEF CommentsOn, Engagement!NoComment
    <3>3. Engagement(c)!CountersOf(j.kind, j.user, j.on) = << <<j.on, "shares">> >>
      BY <2>4, CountersAre
    <3>4. all = {<<j.on, "shares">>}  BY <3>3 DEF Engagement!Elements
    <3>5. x \in j.hits <=> x = <<j.on, "shares">>  BY <2>1, <3>4
    <3>6. CASE x = <<j.on, "shares">>
      <4>1. x[1] = j.on /\ x[2] = "shares" /\ j.on \in c.Content  BY <1>1, <2>4, <3>6 DEF Subject
      <4>2. shares[x[1]] \in Nat /\ shares'[x[1]] = shares[x[1]] + 1
        BY <1>1, <3>1, <4>1 DEF FiniteInv
      <4>3. OtherRows(c, x)' = OtherRows(c, x) + 1  BY <4>1, <4>2 DEF OtherRows
      <4> QED  BY <1>2, <1>5, <1>6, <2>1, <2>2, <3>5, <3>6, <4>3, <1>r
    <3>7. CASE x # <<j.on, "shares">>
      <4>1. x = <<x[1], x[2]>>  BY DEF Engagement!Counters
      <4>2. x[2] = "shares" => x[1] # j.on  BY <3>7, <4>1
      <4>3. x[2] = "shares" => x[1] \in c.Content  BY DEF Engagement!Counters
      <4>4. x[2] = "shares" => shares'[x[1]] = shares[x[1]]  BY <1>1, <3>1, <4>2, <4>3
      <4>5. OtherRows(c, x)' = OtherRows(c, x)  BY <3>2, <4>4 DEF OtherRows
      <4> QED  BY <1>2, <1>6, <2>2, <3>5, <3>7, <4>5, <1>r
    <3> QED  BY <3>6, <3>7
  <2> QED  BY <2>1, <2>3, <2>4
<1> QED  BY <1>7, <1>8

-----------------------------------------------------------------------------
(* Who moves a counter away from its rows                                  *)

\* Without a step on the tables the rows of a counter are the same.
LEMMA RowsSame ==
  ASSUME NEW c, NEW x, UNCHANGED <<rel, comment, shares>>
  PROVE  Engagement(c)!RowsOf(x)' = Engagement(c)!RowsOf(x)
  BY DEF Engagement!RowsOf, Engagement!NoComment, Engagement!Cardinality

\* The UPDATEs that a transaction has left are one or two.
LEMMA UpdatesLeft ==
  ASSUME NEW c, ReactInv(c), NEW p \in c.Web, job[p].at = "bump", job[p].todo # << >>
  PROVE  /\ \/ \E a : job[p].todo = <<a>>
            \/ \E a, b : job[p].todo = <<a, b>>
         /\ Head(job[p].todo) \in
              Engagement(c)!Elements(Engagement(c)!CountersOf(job[p].kind, job[p].user, job[p].on))
<1> DEFINE j == job[p]
           all == Engagement(c)!CountersOf(j.kind, j.user, j.on)
<1>1. j.kind \in {"follow", "like", "save", "report", "comment", "share"} /\ Counting(c, p)
  BY DEF ReactInv, JobOk
<1>2. CASE j.kind = "follow"
  <2>1. all = << <<j.on, "followers">>, <<j.user, "following">> >>  BY <1>2, CountersAre
  <2>2. Engagement(c)!Elements(all) = {<<j.on, "followers">>, <<j.user, "following">>}
    BY <2>1 DEF Engagement!Elements
  <2>3. \/ j.todo = << <<j.on, "followers">>, <<j.user, "following">> >>
        \/ j.todo = << <<j.user, "following">> >>
    BY <1>1, <2>1 DEF Counting
  <2> HIDE DEF all
  <2>4. Head(j.todo) \in Engagement(c)!Elements(all)  BY <2>2, <2>3
  <2>5. (\E a : j.todo = <<a>>) \/ \E a, b : j.todo = <<a, b>>
    <3> HIDE DEF j
    <3> QED  BY <2>3
  <2> QED  BY <2>4, <2>5 DEF all
<1>3. CASE j.kind # "follow"
  <2>1. j.todo = all  BY <1>1, <1>3 DEF Counting
  <2>2. PICK x : all = <<x>>  BY <1>1, <1>3, <2>1, CountersAre
  <2>3. Engagement(c)!Elements(all) = {x}  BY <2>2 DEF Engagement!Elements
  <2> HIDE DEF all
  <2>4. Head(j.todo) \in Engagement(c)!Elements(all)  BY <2>1, <2>2, <2>3
  <2> QED  BY <2>1, <2>2, <2>4 DEF all
<1> QED  BY <1>2, <1>3

\* The counter that an UPDATE takes off counts the row that goes, so its WHERE matches.
LEMMA GoingRowCounts ==
  ASSUME NEW c, ReactInv(c), FiniteInv(c), Engagement(c)!Clean, NEW p \in c.Web,
         job[p].at = "bump", job[p].todo # << >>, Head(job[p].todo) \in Engagement(c)!Counted
  PROVE  Engagement(c)!Matches(Head(job[p].todo), job[p].add)
<1> DEFINE j == job[p]
           x == Head(j.todo)
           k == Engagement(c)!KeyOf(j)
<1>1. /\ x \in Engagement(c)!Counters
      /\ x[1] \in c.Content => status[x[1]] # "deleted"
  BY DEF Engagement!Counted
<1>2. CASE j.add  BY <1>1, <1>2 DEF Engagement!Matches
<1>3. CASE ~j.add
  <2>1. /\ j.gain /\ j.kind \in Engagement(c)!Unique /\ k \in rel
    BY <1>3 DEF ReactInv, JobOk, Counting, Engagement!Unique
  <2>2. x \in Engagement(c)!Elements(Engagement(c)!CountersOf(j.kind, j.user, j.on))
    BY UpdatesLeft
  <2>3. k \in RelOf(c, x)  BY <2>1, <2>2 DEF RelOf, Engagement!KeyOf
  <2>4. count[x] = Cardinality(RelOf(c, x)) + OtherRows(c, x)
    BY <1>1, RowsAre DEF Engagement!Clean, Engagement!Exact
  <2>5. /\ IsFiniteSet(RelOf(c, x)) /\ Cardinality(RelOf(c, x)) \in Nat /\ OtherRows(c, x) \in Nat
    BY <1>1, RowsFinite
  <2>6. Cardinality(RelOf(c, x)) # 0  BY <2>3, <2>5, FS_EmptySet
  <2>7. count[x] > 0  BY <2>4, <2>5, <2>6
  <2> QED  BY <1>1, <2>7 DEF Engagement!Matches
<1> QED  BY <1>2, <1>3

\* A transaction with the counters it has taken and those it has left.
NoneSkipped(c, p) ==
  job[p].at = "bump" /\ job[p].gain =>
    \A x \in Engagement(c)!Counted :
      x \in Engagement(c)!Elements(Engagement(c)!CountersOf(job[p].kind, job[p].user, job[p].on)) =>
        x \in job[p].hits \cup Engagement(c)!Elements(job[p].todo)

\* Clean, process by process.
LEMMA CleanIs ==
  ASSUME NEW c
  PROVE  /\ Engagement(c)!Clean <=> Engagement(c)!Exact /\ \A p \in c.Web : NoneSkipped(c, p)
         /\ Engagement(c)!Clean' <=> Engagement(c)!Exact' /\ \A p \in c.Web : NoneSkipped(c, p)'
  BY DEF Engagement!Clean, NoneSkipped, Engagement!At

\* What is counted stays clean when no table, counter or other request changes.
LEMMA CleanKept ==
  ASSUME NEW c, Engagement(c)!Clean, NEW p \in c.Web, \A q \in c.Web : q # p => job'[q] = job[q],
         UNCHANGED <<rel, comment, shares, count>>,
         Engagement(c)!Counted' \subseteq Engagement(c)!Counted, NoneSkipped(c, p)'
  PROVE  Engagement(c)!Clean'
<1>1. Engagement(c)!Exact'
  BY RowsSame DEF Engagement!Clean, Engagement!Exact
<1>2. ASSUME NEW q \in c.Web, q # p PROVE NoneSkipped(c, q)'
  <2>1. NoneSkipped(c, q)  BY CleanIs
  <2> QED  BY <1>2, <2>1 DEF NoneSkipped, Engagement!Elements, Engagement!CountersOf
<1> QED  BY <1>1, <1>2, CleanIs

\* Counters and tables begin empty.
LEMMA CleanInit ==
  ASSUME NEW c, Engagement(c)!Init PROVE Engagement(c)!Clean
<1>1. FiniteInv(c)  BY FiniteInit
<1>2. ASSUME NEW x \in Engagement(c)!Counters PROVE count[x] = Engagement(c)!RowsOf(x)
  <2>1. RelOf(c, x) = {} /\ CommentsOn(c, x[1]) = {}
    BY DEF Engagement!Init, RelOf, CommentsOn
  <2>2. x[2] = "shares" => shares[x[1]] = 0
    BY DEF Engagement!Init, Engagement!Counters
  <2>3. OtherRows(c, x) = 0  BY <2>1, <2>2, FS_EmptySet DEF OtherRows
  <2>4. count[x] = 0  BY DEF Engagement!Init
  <2> QED  BY <1>1, <2>1, <2>3, <2>4, RowsAre, FS_EmptySet
<1>3. \A p \in c.Web : job[p].at = "idle"  BY DEF Engagement!Init, Engagement!Idle
<1> QED  BY <1>2, <1>3 DEF Engagement!Clean, Engagement!Exact, Engagement!Counted, Engagement!At

\* Requests keep counters and rows together, however they interleave, fail and die.
LEMMA CleanRequest ==
  ASSUME NEW c, ReactInv(c), FiniteInv(c), Engagement(c)!Clean, NEW p \in c.Web,
         Engagement(c)!Request(p) \/ Engagement(c)!Crash(p)
  PROVE  Engagement(c)!Clean'
<1> DEFINE j == job[p]
<1>0. DOMAIN job = c.Web  BY DEF ReactInv
<1> USE DEF Engagement!Goto, Engagement!Done, Engagement!Idle, Engagement!At
<1>1. ASSUME UNCHANGED status PROVE Engagement(c)!Counted' = Engagement(c)!Counted
  BY <1>1 DEF Engagement!Counted, Engagement!Counters
<1>2. CASE \/ \E kind \in c.Kinds, u \in c.User :
                Engagement(c)!Resolve(p, kind, TRUE, u) \/ Engagement(c)!Resolve(p, kind, FALSE, u)
           \/ Engagement(c)!After(p) \/ Engagement(c)!Crash(p)
  <2>1. UNCHANGED <<rel, comment, shares, status, count>>
    BY <1>2 DEF Engagement!Resolve, Engagement!After, Engagement!Crash
  <2>2. /\ \A q \in c.Web : q # p => job'[q] = job[q]
        /\ job'[p].at # "bump"
    BY <1>0, <1>2 DEF Engagement!Resolve, Engagement!After, Engagement!Crash
  <2>3. NoneSkipped(c, p)'  BY <2>2 DEF NoneSkipped
  <2> QED  BY <1>1, <2>1, <2>2, <2>3, CleanKept
<1>3. CASE Engagement(c)!Write(p)
  <2>1. /\ UNCHANGED <<rel, comment, shares, status, count>>
        /\ job' = [job EXCEPT ![p] = [at |-> "bump", kind |-> j.kind, add |-> j.add, user |-> j.user, on |-> j.on,
                      gain |-> Engagement(c)!Gains(j),
                      todo |-> IF Engagement(c)!Gains(j)
                               THEN Engagement(c)!CountersOf(j.kind, j.user, j.on) ELSE << >>,
                      hits |-> {}]]
    BY <1>3 DEF Engagement!Write
  <2>2. \A q \in c.Web : q # p => job'[q] = job[q]
    BY <1>0, <2>1
  <2>3. /\ job'[p].gain = Engagement(c)!Gains(j)
        /\ job'[p].kind = j.kind /\ job'[p].user = j.user /\ job'[p].on = j.on
        /\ Engagement(c)!Gains(j) => job'[p].todo = Engagement(c)!CountersOf(j.kind, j.user, j.on)
    BY <1>0, <2>1
  <2>4. NoneSkipped(c, p)'  BY <2>3 DEF NoneSkipped, Engagement!CountersOf
  <2> QED  BY <1>1, <2>1, <2>2, <2>4, CleanKept
<1>4. CASE Engagement(c)!Bump(p)
  <2> DEFINE f == Head(j.todo)
  <2>1. /\ UNCHANGED <<rel, comment, shares, status, count>> /\ j.at = "bump" /\ j.todo # << >>
        /\ job' = [job EXCEPT ![p] = [j EXCEPT !.todo = Tail(j.todo),
             !.hits = IF Engagement(c)!Matches(f, j.add) THEN j.hits \cup {f} ELSE j.hits]]
    BY <1>4 DEF Engagement!Bump
  <2>2. \A q \in c.Web : q # p => job'[q] = job[q]
    BY <1>0, <2>1
  <2>3. Counting(c, p)  BY <2>1 DEF ReactInv, JobOk
  <2>4. /\ job'[p].kind = j.kind /\ job'[p].user = j.user /\ job'[p].on = j.on /\ job'[p].gain = j.gain
        /\ job'[p].todo = Tail(j.todo)
        /\ job'[p].hits = IF Engagement(c)!Matches(f, j.add) THEN j.hits \cup {f} ELSE j.hits
        /\ j.at = "bump"
    BY <1>0, <2>1, <2>3 DEF Counting
  <2>5. f \in Engagement(c)!Counted => f \in job'[p].hits
    BY <2>1, <2>4, GoingRowCounts
  <2>6. ASSUME NEW x \in Engagement(c)!Elements(j.todo) PROVE x = f \/ x \in Engagement(c)!Elements(Tail(j.todo))
    <3>1. CASE \E a : j.todo = <<a>>
      BY <2>6, <3>1 DEF Engagement!Elements
    <3>2. ASSUME NEW a, NEW b, j.todo = <<a, b>> PROVE x = f \/ x \in Engagement(c)!Elements(Tail(j.todo))
      <4>1. Tail(j.todo) = <<b>> /\ f = a  BY <3>2
      <4>2. x = a \/ x = b  BY <2>6, <3>2 DEF Engagement!Elements
      <4>3. b \in Engagement(c)!Elements(<<b>>)  BY DEF Engagement!Elements
      <4> QED  BY <4>1, <4>2, <4>3
    <3> QED  BY <2>1, <3>1, <3>2, UpdatesLeft
  <2>7. j.hits \subseteq job'[p].hits  BY <2>4
  <2>8. NoneSkipped(c, p)  BY CleanIs
  <2>9. NoneSkipped(c, p)'
    <3>1. ASSUME NEW x \in Engagement(c)!Counted, j.gain,
                 x \in Engagement(c)!Elements(Engagement(c)!CountersOf(j.kind, j.user, j.on))
          PROVE  x \in job'[p].hits \cup Engagement(c)!Elements(job'[p].todo)
      <4>1. x \in j.hits \cup Engagement(c)!Elements(j.todo)  BY <2>1, <2>8, <3>1 DEF NoneSkipped
      <4> QED  BY <2>4, <2>5, <2>6, <2>7, <3>1, <4>1
    <3>2. \A s : Engagement(c)!Elements(s)' = Engagement(c)!Elements(s)  BY DEF Engagement!Elements
    <3>3. Engagement(c)!Counted' = Engagement(c)!Counted  BY <1>1, <2>1
    <3> HIDE DEF j, f
    <3> QED  BY <2>4, <3>1, <3>3 DEF NoneSkipped, j, Engagement!CountersOf, Engagement!Elements
  <2> QED  BY <1>1, <2>1, <2>2, <2>9, CleanKept
<1>5. CASE Engagement(c)!Commit(p)
  <2>1. j.at = "bump" /\ j.todo = << >> /\ UNCHANGED status
    BY <1>5 DEF Engagement!Commit
  <2>3. job'[p].at # "bump" /\ \A q \in c.Web : q # p => job'[q] = job[q]
    BY <1>0, <1>5 DEF Engagement!Commit
  <2>4. Counting(c, p) /\ NoneSkipped(c, p)  BY <2>1, CleanIs DEF ReactInv, JobOk
  <2>5. Engagement(c)!Elements(<< >>) = {}  BY DEF Engagement!Elements
  <2>6. ASSUME NEW x \in Engagement(c)!Counted PROVE count'[x] = Engagement(c)!RowsOf(x)'
    <3>1. x \in Engagement(c)!Counters /\ count[x] = Engagement(c)!RowsOf(x)
      BY <2>6 DEF Engagement!Clean, Engagement!Exact, Engagement!Counted
    <3>2. j.gain => (x \in j.hits <=> x \in Engagement(c)!Elements(Engagement(c)!CountersOf(j.kind, j.user, j.on)))
      BY <2>1, <2>4, <2>5, <2>6 DEF Counting, NoneSkipped
    <3> QED  BY <1>5, <3>1, <3>2, CommitCounts
  <2>7. Engagement(c)!Counted' = Engagement(c)!Counted  BY <1>1, <2>1
  <2>8. Engagement(c)!Exact'  BY <2>6, <2>7 DEF Engagement!Exact
  <2>9. ASSUME NEW q \in c.Web PROVE NoneSkipped(c, q)'
    <3>1. CASE q = p  BY <2>3, <3>1 DEF NoneSkipped
    <3>2. CASE q # p
      <4>1. NoneSkipped(c, q) /\ job'[q] = job[q]  BY <2>3, <3>2, CleanIs
      <4> QED  BY <2>7, <4>1 DEF NoneSkipped, Engagement!Elements, Engagement!CountersOf
    <3> QED  BY <3>1, <3>2
  <2> QED  BY <2>8, <2>9, CleanIs
<1> QED  BY <1>2, <1>3, <1>4, <1>5 DEF Engagement!Request

\* Reading a row changes nothing, and the save of a row nobody has changed neither.
LEMMA CleanSave ==
  ASSUME NEW c, ReactInv(c), Engagement(c)!Clean, NEW p \in c.Web,
         \/ \E r \in c.User \cup c.Business \cup c.Content : Engagement(c)!LoadRow(p, r)
         \/ Engagement(c)!SaveRow(p) /\ ~Engagement(c)!StaleCopy(job[p])
  PROVE  Engagement(c)!Clean'
<1> DEFINE j == job[p]
<1>0. DOMAIN job = c.Web /\ DOMAIN count = Engagement(c)!Counters /\ DOMAIN status = c.Content
  BY DEF ReactInv
<1> USE DEF Engagement!Goto, Engagement!Done, Engagement!Idle, Engagement!At
<1>1. CASE \E r \in c.User \cup c.Business \cup c.Content : Engagement(c)!LoadRow(p, r)
  <2>1. /\ UNCHANGED <<rel, comment, shares, status, count>>
        /\ \E new : job' = [job EXCEPT ![p] = new] /\ new.at # "bump"
    BY <1>1 DEF Engagement!LoadRow
  <2>2. /\ \A q \in c.Web : q # p => job'[q] = job[q]
        /\ job'[p].at # "bump"
    BY <1>0, <2>1
  <2>3. NoneSkipped(c, p)'  BY <2>2 DEF NoneSkipped
  <2>4. Engagement(c)!Counted' = Engagement(c)!Counted  BY <2>1 DEF Engagement!Counted, Engagement!Counters
  <2> QED  BY <2>1, <2>2, <2>3, <2>4, CleanKept
<1>2. CASE Engagement(c)!SaveRow(p) /\ ~Engagement(c)!StaleCopy(j)
  <2>1. /\ UNCHANGED <<rel, comment, shares>> /\ j.at = "save"
        /\ job' = [job EXCEPT ![p] = [at |-> "idle"]]
        /\ count' = [x \in Engagement(c)!Counters |->
                      IF x \in Engagement(c)!CountersIn(j.row) THEN j.count[x] ELSE count[x]]
    BY <1>2 DEF Engagement!SaveRow
  <2>2. /\ \A x \in Engagement(c)!CountersIn(j.row) : count[x] = j.count[x]
        /\ j.row \in c.Content => status[j.row] = j.status
    BY <1>2 DEF Engagement!StaleCopy
  <2>3. \A x \in Engagement(c)!Counters : count'[x] = count[x]
    BY <2>1, <2>2
  <2>4. j.row \in c.Content => status[j.row] # "deleted"
    BY <2>1, <2>2 DEF ReactInv, JobOk
  <2>5. UNCHANGED status \/ (j.row \in c.Content /\ \E s : status' = [status EXCEPT ![j.row] = s])
    BY <1>2 DEF Engagement!SaveRow
  <2>6. Engagement(c)!Counted' \subseteq Engagement(c)!Counted
    BY <1>0, <2>4, <2>5 DEF Engagement!Counted, Engagement!Counters
  <2>7. Engagement(c)!Exact'
    <3>1. \A x \in Engagement(c)!Counted : count'[x] = Engagement(c)!RowsOf(x)'
      BY <2>1, <2>3, RowsSame DEF Engagement!Clean, Engagement!Exact, Engagement!Counted
    <3> QED  BY <2>6, <3>1 DEF Engagement!Exact
  <2>8. ASSUME NEW q \in c.Web PROVE NoneSkipped(c, q)'
    <3>1. CASE q = p  BY <1>0, <2>1, <3>1 DEF NoneSkipped
    <3>2. CASE q # p
      <4>1. NoneSkipped(c, q) /\ job'[q] = job[q]  BY <1>0, <2>1, <3>2, CleanIs
      <4> QED  BY <2>6, <4>1 DEF NoneSkipped, Engagement!Elements, Engagement!CountersOf
    <3> QED  BY <3>1, <3>2
  <2> QED  BY <2>7, <2>8, CleanIs
<1> QED  BY <1>1, <1>2

\* So every step that moves a counter away from its rows is one of the two.
LEMMA DriftStep ==
  ASSUME NEW c, ReactInv(c), FiniteInv(c), Engagement(c)!Next
  PROVE  Engagement(c)!DriftsOnlyBySaves
<1> SUFFICES ASSUME Engagement(c)!Clean, ~Engagement(c)!Clean'
             PROVE  \/ \E p \in c.Web : /\ Engagement(c)!At(p, "save") /\ job'[p] = Engagement(c)!Idle
                                        /\ Engagement(c)!StaleCopy(job[p])
                    \/ \E k \in Engagement(c)!Key : Engagement(c)!AdminFollow(k)
  BY DEF Engagement!DriftsOnlyBySaves
<1>1. \A p \in c.Web : ~Engagement(c)!Request(p) /\ ~Engagement(c)!Crash(p)  BY CleanRequest
<1>2. CASE \E k \in Engagement(c)!Key : Engagement(c)!AdminFollow(k)  BY <1>2
<1>3. CASE \E p \in c.Web : Engagement(c)!WholeRow(p)
  <2>1. PICK p \in c.Web : Engagement(c)!WholeRow(p)  BY <1>3
  <2>2. Engagement(c)!SaveRow(p) /\ Engagement(c)!StaleCopy(job[p])
    BY <2>1, CleanSave DEF Engagement!WholeRow
  <2>3. Engagement(c)!At(p, "save") /\ job'[p] = Engagement(c)!Idle
    BY <2>2 DEF Engagement!SaveRow, Engagement!Done, Engagement!Goto, ReactInv
  <2> QED  BY <2>2, <2>3
<1> QED  BY <1>1, <1>2, <1>3 DEF Engagement!Next, Engagement!SavingNext

-----------------------------------------------------------------------------
(* Types                                                                   *)

\* What a request has counted is locked and can be taken back; what it loaded
\* and what it tells is typed.
JobTyped(c, p) ==
  LET j == job[p] IN
  /\ j.at = "bump" => \A x \in j.hits : rowLock[x[1]] = p /\ (~j.add => count[x] > 0)
  /\ j.at = "after" =>
       /\ j.user \in c.User
       /\ j.kind = "follow" => j.on \in c.Business /\ j.about = j.user
       /\ j.kind = "comment" => j.on \in c.Content
  /\ j.at = "save" => \A x \in Engagement(c)!CountersIn(j.row) : j.count[x] \in Nat

EngagementTyped(c) == Engagement(c)!TypeOK /\ \A p \in c.Web : JobTyped(c, p)

\* A request counts counters.
LEMMA HitsAreCounters ==
  ASSUME NEW c, NEW p \in c.Web, JobOk(c, p), job[p].at = "bump", NEW x \in job[p].hits
  PROVE  x \in Engagement(c)!Counters /\ x[1] \in Engagement(c)!Row
<1> DEFINE j == job[p]
<1>1. /\ j.kind \in {"follow", "like", "save", "report", "comment", "share"}
      /\ j.user \in c.User /\ j.on \in Subject(c, j.kind)
      /\ x \in Engagement(c)!Elements(Engagement(c)!CountersOf(j.kind, j.user, j.on))
  BY DEF JobOk, Counting
<1>2. \/ j.kind = "follow" /\ j.on \in c.Business /\ x \in {<<j.on, "followers">>, <<j.user, "following">>}
      \/ j.kind = "like" /\ j.on \in c.Content /\ x = <<j.on, "likes">>
      \/ j.kind = "comment" /\ j.on \in c.Content /\ x = <<j.on, "comments">>
      \/ j.kind = "share" /\ j.on \in c.Content /\ x = <<j.on, "shares">>
      \/ j.kind = "report" /\ j.on \in c.CommentId /\ x = <<j.on, "reports">>
  <2>1. CASE j.kind = "follow"  BY <1>1, <2>1, CountersAre DEF Subject, Engagement!Elements
  <2>2. CASE j.kind = "like"  BY <1>1, <2>2, CountersAre DEF Subject, Engagement!Elements
  <2>3. CASE j.kind = "save"  BY <1>1, <2>3, CountersAre DEF Subject, Engagement!Elements
  <2>4. CASE j.kind = "report"
    <3>1. CASE j.on \in c.CommentId  BY <1>1, <2>4, <3>1, CountersAre DEF Engagement!Elements
    <3>2. CASE j.on \notin c.CommentId  BY <1>1, <2>4, <3>2, CountersAre DEF Engagement!Elements
    <3> QED  BY <3>1, <3>2
  <2>5. CASE j.kind = "comment"  BY <1>1, <2>5, CountersAre DEF Subject, Engagement!Elements
  <2>6. CASE j.kind = "share"  BY <1>1, <2>6, CountersAre DEF Subject, Engagement!Elements
  <2> QED  BY <1>1, <2>1, <2>2, <2>3, <2>4, <2>5, <2>6
<1>3. x[1] \in c.User \cup c.Business \cup c.Content \cup c.CommentId  BY <1>1, <1>2
<1> QED  BY <1>1, <1>2, <1>3 DEF Engagement!Counters, Engagement!Row

\* Requests that a step does not run keep their locks and what they counted.
LEMMA TypedAfter ==
  ASSUME NEW c, ReactInv(c), NEW p \in c.Web, \A q \in c.Web : JobTyped(c, q),
         \A q \in c.Web : q # p => job'[q] = job[q],
         \A x \in Engagement(c)!Row : rowLock[x] \notin {p, None} => rowLock'[x] = rowLock[x],
         \A x \in Engagement(c)!Counters : rowLock[x[1]] \notin {p, None} => count'[x] = count[x],
         None \notin c.Web, JobTyped(c, p)'
  PROVE  \A q \in c.Web : JobTyped(c, q)'
<1> SUFFICES ASSUME NEW q \in c.Web, q # p PROVE JobTyped(c, q)'  OBVIOUS
<1>1. job'[q] = job[q] /\ JobOk(c, q) /\ JobTyped(c, q)  BY DEF ReactInv
<1>2. ASSUME job[q].at = "bump", NEW x \in job[q].hits
      PROVE  rowLock'[x[1]] = q /\ (~job[q].add => count'[x] > 0)
  <2>1. x \in Engagement(c)!Counters /\ x[1] \in Engagement(c)!Row  BY <1>1, <1>2, HitsAreCounters
  <2>2. rowLock[x[1]] = q /\ (~job[q].add => count[x] > 0)  BY <1>1, <1>2 DEF JobTyped
  <2> QED  BY <2>1, <2>2
<1>3. Engagement(c)!CountersIn(job[q].row)' = Engagement(c)!CountersIn(job[q].row)
  BY <1>1 DEF Engagement!CountersIn, Engagement!Counters
<1> QED  BY <1>1, <1>2, <1>3 DEF JobTyped

\* Nothing is counted yet.
LEMMA EngagementTypedInit ==
  ASSUME NEW c, Engagement(c)!Assumptions, Engagement(c)!Init PROVE EngagementTyped(c)
<1>1. \A p \in c.Web : job[p].at = "idle"  BY DEF Engagement!Init, Engagement!Idle
<1>2. \A p \in c.Web : JobTyped(c, p)  BY <1>1 DEF JobTyped
<1>3. rel = {} /\ notices = {}  BY DEF Engagement!Init
<1>4. /\ comment = [m \in c.CommentId |-> Engagement(c)!NoComment]
      /\ shares = [x \in c.Content |-> 0]
      /\ status \in [c.Content -> {"pending", "published"}]
      /\ count = [x \in Engagement(c)!Counters |-> 0]
      /\ rowLock = [x \in Engagement(c)!Key \cup Engagement(c)!Row |-> None]
      /\ page = [u \in c.User |-> None]
  BY DEF Engagement!Init
<1>5. 0 \in 0..c.MaxShares  BY DEF Engagement!Assumptions
<1>6. status \in [c.Content -> {"pending", "published", "deleted"}]  BY <1>4
<1> HIDE DEF Engagement!NoComment, Engagement!Counters, Engagement!Key, Engagement!Row
<1>7. Engagement(c)!TypeOK  BY <1>1, <1>3, <1>4, <1>5, <1>6 DEF Engagement!TypeOK
<1> QED  BY <1>2, <1>7 DEF EngagementTyped

\* The types of a step that changes no table but the locks.
LEMMA TypesOfWork ==
  ASSUME NEW c, Engagement(c)!TypeOK, ReactInv(c)',
         UNCHANGED <<rel, comment, shares, status, count, page, notices>>,
         rowLock' \in [Engagement(c)!Key \cup Engagement(c)!Row -> c.Web \cup {None}],
         \A p \in c.Web : job'[p].at \in {"idle", "write", "bump", "commit", "after", "page", "save"}
  PROVE  Engagement(c)!TypeOK'
<1>1. /\ Engagement(c)!Counters' = Engagement(c)!Counters
      /\ Engagement(c)!Key' = Engagement(c)!Key /\ Engagement(c)!Row' = Engagement(c)!Row
      /\ Engagement(c)!Comments' = Engagement(c)!Comments
      /\ Engagement(c)!NoComment' = Engagement(c)!NoComment
  BY DEF Engagement!Comments, Engagement!NoComment, Engagement!Counters, Engagement!Key, Engagement!Row
<1> HIDE DEF Engagement!Comments, Engagement!NoComment, Engagement!Counters, Engagement!Key, Engagement!Row
<1> QED  BY <1>1 DEF Engagement!TypeOK

\* What a step of p does to the locks.
LEMMA LocksTyped ==
  ASSUME NEW c, Engagement(c)!TypeOK, NEW p \in c.Web,
         \/ UNCHANGED rowLock
         \/ \E x : Engagement(c)!Take(p, x)
         \/ Engagement(c)!Free(p)
  PROVE  /\ rowLock' \in [Engagement(c)!Key \cup Engagement(c)!Row -> c.Web \cup {None}]
         /\ \A x : rowLock[x] \notin {p, None} /\ x \in Engagement(c)!Key \cup Engagement(c)!Row
                   => rowLock'[x] = rowLock[x]
<1> DEFINE L == Engagement(c)!Key \cup Engagement(c)!Row
<1>0. rowLock \in [L -> c.Web \cup {None}]  BY DEF Engagement!TypeOK
<1> HIDE DEF L
<1>1. CASE UNCHANGED rowLock  BY <1>0, <1>1 DEF L
<1>2. ASSUME NEW x, Engagement(c)!Take(p, x)
      PROVE  rowLock' \in [L -> c.Web \cup {None}] /\ \A y \in L : rowLock[y] \notin {p, None} => rowLock'[y] = rowLock[y]
  BY <1>0, <1>2 DEF Engagement!Take
<1>3. CASE Engagement(c)!Free(p)
  <2>1. rowLock' = [x \in L |-> IF rowLock[x] = p THEN None ELSE rowLock[x]]
    BY <1>0, <1>3 DEF Engagement!Free
  <2> QED  BY <1>0, <2>1 DEF L
<1> QED  BY <1>1, <1>2, <1>3 DEF L

\* The save of a row that nobody counts in.
LEMMA TypedSave ==
  ASSUME NEW c, Engagement(c)!Assumptions, ReactInv(c), EngagementTyped(c),
         NEW p \in c.Web, Engagement(c)!SaveRow(p)
  PROVE  EngagementTyped(c)'
<1> DEFINE j == job[p]
<1>1. /\ j.at = "save" /\ rowLock[j.row] = None /\ None \notin c.Web
      /\ UNCHANGED <<rel, comment, shares, rowLock, page, notices>>
      /\ job' = [job EXCEPT ![p] = Engagement(c)!Idle] /\ DOMAIN job = c.Web
      /\ count' = [x \in Engagement(c)!Counters |->
                     IF x \in Engagement(c)!CountersIn(j.row) THEN j.count[x] ELSE count[x]]
  BY DEF Engagement!SaveRow, Engagement!At, Engagement!Done, Engagement!Goto, Engagement!Assumptions, ReactInv
<1>2. j.row \in c.Content => j.status \in {"pending", "published"}
  BY <1>1 DEF ReactInv, JobOk
<1>3. status' \in [c.Content -> {"pending", "published", "deleted"}]
  BY <1>2 DEF Engagement!SaveRow, EngagementTyped, Engagement!TypeOK
<1>4. count' \in [Engagement(c)!Counters -> Nat]
  <2>1. \A x \in Engagement(c)!Counters : count[x] \in Nat
    BY DEF EngagementTyped, Engagement!TypeOK
  <2>2. \A x \in Engagement(c)!CountersIn(j.row) : j.count[x] \in Nat
    BY <1>1 DEF EngagementTyped, JobTyped
  <2> HIDE DEF j
  <2> QED  BY <1>1, <2>1, <2>2
<1>5. \A x \in Engagement(c)!Counters : rowLock[x[1]] \notin {p, None} => count'[x] = count[x]
  <2>1. \A x \in Engagement(c)!Counters : x \in Engagement(c)!CountersIn(j.row) => x[1] = j.row
    BY DEF Engagement!CountersIn
  <2> HIDE DEF j
  <2> QED  BY <1>1, <2>1
<1>6. job'[p].at = "idle" /\ \A q \in c.Web : q # p => job'[q] = job[q]
  BY <1>1 DEF Engagement!Idle
<1>7. JobTyped(c, p)'  BY <1>6 DEF JobTyped
<1>8. \A q \in c.Web : JobTyped(c, q)'
  BY <1>1, <1>5, <1>6, <1>7, TypedAfter DEF EngagementTyped
<1>9. Engagement(c)!TypeOK'
  <2>1. /\ Engagement(c)!Counters' = Engagement(c)!Counters
        /\ Engagement(c)!Key' = Engagement(c)!Key /\ Engagement(c)!Row' = Engagement(c)!Row
        /\ Engagement(c)!Comments' = Engagement(c)!Comments
        /\ Engagement(c)!NoComment' = Engagement(c)!NoComment
    BY DEF Engagement!Comments, Engagement!NoComment, Engagement!Counters, Engagement!Key, Engagement!Row
  <2>2. \A q \in c.Web : job'[q].at \in {"idle", "write", "bump", "commit", "after", "page", "save"}
    BY <1>6 DEF EngagementTyped, Engagement!TypeOK
  <2> HIDE DEF Engagement!Comments, Engagement!NoComment, Engagement!Counters, Engagement!Key, Engagement!Row, j
  <2> QED  BY <1>1, <1>3, <1>4, <2>1, <2>2 DEF EngagementTyped, Engagement!TypeOK
<1> QED  BY <1>8, <1>9 DEF EngagementTyped

\* The COMMIT of a request.
LEMMA TypedCommit ==
  ASSUME NEW c, Engagement(c)!Assumptions, ReactInv(c), ReactInv(c)', EngagementTyped(c),
         NEW p \in c.Web, Engagement(c)!Commit(p)
  PROVE  EngagementTyped(c)'
<1> DEFINE j == job[p]
           k == Engagement(c)!KeyOf(j)
<1>1. /\ j.at = "bump" /\ j.kind \in {"follow", "like", "save", "report", "comment", "share"}
      /\ j.user \in c.User /\ j.on \in Subject(c, j.kind) /\ j.add \in BOOLEAN
      /\ JobOk(c, p) /\ JobTyped(c, p) /\ None \notin c.Web
  BY DEF Engagement!Commit, Engagement!At, ReactInv, JobOk, EngagementTyped, Engagement!Assumptions
<1>2. /\ UNCHANGED <<status, page, notices>> /\ Engagement(c)!Free(p)
      /\ count' = [x \in Engagement(c)!Counters |->
                     IF x \notin j.hits THEN count[x] ELSE count[x] + (IF j.add THEN 1 ELSE -1)]
  BY DEF Engagement!Commit
<1>3. rel' \subseteq Engagement(c)!Key
  <2>1. j.kind \in Engagement(c)!Unique => k \in Engagement(c)!Key  BY <1>1, KeysAre
  <2>2. rel' = IF j.gain /\ j.kind \in Engagement(c)!Unique
               THEN IF j.add THEN rel \cup {k} ELSE rel \ {k} ELSE rel
    BY DEF Engagement!Commit
  <2>3. rel \subseteq Engagement(c)!Key  BY DEF EngagementTyped, Engagement!TypeOK
  <2> HIDE DEF j, k
  <2> QED  BY <2>1, <2>2, <2>3
<1>4. count' \in [Engagement(c)!Counters -> Nat]
  <2>1. ASSUME NEW x \in Engagement(c)!Counters PROVE count'[x] \in Nat
    <3>1. count[x] \in Nat  BY DEF EngagementTyped, Engagement!TypeOK
    <3>2. x \in j.hits /\ ~j.add => count[x] > 0  BY <1>1 DEF JobTyped
    <3> HIDE DEF j
    <3>3. count'[x] = IF x \notin j.hits THEN count[x] ELSE count[x] + (IF j.add THEN 1 ELSE -1)
      BY <1>2
    <3> QED  BY <1>1, <3>1, <3>2, <3>3
  <2> HIDE DEF j
  <2> QED  BY <1>2, <2>1
<1>5. shares' \in [c.Content -> 0..c.MaxShares]
  <2>1. shares \in [c.Content -> 0..c.MaxShares] /\ c.MaxShares \in Nat
    BY DEF EngagementTyped, Engagement!TypeOK, Engagement!Assumptions
  <2>2. UNCHANGED shares \/ (shares[j.on] < c.MaxShares /\ shares' = [shares EXCEPT ![j.on] = shares[j.on] + 1])
    BY DEF Engagement!Commit
  <2>3. j.on \in c.Content => shares[j.on] \in 0..c.MaxShares  BY <2>1
  <2> HIDE DEF j
  <2>4. CASE UNCHANGED shares  BY <2>1, <2>4
  <2>5. CASE shares[j.on] < c.MaxShares /\ shares' = [shares EXCEPT ![j.on] = shares[j.on] + 1]
    <3>1. CASE j.on \in c.Content
      <4>1. shares[j.on] + 1 \in 0..c.MaxShares  BY <2>1, <2>3, <2>5, <3>1
      <4> QED  BY <2>1, <2>5, <4>1
    <3>2. CASE j.on \notin c.Content  BY <2>1, <2>5, <3>2
    <3> QED  BY <3>1, <3>2
  <2> QED  BY <2>2, <2>4, <2>5
<1>6. \/ job' = [job EXCEPT ![p] = Engagement(c)!Idle]
      \/ \E m \in c.CommentId :
           /\ j.kind = "comment"
           /\ job' = [job EXCEPT ![p] = [at |-> "after", kind |-> "comment", gain |-> TRUE,
                                        user |-> j.user, on |-> j.on, about |-> m]]
      \/ /\ j.kind = "follow"
         /\ job' = [job EXCEPT ![p] = [at |-> "after", kind |-> "follow", gain |-> j.gain /\ j.add,
                                      user |-> j.user, on |-> j.on, about |-> j.user]]
  BY DEF Engagement!Commit, Engagement!Goto, Engagement!Done
<1>7. DOMAIN job = c.Web /\ \A q \in c.Web : q # p => job'[q] = job[q]
  BY <1>6 DEF ReactInv
<1>8. JobTyped(c, p)' /\ job'[p].at \in {"idle", "after"}
  <2>1. CASE job'[p] = Engagement(c)!Idle  BY <2>1 DEF JobTyped, Engagement!Idle
  <2>2. ASSUME NEW m \in c.CommentId, j.kind = "comment",
               job'[p] = [at |-> "after", kind |-> "comment", gain |-> TRUE,
                          user |-> j.user, on |-> j.on, about |-> m]
        PROVE  JobTyped(c, p)' /\ job'[p].at \in {"idle", "after"}
    <3>1. j.on \in c.Content  BY <1>1, <2>2 DEF Subject
    <3> HIDE DEF j
    <3> QED  BY <1>1, <2>2, <3>1 DEF JobTyped
  <2>3. ASSUME j.kind = "follow",
               job'[p] = [at |-> "after", kind |-> "follow", gain |-> j.gain /\ j.add,
                          user |-> j.user, on |-> j.on, about |-> j.user]
        PROVE  JobTyped(c, p)' /\ job'[p].at \in {"idle", "after"}
    <3>1. j.on \in c.Business  BY <1>1, <2>3 DEF Subject
    <3> HIDE DEF j
    <3> QED  BY <1>1, <2>3, <3>1 DEF JobTyped
  <2> QED  BY <1>6, <1>7, <2>1, <2>2, <2>3
<1>9. /\ rowLock' \in [Engagement(c)!Key \cup Engagement(c)!Row -> c.Web \cup {None}]
      /\ \A x : rowLock[x] \notin {p, None} /\ x \in Engagement(c)!Key \cup Engagement(c)!Row
                => rowLock'[x] = rowLock[x]
  BY <1>2, LocksTyped DEF EngagementTyped
<1>10. \A x \in Engagement(c)!Counters : rowLock[x[1]] \notin {p, None} => count'[x] = count[x]
  <2>1. \A x \in j.hits : rowLock[x[1]] = p  BY <1>1 DEF JobTyped
  <2> HIDE DEF j
  <2> QED  BY <1>2, <2>1
<1>11. \A q \in c.Web : JobTyped(c, q)'
  BY <1>1, <1>7, <1>8, <1>9, <1>10, TypedAfter DEF EngagementTyped
<1>12. \A q \in c.Web : job'[q].at \in {"idle", "write", "bump", "commit", "after", "page", "save"}
  BY <1>7, <1>8 DEF EngagementTyped, Engagement!TypeOK
<1>13. comment' \in [c.CommentId -> Engagement(c)!Comments \cup {Engagement(c)!NoComment}]
  <2>1. /\ DOMAIN comment' = c.CommentId
        /\ \A m \in c.CommentId :
             comment'[m] = Engagement(c)!NoComment \/ comment'[m] \in Engagement(c)!Comments
    BY DEF ReactInv, Engagement!NoComment, Engagement!Comments
  <2>2. comment' = [m \in DOMAIN comment' |-> comment'[m]]
    <3>1. comment = [m \in DOMAIN comment |-> comment[m]]
      BY DEF EngagementTyped, Engagement!TypeOK
    <3>2. UNCHANGED comment \/ \E m, y : comment' = [comment EXCEPT ![m] = y]
      <4>1. \/ UNCHANGED comment
            \/ \E m : comment' = [comment EXCEPT ![m] = [on |-> j.on, by |-> j.user, hidden |-> FALSE]]
            \/ comment' = [comment EXCEPT ![j.on].hidden =
                             comment[j.on].hidden \/ Engagement(c)!Hides(count'[<<j.on, "reports">>])]
        BY DEF Engagement!Commit
      <4> QED  BY <4>1
    <3> QED  BY <3>1, <3>2
  <2> HIDE DEF Engagement!Comments, Engagement!NoComment
  <2> QED  BY <2>1, <2>2
<1>14. Engagement(c)!TypeOK'
  <2>1. /\ Engagement(c)!Counters' = Engagement(c)!Counters
        /\ Engagement(c)!Key' = Engagement(c)!Key /\ Engagement(c)!Row' = Engagement(c)!Row
        /\ Engagement(c)!Comments' = Engagement(c)!Comments
        /\ Engagement(c)!NoComment' = Engagement(c)!NoComment
    BY DEF Engagement!Comments, Engagement!NoComment, Engagement!Counters, Engagement!Key, Engagement!Row
  <2> HIDE DEF Engagement!Comments, Engagement!NoComment, Engagement!Counters, Engagement!Key, Engagement!Row, j, k
  <2> QED  BY <1>2, <1>3, <1>4, <1>5, <1>9, <1>12, <1>13, <2>1 DEF EngagementTyped, Engagement!TypeOK
<1> QED  BY <1>11, <1>14 DEF EngagementTyped

\* After the COMMIT: notices to owners, pages dropped.
LEMMA TypedTold ==
  ASSUME NEW c, Engagement(c)!Assumptions, ReactInv(c), EngagementTyped(c),
         NEW p \in c.Web, Engagement(c)!After(p)
  PROVE  EngagementTyped(c)'
<1> DEFINE j == job[p]
<1>1. /\ j.at = "after" /\ j.kind \in {"follow", "comment"} /\ j.user \in c.User
      /\ j.kind = "follow" => j.on \in c.Business /\ j.about = j.user
      /\ j.kind = "comment" => j.on \in c.Content /\ j.about \in c.CommentId
      /\ None \notin c.Web /\ c.OwnerOf \in [c.Business \cup c.Content -> c.User]
  BY DEF Engagement!After, Engagement!At, ReactInv, JobOk, EngagementTyped, JobTyped, Engagement!Assumptions
<1>2. /\ UNCHANGED <<rel, comment, shares, status, count, rowLock>>
      /\ job' = [job EXCEPT ![p] = Engagement(c)!Idle] /\ DOMAIN job = c.Web
      /\ page' = IF j.kind = "follow" THEN [page EXCEPT ![j.user] = None] ELSE page
      /\ notices' = notices \cup Engagement(c)!Notice(j) \/ notices' = notices
  BY DEF Engagement!After, Engagement!Done, Engagement!Goto, ReactInv
<1>3. Engagement(c)!Notice(j)
        \subseteq {"new_follower", "comment_on_content"} \X c.User \X (c.User \cup c.CommentId)
  <2>1. j.on \in c.Business \cup c.Content /\ j.about \in c.User \cup c.CommentId  BY <1>1
  <2>2. c.OwnerOf[j.on] \in c.User  BY <1>1, <2>1
  <2> HIDE DEF j
  <2> QED  BY <2>1, <2>2 DEF Engagement!Notice
<1>4. notices' \subseteq {"new_follower", "comment_on_content"} \X c.User \X (c.User \cup c.CommentId)
  BY <1>2, <1>3 DEF EngagementTyped, Engagement!TypeOK
<1>5. page' \in [c.User -> (SUBSET c.Business) \cup {None}]
  <2>1. page \in [c.User -> (SUBSET c.Business) \cup {None}]  BY DEF EngagementTyped, Engagement!TypeOK
  <2> HIDE DEF j
  <2> QED  BY <1>1, <1>2, <2>1
<1>6. job'[p].at = "idle" /\ \A q \in c.Web : q # p => job'[q] = job[q]
  BY <1>2 DEF Engagement!Idle
<1>7. JobTyped(c, p)'  BY <1>6 DEF JobTyped
<1>8. \A q \in c.Web : JobTyped(c, q)'
  BY <1>1, <1>2, <1>6, <1>7, TypedAfter DEF EngagementTyped
<1>9. \A q \in c.Web : job'[q].at \in {"idle", "write", "bump", "commit", "after", "page", "save"}
  BY <1>6 DEF EngagementTyped, Engagement!TypeOK
<1>10. Engagement(c)!TypeOK'
  <2>1. /\ Engagement(c)!Counters' = Engagement(c)!Counters
        /\ Engagement(c)!Key' = Engagement(c)!Key /\ Engagement(c)!Row' = Engagement(c)!Row
        /\ Engagement(c)!Comments' = Engagement(c)!Comments
        /\ Engagement(c)!NoComment' = Engagement(c)!NoComment
    BY DEF Engagement!Comments, Engagement!NoComment, Engagement!Counters, Engagement!Key, Engagement!Row
  <2> HIDE DEF Engagement!Comments, Engagement!NoComment, Engagement!Counters, Engagement!Key, Engagement!Row, j
  <2> QED  BY <1>2, <1>4, <1>5, <1>9, <2>1 DEF EngagementTyped, Engagement!TypeOK
<1> QED  BY <1>8, <1>10 DEF EngagementTyped

\* A step of a request before its COMMIT, a row loaded, a process that dies.
LEMMA TypedWork ==
  ASSUME NEW c, Engagement(c)!Assumptions, ReactInv(c), ReactInv(c)', EngagementTyped(c),
         NEW p \in c.Web, NEW r, job' = [job EXCEPT ![p] = r],
         UNCHANGED <<rel, comment, shares, status, count, page, notices>>,
         UNCHANGED rowLock \/ (\E x : Engagement(c)!Take(p, x)) \/ Engagement(c)!Free(p),
         r.at \in {"idle", "write", "bump", "save"}, JobTyped(c, p)'
  PROVE  EngagementTyped(c)'
<1>1. /\ rowLock' \in [Engagement(c)!Key \cup Engagement(c)!Row -> c.Web \cup {None}]
      /\ \A x : rowLock[x] \notin {p, None} /\ x \in Engagement(c)!Key \cup Engagement(c)!Row
                => rowLock'[x] = rowLock[x]
  BY LocksTyped DEF EngagementTyped
<1>2. None \notin c.Web /\ DOMAIN job = c.Web  BY DEF Engagement!Assumptions, ReactInv
<1>3. job'[p] = r /\ \A q \in c.Web : q # p => job'[q] = job[q]  BY <1>2
<1>4. \A q \in c.Web : JobTyped(c, q)'  BY <1>1, <1>2, <1>3, TypedAfter DEF EngagementTyped
<1>5. \A q \in c.Web : job'[q].at \in {"idle", "write", "bump", "commit", "after", "page", "save"}
  BY <1>3 DEF EngagementTyped, Engagement!TypeOK
<1>6. Engagement(c)!TypeOK'  BY <1>1, <1>5, TypesOfWork DEF EngagementTyped
<1> QED  BY <1>4, <1>6 DEF EngagementTyped

\* Every step.
LEMMA EngagementTypedStep ==
  ASSUME NEW c, Engagement(c)!Assumptions, ReactInv(c), ReactInv(c)', EngagementTyped(c), Engagement(c)!Next
  PROVE  EngagementTyped(c)'
<1>0. DOMAIN job = c.Web  BY DEF ReactInv
<1>1. ASSUME NEW p \in c.Web, NEW kind \in c.Kinds, NEW add \in BOOLEAN, NEW u \in c.User,
             Engagement(c)!Resolve(p, kind, add, u)
      PROVE  EngagementTyped(c)'
  <2>1. PICK t : job' = [job EXCEPT ![p] = [at |-> "write", kind |-> kind, add |-> add, user |-> u, on |-> t]]
    BY <1>1 DEF Engagement!Resolve, Engagement!Goto
  <2>2. job'[p].at = "write"  BY <1>0, <2>1
  <2>3. JobTyped(c, p)'  BY <2>2 DEF JobTyped
  <2>4. UNCHANGED <<rel, comment, shares, status, count, rowLock, page, notices>>
    BY <1>1 DEF Engagement!Resolve
  <2>5. [at |-> "write", kind |-> kind, add |-> add, user |-> u, on |-> t].at = "write"  OBVIOUS
  <2> DEFINE r == [at |-> "write", kind |-> kind, add |-> add, user |-> u, on |-> t]
  <2>6. job' = [job EXCEPT ![p] = r] /\ r.at = "write"  BY <2>1, <2>5
  <2> HIDE DEF r
  <2> QED  BY <2>3, <2>4, <2>6, TypedWork
<1>2. ASSUME NEW p \in c.Web, Engagement(c)!Write(p) PROVE EngagementTyped(c)'
  <2> DEFINE j == job[p]
             r == [at |-> "bump", kind |-> j.kind, add |-> j.add, user |-> j.user, on |-> j.on,
                   gain |-> Engagement(c)!Gains(j),
                   todo |-> IF Engagement(c)!Gains(j)
                            THEN Engagement(c)!CountersOf(j.kind, j.user, j.on) ELSE << >>,
                   hits |-> {}]
  <2>1. /\ job' = [job EXCEPT ![p] = r]
        /\ UNCHANGED <<rel, comment, shares, status, count, page, notices>>
        /\ UNCHANGED rowLock \/ \E x : Engagement(c)!Take(p, x)
    BY <1>2 DEF Engagement!Write, Engagement!Goto
  <2>2. r.at = "bump" /\ r.hits = {}  OBVIOUS
  <2> HIDE DEF j, r
  <2>3. job'[p] = r  BY <1>0, <2>1
  <2>4. JobTyped(c, p)'  BY <2>2, <2>3 DEF JobTyped
  <2> QED  BY <2>1, <2>2, <2>4, TypedWork
<1>3. ASSUME NEW p \in c.Web, Engagement(c)!Bump(p) PROVE EngagementTyped(c)'
  <2> DEFINE j == job[p]
             f == Head(j.todo)
             r == [j EXCEPT !.todo = Tail(j.todo),
                            !.hits = IF Engagement(c)!Matches(f, j.add) THEN j.hits \cup {f} ELSE j.hits]
  <2>1. /\ j.at = "bump" /\ j.todo # << >> /\ job' = [job EXCEPT ![p] = r]
        /\ UNCHANGED <<rel, comment, shares, status, count, page, notices>>
        /\ IF Engagement(c)!Matches(f, j.add) THEN Engagement(c)!Take(p, f[1]) ELSE UNCHANGED rowLock
    BY <1>3 DEF Engagement!Bump, Engagement!Goto, Engagement!At
  <2>2. DOMAIN j = {"at", "kind", "add", "user", "on", "gain", "todo", "hits"} /\ JobOk(c, p) /\ JobTyped(c, p)
    BY <2>1 DEF ReactInv, JobOk, Counting, EngagementTyped
  <2>3. /\ r.at = "bump" /\ r.add = j.add
        /\ r.hits = IF Engagement(c)!Matches(f, j.add) THEN j.hits \cup {f} ELSE j.hits
    BY <2>1, <2>2
  <2>4. job'[p] = r  BY <1>0, <2>1
  <2>5. JobOk(c, p)' BY DEF ReactInv
  <2>6. ASSUME NEW x \in r.hits PROVE rowLock'[x[1]] = p /\ (~r.add => count'[x] > 0)
    <3>1. x[1] \in Engagement(c)!Row
      <4>1. x \in job'[p].hits /\ job'[p].at = "bump"  BY <2>3, <2>4, <2>6
      <4>2. ASSUME NEW y \in j.hits PROVE y[1] \in Engagement(c)!Row
        BY <2>1, <2>2, <4>2, HitsAreCounters
      <4>3. Engagement(c)!Matches(f, j.add) => f[1] \in Engagement(c)!Row
        <5> SUFFICES ASSUME Engagement(c)!Matches(f, j.add) PROVE f[1] \in Engagement(c)!Row  OBVIOUS
        <5>1. /\ j.kind \in {"follow", "like", "save", "report", "comment", "share"}
              /\ j.user \in c.User /\ j.on \in Subject(c, j.kind)
              /\ \/ j.todo = Engagement(c)!CountersOf(j.kind, j.user, j.on)
                 \/ j.todo = << <<j.user, "following">> >>
          BY <2>1, <2>2 DEF JobOk, Counting
        <5>2. f = <<j.user, "following">> \/ \E n : f = <<j.on, n>>
          <6>1. CASE j.todo = << <<j.user, "following">> >>  BY <6>1
          <6>2. CASE j.todo = Engagement(c)!CountersOf(j.kind, j.user, j.on)
            <7> HIDE DEF j
            <7>1. CASE j.kind = "follow"
              <8>1. j.todo = << <<j.on, "followers">>, <<j.user, "following">> >>  BY <6>2, <7>1, CountersAre
              <8> QED  BY <8>1
            <7>2. CASE j.kind # "follow"
              <8>1. \E n : j.todo = << <<j.on, n>> >>
                BY <2>1, <5>1, <6>2, <7>2, CountersAre DEF Subject
              <8> QED  BY <8>1
            <7> QED  BY <7>1, <7>2
          <6> QED  BY <5>1, <6>1, <6>2
        <5>3. j.on \in Engagement(c)!Row /\ j.user \in Engagement(c)!Row
          BY <5>1 DEF Subject, Engagement!Row
        <5> HIDE DEF f, j
        <5> QED  BY <5>2, <5>3
      <4> QED  BY <2>3, <4>2, <4>3
    <3>2. CASE x \in j.hits
      <4>1. rowLock[x[1]] = p /\ (~j.add => count[x] > 0)  BY <2>1, <2>2, <3>2 DEF JobTyped
      <4>2. rowLock'[x[1]] = p
        <5>1. x[1] \in DOMAIN rowLock  BY <3>1 DEF ReactInv
        <5> HIDE DEF j, f, r
        <5> QED  BY <2>1, <4>1, <5>1 DEF Engagement!Take
      <4> HIDE DEF j, f, r
      <4> QED  BY <2>1, <2>3, <4>1, <4>2
    <3>3. CASE x \notin j.hits
      <4>1. x = f /\ Engagement(c)!Matches(f, j.add)  BY <2>3, <2>6, <3>3
      <4>2. rowLock'[x[1]] = p
        <5>1. x[1] \in DOMAIN rowLock  BY <3>1 DEF ReactInv
        <5> HIDE DEF j, f, r
        <5> QED  BY <2>1, <4>1, <5>1 DEF Engagement!Take
      <4>3. ~j.add => count[f] > 0  BY <4>1 DEF Engagement!Matches
      <4> HIDE DEF j, f, r
      <4> QED  BY <2>1, <2>3, <4>1, <4>2, <4>3
    <3> QED  BY <3>2, <3>3
  <2>7. UNCHANGED rowLock \/ \E x : Engagement(c)!Take(p, x)  BY <2>1
  <2> HIDE DEF r, f, j
  <2>8. JobTyped(c, p)'  BY <2>3, <2>4, <2>6 DEF JobTyped
  <2> QED  BY <2>1, <2>3, <2>7, <2>8, TypedWork
<1>4. ASSUME NEW p \in c.Web, Engagement(c)!Commit(p) PROVE EngagementTyped(c)'
  BY <1>4, TypedCommit
<1>5. ASSUME NEW p \in c.Web, Engagement(c)!After(p) PROVE EngagementTyped(c)'
  BY <1>5, TypedTold
<1>6. ASSUME NEW p \in c.Web, Engagement(c)!Crash(p) PROVE EngagementTyped(c)'
  <2>1. /\ job' = [job EXCEPT ![p] = Engagement(c)!Idle] /\ Engagement(c)!Free(p)
        /\ UNCHANGED <<rel, comment, shares, status, count, page, notices>>
    BY <1>6 DEF Engagement!Crash, Engagement!Done, Engagement!Goto
  <2>2. Engagement(c)!Idle.at = "idle" /\ job'[p].at = "idle"  BY <1>0, <2>1 DEF Engagement!Idle
  <2>3. JobTyped(c, p)'  BY <2>2 DEF JobTyped
  <2> QED  BY <2>1, <2>2, <2>3, TypedWork
<1>7. ASSUME NEW p \in c.Web, NEW b \in c.User \cup c.Business \cup c.Content, Engagement(c)!LoadRow(p, b)
      PROVE EngagementTyped(c)'
  <2> DEFINE r == [at |-> "save", row |-> b,
                   count |-> [x \in Engagement(c)!CountersIn(b) |-> count[x]],
                   status |-> IF b \in c.Content THEN status[b] ELSE "published"]
  <2>1. /\ job' = [job EXCEPT ![p] = r]
        /\ UNCHANGED <<rel, comment, shares, status, count, rowLock, page, notices>>
    BY <1>7 DEF Engagement!LoadRow, Engagement!Goto
  <2>2. r.at = "save" /\ r.row = b /\ r.count = [x \in Engagement(c)!CountersIn(b) |-> count[x]]  OBVIOUS
  <2>3. \A x \in Engagement(c)!CountersIn(b) : count[x] \in Nat
    BY DEF EngagementTyped, Engagement!TypeOK, Engagement!CountersIn
  <2>4. Engagement(c)!CountersIn(b)' = Engagement(c)!CountersIn(b)
    BY DEF Engagement!CountersIn, Engagement!Counters
  <2> HIDE DEF r
  <2>5. job'[p] = r  BY <1>0, <2>1
  <2>6. JobTyped(c, p)'
    <3>1. \A x \in Engagement(c)!CountersIn(b) : r.count[x] \in Nat  BY <2>2, <2>3
    <3> QED  BY <2>2, <2>4, <2>5, <3>1 DEF JobTyped
  <2> QED  BY <2>1, <2>2, <2>6, TypedWork
<1>8. ASSUME NEW p \in c.Web, Engagement(c)!SaveRow(p) PROVE EngagementTyped(c)'
  BY <1>8, TypedSave
<1>9. ASSUME NEW k \in Engagement(c)!Key, Engagement(c)!AdminFollow(k) PROVE EngagementTyped(c)'
  <2>1. /\ UNCHANGED <<comment, shares, status, count, rowLock, page, notices, job>>
        /\ rel' = IF k \in rel THEN rel \ {k} ELSE rel \cup {k}
    BY <1>9 DEF Engagement!AdminFollow
  <2>2. rel' \subseteq Engagement(c)!Key  BY <2>1 DEF EngagementTyped, Engagement!TypeOK
  <2>3. /\ Engagement(c)!Counters' = Engagement(c)!Counters
        /\ Engagement(c)!Key' = Engagement(c)!Key /\ Engagement(c)!Row' = Engagement(c)!Row
        /\ Engagement(c)!Comments' = Engagement(c)!Comments
        /\ Engagement(c)!NoComment' = Engagement(c)!NoComment
    BY DEF Engagement!Comments, Engagement!NoComment, Engagement!Counters, Engagement!Key, Engagement!Row
  <2>4. ASSUME NEW q \in c.Web PROVE JobTyped(c, q)'
    <3>1. JobTyped(c, q)  BY DEF EngagementTyped
    <3>2. Engagement(c)!CountersIn(job[q].row)' = Engagement(c)!CountersIn(job[q].row)
      BY <2>1 DEF Engagement!CountersIn, Engagement!Counters
    <3> QED  BY <2>1, <3>1, <3>2 DEF JobTyped
  <2> HIDE DEF Engagement!Comments, Engagement!NoComment, Engagement!Counters, Engagement!Key, Engagement!Row
  <2> QED  BY <2>1, <2>2, <2>3, <2>4 DEF EngagementTyped, Engagement!TypeOK
<1> QED
  BY <1>1, <1>2, <1>3, <1>4, <1>5, <1>6, <1>7, <1>8, <1>9
  DEF Engagement!Next, Engagement!SavingNext, Engagement!Request, Engagement!WholeRow

\* A stuttering step too.
LEMMA EngagementTypedStutter ==
  ASSUME NEW c, EngagementTyped(c), UNCHANGED Engagement(c)!vars PROVE EngagementTyped(c)'
<1>1. UNCHANGED <<rel, comment, shares, status, count, rowLock, page, notices, job>>  BY DEF Engagement!vars
<1>2. /\ Engagement(c)!Counters' = Engagement(c)!Counters
      /\ Engagement(c)!Key' = Engagement(c)!Key /\ Engagement(c)!Row' = Engagement(c)!Row
      /\ Engagement(c)!Comments' = Engagement(c)!Comments
      /\ Engagement(c)!NoComment' = Engagement(c)!NoComment
  BY DEF Engagement!Comments, Engagement!NoComment, Engagement!Counters, Engagement!Key, Engagement!Row
<1>3. ASSUME NEW q \in c.Web PROVE JobTyped(c, q)'
  <2>1. JobTyped(c, q)  BY DEF EngagementTyped
  <2>2. Engagement(c)!CountersIn(job[q].row)' = Engagement(c)!CountersIn(job[q].row)
    BY <1>1 DEF Engagement!CountersIn, Engagement!Counters
  <2> QED  BY <1>1, <2>1, <2>2 DEF JobTyped
<1> HIDE DEF Engagement!Comments, Engagement!NoComment, Engagement!Counters, Engagement!Key, Engagement!Row
<1> QED  BY <1>1, <1>2, <1>3 DEF EngagementTyped, Engagement!TypeOK

-----------------------------------------------------------------------------
(* The component, for every size it can have                               *)

\* Tables, requests, reports and notices, step by step.
ReactionsInv(c) == ReactInv(c) /\ ReportsInv(c) /\ NoticesInv(c) /\ FiniteInv(c)

\* Nothing has happened yet.
LEMMA ReactionsInit ==
  ASSUME NEW c, Engagement(c)!Init PROVE ReactionsInv(c)
<1>1. NoticesInv(c)  BY DEF Engagement!Init, NoticesInv
<1> QED  BY <1>1, ReactInit, ReportsInit, FiniteInit DEF ReactionsInv

\* Every step keeps the invariants together.
LEMMA ReactionsStep ==
  ASSUME NEW c, Engagement(c)!Assumptions, ReactionsInv(c), [Engagement(c)!Next]_(Engagement(c)!vars)
  PROVE  ReactionsInv(c)'
<1>1. CASE Engagement(c)!Next
  BY <1>1, ReactStep, ReportsStep, NoticesStep, FiniteStep DEF ReactionsInv
<1>2. CASE UNCHANGED Engagement(c)!vars
  <2>1. UNCHANGED <<rel, comment, shares, status, count, notices>>  BY <1>2 DEF Engagement!vars
  <2>2. ReactInv(c)'  BY <1>2, ReactStutter DEF ReactionsInv
  <2>3. ReportsInv(c)'  BY <2>1, ReportsKept DEF ReactionsInv
  <2>4. NoticesInv(c)'  BY <2>1 DEF ReactionsInv, NoticesInv, Engagement!NoComment
  <2>5. FiniteInv(c)'  BY <2>1 DEF ReactionsInv, FiniteInv, Engagement!CommentTable, Engagement!NoComment
  <2> QED  BY <2>2, <2>3, <2>4, <2>5 DEF ReactionsInv
<1> QED  BY <1>1, <1>2

\* A comment is hidden exactly when Threshold different accounts reported it, and its
\* notice goes to the owner of what it is on (social/services.py:16-55,
\* social/views.py:404-420), with stale saves, crashes and the Admin at work.
THEOREM CommentsAreTrue ==
  ASSUME NEW CONSTANT c, Engagement(c)!Assumptions
  PROVE  Engagement(c)!Spec =>
           [](Engagement(c)!HiddenByDistinctReporters /\ Engagement(c)!CommentNoticesTrue)
<1>1. Engagement(c)!Init => ReactionsInv(c)  BY ReactionsInit
<1>2. ReactionsInv(c) /\ [Engagement(c)!Next]_(Engagement(c)!vars) => ReactionsInv(c)'
  BY ReactionsStep
<1>3. ReactionsInv(c) => Engagement(c)!HiddenByDistinctReporters /\ Engagement(c)!CommentNoticesTrue
  BY ReportsShow DEF ReactionsInv, NoticesInv, Engagement!CommentNoticesTrue
<1> QED  BY <1>1, <1>2, <1>3, PTL DEF Engagement!Spec

\* Requests alone keep every counter equal to the rows it counts, in any order and with
\* any crash: the promise of social/views.py:5-9, which whole-row saves break.
THEOREM CountersAreExact ==
  ASSUME NEW CONSTANT c, Engagement(c)!Assumptions
  PROVE  Engagement(c)!Init /\ [][Engagement(c)!RequestNext]_(Engagement(c)!vars) =>
           []Engagement(c)!CountersExact
<1> DEFINE Inv == ReactionsInv(c) /\ Engagement(c)!Clean
<1>1. Engagement(c)!Init => Inv  BY ReactionsInit, CleanInit
<1>2. Inv /\ [Engagement(c)!RequestNext]_(Engagement(c)!vars) => Inv'
  <2> SUFFICES ASSUME Inv, [Engagement(c)!RequestNext]_(Engagement(c)!vars) PROVE Inv'
    OBVIOUS
  <2>1. CASE Engagement(c)!RequestNext
    <3>1. PICK p \in c.Web : Engagement(c)!Request(p) \/ Engagement(c)!Crash(p)
      BY <2>1 DEF Engagement!RequestNext
    <3>2. Engagement(c)!Next  BY <3>1 DEF Engagement!Next, Engagement!SavingNext
    <3> QED  BY <3>1, <3>2, ReactionsStep, CleanRequest DEF ReactionsInv
  <2>2. CASE UNCHANGED Engagement(c)!vars
    <3>1. UNCHANGED <<rel, comment, shares, status, count, job>>  BY <2>2 DEF Engagement!vars
    <3>2. \A x : Engagement(c)!RowsOf(x)' = Engagement(c)!RowsOf(x)  BY <3>1, RowsSame
    <3>3. Engagement(c)!Counted' = Engagement(c)!Counted
      BY <3>1 DEF Engagement!Counted, Engagement!Counters
    <3>4. Engagement(c)!Exact'  BY <3>1, <3>2, <3>3 DEF Engagement!Exact, Engagement!Clean
    <3>5. ASSUME NEW p \in c.Web PROVE NoneSkipped(c, p)'
      <4>1. NoneSkipped(c, p)  BY CleanIs
      <4> QED  BY <3>1, <3>3, <4>1 DEF NoneSkipped, Engagement!Elements, Engagement!CountersOf
    <3>6. Engagement(c)!Clean'  BY <3>4, <3>5, CleanIs
    <3> QED  BY <2>2, <3>6, ReactionsStep
  <2> QED  BY <2>1, <2>2
<1>3. Inv => Engagement(c)!CountersExact
  BY DEF Engagement!Clean, Engagement!CountersExact
<1> QED  BY <1>1, <1>2, <1>3, PTL

\* With everything at work, only the Admin and the save of a row that is stale move a
\* counter away from its rows (businesses/services.py:116).
THEOREM DriftsAreStaleSaves ==
  ASSUME NEW CONSTANT c, Engagement(c)!Assumptions
  PROVE  Engagement(c)!Spec => Engagement(c)!OnlyStaleSavesDrift
<1>1. Engagement(c)!Init => ReactionsInv(c)  BY ReactionsInit
<1>2. ReactionsInv(c) /\ [Engagement(c)!Next]_(Engagement(c)!vars) => ReactionsInv(c)'
  BY ReactionsStep
<1>3. ReactionsInv(c) /\ [Engagement(c)!Next]_(Engagement(c)!vars) =>
        [Engagement(c)!DriftsOnlyBySaves]_(Engagement(c)!vars)
  BY DriftStep DEF ReactionsInv
<1> QED  BY <1>1, <1>2, <1>3, PTL DEF Engagement!Spec, Engagement!OnlyStaleSavesDrift

-----------------------------------------------------------------------------
(* In the turns of Publishing                                              *)

\* In each turn of the reactions they take the step of that turn.
LEMMA ReactionsMove ==
  ASSUME [AllNext]_allVars
  PROVE  /\ turn' = turn
         /\ turn = "reports" => [Engagement(Reports)!RequestNext]_(Engagement(Reports)!vars)
         /\ turn = "follows saved" => [Engagement(FollowsSaved)!Next]_reactionVars
         /\ turn = "shares saved" => [Engagement(SharesSaved)!Next]_reactionVars
BY DEF AllNext, allVars, reactionVars, Engagement!vars, ReviewTurn, StoryTurn, ReactionTurn, RatingTurn,
       ProfileTurn, CategoryTurn, ProductTurn

\* The variables of the reactions are the component's.
LEMMA TheirVariables ==
  ASSUME NEW c PROVE reactionVars = Engagement(c)!vars /\ reactionVars' = Engagement(c)!vars'
BY DEF reactionVars, Engagement!vars

\* Requests are steps of the component.
LEMMA RequestsAreSteps ==
  ASSUME NEW c, [Engagement(c)!RequestNext]_(Engagement(c)!vars)
  PROVE  [Engagement(c)!Next]_(Engagement(c)!vars)
BY DEF Engagement!RequestNext, Engagement!Next, Engagement!SavingNext

\* Comments are hidden by Threshold different reporters, and their notices are true.
THEOREM ReactionsAreTrue == AllSpec => []CommentsHold
<1> DEFINE Inv == turn = "reports" => ReactionsInv(Reports)
<1>1. AllInit => Inv  BY ReactionsInit DEF AllInit
<1>2. Inv /\ [AllNext]_allVars => Inv'
  BY SizesFit, ReactionsMove, RequestsAreSteps, ReactionsStep
<1>3. Inv => CommentsHold
  BY SizesFit, ReportsShow DEF CommentsHold, ReactionsInv, NoticesInv, Engagement!CommentNoticesTrue
<1> QED  BY <1>1, <1>2, <1>3, PTL DEF AllSpec

\* Counters drift only by stale saves and the Admin.
THEOREM CountersDriftByStaleSaves == AllSpec => OnlyStaleSavesDrift
<1> DEFINE Inv == /\ turn = "follows saved" => ReactionsInv(FollowsSaved)
                  /\ turn = "shares saved" => ReactionsInv(SharesSaved)
<1>1. AllInit => Inv  BY ReactionsInit DEF AllInit
<1>2. Inv /\ [AllNext]_allVars => Inv'
  BY SizesFit, ReactionsMove, TheirVariables, ReactionsStep
<1>3. Inv /\ [AllNext]_allVars =>
        [/\ turn = "follows saved" => Engagement(FollowsSaved)!DriftsOnlyBySaves
         /\ turn = "shares saved" => Engagement(SharesSaved)!DriftsOnlyBySaves]_reactionVars
  BY SizesFit, ReactionsMove, DriftStep DEF ReactionsInv
<1> QED  BY <1>1, <1>2, <1>3, PTL DEF AllSpec, OnlyStaleSavesDrift
===============================================================================
