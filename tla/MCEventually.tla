---------------------------- MODULE MCEventually ----------------------------
(***************************************************************************)
(* What must happen in the end, for TLC: the components with fairness, in  *)
(* turns as in MCPublishing, each fair while it has the turn.              *)
(***************************************************************************)
EXTENDS Integers, FiniteSets, TLC

CONSTANTS
  None, Web, w1, w2, w, c1,   \* processes; w serves the turns of one process
  r1, s1, alice, bob,     \* a reel, a story, accounts
  b1, m1, d1, d2, t1, a1, a2,  \* a business, a comment, forms, an app, connections
  k1, n1, n2              \* a category, names

VARIABLES
  turn,
  row, queue, log, told, tasks, lock, pc, item, copy, verdict,
  now, story, storyQueue, flagged, watched, views, storyLock, storyPc, storyItem, storyCopy, who,
  rel, comment, shares, status, count, rowLock, page, notices, job,
  profile, stored, uploads, verified, cache, request, edits,
  table, used, trees, treeRequest, treeEdits,
  nextId, from, received, send, conn, inbox, thread, ack, online, pushed, slipped, seen, since, caught,
  exists, pref, edit, device, spoken, event, open, waiting, task, notice, rows, sent

Review == INSTANCE Review WITH Post <- {}, Reel <- {r1}, Celery <- {c1}
Stories == INSTANCE Stories WITH
  Story <- {s1}, Viewer <- {alice}, Ttl <- 3, Sla <- 1, MaxTime <- 5,
  queue <- storyQueue, lock <- storyLock, pc <- storyPc, item <- storyItem, copy <- storyCopy
Follows == INSTANCE Engagement WITH
  User <- {alice, bob}, Business <- {b1}, Content <- {}, CommentId <- {m1}, Kinds <- {"follow"},
  OwnerOf <- [x \in {b1} |-> bob], Threshold <- 2, MaxShares <- 0, MaxCount <- 2, lock <- rowLock
Profiles == INSTANCE Profiles WITH
  User <- {bob}, Business <- {bob}, Detail <- {d1, d2}, Category <- {}, MaxFiles <- 0, MaxEdits <- 4
Categories == INSTANCE Categories WITH
  Category <- {k1}, English <- {n1, n2}, Arabic <- {}, Language <- {"en"}, MaxEdits <- 3,
  cache <- trees, request <- treeRequest, edits <- treeEdits
Tabs == INSTANCE Chat WITH
  User <- {alice, bob}, Conn <- {a1, a2}, UserOf <- [x \in {a1, a2} |-> alice], Web <- {w}, MaxId <- 1,
  status <- received
Notices == INSTANCE Notifications WITH
  User <- {alice}, Language <- [u \in {alice} |-> "ar"], Token <- {t1}, Type <- {"chat_message"},
  Web <- {w}, Celery <- {c1}, MaxEvent <- 2, queue <- waiting, row <- notice

-----------------------------------------------------------------------------
reviewVars == <<row, queue, log, told, tasks, lock, pc, item, copy, verdict>>
storyVars == <<now, story, storyQueue, flagged, watched, views, storyLock, storyPc, storyItem, storyCopy, who>>
followVars == <<rel, comment, shares, status, count, rowLock, page, notices, job>>
profileVars == <<profile, stored, uploads, verified, cache, request, edits>>
treeVars == <<table, used, trees, treeRequest, treeEdits>>
chatVars == <<nextId, from, received, send, conn, inbox, thread, ack, online, pushed, slipped, seen, since, caught>>
noticeVars == <<exists, pref, edit, device, spoken, event, open, waiting, task, notice, rows, sent>>
allVars == <<turn, reviewVars, storyVars, followVars, profileVars, treeVars, chatVars, noticeVars>>

AllInit ==
  /\ turn \in {"review", "stories", "follows", "profiles", "trees", "tabs", "notices"}
  /\ Review!Init /\ Stories!Init /\ Follows!Init /\ Profiles!Init /\ Categories!Init /\ Tabs!Init
  /\ Notices!Init /\ (turn = "notices" \/ pref[alice] = None)

AllNext ==
  \/ /\ turn = "review" /\ Review!SteadyNext
     /\ UNCHANGED <<turn, storyVars, followVars, profileVars, treeVars, chatVars, noticeVars>>
  \/ /\ turn = "stories" /\ Stories!Next
     /\ UNCHANGED <<turn, reviewVars, followVars, profileVars, treeVars, chatVars, noticeVars>>
  \/ /\ turn = "follows" /\ Follows!FeedNext
     /\ UNCHANGED <<turn, reviewVars, storyVars, profileVars, treeVars, chatVars, noticeVars>>
  \/ /\ turn = "profiles" /\ Profiles!PageNext
     /\ UNCHANGED <<turn, reviewVars, storyVars, followVars, treeVars, chatVars, noticeVars>>
  \/ /\ turn = "trees" /\ Categories!Next
     /\ UNCHANGED <<turn, reviewVars, storyVars, followVars, profileVars, chatVars, noticeVars>>
  \/ /\ turn = "tabs" /\ Tabs!Next
     /\ UNCHANGED <<turn, reviewVars, storyVars, followVars, profileVars, treeVars, noticeVars>>
  \/ /\ turn = "notices" /\ Notices!CalmNext
     /\ UNCHANGED <<turn, reviewVars, storyVars, followVars, profileVars, treeVars, chatVars>>

\* In the turn of another component the actions of a Fairness stay disabled, as they are in
\* the initial states: it asks nothing there.
FairSpec ==
  /\ AllInit /\ [][AllNext]_allVars
  /\ Review!Fairness /\ Stories!Fairness /\ Follows!Fairness
  /\ Profiles!Fairness /\ Categories!Fairness /\ Tabs!Fairness /\ Notices!Fairness

-----------------------------------------------------------------------------
(* Properties: those of the components.                                    *)

\* A reel handed to the broker ends up before a moderator, failed or deleted, whatever its
\* owner edits meanwhile (content/tasks.py:50), and an expired story archived for good,
\* though decisions undo the stamp of a sweep (stories/tasks.py:60).
ContentMovesOn == Review!ReelsReachReview /\ Stories!ExpiredIsArchived

\* Whatever edits, deletions and dead processes left in the cache, in the end no public page
\* differs from its row (businesses/views.py:160), and a cached home page that misses a
\* follow does not stay (social/views.py:56-70); nor does a tree that was put while the Admin's
\* transaction was open (categories/views.py:10).
CopiesComeRight == Profiles!PageComesRight /\ Follows!StalePageEnds /\ Categories!TreeComesRight

\* Closing one of two connections hides the account at most until the other's next heartbeat
\* (chat/consumers.py:193); if nothing dies, an event the broker took is told, to an account
\* without a row of preferences too (notifications/tasks.py:95-98).
AccountsReached == Tabs!OnlineAgain /\ Notices!Heard
=============================================================================
