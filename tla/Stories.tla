------------------------------ MODULE Stories ------------------------------
(***************************************************************************)
(* Stories live for Ttl and are reviewed on the fast path: the stories     *)
(* app, the decisions of moderation/services.py about stories, and the     *)
(* watch over the queue of moderation/tasks.py.                            *)
(*                                                                         *)
(* Time passes in periods of the watch (five minutes): Beat runs it at     *)
(* least once in each.  A decision saves the whole story as it loaded it,  *)
(* next to the sweep that stamps archived_at.                              *)
(***************************************************************************)
EXTENDS Integers

CONSTANTS
  Story,    \* primary keys
  Viewer,   \* signed-in users who watch stories
  Web,      \* processes that serve HTTP requests
  Ttl,      \* 24 hours, in periods
  Sla,      \* FAST_PATH_SLA_MINUTES, in periods
  MaxTime,  \* bound of the clock
  None      \* no process, no story

Assumptions ==
  /\ Ttl \in Nat /\ Sla \in Nat /\ MaxTime \in Nat
  /\ Sla + 1 < Ttl  \* a breach is found at the latest in the period after the threshold's
  /\ None \notin Web /\ None \notin Story

VARIABLES
  now,      \* the clock
  story,    \* the Story table
  queue,    \* status and created_at of the story's ModerationQueue row
  flagged,  \* stories with a moderation_sla_breach log line
  watched,  \* the watch has run in this period
  views,    \* number of StoryView rows of each viewer and story
  lock,     \* who holds the row lock of the queue row
  pc,       \* where each process is
  item,     \* the story it works on
  copy,     \* the story as it loaded it
  who       \* the viewer it works for

local == <<pc, item, copy, who>>
vars == <<now, story, queue, flagged, watched, views, lock, local>>

Time == 0..MaxTime
Absent == [state |-> "absent"]
Row == [state : {"live"}, status : {"pending_review", "published", "rejected"},
        expires : 0..(MaxTime + Ttl), archived : BOOLEAN]
NotQueued == [status |-> "none"]
QueueRow == [status : {"pending", "approved", "rejected"}, created : Time]

TypeOK ==
  /\ now \in Time
  /\ story \in [Story -> Row \cup {Absent}]
  /\ queue \in [Story -> QueueRow \cup {NotQueued}]
  /\ flagged \subseteq Story
  /\ watched \in BOOLEAN
  /\ views \in [Viewer \X Story -> Nat]
  /\ lock \in [Story -> Web \cup {None}]
  /\ pc \in [Web -> {"idle", "enqueue", "open", "approved", "rejected", "insert"}]
  /\ item \in [Web -> Story \cup {None}]
  /\ copy \in [Web -> Row \cup {Absent}]
  /\ who \in [Web -> Viewer \cup {None}]

Init ==
  /\ now = 0
  /\ story = [s \in Story |-> Absent]
  /\ queue = [s \in Story |-> NotQueued]
  /\ flagged = {}
  /\ watched = FALSE
  /\ views = [k \in Viewer \X Story |-> 0]
  /\ lock = [s \in Story |-> None]
  /\ pc = [p \in Web |-> "idle"]
  /\ item = [p \in Web |-> None]
  /\ copy = [p \in Web |-> Absent]
  /\ who = [p \in Web |-> None]

Exists(s) == story[s] # Absent
\* expires_at__lte=now of the sweep; the public list asks for the opposite.
Expired(s) == Exists(s) /\ story[s].expires <= now

Archived(s) == Exists(s) /\ story[s].archived

Goto(p, step, s, r, v) ==
  /\ pc' = [pc EXCEPT ![p] = step]
  /\ item' = [item EXCEPT ![p] = s]
  /\ copy' = [copy EXCEPT ![p] = r]
  /\ who' = [who EXCEPT ![p] = v]
Done(p) == Goto(p, "idle", None, Absent, None)

-----------------------------------------------------------------------------
(* Story.save computes expires_at on the INSERT only.                      *)

OnSaveAlways(r) == [r EXCEPT !.expires = now + Ttl]  \* Faulty
OnSave(r) == r

\* perform_create: the INSERT, before the post_save receiver queues the story.
Create(p, s) ==
  /\ pc[p] = "idle" /\ ~Exists(s)
  /\ story' = [story EXCEPT ![s] = [state |-> "live", status |-> "pending_review",
                                    expires |-> now + Ttl, archived |-> FALSE]]
  /\ Goto(p, "enqueue", s, Absent, None)
  /\ UNCHANGED <<now, queue, flagged, watched, views, lock>>

Enqueue(p) ==
  /\ pc[p] = "enqueue"
  /\ queue' = [queue EXCEPT ![item[p]] = [status |-> "pending", created |-> now]]
  /\ Done(p)
  /\ UNCHANGED <<now, story, flagged, watched, views, lock>>

-----------------------------------------------------------------------------
(* approve and reject; a story that has expired can still be decided.      *)

Open(p, s) ==
  /\ pc[p] = "idle" /\ queue[s] # NotQueued
  /\ Goto(p, "open", s, Absent, None)
  /\ UNCHANGED <<now, story, queue, flagged, watched, views, lock>>

\* FOR UPDATE, the check of the status, the SELECT of the story.
LockAndLoad(p) ==
  LET s == item[p] IN
  /\ pc[p] = "open" /\ lock[s] = None
  /\ IF queue[s].status = "pending"
     THEN /\ lock' = [lock EXCEPT ![s] = p]
          /\ \E v \in {"approved", "rejected"} : Goto(p, v, s, story[s], None)
     ELSE Done(p) /\ UNCHANGED lock
  /\ UNCHANGED <<now, story, queue, flagged, watched, views>>

Decide(p) ==
  LET s == item[p] IN
  /\ pc[p] \in {"approved", "rejected"}
  /\ queue' = [queue EXCEPT ![s].status = pc[p]]
  /\ story' = [story EXCEPT ![s] = OnSave([copy[p] EXCEPT
                !.status = IF pc[p] = "approved" THEN "published" ELSE "rejected"])]
  /\ lock' = [lock EXCEPT ![s] = None]
  /\ Done(p)
  /\ UNCHANGED <<now, flagged, watched, views>>

-----------------------------------------------------------------------------
(* StoryViewRecordView: get_or_create                                      *)

\* The SELECT of get_or_create: a row that is there ends the request.
Watch(p, s, v) ==
  /\ pc[p] = "idle" /\ Exists(s)
  /\ views[<<v, s>>] = 0
  /\ Goto(p, "insert", s, Absent, v)
  /\ UNCHANGED <<now, story, queue, flagged, watched, views, lock>>

\* unique_together makes the INSERT of a second request fail; get_or_create
\* catches that and finds the row of the first.
AfterInsertUnchecked(n) == n + 1  \* Faulty: no constraint
AfterInsert(n) == IF n = 0 THEN 1 ELSE n
Insert(p) ==
  /\ pc[p] = "insert"
  /\ views' = [views EXCEPT ![<<who[p], item[p]>>] = AfterInsert(@)]
  /\ Done(p)
  /\ UNCHANGED <<now, story, queue, flagged, watched, lock>>

-----------------------------------------------------------------------------
(* Beat                                                                    *)

\* check_moderation_sla: created_at__lt = now - threshold.
BreachedLate(s) == now - queue[s].created > Ttl  \* Faulty: wrong threshold
Breached(s) == now - queue[s].created > Sla
CheckModerationSla ==
  /\ flagged' = flagged \cup {s \in Story : queue[s].status = "pending" /\ Breached(s)}
  /\ watched' = TRUE
  /\ UNCHANGED <<now, story, queue, views, lock, local>>

\* expire_stale_stories: one UPDATE.
ToArchiveAll == {s \in Story : Exists(s)}  \* Faulty: forgets the expires_at filter
ToArchiveStrict == {s \in Story : Exists(s) /\ story[s].expires < now}  \* Faulty
ToArchive == {s \in Story : Expired(s) /\ ~story[s].archived}
ExpireStaleStories ==
  /\ ToArchive # {}
  /\ story' = [s \in Story |->
                IF s \in ToArchive THEN [story[s] EXCEPT !.archived = TRUE] ELSE story[s]]
  /\ UNCHANGED <<now, queue, flagged, watched, views, lock, local>>

\* The request fails or its process dies; PostgreSQL rolls back.
Crash(p) ==
  /\ pc[p] # "idle"
  /\ Done(p)
  /\ lock' = [s \in Story |-> IF lock[s] = p THEN None ELSE lock[s]]
  /\ UNCHANGED <<now, story, queue, flagged, watched, views>>

Tick ==
  /\ watched /\ now < MaxTime
  /\ now' = now + 1
  /\ watched' = FALSE
  /\ UNCHANGED <<story, queue, flagged, views, lock, local>>

RequestStep(p) ==
  \/ Enqueue(p) \/ LockAndLoad(p) \/ Decide(p) \/ Insert(p)
  \/ \E s \in Story : \/ Create(p, s) \/ Open(p, s)
                      \/ \E v \in Viewer : Watch(p, s, v)

Next ==
  \/ CheckModerationSla \/ ExpireStaleStories \/ Tick
  \/ \E p \in Web : RequestStep(p) \/ Crash(p)

Spec == Init /\ [][Next]_vars
\* Beat starts the sweep every 20 minutes; a request that runs goes on.
Fairness ==
  /\ WF_vars(ExpireStaleStories)
  /\ \A p \in Web : WF_vars(Enqueue(p) \/ LockAndLoad(p) \/ Decide(p) \/ Insert(p))
FairSpec == Spec /\ Fairness

-----------------------------------------------------------------------------
(* Properties                                                              *)

\* A story cannot wait for review for a whole lifetime without the watch having
\* flagged it: the reason the watch exists (moderation/tasks.py:4-8).
NoSilentExpiry ==
  \A s \in Story :
    queue[s].status = "pending" /\ now >= queue[s].created + Ttl => s \in flagged

\* One StoryView row per viewer and story, however often and however
\* concurrently it is recorded.
OneViewPerViewer == \A k \in Viewer \X Story : views[k] <= 1

\* Only an expired story is archived, whatever decisions save meanwhile.
ArchivedIsExpired == \A s \in Story : Archived(s) => Expired(s)

\* No decision moves the end of a story's life (stories/models.py:147-149).
ExpiryFixed ==
  [][\A s \in Story : Exists(s) => story'[s].expires = story[s].expires]_vars

\* archived_at is stamped once.  Refuted: a decision that loaded the story
\* before the sweep writes the null back, and the next sweep stamps it again.
ArchivedOnce ==
  [][\A s \in Story : Archived(s) => Archived(s)']_vars

\* In the end every expired story is archived for good, though decisions undo
\* the stamp of a sweep.
ExpiredIsArchived ==
  \A s \in Story : Expired(s) ~> []Archived(s)
=============================================================================
