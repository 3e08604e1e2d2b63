------------------------------- MODULE Review -------------------------------
(***************************************************************************)
(* Posts and reels from upload to publication: content/views.py and        *)
(* content/tasks.py, the moderation queue of moderation/signals.py and the *)
(* decisions of moderation/services.py.                                    *)
(*                                                                         *)
(* Everything but a decision runs in autocommit: each SQL statement is an  *)
(* action.  instance.save() is an UPDATE of every column with the values   *)
(* loaded earlier, kept in copy.  A decision holds the FOR UPDATE lock of  *)
(* the queue row, but no lock on the content row.                          *)
(***************************************************************************)
EXTENDS Sequences

CONSTANTS
  Post, Reel,  \* primary keys of the two content tables
  Web,         \* processes that serve HTTP requests
  Celery,      \* processes that run transcode_reel
  None         \* no process, no content

Content == Post \cup Reel
Worker == Web \cup Celery
Verdict == {"approved", "rejected"}

ASSUME KindsDistinct == Post \cap Reel = {}
ASSUME ProcessesDistinct == Web \cap Celery = {}
ASSUME NoneIsNothing == None \notin Worker /\ None \notin Content

VARIABLES
  row,      \* the content row: moderation status, processing status, is_deleted
  queue,    \* status of the content's ModerationQueue row, or "none"
  log,      \* actions of the content's ModerationLog rows, oldest first
  told,     \* decisions the owner has been notified of
  tasks,    \* reels whose transcode_reel is in the broker
  lock,     \* who holds the row lock of the queue row
  pc,       \* where each process is
  item,     \* the content it works on
  copy,     \* the content row as it loaded it
  verdict   \* the decision a moderator asked for

table == <<row, queue, log, told>>
local == <<pc, item, copy, verdict>>
vars == <<table, tasks, lock, local>>

Absent == [state |-> "absent"]
Row == [state : {"live"}, status : {"pending_review", "published", "rejected"},
        proc : {"uploaded", "processing", "ready", "failed"}, deleted : BOOLEAN]

Exists(c) == row[c] # Absent
\* The default manager of SoftDeleteModel.
Live(c) == Exists(c) /\ ~row[c].deleted
\* What PublishedManager and ReelPublishedManager select; a post has no
\* processing status and is modelled as always ready.
IsPublic(c) == Live(c) /\ row[c].status = "published" /\ row[c].proc = "ready"

Steps == {"idle", "enqueue", "dispatch", "edit", "remove", "open", "decide",
          "notify", "mark", "transcode"}

TypeOK ==
  /\ row \in [Content -> Row \cup {Absent}]
  /\ queue \in [Content -> {"none", "pending"} \cup Verdict]
  /\ log \in [Content -> Seq(Verdict)]
  /\ told \in [Content -> SUBSET Verdict]
  /\ tasks \subseteq Reel
  /\ lock \in [Content -> Worker \cup {None}]
  /\ pc \in [Worker -> Steps]
  /\ item \in [Worker -> Content \cup {None}]
  /\ copy \in [Worker -> Row \cup {Absent}]
  /\ verdict \in [Worker -> Verdict]

Init ==
  /\ row = [c \in Content |-> Absent]
  /\ queue = [c \in Content |-> "none"]
  /\ log = [c \in Content |-> <<>>]
  /\ told = [c \in Content |-> {}]
  /\ tasks = {}
  /\ lock = [c \in Content |-> None]
  /\ pc = [p \in Worker |-> "idle"]
  /\ item = [p \in Worker |-> None]
  /\ copy = [p \in Worker |-> Absent]
  /\ verdict = [p \in Worker |-> "approved"]

-----------------------------------------------------------------------------
(* Processes                                                               *)

\* p goes on at step with content c and the row r it has loaded.
Goto(p, step, c, r) ==
  /\ pc' = [pc EXCEPT ![p] = step]
  /\ item' = [item EXCEPT ![p] = c]
  /\ copy' = [copy EXCEPT ![p] = r]
  /\ UNCHANGED verdict

Done(p) == Goto(p, "idle", None, Absent)

Overwrite(c, r) == row' = [row EXCEPT ![c] = r]

-----------------------------------------------------------------------------
(* The owner: create, PATCH, DELETE                                        *)

New(c) == [state |-> "live", status |-> "pending_review",
           proc |-> IF c \in Reel THEN "uploaded" ELSE "ready", deleted |-> FALSE]

\* perform_create: the INSERT commits before the post_save receiver runs, and
\* before transcode_reel is handed to the broker.
Create(p, c) ==
  /\ p \in Web /\ pc[p] = "idle" /\ ~Exists(c)
  /\ Overwrite(c, New(c))
  /\ Goto(p, IF c \in Reel THEN "dispatch" ELSE "enqueue", c, Absent)
  /\ UNCHANGED <<queue, log, told, tasks, lock>>

\* The INSERT of the queue row: the post_save receiver for a post,
\* get_or_create at the end of transcode_reel for a reel.
Enqueue(p) ==
  /\ pc[p] = "enqueue"
  /\ queue' = [queue EXCEPT ![item[p]] = IF @ = "none" THEN "pending" ELSE @]
  /\ Done(p)
  /\ UNCHANGED <<row, log, told, tasks, lock>>

\* transcode_reel.delay
Dispatch(p) ==
  /\ pc[p] = "dispatch"
  /\ tasks' = tasks \cup {item[p]}
  /\ Done(p)
  /\ UNCHANGED <<table, lock>>

\* The broker refuses the task; the request answers 500, the reel stays.
DispatchFails(p) ==
  /\ pc[p] = "dispatch"
  /\ Done(p)
  /\ UNCHANGED <<table, tasks, lock>>

\* get_object of a PATCH or a DELETE.
LoadForWrite(p, c, op) ==
  /\ p \in Web /\ pc[p] = "idle" /\ Live(c)
  /\ Goto(p, op, c, row[c])
  /\ UNCHANGED <<table, tasks, lock>>

\* serializer.save(): caption and files are new, all other columns as loaded.
SaveEdit(p) ==
  /\ pc[p] = "edit"
  /\ Overwrite(item[p], copy[p])
  /\ Done(p)
  /\ UNCHANGED <<queue, log, told, tasks, lock>>

\* SoftDeleteModel.delete: a whole-row save too.
SaveDelete(p) ==
  /\ pc[p] = "remove"
  /\ Overwrite(item[p], [copy[p] EXCEPT !.deleted = TRUE])
  /\ Done(p)
  /\ UNCHANGED <<queue, log, told, tasks, lock>>

-----------------------------------------------------------------------------
(* The moderator: approve and reject                                       *)

\* The view finds the queue row, of any status, without a lock.
Open(p, c, v) ==
  /\ p \in Web /\ pc[p] = "idle" /\ queue[c] # "none"
  /\ pc' = [pc EXCEPT ![p] = "open"]
  /\ item' = [item EXCEPT ![p] = c]
  /\ verdict' = [verdict EXCEPT ![p] = v]
  /\ UNCHANGED <<table, tasks, lock, copy>>

\* The status a decision depends on: the one read under the lock.
StillPendingUnchecked(c) == TRUE  \* Faulty
StillPending(c) == queue[c] = "pending"

\* SELECT ... FOR UPDATE, the check, and the SELECT of the content object
\* (through the base manager: soft-deleted content is found).
LockAndLoad(p) ==
  /\ pc[p] = "open" /\ lock[item[p]] = None /\ StillPending(item[p])
  /\ lock' = [lock EXCEPT ![item[p]] = p]
  /\ Goto(p, "decide", item[p], row[item[p]])
  /\ UNCHANGED <<table, tasks>>

\* AlreadyDecidedError: 409, nothing changes.
Conflict(p) ==
  /\ pc[p] = "open" /\ lock[item[p]] = None /\ ~StillPending(item[p])
  /\ Done(p)
  /\ UNCHANGED <<table, tasks, lock>>

\* Faulty: reject and approve share a body that publishes.
StatusAfterAlwaysPublished(v) == "published"
\* Faulty: the queue's value is written into the content's column.
StatusAfterRaw(v) == v
StatusAfter(v) == IF v = "approved" THEN "published" ELSE "rejected"

\* Queue row, content row and log row, in one COMMIT.
Decide(p) ==
  LET c == item[p] v == verdict[p] IN
  /\ pc[p] = "decide"
  /\ queue' = [queue EXCEPT ![c] = v]
  /\ Overwrite(c, [copy[p] EXCEPT !.status = StatusAfter(v)])
  /\ log' = [log EXCEPT ![c] = Append(@, v)]
  /\ lock' = [lock EXCEPT ![c] = None]
  /\ Goto(p, "notify", c, Absent)
  /\ UNCHANGED <<told, tasks>>

\* _notify_content_owner is best effort: the second disjunct is its except.
Notify(p) ==
  /\ pc[p] = "notify"
  /\ \/ told' = [told EXCEPT ![item[p]] = @ \cup {verdict[p]}]
     \/ UNCHANGED told
  /\ Done(p)
  /\ UNCHANGED <<row, queue, log, tasks, lock>>

-----------------------------------------------------------------------------
(* transcode_reel                                                          *)

\* The worker acknowledges the task and loads the reel; a deleted reel ends it.
StartTranscode(p, c) ==
  /\ p \in Celery /\ pc[p] = "idle" /\ c \in tasks
  /\ tasks' = tasks \ {c}
  /\ IF Live(c) THEN Goto(p, "mark", c, row[c]) ELSE UNCHANGED local
  /\ UNCHANGED <<table, lock>>

WithProc(r, s) == [r EXCEPT !.proc = s]

\* save(update_fields=["processing_status"])
MarkProcessing(p) ==
  LET c == item[p] IN
  /\ pc[p] = "mark"
  /\ Overwrite(c, WithProc(row[c], "processing"))
  /\ Goto(p, "transcode", c, WithProc(copy[p], "processing"))
  /\ UNCHANGED <<queue, log, told, tasks, lock>>

AfterSuccessForgets(p) == Done(p)  \* Faulty
AfterSuccess(p) == Goto(p, "enqueue", item[p], Absent)

\* ffmpeg, ffprobe and the uploads succeeded: save() of the whole row, which
\* was loaded before they started.
TranscodeOk(p) ==
  /\ pc[p] = "transcode"
  /\ Overwrite(item[p], WithProc(copy[p], "ready"))
  /\ AfterSuccess(p)
  /\ UNCHANGED <<queue, log, told, tasks, lock>>

AfterFailureQueued(p) == Goto(p, "enqueue", item[p], Absent)  \* Faulty
AfterFailure(p) == Done(p)

TranscodeFails(p) ==
  LET c == item[p] IN
  /\ pc[p] = "transcode"
  /\ Overwrite(c, WithProc(row[c], "failed"))
  /\ AfterFailure(p)
  /\ UNCHANGED <<queue, log, told, tasks, lock>>

-----------------------------------------------------------------------------
\* The process dies; PostgreSQL rolls its transaction back.
Crash(p) ==
  /\ pc[p] # "idle"
  /\ Done(p)
  /\ lock' = [c \in Content |-> IF lock[c] = p THEN None ELSE lock[c]]
  /\ UNCHANGED <<table, tasks>>

DecisionStep(p) == LockAndLoad(p) \/ Conflict(p) \/ Decide(p) \/ Notify(p)
TranscodeStep(p) ==
  \/ MarkProcessing(p) \/ TranscodeOk(p) \/ TranscodeFails(p)
  \/ \E c \in Reel : StartTranscode(p, c)

\* Uploads, transcoding and decisions, without edits.
PipelineStep(p) ==
  \/ DecisionStep(p) \/ TranscodeStep(p) \/ Enqueue(p) \/ Dispatch(p)
  \/ \E c \in Content : Create(p, c) \/ \E v \in Verdict : Open(p, c, v)

OwnerStep(p) ==
  \/ SaveEdit(p) \/ SaveDelete(p)
  \/ \E c \in Content, op \in {"edit", "remove"} : LoadForWrite(p, c, op)

PipelineNext == \E p \in Worker : PipelineStep(p)
Next == \E p \in Worker :
          PipelineStep(p) \/ OwnerStep(p) \/ DispatchFails(p) \/ Crash(p)

\* Nothing dies and the broker answers.
SteadyNext == \E p \in Worker : PipelineStep(p) \/ OwnerStep(p)

PipelineSpec == Init /\ [][PipelineNext]_vars
Spec == Init /\ [][Next]_vars

\* A worker that runs a task finishes it, and takes the next one.  Edits go on
\* all the time.
Fairness ==
  /\ \A p \in Celery :
       /\ WF_vars(MarkProcessing(p) \/ TranscodeOk(p) \/ TranscodeFails(p))
       /\ WF_vars(Enqueue(p))
       /\ WF_vars(\E c \in Reel : StartTranscode(p, c))
  /\ \A p \in Web : WF_vars(Dispatch(p))
FairSpec == Init /\ [][SteadyNext]_vars /\ Fairness

-----------------------------------------------------------------------------
(* Properties                                                              *)

\* No moderation bypass: whatever edits, deletes, transcoding and crashes do to
\* the rows, published content has an approved queue row.  Stale whole-row
\* saves can lose a decision; they never forge one.
NothingUnapproved ==
  \A c \in Content : Exists(c) /\ row[c].status = "published" => queue[c] = "approved"

\* Two moderators who decide the same item at once make one decision and one
\* log row, and the owner is told of no other decision.
AuditTrail ==
  \A c \in Content :
    /\ log[c] = IF queue[c] \in Verdict THEN <<queue[c]>> ELSE <<>>
    /\ told[c] \subseteq {queue[c]}

\* What a decision means for the content it is about.
Shown(c) ==
  queue[c] # "none" =>
    row[c].status = CASE queue[c] = "pending" -> "pending_review"
                      [] queue[c] = "approved" -> "published"
                      [] queue[c] = "rejected" -> "rejected"

\* Queue and content agree, and a reel in the queue is ready to be watched.
\* Holds while nobody edits; the owner's PATCH breaks it.
DecisionShown ==
  \A c \in Content :
    /\ Shown(c)
    /\ queue[c] # "none" => row[c].proc = "ready"

\* Only the save of a PATCH or DELETE that loaded the row earlier can make
\* content disagree with its decision.
OnlyStaleSavesHide ==
  [][\A c \in Content :
       Shown(c) /\ ~Shown(c)' =>
         \E p \in Worker : item[p] = c /\ (SaveEdit(p) \/ SaveDelete(p))]_vars

\* is_deleted is set by a deletion and never cleared: content its owner deleted
\* stays deleted.  Refuted: a decision, or transcode_reel, saves a row it loaded
\* before the deletion.
DeletedStaysDeleted ==
  [][\A c \in Content : Exists(c) /\ row[c].deleted => row'[c].deleted]_vars

\* Content nobody works on any more that no moderator can find.
Stranded(c) ==
  /\ Live(c) /\ queue[c] = "none" /\ row[c].proc # "failed" /\ c \notin tasks
  /\ \A p \in Worker : item[p] # c \/ pc[p] \in {"edit", "remove"}

\* Only a crash, a broker that refuses the task, or a save that brings a deleted
\* or failed row back can strand content.
OnlyFailuresStrand ==
  [][\A c \in Content :
       Stranded(c)' /\ ~Stranded(c) =>
         \E p \in Worker :
           /\ item[p] = c
           /\ Crash(p) \/ DispatchFails(p) \/ SaveEdit(p)]_vars

\* A reel handed to the broker ends up before a moderator, failed or deleted,
\* whatever its owner edits meanwhile.
ReelsReachReview ==
  \A c \in Reel : c \in tasks ~> queue[c] # "none" \/ ~Live(c) \/ row[c].proc = "failed"

-----------------------------------------------------------------------------
(* Refinement                                                              *)

Decision(c) == IF queue[c] \in Verdict THEN queue[c] ELSE "none"
Promise == INSTANCE Publication WITH
             Content <- Content,
             verdict <- [c \in Content |-> Decision(c)],
             public <- {c \in Content : IsPublic(c)}
KeepsPromise == Promise!Spec
=============================================================================
