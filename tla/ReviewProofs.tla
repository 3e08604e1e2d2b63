---------------------------- MODULE ReviewProofs ----------------------------
(***************************************************************************)
(* Proofs about Review: its type invariant, that nothing is published      *)
(* without an approval, that an item is decided and logged once, that only *)
(* the owner's stale saves hide a decision, and that Review implements     *)
(* Publication.                                                            *)
(***************************************************************************)
EXTENDS Review, TLAPS

Loaded == {"edit", "remove", "decide", "mark", "transcode"}
Transcoding == {"dispatch", "mark", "transcode"}
Unqueued == Transcoding \cup {"enqueue"}

\* A process works on content that exists, with a row that existed.
WorkInv ==
  /\ \A p \in Worker : pc[p] # "idle" => item[p] \in Content /\ Exists(item[p])
  /\ \A p \in Worker : pc[p] \in Loaded => copy[p] # Absent
  /\ \A p \in Worker : pc[p] \in Transcoding => item[p] \in Reel
  /\ \A c \in Content : queue[c] # "none" => Exists(c)
  /\ \A c \in tasks : Exists(c)

\* A decision under way holds the lock of a pending queue row.
DecisionInv ==
  /\ \A p \in Worker : pc[p] \in {"open", "decide", "notify"} => queue[item[p]] # "none"
  /\ \A p \in Worker : pc[p] = "decide" => lock[item[p]] = p /\ queue[item[p]] = "pending"
  /\ \A p \in Worker : pc[p] = "notify" => queue[item[p]] = verdict[p]

\* What can be written over a row is no more public than the row.
CopyInv ==
  \A p \in Worker : pc[p] \in Loaded =>
    /\ copy[p].status = "published" => queue[item[p]] = "approved"
    /\ queue[item[p]] = "none" => copy[p].status = "pending_review"

\* Content that is not in the queue waits for its one process, and no decision
\* has touched its row.
UnqueuedInv ==
  /\ \A p \in Worker : pc[p] \in Unqueued => queue[item[p]] = "none"
  /\ \A p, q \in Worker :
       pc[p] \in Unqueued /\ pc[q] \in Unqueued /\ item[p] = item[q] => p = q
  /\ \A c \in tasks : queue[c] = "none" /\ \A p \in Worker : pc[p] \in Unqueued => item[p] # c
  /\ \A c \in Content : Exists(c) /\ queue[c] = "none" => row[c].status = "pending_review"

Safe == NothingUnapproved /\ AuditTrail
IInv == TypeOK /\ WorkInv /\ DecisionInv /\ CopyInv /\ UnqueuedInv /\ Safe

-----------------------------------------------------------------------------
(* Rows                                                                    *)

\* A save keeps a row a row, and changes the columns it names.
LEMMA RowWithProc ==
  ASSUME NEW r \in Row, NEW s \in {"uploaded", "processing", "ready", "failed"}
  PROVE  WithProc(r, s) \in Row /\ WithProc(r, s).status = r.status
BY DEF Row, WithProc

LEMMA RowDeleted ==
  ASSUME NEW r \in Row
  PROVE  /\ [r EXCEPT !.deleted = TRUE] \in Row
         /\ [r EXCEPT !.deleted = TRUE].status = r.status
BY DEF Row

\* A decision writes the status that shows it, and keeps the other columns.
LEMMA RowDecided ==
  ASSUME NEW r \in Row, NEW v \in Verdict
  PROVE  /\ [r EXCEPT !.status = StatusAfter(v)] \in Row
         /\ v = "approved" => [r EXCEPT !.status = StatusAfter(v)].status = "published"
         /\ v = "rejected" => [r EXCEPT !.status = StatusAfter(v)].status = "rejected"
BY DEF Row, StatusAfter, Verdict

\* A new row.
LEMMA NewRow ==
  ASSUME NEW c PROVE New(c) \in Row /\ New(c).status = "pending_review"
BY DEF New, Row

\* No row is the absent one.
LEMMA RowIsThere == Absent \notin Row
BY DEF Absent, Row

\* Every step keeps the types.
LEMMA TypedStep == TypeOK /\ WorkInv /\ [Next]_vars => TypeOK'
<1> SUFFICES ASSUME TypeOK, WorkInv, [Next]_vars PROVE TypeOK'
  OBVIOUS
<1> USE RowIsThere DEF TypeOK, WorkInv, Goto, Done, Overwrite, table, local, Steps, Exists,
       Loaded, Transcoding
<1>1. ASSUME NEW p \in Worker, NEW c \in Content, Create(p, c) PROVE TypeOK'
  BY <1>1, NewRow DEF Create
<1>2. ASSUME NEW p \in Worker, Enqueue(p) PROVE TypeOK'
  BY <1>2 DEF Enqueue
<1>3. ASSUME NEW p \in Worker, Dispatch(p) PROVE TypeOK'
  BY <1>3 DEF Dispatch
<1>4. ASSUME NEW p \in Worker, DispatchFails(p) PROVE TypeOK'
  BY <1>4 DEF DispatchFails
<1>5. ASSUME NEW p \in Worker, NEW c \in Content, NEW op \in {"edit", "remove"},
             LoadForWrite(p, c, op)
      PROVE  TypeOK'
  BY <1>5 DEF LoadForWrite
<1>6. ASSUME NEW p \in Worker, SaveEdit(p) PROVE TypeOK'
  BY <1>6 DEF SaveEdit
<1>7. ASSUME NEW p \in Worker, SaveDelete(p) PROVE TypeOK'
  <2>1. copy[p] \in Row
    BY <1>7 DEF SaveDelete
  <2>2. QED
    BY <1>7, <2>1, RowDeleted DEF SaveDelete
<1>8. ASSUME NEW p \in Worker, NEW c \in Content, NEW v \in Verdict, Open(p, c, v) PROVE TypeOK'
  BY <1>8 DEF Open
<1>9. ASSUME NEW p \in Worker, LockAndLoad(p) PROVE TypeOK'
  BY <1>9 DEF LockAndLoad
<1>10. ASSUME NEW p \in Worker, Conflict(p) PROVE TypeOK'
  BY <1>10 DEF Conflict
<1>11. ASSUME NEW p \in Worker, Decide(p) PROVE TypeOK'
  <2>1. copy[p] \in Row /\ item[p] \in Content /\ verdict[p] \in Verdict
    BY <1>11 DEF Decide
  <2>2. row' \in [Content -> Row \cup {Absent}]
    BY <1>11, <2>1, RowDecided DEF Decide
  <2>3. log' \in [Content -> Seq(Verdict)]
    BY <1>11, <2>1 DEF Decide
  <2>4. QED
    BY <1>11, <2>1, <2>2, <2>3 DEF Decide
<1>12. ASSUME NEW p \in Worker, Notify(p) PROVE TypeOK'
  BY <1>12 DEF Notify
<1>13. ASSUME NEW p \in Worker, NEW c \in Reel, StartTranscode(p, c) PROVE TypeOK'
  <2>1. c \in Content /\ row[c] \in Row \cup {Absent} /\ tasks \ {c} \subseteq Reel
    BY DEF Content
  <2>2. CASE Live(c)
    <3>1. Goto(p, "mark", c, row[c]) /\ UNCHANGED <<table, lock>> /\ tasks' = tasks \ {c}
      BY <1>13, <2>2 DEF StartTranscode
    <3>2. QED
      BY <2>1, <3>1
  <2>3. CASE ~Live(c)
    BY <1>13, <2>1, <2>3 DEF StartTranscode
  <2>4. QED
    BY <2>2, <2>3
<1>14. ASSUME NEW p \in Worker, MarkProcessing(p) PROVE TypeOK'
  <2>1. copy[p] \in Row /\ item[p] \in Content /\ row[item[p]] \in Row
    BY <1>14 DEF MarkProcessing
  <2>2. QED
    BY <1>14, <2>1, RowWithProc DEF MarkProcessing
<1>15. ASSUME NEW p \in Worker, TranscodeOk(p) PROVE TypeOK'
  <2>1. copy[p] \in Row /\ item[p] \in Content
    BY <1>15 DEF TranscodeOk
  <2>2. QED
    BY <1>15, <2>1, RowWithProc DEF TranscodeOk, AfterSuccess
<1>16. ASSUME NEW p \in Worker, TranscodeFails(p) PROVE TypeOK'
  <2>1. item[p] \in Content /\ row[item[p]] \in Row
    BY <1>16 DEF TranscodeFails
  <2>2. QED
    BY <1>16, <2>1, RowWithProc DEF TranscodeFails, AfterFailure
<1>17. ASSUME NEW p \in Worker, Crash(p) PROVE TypeOK'
  BY <1>17 DEF Crash
<1>18. CASE UNCHANGED vars
  BY <1>18 DEF vars
<1>19. QED
  BY <1>1, <1>2, <1>3, <1>4, <1>5, <1>6, <1>7, <1>8, <1>9, <1>10, <1>11, <1>12, <1>13, <1>14,
     <1>15, <1>16, <1>17, <1>18
     DEF Next, PipelineStep, OwnerStep, DecisionStep, TranscodeStep

-----------------------------------------------------------------------------
(* The invariant                                                           *)

\* Every step keeps WorkInv.
LEMMA WorkStep == TypeOK /\ WorkInv /\ [Next]_vars => WorkInv'
<1> SUFFICES ASSUME TypeOK, WorkInv, [Next]_vars PROVE WorkInv'
  OBVIOUS
<1> USE RowIsThere DEF TypeOK, WorkInv, Goto, Done, Overwrite, table, local, Exists, Loaded,
       Transcoding
<1>1. ASSUME NEW p \in Worker, NEW c \in Content, Create(p, c) PROVE WorkInv'
  BY <1>1, NewRow DEF Create, Content
<1>2. ASSUME NEW p \in Worker, Enqueue(p) PROVE WorkInv'
  BY <1>2 DEF Enqueue
<1>3. ASSUME NEW p \in Worker, Dispatch(p) PROVE WorkInv'
  BY <1>3 DEF Dispatch
<1>4. ASSUME NEW p \in Worker, DispatchFails(p) PROVE WorkInv'
  BY <1>4 DEF DispatchFails
<1>5. ASSUME NEW p \in Worker, NEW c \in Content, NEW op \in {"edit", "remove"},
             LoadForWrite(p, c, op)
      PROVE  WorkInv'
  BY <1>5 DEF LoadForWrite, Live
<1>6. ASSUME NEW p \in Worker, SaveEdit(p) PROVE WorkInv'
  BY <1>6 DEF SaveEdit
<1>7. ASSUME NEW p \in Worker, SaveDelete(p) PROVE WorkInv'
  <2>1. copy[p] \in Row
    BY <1>7 DEF SaveDelete
  <2>2. QED
    BY <1>7, <2>1, RowDeleted DEF SaveDelete
<1>8. ASSUME NEW p \in Worker, NEW c \in Content, NEW v \in Verdict,
             Open(p, c, v) PROVE WorkInv'
  BY <1>8 DEF Open
<1>9. ASSUME NEW p \in Worker, LockAndLoad(p) PROVE WorkInv'
  BY <1>9 DEF LockAndLoad
<1>10. ASSUME NEW p \in Worker, Conflict(p) PROVE WorkInv'
  BY <1>10 DEF Conflict
<1>11. ASSUME NEW p \in Worker, Decide(p) PROVE WorkInv'
  <2>1. copy[p] \in Row /\ item[p] \in Content /\ verdict[p] \in Verdict
    BY <1>11 DEF Decide
  <2>2. [copy[p] EXCEPT !.status = StatusAfter(verdict[p])] \in Row
    BY <2>1, RowDecided
  <2>3. row' = [row EXCEPT ![item[p]] = [copy[p] EXCEPT !.status = StatusAfter(verdict[p])]]
    BY <1>11 DEF Decide
  <2>4. row'[item[p]] # Absent /\ \A c \in Content : row[c] # Absent => row'[c] # Absent
    BY <2>1, <2>2, <2>3
  <2>5. QED
    BY <1>11, <2>1, <2>4 DEF Decide
<1>12. ASSUME NEW p \in Worker, Notify(p) PROVE WorkInv'
  BY <1>12 DEF Notify
<1>13. ASSUME NEW p \in Worker, NEW c \in Reel, StartTranscode(p, c) PROVE WorkInv'
  <2>1. CASE Live(c)
    <3>1. Goto(p, "mark", c, row[c]) /\ UNCHANGED <<table, lock>> /\ tasks' = tasks \ {c}
      BY <1>13, <2>1 DEF StartTranscode
    <3>2. QED
      BY <2>1, <3>1 DEF Live, Content
  <2>2. CASE ~Live(c)
    BY <1>13, <2>2 DEF StartTranscode
  <2>3. QED
    BY <2>1, <2>2
<1>14. ASSUME NEW p \in Worker, MarkProcessing(p) PROVE WorkInv'
  <2>1. copy[p] \in Row /\ row[item[p]] \in Row
    BY <1>14 DEF MarkProcessing
  <2>2. QED
    BY <1>14, <2>1, RowWithProc DEF MarkProcessing
<1>15. ASSUME NEW p \in Worker, TranscodeOk(p) PROVE WorkInv'
  <2>1. copy[p] \in Row
    BY <1>15 DEF TranscodeOk
  <2>2. QED
    BY <1>15, <2>1, RowWithProc DEF TranscodeOk, AfterSuccess
<1>16. ASSUME NEW p \in Worker, TranscodeFails(p) PROVE WorkInv'
  <2>1. row[item[p]] \in Row
    BY <1>16 DEF TranscodeFails
  <2>2. QED
    BY <1>16, <2>1, RowWithProc DEF TranscodeFails, AfterFailure
<1>17. ASSUME NEW p \in Worker, Crash(p) PROVE WorkInv'
  BY <1>17 DEF Crash
<1>18. CASE UNCHANGED vars
  BY <1>18 DEF vars
<1>19. QED
  BY <1>1, <1>2, <1>3, <1>4, <1>5, <1>6, <1>7, <1>8, <1>9, <1>10, <1>11, <1>12, <1>13, <1>14,
     <1>15, <1>16, <1>17, <1>18
     DEF Next, PipelineStep, OwnerStep, DecisionStep, TranscodeStep

\* Every step keeps DecisionInv.
LEMMA DecisionStepKeeps == TypeOK /\ WorkInv /\ DecisionInv /\ [Next]_vars => DecisionInv'
<1> SUFFICES ASSUME TypeOK, WorkInv, DecisionInv, [Next]_vars PROVE DecisionInv'
  OBVIOUS
<1> USE NoneIsNothing DEF TypeOK, WorkInv, DecisionInv, Goto, Done, Overwrite, table, local
<1>1. ASSUME NEW p \in Worker, NEW c \in Content, Create(p, c) PROVE DecisionInv'
  BY <1>1 DEF Create
<1>2. ASSUME NEW p \in Worker, Enqueue(p) PROVE DecisionInv'
  BY <1>2 DEF Enqueue
<1>3. ASSUME NEW p \in Worker, Dispatch(p) PROVE DecisionInv'
  BY <1>3 DEF Dispatch
<1>4. ASSUME NEW p \in Worker, DispatchFails(p) PROVE DecisionInv'
  BY <1>4 DEF DispatchFails
<1>5. ASSUME NEW p \in Worker, NEW c \in Content, NEW op \in {"edit", "remove"},
             LoadForWrite(p, c, op)
      PROVE  DecisionInv'
  BY <1>5 DEF LoadForWrite
<1>6. ASSUME NEW p \in Worker, SaveEdit(p) PROVE DecisionInv'
  BY <1>6 DEF SaveEdit
<1>7. ASSUME NEW p \in Worker, SaveDelete(p) PROVE DecisionInv'
  BY <1>7 DEF SaveDelete
<1>8. ASSUME NEW p \in Worker, NEW c \in Content, NEW v \in Verdict, Open(p, c, v)
      PROVE  DecisionInv'
  BY <1>8 DEF Open
<1>9. ASSUME NEW p \in Worker, LockAndLoad(p) PROVE DecisionInv'
  BY <1>9 DEF LockAndLoad, StillPending
<1>10. ASSUME NEW p \in Worker, Conflict(p) PROVE DecisionInv'
  BY <1>10 DEF Conflict
<1>11. ASSUME NEW p \in Worker, Decide(p) PROVE DecisionInv'
  <2>1. item[p] \in Content /\ verdict[p] \in Verdict /\ verdict[p] \notin {"none", "pending"}
    BY <1>11 DEF Decide, Verdict
  <2>2. \A q \in Worker \ {p} : pc[q] = "decide" => item[q] # item[p]
    BY <1>11 DEF Decide
  <2>3. \A q \in Worker \ {p} : pc[q] = "notify" => item[q] # item[p]
    BY <1>11, <2>1 DEF Decide, Verdict
  <2>4. QED
    BY <1>11, <2>1, <2>2, <2>3 DEF Decide
<1>12. ASSUME NEW p \in Worker, Notify(p) PROVE DecisionInv'
  BY <1>12 DEF Notify
<1>13. ASSUME NEW p \in Worker, NEW c \in Reel, StartTranscode(p, c) PROVE DecisionInv'
  <2>1. CASE Live(c)
    <3>1. Goto(p, "mark", c, row[c]) /\ UNCHANGED <<table, lock>>
      BY <1>13, <2>1 DEF StartTranscode
    <3>2. QED
      BY <3>1
  <2>2. CASE ~Live(c)
    BY <1>13, <2>2 DEF StartTranscode
  <2>3. QED
    BY <2>1, <2>2
<1>14. ASSUME NEW p \in Worker, MarkProcessing(p) PROVE DecisionInv'
  BY <1>14 DEF MarkProcessing
<1>15. ASSUME NEW p \in Worker, TranscodeOk(p) PROVE DecisionInv'
  BY <1>15 DEF TranscodeOk, AfterSuccess
<1>16. ASSUME NEW p \in Worker, TranscodeFails(p) PROVE DecisionInv'
  BY <1>16 DEF TranscodeFails, AfterFailure
<1>17. ASSUME NEW p \in Worker, Crash(p) PROVE DecisionInv'
  BY <1>17 DEF Crash
<1>18. CASE UNCHANGED vars
  BY <1>18 DEF vars
<1>19. QED
  BY <1>1, <1>2, <1>3, <1>4, <1>5, <1>6, <1>7, <1>8, <1>9, <1>10, <1>11, <1>12, <1>13, <1>14,
     <1>15, <1>16, <1>17, <1>18
     DEF Next, PipelineStep, OwnerStep, DecisionStep, TranscodeStep

\* Every step keeps CopyInv.
LEMMA CopyStep ==
  TypeOK /\ WorkInv /\ DecisionInv /\ CopyInv /\ UnqueuedInv /\
  NothingUnapproved /\ [Next]_vars =>
    CopyInv'
<1> SUFFICES ASSUME TypeOK, WorkInv, DecisionInv, CopyInv, UnqueuedInv, NothingUnapproved,
             [Next]_vars PROVE CopyInv'
  OBVIOUS
<1> USE DEF TypeOK, WorkInv, DecisionInv, CopyInv, Goto, Done, Overwrite, table, local, Loaded
<1>1. ASSUME NEW p \in Worker, NEW c \in Content, Create(p, c) PROVE CopyInv'
  BY <1>1 DEF Create
<1>2. ASSUME NEW p \in Worker, Enqueue(p) PROVE CopyInv'
  BY <1>2 DEF Enqueue
<1>3. ASSUME NEW p \in Worker, Dispatch(p) PROVE CopyInv'
  BY <1>3 DEF Dispatch
<1>4. ASSUME NEW p \in Worker, DispatchFails(p) PROVE CopyInv'
  BY <1>4 DEF DispatchFails
<1>5. ASSUME NEW p \in Worker, NEW c \in Content, NEW op \in {"edit", "remove"},
             LoadForWrite(p, c, op)
      PROVE  CopyInv'
  BY <1>5 DEF LoadForWrite, UnqueuedInv, NothingUnapproved, Live
<1>6. ASSUME NEW p \in Worker, SaveEdit(p) PROVE CopyInv'
  BY <1>6 DEF SaveEdit
<1>7. ASSUME NEW p \in Worker, SaveDelete(p) PROVE CopyInv'
  BY <1>7 DEF SaveDelete
<1>8. ASSUME NEW p \in Worker, NEW c \in Content, NEW v \in Verdict,
             Open(p, c, v) PROVE CopyInv'
  BY <1>8 DEF Open
<1>9. ASSUME NEW p \in Worker, LockAndLoad(p) PROVE CopyInv'
  BY <1>9 DEF LockAndLoad, StillPending, UnqueuedInv, NothingUnapproved, Exists
<1>10. ASSUME NEW p \in Worker, Conflict(p) PROVE CopyInv'
  BY <1>10 DEF Conflict
<1>11. ASSUME NEW p \in Worker, Decide(p) PROVE CopyInv'
  <2>1. item[p] \in Content /\ verdict[p] \in Verdict /\ verdict[p] # "none"
    BY <1>11 DEF Decide, Verdict
  <2>2. queue[item[p]] = "pending"
    BY <1>11 DEF Decide
  <2>3. \A q \in Worker \ {p} : pc[q] \in Loaded => copy[q].status # "published" \/ item[q] # item[p]
    BY <2>2
  <2>4. QED
    BY <1>11, <2>1, <2>3 DEF Decide
<1>12. ASSUME NEW p \in Worker, Notify(p) PROVE CopyInv'
  BY <1>12 DEF Notify
<1>13. ASSUME NEW p \in Worker, NEW c \in Reel, StartTranscode(p, c) PROVE CopyInv'
  <2>1. CASE Live(c)
    <3>1. Goto(p, "mark", c, row[c]) /\ UNCHANGED <<table, lock>> /\ c \in tasks /\ tasks' = tasks \ {c}
      BY <1>13, <2>1 DEF StartTranscode
    <3>2. QED
      BY <2>1, <3>1 DEF Live, Content, Exists, UnqueuedInv, NothingUnapproved
  <2>2. CASE ~Live(c)
    BY <1>13, <2>2 DEF StartTranscode
  <2>3. QED
    BY <2>1, <2>2
<1>14. ASSUME NEW p \in Worker, MarkProcessing(p) PROVE CopyInv'
  <2>1. copy[p] \in Row /\ WithProc(copy[p], "processing").status = copy[p].status
    BY <1>14, RowIsThere, RowWithProc DEF MarkProcessing
  <2>2. QED
    BY <1>14, <2>1 DEF MarkProcessing
<1>15. ASSUME NEW p \in Worker, TranscodeOk(p) PROVE CopyInv'
  BY <1>15 DEF TranscodeOk, AfterSuccess
<1>16. ASSUME NEW p \in Worker, TranscodeFails(p) PROVE CopyInv'
  BY <1>16 DEF TranscodeFails, AfterFailure
<1>17. ASSUME NEW p \in Worker, Crash(p) PROVE CopyInv'
  BY <1>17 DEF Crash
<1>18. CASE UNCHANGED vars
  BY <1>18 DEF vars
<1>19. QED
  BY <1>1, <1>2, <1>3, <1>4, <1>5, <1>6, <1>7, <1>8, <1>9, <1>10, <1>11, <1>12, <1>13, <1>14,
     <1>15, <1>16, <1>17, <1>18
     DEF Next, PipelineStep, OwnerStep, DecisionStep, TranscodeStep

\* Every step keeps UnqueuedInv.
LEMMA UnqueuedStep ==
  TypeOK /\ WorkInv /\ DecisionInv /\ CopyInv /\ UnqueuedInv /\ [Next]_vars =>
    UnqueuedInv'
<1> SUFFICES ASSUME TypeOK, WorkInv, DecisionInv, CopyInv, UnqueuedInv, [Next]_vars
             PROVE UnqueuedInv'
  OBVIOUS
<1> USE DEF TypeOK, WorkInv, DecisionInv, CopyInv, UnqueuedInv, Goto, Done, Overwrite, table,
       local, Loaded, Transcoding, Unqueued, Exists
<1>1. ASSUME NEW p \in Worker, NEW c \in Content, Create(p, c) PROVE UnqueuedInv'
  BY <1>1, NewRow DEF Create, Content
<1>2. ASSUME NEW p \in Worker, Enqueue(p) PROVE UnqueuedInv'
  BY <1>2 DEF Enqueue
<1>3. ASSUME NEW p \in Worker, Dispatch(p) PROVE UnqueuedInv'
  BY <1>3 DEF Dispatch
<1>4. ASSUME NEW p \in Worker, DispatchFails(p) PROVE UnqueuedInv'
  BY <1>4 DEF DispatchFails
<1>5. ASSUME NEW p \in Worker, NEW c \in Content, NEW op \in {"edit", "remove"},
             LoadForWrite(p, c, op)
      PROVE  UnqueuedInv'
  BY <1>5 DEF LoadForWrite, Live
<1>6. ASSUME NEW p \in Worker, SaveEdit(p) PROVE UnqueuedInv'
  BY <1>6 DEF SaveEdit
<1>7. ASSUME NEW p \in Worker, SaveDelete(p) PROVE UnqueuedInv'
  <2>1. copy[p] \in Row /\ [copy[p] EXCEPT !.deleted = TRUE].status = copy[p].status
    BY <1>7, RowIsThere, RowDeleted DEF SaveDelete
  <2>2. QED
    BY <1>7, <2>1 DEF SaveDelete
<1>8. ASSUME NEW p \in Worker, NEW c \in Content, NEW v \in Verdict, Open(p, c, v)
      PROVE  UnqueuedInv'
  BY <1>8 DEF Open
<1>9. ASSUME NEW p \in Worker, LockAndLoad(p) PROVE UnqueuedInv'
  BY <1>9 DEF LockAndLoad
<1>10. ASSUME NEW p \in Worker, Conflict(p) PROVE UnqueuedInv'
  BY <1>10 DEF Conflict
<1>11. ASSUME NEW p \in Worker, Decide(p) PROVE UnqueuedInv'
  <2>1. item[p] \in Content /\ verdict[p] \in Verdict /\ verdict[p] # "none" /\ queue[item[p]] # "none"
    BY <1>11 DEF Decide, Verdict
  <2>2. QED
    BY <1>11, <2>1 DEF Decide
<1>12. ASSUME NEW p \in Worker, Notify(p) PROVE UnqueuedInv'
  BY <1>12 DEF Notify
<1>13. ASSUME NEW p \in Worker, NEW c \in Reel, StartTranscode(p, c) PROVE UnqueuedInv'
  <2>1. CASE Live(c)
    <3>1. Goto(p, "mark", c, row[c]) /\ UNCHANGED <<table, lock>> /\ c \in tasks /\ tasks' = tasks \ {c}
      BY <1>13, <2>1 DEF StartTranscode
    <3>2. QED
      BY <2>1, <3>1 DEF Live, Content
  <2>2. CASE ~Live(c)
    BY <1>13, <2>2 DEF StartTranscode
  <2>3. QED
    BY <2>1, <2>2
<1>14. ASSUME NEW p \in Worker, MarkProcessing(p) PROVE UnqueuedInv'
  <2>1. row[item[p]] \in Row /\ WithProc(row[item[p]], "processing").status = row[item[p]].status
    BY <1>14, RowIsThere, RowWithProc DEF MarkProcessing
  <2>2. QED
    BY <1>14, <2>1 DEF MarkProcessing
<1>15. ASSUME NEW p \in Worker, TranscodeOk(p) PROVE UnqueuedInv'
  <2>1. copy[p] \in Row /\ WithProc(copy[p], "ready").status = copy[p].status
    BY <1>15, RowIsThere, RowWithProc DEF TranscodeOk
  <2>2. QED
    BY <1>15, <2>1 DEF TranscodeOk, AfterSuccess
<1>16. ASSUME NEW p \in Worker, TranscodeFails(p) PROVE UnqueuedInv'
  <2>1. row[item[p]] \in Row /\ WithProc(row[item[p]], "failed").status = row[item[p]].status
    BY <1>16, RowIsThere, RowWithProc DEF TranscodeFails
  <2>2. QED
    BY <1>16, <2>1 DEF TranscodeFails, AfterFailure
<1>17. ASSUME NEW p \in Worker, Crash(p) PROVE UnqueuedInv'
  BY <1>17 DEF Crash
<1>18. CASE UNCHANGED vars
  BY <1>18 DEF vars
<1>19. QED
  BY <1>1, <1>2, <1>3, <1>4, <1>5, <1>6, <1>7, <1>8, <1>9, <1>10, <1>11, <1>12, <1>13, <1>14,
     <1>15, <1>16, <1>17, <1>18
     DEF Next, PipelineStep, OwnerStep, DecisionStep, TranscodeStep

-----------------------------------------------------------------------------
(* The properties                                                          *)

\* Every step keeps NothingUnapproved.
LEMMA UnapprovedStep ==
  TypeOK /\ WorkInv /\ DecisionInv /\ CopyInv /\ UnqueuedInv /\
  NothingUnapproved /\ [Next]_vars =>
    NothingUnapproved'
<1> SUFFICES ASSUME TypeOK, WorkInv, DecisionInv, CopyInv, UnqueuedInv, NothingUnapproved,
             [Next]_vars PROVE NothingUnapproved'
  OBVIOUS
<1> USE DEF TypeOK, WorkInv, DecisionInv, NothingUnapproved, Loaded, Goto, Done, Overwrite,
       table, local, Exists
<1>1. ASSUME NEW p \in Worker, NEW c \in Content, Create(p, c) PROVE NothingUnapproved'
  BY <1>1, NewRow DEF Create, Content
<1>2. ASSUME NEW p \in Worker, Enqueue(p) PROVE NothingUnapproved'
  BY <1>2 DEF Enqueue, UnqueuedInv, Unqueued
<1>3. ASSUME NEW p \in Worker, Dispatch(p) PROVE NothingUnapproved'
  BY <1>3 DEF Dispatch
<1>4. ASSUME NEW p \in Worker, DispatchFails(p) PROVE NothingUnapproved'
  BY <1>4 DEF DispatchFails
<1>5. ASSUME NEW p \in Worker, NEW c \in Content, NEW op \in {"edit", "remove"},
             LoadForWrite(p, c, op)
      PROVE  NothingUnapproved'
  BY <1>5 DEF LoadForWrite
<1>6. ASSUME NEW p \in Worker, SaveEdit(p) PROVE NothingUnapproved'
  <2>1. copy[p].status = "published" => queue[item[p]] = "approved"
    BY <1>6 DEF SaveEdit, CopyInv, Loaded
  <2>2. QED
    BY <1>6, <2>1 DEF SaveEdit
<1>7. ASSUME NEW p \in Worker, SaveDelete(p) PROVE NothingUnapproved'
  <2>1. copy[p] \in Row /\ [copy[p] EXCEPT !.deleted = TRUE].status = copy[p].status
    BY <1>7, RowIsThere, RowDeleted DEF SaveDelete
  <2>2. copy[p].status = "published" => queue[item[p]] = "approved"
    BY <1>7 DEF SaveDelete, CopyInv, Loaded
  <2>3. QED
    BY <1>7, <2>1, <2>2 DEF SaveDelete
<1>8. ASSUME NEW p \in Worker, NEW c \in Content, NEW v \in Verdict, Open(p, c, v)
      PROVE  NothingUnapproved'
  BY <1>8 DEF Open
<1>9. ASSUME NEW p \in Worker, LockAndLoad(p) PROVE NothingUnapproved'
  BY <1>9 DEF LockAndLoad
<1>10. ASSUME NEW p \in Worker, Conflict(p) PROVE NothingUnapproved'
  BY <1>10 DEF Conflict
<1>11. ASSUME NEW p \in Worker, Decide(p) PROVE NothingUnapproved'
  <2>1. item[p] \in Content /\ verdict[p] \in Verdict /\ copy[p] \in Row
    BY <1>11, RowIsThere DEF Decide, Loaded
  <2>2. verdict[p] = "rejected" =>
          [copy[p] EXCEPT !.status = StatusAfter(verdict[p])].status = "rejected"
    BY <2>1 DEF StatusAfter, Row
  <2>3. \A c \in Content : c # item[p] => queue'[c] = queue[c] /\ row'[c] = row[c]
    BY <1>11, <2>1 DEF Decide
  <2>4. /\ queue'[item[p]] = verdict[p]
        /\ verdict[p] = "rejected" => row'[item[p]].status = "rejected"
    BY <1>11, <2>1, <2>2 DEF Decide
  <2>5. QED
    BY <2>1, <2>3, <2>4 DEF Verdict
<1>12. ASSUME NEW p \in Worker, Notify(p) PROVE NothingUnapproved'
  BY <1>12 DEF Notify
<1>13. ASSUME NEW p \in Worker, NEW c \in Reel, StartTranscode(p, c) PROVE NothingUnapproved'
  BY <1>13 DEF StartTranscode
<1>14. ASSUME NEW p \in Worker, MarkProcessing(p) PROVE NothingUnapproved'
  <2>1. row[item[p]] \in Row /\ WithProc(row[item[p]], "processing").status = row[item[p]].status
    BY <1>14, RowIsThere, RowWithProc DEF MarkProcessing
  <2>2. QED
    BY <1>14, <2>1 DEF MarkProcessing
<1>15. ASSUME NEW p \in Worker, TranscodeOk(p) PROVE NothingUnapproved'
  <2>1. copy[p] \in Row /\ WithProc(copy[p], "ready").status = copy[p].status
    BY <1>15, RowIsThere, RowWithProc DEF TranscodeOk
  <2>2. copy[p].status = "published" => queue[item[p]] = "approved"
    BY <1>15 DEF TranscodeOk, CopyInv, Loaded
  <2>3. QED
    BY <1>15, <2>1, <2>2 DEF TranscodeOk, AfterSuccess
<1>16. ASSUME NEW p \in Worker, TranscodeFails(p) PROVE NothingUnapproved'
  <2>1. row[item[p]] \in Row /\ WithProc(row[item[p]], "failed").status = row[item[p]].status
    BY <1>16, RowIsThere, RowWithProc DEF TranscodeFails
  <2>2. QED
    BY <1>16, <2>1 DEF TranscodeFails, AfterFailure
<1>17. ASSUME NEW p \in Worker, Crash(p) PROVE NothingUnapproved'
  BY <1>17 DEF Crash
<1>18. CASE UNCHANGED vars
  BY <1>18 DEF vars
<1>19. QED
  BY <1>1, <1>2, <1>3, <1>4, <1>5, <1>6, <1>7, <1>8, <1>9, <1>10, <1>11, <1>12, <1>13, <1>14,
     <1>15, <1>16, <1>17, <1>18
     DEF Next, PipelineStep, OwnerStep, DecisionStep, TranscodeStep

\* Every step keeps AuditTrail.
LEMMA AuditStep ==
  TypeOK /\ WorkInv /\ DecisionInv /\ UnqueuedInv /\ AuditTrail /\ [Next]_vars =>
    AuditTrail'
<1> SUFFICES ASSUME TypeOK, WorkInv, DecisionInv, UnqueuedInv, AuditTrail, [Next]_vars
             PROVE AuditTrail'
  OBVIOUS
<1> USE DEF TypeOK, WorkInv, DecisionInv, AuditTrail, Goto, Done, Overwrite, table, local
<1>1. ASSUME NEW p \in Worker, NEW c \in Content, Create(p, c) PROVE AuditTrail'
  BY <1>1 DEF Create
<1>2. ASSUME NEW p \in Worker, Enqueue(p) PROVE AuditTrail'
  <2>1. item[p] \in Content /\ queue[item[p]] = "none"
    BY <1>2 DEF Enqueue, UnqueuedInv, Unqueued
  <2>2. log[item[p]] = <<>> /\ told[item[p]] = {}
    <3>1. queue[item[p]] \notin Verdict
      BY <2>1 DEF Verdict
    <3>2. told[item[p]] \subseteq Verdict /\ told[item[p]] \subseteq {queue[item[p]]}
      BY <2>1
    <3>3. QED
      BY <2>1, <3>1, <3>2
  <2>3. queue'[item[p]] = "pending" /\ UNCHANGED <<log, told>>
    BY <1>2, <2>1 DEF Enqueue
  <2>4. \A c \in Content : c # item[p] => queue'[c] = queue[c]
    BY <1>2, <2>1 DEF Enqueue
  <2>5. QED
    BY <2>1, <2>2, <2>3, <2>4 DEF Verdict
<1>3. ASSUME NEW p \in Worker, Dispatch(p) PROVE AuditTrail'
  BY <1>3 DEF Dispatch
<1>4. ASSUME NEW p \in Worker, DispatchFails(p) PROVE AuditTrail'
  BY <1>4 DEF DispatchFails
<1>5. ASSUME NEW p \in Worker, NEW c \in Content, NEW op \in {"edit", "remove"},
             LoadForWrite(p, c, op)
      PROVE  AuditTrail'
  BY <1>5 DEF LoadForWrite
<1>6. ASSUME NEW p \in Worker, SaveEdit(p) PROVE AuditTrail'
  BY <1>6 DEF SaveEdit
<1>7. ASSUME NEW p \in Worker, SaveDelete(p) PROVE AuditTrail'
  BY <1>7 DEF SaveDelete
<1>8. ASSUME NEW p \in Worker, NEW c \in Content, NEW v \in Verdict, Open(p, c, v)
      PROVE  AuditTrail'
  BY <1>8 DEF Open
<1>9. ASSUME NEW p \in Worker, LockAndLoad(p) PROVE AuditTrail'
  BY <1>9 DEF LockAndLoad
<1>10. ASSUME NEW p \in Worker, Conflict(p) PROVE AuditTrail'
  BY <1>10 DEF Conflict
<1>11. ASSUME NEW p \in Worker, Decide(p) PROVE AuditTrail'
  <2>1. item[p] \in Content /\ verdict[p] \in Verdict /\ queue[item[p]] = "pending"
    BY <1>11 DEF Decide
  <2>2. log[item[p]] = <<>> /\ told[item[p]] = {}
    <3>1. queue[item[p]] \notin Verdict
      BY <2>1 DEF Verdict
    <3>2. told[item[p]] \subseteq Verdict /\ told[item[p]] \subseteq {queue[item[p]]}
      BY <2>1
    <3>3. QED
      BY <2>1, <3>1, <3>2
  <2>3. Append(<<>>, verdict[p]) = <<verdict[p]>>
    OBVIOUS
  <2>4. queue'[item[p]] = verdict[p] /\ log'[item[p]] = <<verdict[p]>> /\ told' = told
    BY <1>11, <2>1, <2>2, <2>3 DEF Decide
  <2>5. \A c \in Content : c # item[p] => queue'[c] = queue[c] /\ log'[c] = log[c]
    BY <1>11, <2>1 DEF Decide
  <2>6. QED
    BY <2>1, <2>2, <2>4, <2>5
<1>12. ASSUME NEW p \in Worker, Notify(p) PROVE AuditTrail'
  <2>1. item[p] \in Content /\ queue[item[p]] = verdict[p] /\ UNCHANGED <<queue, log>>
    BY <1>12 DEF Notify
  <2>2. told' = [told EXCEPT ![item[p]] = told[item[p]] \cup {verdict[p]}] \/ told' = told
    BY <1>12 DEF Notify
  <2>3. \A c \in Content : c # item[p] => told'[c] = told[c]
    BY <2>1, <2>2
  <2>4. told'[item[p]] \subseteq told[item[p]] \cup {verdict[p]}
    BY <2>1, <2>2
  <2>5. QED
    BY <2>1, <2>3, <2>4
<1>13. ASSUME NEW p \in Worker, NEW c \in Reel, StartTranscode(p, c) PROVE AuditTrail'
  BY <1>13 DEF StartTranscode
<1>14. ASSUME NEW p \in Worker, MarkProcessing(p) PROVE AuditTrail'
  BY <1>14 DEF MarkProcessing
<1>15. ASSUME NEW p \in Worker, TranscodeOk(p) PROVE AuditTrail'
  BY <1>15 DEF TranscodeOk
<1>16. ASSUME NEW p \in Worker, TranscodeFails(p) PROVE AuditTrail'
  BY <1>16 DEF TranscodeFails
<1>17. ASSUME NEW p \in Worker, Crash(p) PROVE AuditTrail'
  BY <1>17 DEF Crash
<1>18. CASE UNCHANGED vars
  BY <1>18 DEF vars
<1> HIDE DEF TypeOK, WorkInv, DecisionInv, AuditTrail
<1>19. QED
  BY <1>1, <1>2, <1>3, <1>4, <1>5, <1>6, <1>7, <1>8, <1>9, <1>10, <1>11, <1>12, <1>13, <1>14,
     <1>15, <1>16, <1>17, <1>18
     DEF Next, PipelineStep, OwnerStep, DecisionStep, TranscodeStep

\* What OnlyStaleSavesHide says of a step.
HiddenBySave ==
  \A c \in Content :
    Shown(c) /\ ~Shown(c)' =>
      \E p \in Worker : item[p] = c /\ (SaveEdit(p) \/ SaveDelete(p))

\* Only the saves of SaveEdit and SaveDelete hide what was shown.
LEMMA HideStep ==
  TypeOK /\ WorkInv /\ DecisionInv /\ CopyInv /\ UnqueuedInv /\ [Next]_vars =>
    HiddenBySave
<1> SUFFICES ASSUME TypeOK, WorkInv, DecisionInv, CopyInv, UnqueuedInv, [Next]_vars
             PROVE HiddenBySave
  OBVIOUS
<1> USE DEF TypeOK, WorkInv, DecisionInv, HiddenBySave, Goto, Done, Overwrite, table, local
<1>1. ASSUME NEW p \in Worker, NEW c \in Content, Create(p, c) PROVE HiddenBySave
  <2>1. queue[c] = "none" /\ UNCHANGED queue
    BY <1>1 DEF Create
  <2>2. \A d \in Content : d # c => row'[d] = row[d]
    BY <1>1 DEF Create
  <2>3. QED
    BY <2>1, <2>2 DEF Shown
<1>2. ASSUME NEW p \in Worker, Enqueue(p) PROVE HiddenBySave
  <2>1. item[p] \in Content /\ queue[item[p]] = "none" /\ row[item[p]].status = "pending_review"
    BY <1>2 DEF Enqueue, UnqueuedInv, Unqueued
  <2>2. queue'[item[p]] = "pending" /\ UNCHANGED row
    BY <1>2, <2>1 DEF Enqueue
  <2>3. \A d \in Content : d # item[p] => queue'[d] = queue[d]
    BY <1>2, <2>1 DEF Enqueue
  <2>4. QED
    BY <2>1, <2>2, <2>3 DEF Shown
<1>3. ASSUME NEW p \in Worker, Dispatch(p) PROVE HiddenBySave
  BY <1>3 DEF Dispatch, Shown
<1>4. ASSUME NEW p \in Worker, DispatchFails(p) PROVE HiddenBySave
  BY <1>4 DEF DispatchFails, Shown
<1>5. ASSUME NEW p \in Worker, NEW c \in Content, NEW op \in {"edit", "remove"},
             LoadForWrite(p, c, op)
      PROVE  HiddenBySave
  BY <1>5 DEF LoadForWrite, Shown
<1>6. ASSUME NEW p \in Worker, SaveEdit(p) PROVE HiddenBySave
  <2>1. \A d \in Content : d # item[p] => row'[d] = row[d] /\ queue'[d] = queue[d]
    BY <1>6 DEF SaveEdit
  <2>2. QED
    BY <1>6, <2>1 DEF Shown
<1>7. ASSUME NEW p \in Worker, SaveDelete(p) PROVE HiddenBySave
  <2>1. \A d \in Content : d # item[p] => row'[d] = row[d] /\ queue'[d] = queue[d]
    BY <1>7 DEF SaveDelete
  <2>2. QED
    BY <1>7, <2>1 DEF Shown
<1>8. ASSUME NEW p \in Worker, NEW c \in Content, NEW v \in Verdict, Open(p, c, v)
      PROVE  HiddenBySave
  BY <1>8 DEF Open, Shown
<1>9. ASSUME NEW p \in Worker, LockAndLoad(p) PROVE HiddenBySave
  BY <1>9 DEF LockAndLoad, Shown
<1>10. ASSUME NEW p \in Worker, Conflict(p) PROVE HiddenBySave
  BY <1>10 DEF Conflict, Shown
<1>11. ASSUME NEW p \in Worker, Decide(p) PROVE HiddenBySave
  <2>1. item[p] \in Content /\ verdict[p] \in Verdict /\ copy[p] \in Row
    BY <1>11, RowIsThere DEF Decide, Loaded
  <2>2. \A d \in Content : d # item[p] => row'[d] = row[d] /\ queue'[d] = queue[d]
    BY <1>11, <2>1 DEF Decide
  <2>3. [copy[p] EXCEPT !.status = StatusAfter(verdict[p])].status = StatusAfter(verdict[p])
    BY <2>1 DEF Row
  <2>4. queue'[item[p]] = verdict[p] /\ row'[item[p]].status = StatusAfter(verdict[p])
    BY <1>11, <2>1, <2>3 DEF Decide
  <2>5. QED
    BY <2>1, <2>2, <2>4 DEF Shown, StatusAfter, Verdict
<1>12. ASSUME NEW p \in Worker, Notify(p) PROVE HiddenBySave
  BY <1>12 DEF Notify, Shown
<1>13. ASSUME NEW p \in Worker, NEW c \in Reel, StartTranscode(p, c) PROVE HiddenBySave
  BY <1>13 DEF StartTranscode, Shown
<1>14. ASSUME NEW p \in Worker, MarkProcessing(p) PROVE HiddenBySave
  <2>1. queue[item[p]] = "none" /\ UNCHANGED queue
    BY <1>14 DEF MarkProcessing, UnqueuedInv, Unqueued, Transcoding
  <2>2. \A d \in Content : d # item[p] => row'[d] = row[d]
    BY <1>14 DEF MarkProcessing
  <2>3. QED
    BY <2>1, <2>2 DEF Shown
<1>15. ASSUME NEW p \in Worker, TranscodeOk(p) PROVE HiddenBySave
  <2>1. queue[item[p]] = "none" /\ UNCHANGED queue
    BY <1>15 DEF TranscodeOk, UnqueuedInv, Unqueued, Transcoding
  <2>2. \A d \in Content : d # item[p] => row'[d] = row[d]
    BY <1>15 DEF TranscodeOk
  <2>3. QED
    BY <2>1, <2>2 DEF Shown
<1>16. ASSUME NEW p \in Worker, TranscodeFails(p) PROVE HiddenBySave
  <2>1. queue[item[p]] = "none" /\ UNCHANGED queue
    BY <1>16 DEF TranscodeFails, UnqueuedInv, Unqueued, Transcoding
  <2>2. \A d \in Content : d # item[p] => row'[d] = row[d]
    BY <1>16 DEF TranscodeFails
  <2>3. QED
    BY <2>1, <2>2 DEF Shown
<1>17. ASSUME NEW p \in Worker, Crash(p) PROVE HiddenBySave
  BY <1>17 DEF Crash, Shown
<1>18. CASE UNCHANGED vars
  BY <1>18 DEF vars, Shown
<1> HIDE DEF TypeOK, WorkInv, DecisionInv, HiddenBySave
<1>19. QED
  BY <1>1, <1>2, <1>3, <1>4, <1>5, <1>6, <1>7, <1>8, <1>9, <1>10, <1>11, <1>12, <1>13, <1>14,
     <1>15, <1>16, <1>17, <1>18
     DEF Next, PipelineStep, OwnerStep, DecisionStep, TranscodeStep

\* A process that is idle works on nothing.
IdleInv == \A p \in Worker : pc[p] = "idle" => item[p] = None

\* Every step keeps IdleInv: whoever returns to idle forgets its content.
LEMMA IdleStep == TypeOK /\ IdleInv /\ [Next]_vars => IdleInv'
<1> SUFFICES ASSUME TypeOK, IdleInv, [Next]_vars PROVE IdleInv'
  OBVIOUS
<1> USE DEF TypeOK, IdleInv, Goto, Done, local
<1>1. ASSUME NEW p \in Worker, NEW c \in Content, Create(p, c) PROVE IdleInv'
  BY <1>1 DEF Create
<1>2. ASSUME NEW p \in Worker, NEW c \in Content, NEW op \in {"edit", "remove"},
             LoadForWrite(p, c, op)
      PROVE  IdleInv'
  BY <1>2 DEF LoadForWrite
<1>3. ASSUME NEW p \in Worker, NEW c \in Content, NEW v \in Verdict, Open(p, c, v) PROVE IdleInv'
  BY <1>3 DEF Open
<1>4. ASSUME NEW p \in Worker, NEW c \in Reel, StartTranscode(p, c) PROVE IdleInv'
  BY <1>4 DEF StartTranscode
<1>5. ASSUME NEW p \in Worker,
             Enqueue(p) \/ Dispatch(p) \/ DispatchFails(p) \/ SaveEdit(p) \/ SaveDelete(p) \/ Crash(p)
      PROVE  IdleInv'
  BY <1>5 DEF Enqueue, Dispatch, DispatchFails, SaveEdit, SaveDelete, Crash
<1>6. ASSUME NEW p \in Worker, LockAndLoad(p) \/ Conflict(p) \/ Decide(p) \/ Notify(p) PROVE IdleInv'
  BY <1>6 DEF LockAndLoad, Conflict, Decide, Notify
<1>7. ASSUME NEW p \in Worker, MarkProcessing(p) \/ TranscodeOk(p) \/ TranscodeFails(p) PROVE IdleInv'
  BY <1>7 DEF MarkProcessing, TranscodeOk, TranscodeFails, AfterSuccess, AfterFailure
<1>8. CASE UNCHANGED vars
  BY <1>8 DEF vars
<1> QED
  BY <1>1, <1>2, <1>3, <1>4, <1>5, <1>6, <1>7, <1>8
     DEF Next, PipelineStep, OwnerStep, DecisionStep, TranscodeStep

StrandedByFailure ==
  \A c \in Content :
    Stranded(c)' /\ ~Stranded(c) =>
      \E p \in Worker : item[p] = c /\ (Crash(p) \/ DispatchFails(p) \/ SaveEdit(p))

\* The step is one of p, and about d.
OnlyAt(p, d) ==
  /\ item[p] \in {d, None} /\ item'[p] \in {d, None}
  /\ \A q \in Worker : q # p => pc'[q] = pc[q] /\ item'[q] = item[q]
  /\ \A c \in Content : c # d =>
       row'[c] = row[c] /\ queue'[c] = queue[c] /\ (c \in tasks' <=> c \in tasks)

\* What a process does with one content strands no other.
LEMMA StrandsNoOther ==
  ASSUME NEW p \in Worker, NEW d, OnlyAt(p, d)
  PROVE  \A c \in Content : c # d /\ Stranded(c)' => Stranded(c)
BY NoneIsNothing DEF OnlyAt, Stranded, Live, Exists

\* Only a failure or the save of an old row strands content.
LEMMA StrandStep == IInv /\ IdleInv /\ [Next]_vars => StrandedByFailure
<1> SUFFICES ASSUME IInv, IdleInv, [Next]_vars PROVE StrandedByFailure
  OBVIOUS
<1>0. TypeOK /\ WorkInv /\ DecisionInv /\ UnqueuedInv
  BY DEF IInv
<1> USE <1>0 DEF TypeOK, IdleInv, Goto, Done, Overwrite, table, local
<1>1. ASSUME NEW p \in Worker, NEW c \in Content, Create(p, c) PROVE StrandedByFailure
  <2>1. pc'[p] \notin {"edit", "remove"} /\ item'[p] = c
    BY <1>1 DEF Create
  <2>2. ~Stranded(c)'
    BY <2>1 DEF Stranded
  <2>3. \A x \in Content : x # c /\ Stranded(x)' => Stranded(x)
    <3>1. OnlyAt(p, c)  BY <1>1 DEF OnlyAt, Create
    <3> HIDE DEF TypeOK, IdleInv, Goto, Done, Overwrite, table, local
    <3> QED  BY <3>1, StrandsNoOther
  <2> QED  BY <2>2, <2>3 DEF StrandedByFailure
<1>2. ASSUME NEW p \in Worker, Enqueue(p) PROVE StrandedByFailure
  <2>1. item[p] \in Content /\ queue'[item[p]] # "none"
    BY <1>2 DEF Enqueue, WorkInv
  <2>2. ~(\E x : x = item[p] /\ Stranded(x)')
    BY <2>1 DEF Stranded
  <2>3. \A x \in Content : x # item[p] /\ Stranded(x)' => Stranded(x)
    <3>1. OnlyAt(p, item[p])  BY <1>2 DEF OnlyAt, Enqueue
    <3> HIDE DEF TypeOK, IdleInv, Goto, Done, Overwrite, table, local
    <3> QED  BY <3>1, StrandsNoOther
  <2> QED  BY <2>2, <2>3 DEF StrandedByFailure
<1>3. ASSUME NEW p \in Worker, Dispatch(p) PROVE StrandedByFailure
  <2>1. item[p] \in tasks'
    BY <1>3 DEF Dispatch
  <2>2. ~(\E x : x = item[p] /\ Stranded(x)')
    BY <2>1 DEF Stranded
  <2>3. \A x \in Content : x # item[p] /\ Stranded(x)' => Stranded(x)
    <3>1. OnlyAt(p, item[p])  BY <1>3 DEF OnlyAt, Dispatch
    <3> HIDE DEF TypeOK, IdleInv, Goto, Done, Overwrite, table, local
    <3> QED  BY <3>1, StrandsNoOther
  <2> QED  BY <2>2, <2>3 DEF StrandedByFailure
<1>4. ASSUME NEW p \in Worker, DispatchFails(p) \/ SaveEdit(p) \/ Crash(p) PROVE StrandedByFailure
  <2>1. \A x \in Content : x # item[p] /\ Stranded(x)' => Stranded(x)
    <3>1. OnlyAt(p, item[p])  BY <1>4 DEF OnlyAt, DispatchFails, SaveEdit, Crash
    <3> HIDE DEF TypeOK, IdleInv, Goto, Done, Overwrite, table, local
    <3> QED  BY <3>1, StrandsNoOther
  <2> QED  BY <1>4, <2>1 DEF StrandedByFailure
<1>5. ASSUME NEW p \in Worker, NEW c \in Content, NEW op \in {"edit", "remove"},
             LoadForWrite(p, c, op)
      PROVE  StrandedByFailure
  BY <1>5, NoneIsNothing DEF LoadForWrite, StrandedByFailure, Stranded, Live, Exists
<1>6. ASSUME NEW p \in Worker, SaveDelete(p) PROVE StrandedByFailure
  <2>1. item[p] \in Content /\ copy[p] \in Row
    BY <1>6, RowIsThere DEF SaveDelete, WorkInv, Loaded
  <2>2. row'[item[p]].deleted
    BY <1>6, <2>1 DEF SaveDelete, Row
  <2>3. ~(\E x : x = item[p] /\ Stranded(x)')
    BY <2>2 DEF Stranded, Live
  <2>4. \A x \in Content : x # item[p] /\ Stranded(x)' => Stranded(x)
    <3>1. OnlyAt(p, item[p])  BY <1>6 DEF OnlyAt, SaveDelete
    <3> HIDE DEF TypeOK, IdleInv, Goto, Done, Overwrite, table, local
    <3> QED  BY <3>1, StrandsNoOther
  <2> QED  BY <2>3, <2>4 DEF StrandedByFailure
<1>7. ASSUME NEW p \in Worker, NEW c \in Content, NEW v \in Verdict, Open(p, c, v)
      PROVE  StrandedByFailure
  <2>1. ~Stranded(c)'
    BY <1>7 DEF Open, Stranded
  <2>2. \A x \in Content : x # c /\ Stranded(x)' => Stranded(x)
    <3>1. OnlyAt(p, c)  BY <1>7 DEF OnlyAt, Open
    <3> HIDE DEF TypeOK, IdleInv, Goto, Done, Overwrite, table, local
    <3> QED  BY <3>1, StrandsNoOther
  <2> QED  BY <2>1, <2>2 DEF StrandedByFailure
<1>8. ASSUME NEW p \in Worker, LockAndLoad(p) \/ Conflict(p) \/ Decide(p) \/ Notify(p)
      PROVE  StrandedByFailure
  <2>1. item[p] \in Content /\ queue'[item[p]] # "none"
    BY <1>8 DEF LockAndLoad, Conflict, Decide, Notify, WorkInv, DecisionInv, Verdict
  <2>2. ~(\E x : x = item[p] /\ Stranded(x)')
    BY <2>1 DEF Stranded
  <2>3. \A x \in Content : x # item[p] /\ Stranded(x)' => Stranded(x)
    <3>1. OnlyAt(p, item[p])  BY <1>8 DEF OnlyAt, LockAndLoad, Conflict, Decide, Notify
    <3> HIDE DEF TypeOK, IdleInv, Goto, Done, Overwrite, table, local
    <3> QED  BY <3>1, StrandsNoOther
  <2> QED  BY <2>2, <2>3 DEF StrandedByFailure
<1>9. ASSUME NEW p \in Worker, NEW c \in Reel, StartTranscode(p, c) PROVE StrandedByFailure
  <2>1. ~Stranded(c)'
    BY <1>9 DEF StartTranscode, Stranded, Live, Exists
  <2>2. \A x \in Content : x # c /\ Stranded(x)' => Stranded(x)
    <3>1. CASE Live(c)
      <4>1. OnlyAt(p, c)  BY <1>9, <3>1 DEF OnlyAt, StartTranscode
      <4> HIDE DEF TypeOK, IdleInv, Goto, Done, Overwrite, table, local
      <4> QED  BY <4>1, StrandsNoOther
    <3>2. CASE ~Live(c)  BY <1>9, <3>2 DEF StartTranscode, Stranded, Live, Exists
    <3> QED  BY <3>1, <3>2
  <2> QED  BY <2>1, <2>2 DEF StrandedByFailure
<1>10. ASSUME NEW p \in Worker, MarkProcessing(p) \/ TranscodeOk(p) PROVE StrandedByFailure
  <2>1. pc'[p] \notin {"edit", "remove"} /\ item'[p] = item[p]
    BY <1>10 DEF MarkProcessing, TranscodeOk, AfterSuccess
  <2>2. ~(\E x : x = item[p] /\ Stranded(x)')
    BY <2>1 DEF Stranded
  <2>3. \A x \in Content : x # item[p] /\ Stranded(x)' => Stranded(x)
    <3>1. OnlyAt(p, item[p])  BY <1>10 DEF OnlyAt, MarkProcessing, TranscodeOk, AfterSuccess
    <3> HIDE DEF TypeOK, IdleInv, Goto, Done, Overwrite, table, local
    <3> QED  BY <3>1, StrandsNoOther
  <2> QED  BY <2>2, <2>3 DEF StrandedByFailure
<1>11. ASSUME NEW p \in Worker, TranscodeFails(p) PROVE StrandedByFailure
  <2>1. item[p] \in Content /\ row[item[p]] \in Row
    BY <1>11, RowIsThere DEF TranscodeFails, WorkInv, Exists
  <2>2. row'[item[p]].proc = "failed"
    BY <1>11, <2>1 DEF TranscodeFails, WithProc, Row
  <2>3. ~(\E x : x = item[p] /\ Stranded(x)')
    BY <2>2 DEF Stranded
  <2>4. \A x \in Content : x # item[p] /\ Stranded(x)' => Stranded(x)
    <3>1. OnlyAt(p, item[p])  BY <1>11 DEF OnlyAt, TranscodeFails, AfterFailure
    <3> HIDE DEF TypeOK, IdleInv, Goto, Done, Overwrite, table, local
    <3> QED  BY <3>1, StrandsNoOther
  <2> QED  BY <2>3, <2>4 DEF StrandedByFailure
<1>12. CASE UNCHANGED vars
  BY <1>12 DEF vars, StrandedByFailure, Stranded, Live, Exists
<1> HIDE DEF TypeOK, IdleInv
<1> QED
  BY <1>1, <1>2, <1>3, <1>4, <1>5, <1>6, <1>7, <1>8, <1>9, <1>10, <1>11, <1>12
     DEF Next, PipelineStep, OwnerStep, DecisionStep, TranscodeStep

-----------------------------------------------------------------------------
(* The theorems                                                            *)

\* In the initial state there is no content and every process is idle.
LEMMA InitInv == Init => IInv
<1> SUFFICES ASSUME Init PROVE IInv
  OBVIOUS
<1>1. TypeOK
  BY DEF Init, TypeOK, Steps, Verdict
<1>2. WorkInv /\ DecisionInv /\ CopyInv
  BY DEF Init, WorkInv, DecisionInv, CopyInv, Loaded, Transcoding
<1>3. UnqueuedInv
  BY DEF Init, UnqueuedInv, Unqueued, Transcoding, Exists
<1>4. NothingUnapproved /\ AuditTrail
  BY DEF Init, NothingUnapproved, AuditTrail, Exists, Verdict
<1>5. QED
  BY <1>1, <1>2, <1>3, <1>4 DEF IInv, Safe

\* The invariant is inductive.
LEMMA Inductive == IInv /\ [Next]_vars => IInv'
BY TypedStep, WorkStep, DecisionStepKeeps, CopyStep, UnqueuedStep, UnapprovedStep, AuditStep
   DEF IInv, Safe

\* Every reachable state has the invariant.
THEOREM Invariance == Spec => []IInv
BY InitInv, Inductive, PTL DEF Spec

\* Rows, locks and process states stay in their types.
THEOREM TypeCorrect == Spec => []TypeOK
<1>1. IInv => TypeOK
  BY DEF IInv
<1>2. QED
  BY <1>1, Invariance, PTL

\* No moderation bypass: published content has an approved queue row.
THEOREM NoBypass == Spec => []NothingUnapproved
<1>1. IInv => NothingUnapproved
  BY DEF IInv, Safe
<1>2. QED
  BY <1>1, Invariance, PTL

\* A decision is made once, logged once, and the owner is told of no other.
THEOREM DecidedOnce == Spec => []AuditTrail
<1>1. IInv => AuditTrail
  BY DEF IInv, Safe
<1>2. QED
  BY <1>1, Invariance, PTL

\* Content disagrees with its decision only after a stale save by its owner.
THEOREM HiddenOnlyByOwner == Spec => OnlyStaleSavesHide
<1>1. IInv /\ [Next]_vars =>
        [\A c \in Content :
           Shown(c) /\ ~Shown(c)' =>
             \E p \in Worker : item[p] = c /\ (SaveEdit(p) \/ SaveDelete(p))]_vars
  BY HideStep DEF IInv, HiddenBySave
<1>2. QED
  BY <1>1, Invariance, PTL DEF Spec, OnlyStaleSavesHide

\* Content is stranded only by a crash, a broker that refuses a task, or the save of a row
\* that was read before it was deleted or had failed (content/views.py, content/tasks.py).
THEOREM StrandedOnlyByFailures == Spec => OnlyFailuresStrand
<1>1. Init => IdleInv
  BY DEF Init, IdleInv
<1>2. IInv /\ IdleInv /\ [Next]_vars => IInv' /\ IdleInv'
  BY Inductive, IdleStep DEF IInv
<1>3. IInv /\ IdleInv /\ [Next]_vars =>
        [\A c \in Content :
           Stranded(c)' /\ ~Stranded(c) =>
             \E p \in Worker :
               /\ item[p] = c
               /\ Crash(p) \/ DispatchFails(p) \/ SaveEdit(p)]_vars
  BY StrandStep DEF StrandedByFailure
<1> QED  BY InitInv, <1>1, <1>2, <1>3, PTL DEF Spec, OnlyFailuresStrand

-----------------------------------------------------------------------------
(* The pipeline without edits                                              *)

\* What waits to be queued can be watched, and a decision saves the row as it is.
PipelineInv ==
  /\ DecisionShown
  /\ \A p \in Worker : pc[p] = "enqueue" => row[item[p]].proc = "ready"
  /\ \A p \in Worker : pc[p] = "decide" => copy[p] = row[item[p]]

\* Content a step does not touch is shown as before.
LEMMA ShownElsewhere ==
  ASSUME NEW d, DecisionShown, \A c \in Content : c # d => row'[c] = row[c] /\ queue'[c] = queue[c],
         d \in Content /\ queue'[d] # "none" =>
           /\ row'[d].status = CASE queue'[d] = "pending" -> "pending_review"
                                 [] queue'[d] = "approved" -> "published"
                                 [] queue'[d] = "rejected" -> "rejected"
           /\ row'[d].proc = "ready"
  PROVE  DecisionShown'
BY DEF DecisionShown, Shown

\* A step of p keeps PipelineInv if it is shown, p fits, and nobody else's row is touched.
LEMMA PipelineAfter ==
  ASSUME NEW p \in Worker, PipelineInv, DecisionShown',
         pc'[p] = "enqueue" => row'[item'[p]].proc = "ready",
         pc'[p] = "decide" => copy'[p] = row'[item'[p]],
         \A q \in Worker : q # p =>
           /\ pc'[q] = pc[q] /\ item'[q] = item[q] /\ copy'[q] = copy[q]
           /\ pc[q] \in {"enqueue", "decide"} => row'[item[q]] = row[item[q]]
  PROVE  PipelineInv'
BY DEF PipelineInv

\* Every step of the pipeline keeps PipelineInv.
LEMMA PipelineKeeps == IInv /\ PipelineInv /\ [PipelineNext]_vars => PipelineInv'
<1> SUFFICES ASSUME IInv, PipelineInv, [PipelineNext]_vars PROVE PipelineInv'
  OBVIOUS
<1>0. TypeOK /\ WorkInv /\ DecisionInv /\ UnqueuedInv /\ CopyInv
  BY DEF IInv
<1> USE <1>0 DEF TypeOK, WorkInv, PipelineInv, Goto, Done, Overwrite, table, local
<1>1. ASSUME NEW p \in Worker, NEW c \in Content, Create(p, c) PROVE PipelineInv'
  <2>1. DecisionShown'
    BY <1>1, ShownElsewhere DEF Create
  <2>2. New(c).proc = "ready" \/ pc'[p] # "enqueue"
    BY <1>1 DEF Create, New
  <2> QED  BY <1>1, <2>1, <2>2 DEF Create
<1>2. ASSUME NEW p \in Worker, Enqueue(p) PROVE PipelineInv'
  <2>1. item[p] \in Content /\ queue[item[p]] = "none" /\ row[item[p]].status = "pending_review"
    BY <1>2 DEF Enqueue, UnqueuedInv, Unqueued
  <2>2. DecisionShown'
    BY <1>2, <2>1, ShownElsewhere DEF Enqueue
  <2> QED  BY <1>2, <2>2 DEF Enqueue
<1>3. ASSUME NEW p \in Worker, Dispatch(p) PROVE PipelineInv'
  BY <1>3 DEF Dispatch, DecisionShown, Shown
<1>4. ASSUME NEW p \in Worker, NEW c \in Content, NEW v \in Verdict, Open(p, c, v) PROVE PipelineInv'
  BY <1>4 DEF Open, DecisionShown, Shown
<1>5. ASSUME NEW p \in Worker, LockAndLoad(p) \/ Conflict(p) \/ Notify(p) PROVE PipelineInv'
  <2>1. UNCHANGED <<row, queue>>
    BY <1>5 DEF LockAndLoad, Conflict, Notify
  <2>2. DecisionShown'
    BY <2>1 DEF DecisionShown, Shown
  <2>3. CASE LockAndLoad(p)
    BY <2>1, <2>2, <2>3 DEF LockAndLoad
  <2>4. CASE Conflict(p) \/ Notify(p)
    <3>1. pc'[p] = "idle" /\ \A q \in Worker : q # p => pc'[q] = pc[q] /\ item'[q] = item[q] /\ copy'[q] = copy[q]
      BY <2>4 DEF Conflict, Notify
    <3> HIDE DEF TypeOK, WorkInv, PipelineInv, Goto, Done, Overwrite, table, local
    <3> QED  BY <2>1, <2>2, <3>1, PipelineAfter
  <2> QED  BY <1>5, <2>3, <2>4
<1>6. ASSUME NEW p \in Worker, Decide(p) PROVE PipelineInv'
  <2>1. /\ item[p] \in Content /\ verdict[p] \in Verdict /\ queue[item[p]] = "pending"
        /\ lock[item[p]] = p /\ copy[p] = row[item[p]] /\ copy[p] \in Row /\ copy[p].proc = "ready"
    BY <1>6, RowIsThere DEF Decide, DecisionInv, Loaded, DecisionShown
  <2>2. /\ [copy[p] EXCEPT !.status = StatusAfter(verdict[p])].status = StatusAfter(verdict[p])
        /\ [copy[p] EXCEPT !.status = StatusAfter(verdict[p])].proc = "ready"
    BY <2>1 DEF Row
  <2>3. /\ queue'[item[p]] = verdict[p] /\ row'[item[p]].status = StatusAfter(verdict[p])
        /\ row'[item[p]].proc = "ready"
    BY <1>6, <2>1, <2>2 DEF Decide
  <2>4. DecisionShown'
    BY <1>6, <2>1, <2>3, ShownElsewhere DEF Decide, StatusAfter, Verdict
  <2>5. \A q \in Worker : q # p /\ pc[q] \in {"decide", "enqueue"} => item[q] # item[p]
    BY <2>1 DEF DecisionInv, UnqueuedInv, Unqueued
  <2> QED  BY <1>6, <2>4, <2>5 DEF Decide
<1>7. ASSUME NEW p \in Worker, NEW c \in Reel, StartTranscode(p, c) PROVE PipelineInv'
  <2>1. UNCHANGED <<row, queue>>
    BY <1>7 DEF StartTranscode
  <2>2. DecisionShown'
    BY <2>1 DEF DecisionShown, Shown
  <2>3. CASE Live(c)
    <3>1. pc'[p] = "mark" /\ \A q \in Worker : q # p => pc'[q] = pc[q] /\ item'[q] = item[q] /\ copy'[q] = copy[q]
      BY <1>7, <2>3 DEF StartTranscode
    <3> HIDE DEF TypeOK, WorkInv, PipelineInv, Goto, Done, Overwrite, table, local
    <3> QED  BY <2>1, <2>2, <3>1, PipelineAfter
  <2>4. CASE ~Live(c)
    BY <1>7, <2>1, <2>2, <2>4 DEF StartTranscode
  <2> QED  BY <2>3, <2>4
<1>8. ASSUME NEW p \in Worker, MarkProcessing(p) \/ TranscodeOk(p) \/ TranscodeFails(p) PROVE PipelineInv'
  <2>1. item[p] \in Content /\ queue[item[p]] = "none" /\ UNCHANGED queue
    BY <1>8 DEF MarkProcessing, TranscodeOk, TranscodeFails, UnqueuedInv, Unqueued, Transcoding
  <2>2. \A q \in Worker : q # p /\ pc[q] \in {"decide", "enqueue"} => item[q] # item[p]
    BY <1>8, <2>1 DEF DecisionInv, UnqueuedInv, Unqueued, Transcoding, MarkProcessing, TranscodeOk, TranscodeFails
  <2>3. DecisionShown'
    BY <1>8, <2>1, ShownElsewhere DEF MarkProcessing, TranscodeOk, TranscodeFails
  <2>4. CASE TranscodeOk(p)
    <3>1. copy[p] \in Row  BY <2>4, RowIsThere DEF TranscodeOk, Loaded
    <3>2. row'[item[p]].proc = "ready"  BY <2>1, <2>4, <3>1 DEF TranscodeOk, WithProc, Row
    <3> QED  BY <2>2, <2>3, <2>4, <3>2 DEF TranscodeOk, AfterSuccess
  <2>5. \A x \in Content : x # item[p] => row'[x] = row[x]
    BY <1>8 DEF MarkProcessing, TranscodeFails, TranscodeOk
  <2>6. \A q \in Worker : pc[q] # "idle" => item[q] \in Content
    OBVIOUS
  <2>7. CASE MarkProcessing(p)
    <3>1. pc'[p] = "transcode" /\ \A q \in Worker : q # p => pc'[q] = pc[q] /\ item'[q] = item[q] /\ copy'[q] = copy[q]
      BY <2>7 DEF MarkProcessing
    <3> HIDE DEF TypeOK, WorkInv, PipelineInv, Goto, Done, Overwrite, table, local
    <3> QED  BY <2>2, <2>3, <2>5, <2>6, <3>1, PipelineAfter
  <2>8. CASE TranscodeFails(p)
    <3>1. pc'[p] = "idle" /\ \A q \in Worker : q # p => pc'[q] = pc[q] /\ item'[q] = item[q] /\ copy'[q] = copy[q]
      BY <2>8 DEF TranscodeFails, AfterFailure
    <3> HIDE DEF TypeOK, WorkInv, PipelineInv, Goto, Done, Overwrite, table, local
    <3> QED  BY <2>2, <2>3, <2>5, <2>6, <3>1, PipelineAfter
  <2> QED  BY <1>8, <2>4, <2>7, <2>8
<1>9. CASE UNCHANGED vars
  BY <1>9 DEF vars, DecisionShown, Shown
<1> HIDE DEF TypeOK, WorkInv, PipelineInv
<1> QED
  BY <1>1, <1>2, <1>3, <1>4, <1>5, <1>6, <1>7, <1>8, <1>9
     DEF PipelineNext, PipelineStep, DecisionStep, TranscodeStep

\* The pipeline's steps are steps of the whole.
LEMMA PipelineIsNext == [PipelineNext]_vars => [Next]_vars
BY DEF PipelineNext, Next

LEMMA PipelineInit == Init => PipelineInv
BY DEF Init, PipelineInv, DecisionShown, Shown

\* While nobody edits, content agrees with its decision, and what is in the queue can be
\* watched (moderation/services.py:165-236, content/tasks.py:215).
THEOREM DecisionsShow == PipelineSpec => []DecisionShown
<1>1. PipelineInv => DecisionShown
  BY DEF PipelineInv
<1>2. IInv /\ PipelineInv /\ [PipelineNext]_vars => IInv' /\ PipelineInv'
  BY Inductive, PipelineKeeps, PipelineIsNext
<1> QED  BY InitInv, PipelineInit, <1>1, <1>2, PTL DEF PipelineSpec

-----------------------------------------------------------------------------
(* The refinement                                                          *)

Decisions == [c \in Content |-> Decision(c)]
Public == {c \in Content : IsPublic(c)}

\* Only approved content is public.
LEMMA PublicApproved ==
  ASSUME NothingUnapproved PROVE \A c \in Public : Decision(c) = "approved"
BY DEF NothingUnapproved, Public, IsPublic, Live, Decision, Verdict

\* A step that is no decision decides nothing.
LEMMA OnlyDecisionsDecide ==
  TypeOK /\ WorkInv /\ UnqueuedInv /\ [Next]_vars =>
    UNCHANGED Decisions \/ \E p \in Worker : Decide(p)
<1> SUFFICES ASSUME TypeOK, WorkInv, UnqueuedInv, [Next]_vars, \A p \in Worker : ~Decide(p)
             PROVE  \A c \in Content : Decision(c)' = Decision(c)
  BY DEF Decisions
<1>1. ASSUME NEW p \in Worker, Enqueue(p) PROVE \A c \in Content : Decision(c)' = Decision(c)
  <2>1. item[p] \in Content /\ queue[item[p]] = "none"
    BY <1>1 DEF Enqueue, UnqueuedInv, Unqueued, WorkInv
  <2>2. queue' = [queue EXCEPT ![item[p]] = "pending"]
    BY <1>1, <2>1 DEF Enqueue
  <2>3. QED
    BY <2>1, <2>2 DEF Decision, Verdict, TypeOK
<1>2. CASE UNCHANGED queue
  BY <1>2 DEF Decision
<1>3. UNCHANGED queue \/ \E p \in Worker : Enqueue(p)
  BY DEF Next, vars, table, PipelineStep, OwnerStep, DecisionStep, TranscodeStep, Create, Dispatch,
     DispatchFails, LoadForWrite, SaveEdit, SaveDelete, Open, LockAndLoad, Conflict, Notify,
     StartTranscode, MarkProcessing, TranscodeOk, TranscodeFails, Crash
<1>4. QED
  BY <1>1, <1>2, <1>3

\* Review implements Publication: public lists show only what a decision, made
\* once and never taken back, approved.
THEOREM Implements == Spec => KeepsPromise
<1> USE DEF Decisions, Public
<1>1. Init => Promise!Init
  BY DEF Init, Promise!Init, Decision, Verdict, IsPublic, Live, Exists
<1>2. IInv /\ IInv' /\ [Next]_vars => [Promise!Next]_<<Decisions, Public>>
  <2> SUFFICES ASSUME IInv, IInv', [Next]_vars
               PROVE  Promise!Next \/ UNCHANGED <<Decisions, Public>>
    OBVIOUS
  <2>1. TypeOK /\ WorkInv /\ DecisionInv /\ UnqueuedInv /\ NothingUnapproved /\ NothingUnapproved'
    BY DEF IInv, Safe
  <2>2. CASE UNCHANGED Decisions
    <3>1. \A c \in Public' : Decision(c)' = "approved"
      BY <2>1, PublicApproved DEF NothingUnapproved, IsPublic, Live, Decision, Verdict
    <3>2. \A c \in Content : Decisions[c] = Decision(c) /\ Decisions'[c] = Decision(c)'
      OBVIOUS
    <3>3. Public' \in SUBSET Content
      OBVIOUS
    <3>4. Public' \ Public \subseteq {c \in Content : Decisions[c] = "approved"}
      BY <2>2, <3>1, <3>2, <3>3
    <3>5. Promise!Show
      BY <2>2, <3>3, <3>4 DEF Promise!Show
    <3>6. QED
      BY <3>5 DEF Promise!Next
  <2>3. ASSUME NEW p \in Worker, Decide(p) PROVE Promise!Next
    <3> DEFINE c == item[p]
    <3>1. c \in Content /\ verdict[p] \in Verdict /\ queue[c] = "pending" /\ Exists(c) /\ copy[p] \in Row
      BY <2>1, <2>3, RowIsThere DEF Decide, WorkInv, DecisionInv, TypeOK, Loaded
    <3>2. queue' = [queue EXCEPT ![c] = verdict[p]]
      BY <2>3 DEF Decide
    <3>3. row' = [row EXCEPT ![c] = [copy[p] EXCEPT !.status = StatusAfter(verdict[p])]]
      BY <2>3 DEF Decide, Overwrite
    <3>4. Decisions[c] = "none" /\ Decisions' = [Decisions EXCEPT ![c] = verdict[p]]
      BY <2>1, <3>1, <3>2 DEF TypeOK, Decision, Verdict
    <3>5. c \notin Public
      BY <2>1, <3>1 DEF NothingUnapproved, IsPublic, Live
    <3>6. \A d \in Content : d # c => row'[d] = row[d]
      BY <2>1, <3>1, <3>3 DEF TypeOK
    <3>7. \A d \in Content : d # c => (d \in Public' <=> d \in Public)
      BY <3>6 DEF IsPublic, Live, Exists
    <3>8. CASE verdict[p] = "approved"
      <4>1. Public' = Public \/ Public' = Public \cup {c}
        BY <3>1, <3>5, <3>7
      <4>2. Promise!Approve(c)
        BY <3>1, <3>4, <3>8, <4>1 DEF Promise!Approve
      <4>3. QED
        BY <3>1, <4>2 DEF Promise!Next
    <3>9. CASE verdict[p] = "rejected"
      <4>1. row'[c].status = "rejected"
        BY <2>1, <3>1, <3>3, <3>9, RowDecided DEF TypeOK
      <4>2. c \notin Public'
        BY <4>1 DEF IsPublic
      <4>3. Public' = Public
        BY <3>1, <3>5, <3>7, <4>2
      <4>4. Promise!Reject(c)
        BY <3>1, <3>4, <3>9, <4>3 DEF Promise!Reject
      <4>5. QED
        BY <3>1, <4>4 DEF Promise!Next
    <3>10. QED
      BY <3>1, <3>8, <3>9 DEF Verdict
  <2>4. QED
    BY <2>1, <2>2, <2>3, OnlyDecisionsDecide
<1>3. QED
  BY <1>1, <1>2, Invariance, PTL DEF Spec, KeepsPromise, Promise!Spec

=============================================================================
