--------------------------- MODULE FeaturedProofs ---------------------------
(* Theorems about Featured, for every set of businesses, plans,            *)
(* subscriptions and processes.                                            *)
EXTENDS Featured, TLAPS

ActSteps == {"act_lock", "act_supersede", "act_insert"}
DeactSteps == {"deact_lock", "deact_update", "deact_sync", "deact_commit"}
InTransaction == ActSteps \cup DeactSteps
FullyLocked == InTransaction \ {"act_lock", "deact_lock"}

\* The rows a process has noted exist, and an activation has its plan.
RefInv ==
  \A w \in Worker :
    /\ todo[w] \subseteq Existing
    /\ ids[w] \subseteq Existing
    /\ deact[w] \subseteq Existing
    /\ pc[w] \in ActSteps => plan[w] \in Plan

Typed == TypeOK /\ RefInv

\* A process holds locks only inside a transaction and only on its own rows;
\* past the locking statement it holds all of them; while locking it holds a
\* lower part of them.
LockInv ==
  /\ \A w \in Worker, b \in Business :
       lock[b] = w => b \in biz[w] /\ pc[w] \in InTransaction
  /\ \A w \in Worker : pc[w] \in FullyLocked => \A b \in biz[w] : lock[b] = w
  /\ \A w \in Worker, b, c \in Business :
       lock[b] = w /\ c \in biz[w] /\ c < b => lock[c] = w

\* What an open transaction has read is still so: the rows it set inactive are
\* exactly the active rows it means to end.
ReadInv ==
  \A w \in Worker :
    /\ pc[w] = "act_insert" => deact[w] = {pk \in Active : subs[pk].business \in biz[w]}
    /\ pc[w] \in DeactSteps => \A pk \in ids[w] : subs[pk].business \in biz[w]
    /\ pc[w] \in {"deact_sync", "deact_commit"} => deact[w] = ids[w] \cap Active
    /\ pc[w] = "deact_commit" => feat[w] = StillFeatured(w)

OneActive == \A pk, q \in Active : subs[pk].business = subs[q].business => pk = q

IInv == Typed /\ LockInv /\ ReadInv /\ OneActive

MirrorInv == IInv /\ FlagMirrors

-----------------------------------------------------------------------------
(* Typing.                                                                 *)

\* Setting existing rows inactive keeps the table well formed and every other
\* field of every row.
LEMMA DeactivatedRows ==
  ASSUME Typed, NEW gone, gone \subseteq Existing
  PROVE  /\ Deactivated(gone) \in [SubId -> Row \cup {Absent}]
         /\ \A pk \in SubId :
              /\ pk \notin gone => Deactivated(gone)[pk] = subs[pk]
              /\ pk \in gone => /\ subs[pk] \in Row
                                /\ Deactivated(gone)[pk] \in Row
                                /\ Deactivated(gone)[pk].state = "inactive"
                                /\ Deactivated(gone)[pk].business = subs[pk].business
                                /\ Deactivated(gone)[pk].plan = subs[pk].plan
                                /\ Deactivated(gone)[pk].expires_at = subs[pk].expires_at
<1>1. ASSUME NEW pk \in gone PROVE subs[pk] \in Row /\ pk \in SubId
  BY <1>1 DEF Typed, TypeOK, Existing, Absent
<1>2. ASSUME NEW pk \in gone
      PROVE  /\ [subs[pk] EXCEPT !.state = "inactive"] \in Row
             /\ [subs[pk] EXCEPT !.state = "inactive"].state = "inactive"
             /\ [subs[pk] EXCEPT !.state = "inactive"].business = subs[pk].business
             /\ [subs[pk] EXCEPT !.state = "inactive"].plan = subs[pk].plan
             /\ [subs[pk] EXCEPT !.state = "inactive"].expires_at = subs[pk].expires_at
  BY <1>1, <1>2 DEF Row
<1>3. QED
  BY <1>1, <1>2 DEF Deactivated, Typed, TypeOK

\* WriteFlags leaves a Boolean for every business.
LEMMA WrittenFlagsTyped ==
  ASSUME flag \in [Business -> BOOLEAN], NEW w \in Worker, WriteFlags(w)
  PROVE  flag' \in [Business -> BOOLEAN]
<1>1. ASSUME NEW b \in Business
      PROVE  (IF b \in biz[w] THEN b \in feat[w] ELSE flag[b]) \in BOOLEAN
  <2>1. CASE b \in biz[w]
    BY <2>1, SMT
  <2>2. CASE b \notin biz[w]
    BY <2>2, Zenon
  <2>3. QED
    BY <2>1, <2>2
<1>2. QED
  BY <1>1, Zenon DEF WriteFlags

\* Only a commit changes the subscription table, and it never loses a row.
LEMMA TypedStep == Typed /\ [Next]_vars => Typed'
<1> SUFFICES ASSUME Typed, [Next]_vars PROVE Typed'
  OBVIOUS
<1> USE DEF Typed, TypeOK, RefInv, Goto, table, local, Steps, ActSteps
<1>1. ASSUME NEW w \in Worker, NEW b \in Business, LockBusiness(w, b) PROVE Typed'
  BY <1>1 DEF LockBusiness, Existing
<1>2. ASSUME NEW w \in Worker, NEW b \in Business, NEW p \in Plan, BeginActivate(w, b, p)
      PROVE Typed'
  BY <1>2 DEF BeginActivate, Existing
<1>3. ASSUME NEW w \in Worker, NEW selected \in SUBSET SubId, BeginReactivate(w, selected)
      PROVE Typed'
  BY <1>3 DEF BeginReactivate, NewestOfEach, Existing
<1>4. ASSUME NEW w \in Worker, NEW pk \in SubId, NextReactivate(w, pk) PROVE Typed'
  <2>1. subs[pk] \in Row
    BY <1>4 DEF NextReactivate, Existing, Absent
  <2>2. QED
    BY <1>4, <2>1 DEF NextReactivate, Existing, Row
<1>5. ASSUME NEW w \in Worker, Supersede(w) PROVE Typed'
  BY <1>5 DEF Supersede, Existing, Active
<1>6. ASSUME NEW w \in Worker, NEW b \in Business, NEW pk \in SubId, InsertAndCommit(w, b, pk)
      PROVE Typed'
  <2>1. NewRow(b, plan[w]) \in Row
    BY <1>6, DurationIsPositive DEF InsertAndCommit, NewRow, Row
  <2>2. subs' \in [SubId -> Row \cup {Absent}]
    BY <1>6, <2>1, DeactivatedRows DEF InsertAndCommit
  <2>3. Existing \subseteq Existing'
    BY <1>6, <2>1, DeactivatedRows DEF InsertAndCommit, Existing, NewRow
  <2>4. QED
    BY <1>6, <2>2, <2>3 DEF InsertAndCommit, Unlocked, AfterCommit
<1>7. ASSUME NEW w \in Worker, NEW selected \in SUBSET Active, BeginDeactivate(w, selected)
      PROVE Typed'
  <2>1. \A pk \in selected : subs[pk] \in Row
    BY <1>7 DEF Active, Absent
  <2>2. QED
    BY <1>7, <2>1 DEF BeginDeactivate, Active, Existing, Row
<1>8. ASSUME NEW w \in Worker, DeactivateUpdate(w) PROVE Typed'
  BY <1>8 DEF DeactivateUpdate, RowsToEnd, Existing, Active
<1>9. ASSUME NEW w \in Worker, DeactivateSync(w) PROVE Typed'
  BY <1>9 DEF DeactivateSync, StillFeatured, Existing
<1>10. ASSUME NEW w \in Worker, DeactivateCommit(w) PROVE Typed'
  <2>1. subs' \in [SubId -> Row \cup {Absent}]
    BY <1>10, DeactivatedRows DEF DeactivateCommit
  <2>2. Existing \subseteq Existing'
    BY <1>10, DeactivatedRows DEF DeactivateCommit, Existing
  <2>3. QED
    BY <1>10, <2>1, <2>2, WrittenFlagsTyped DEF DeactivateCommit, Unlocked, AfterCommit
<1>11. ASSUME NEW w \in Worker, NEW b \in Business, CacheCompute(w, b) PROVE Typed'
  BY <1>11 DEF CacheCompute, Existing
<1>12. ASSUME NEW w \in Worker, CacheSet(w) PROVE Typed'
  BY <1>12 DEF CacheSet, Existing
<1>13. ASSUME NEW w \in Worker, DropCache(w) PROVE Typed'
  BY <1>13 DEF DropCache, Existing
<1>14. ASSUME NEW w \in Worker, Crash(w) PROVE Typed'
  BY <1>14 DEF Crash, Unlocked, Existing
<1>15. ASSUME NEW b \in Business, CacheExpire(b) \/ InvalidateProfile(b) PROVE Typed'
  BY <1>15 DEF CacheExpire, InvalidateProfile, Existing
<1>16. CASE Tick
  BY <1>16 DEF Tick, Existing
<1>17. ASSUME NEW w \in Worker, NEW b \in Business, EditLoad(w, b) PROVE Typed'
  BY <1>17 DEF EditLoad, Existing
<1>18. ASSUME NEW w \in Worker, EditSave(w) PROVE Typed'
  BY <1>18, WrittenFlagsTyped DEF EditSave, Existing
<1>19. CASE UNCHANGED vars
  BY <1>19 DEF vars, Existing
<1>20. ASSUME NEW b \in Business, NEW checked \in BOOLEAN, ChangeForm(b, checked)
       PROVE Typed'
  BY <1>20 DEF ChangeForm, Existing
<1>21. QED
  BY <1>1, <1>2, <1>3, <1>4, <1>5, <1>6, <1>7, <1>8, <1>9, <1>10, <1>11, <1>12, <1>13,
     <1>14, <1>15, <1>16, <1>17, <1>18, <1>19, <1>20
     DEF Next, ServiceNext, ActivateStep, DeactivateStep, ReadStep, EditStep,
         BeginSweep, BeginAdminDeactivate, Expired

-----------------------------------------------------------------------------
(* Locks.                                                                  *)

\* Leaving a transaction (commit or crash) releases exactly its own locks.
LEMMA UnlockedRows ==
  ASSUME Typed, NEW w \in Worker, lock' = Unlocked(w)
  PROVE  \A b \in Business :
           /\ lock'[b] # w
           /\ \A v \in Worker : v # w => (lock'[b] = v <=> lock[b] = v)
BY ProcessesDistinct DEF Unlocked, Typed, TypeOK

\* No step lets two processes hold a row or a waiter hold a later row.
LEMMA LockStep == Typed /\ LockInv /\ [Next]_vars => LockInv'
<1> SUFFICES ASSUME Typed, LockInv, [Next]_vars PROVE LockInv'
  OBVIOUS
<1> USE DEF Typed, TypeOK, LockInv, Goto, table, local, InTransaction, ActSteps,
            DeactSteps, FullyLocked
<1>1. ASSUME NEW w \in Worker, NEW b \in Business, LockBusiness(w, b) PROVE LockInv'
  <2>1. \A v \in Worker, c \in Business :
          lock'[c] = v <=> ((c = b /\ v = w) \/ (c # b /\ lock[c] = v))
    BY <1>1, ProcessesDistinct DEF LockBusiness
  <2>2. \A v \in Worker : lock[b] # v
    BY <1>1, ProcessesDistinct DEF LockBusiness, RowIsFree
  <2>3. \A v \in Worker, c \in Business :
          lock'[c] = v => c \in biz'[v] /\ pc'[v] \in InTransaction
    BY <1>1, <2>1 DEF LockBusiness, NextToLock
  <2>4. \A v \in Worker : pc'[v] \in FullyLocked => \A c \in biz'[v] : lock'[c] = v
    BY <1>1, <2>1, <2>2 DEF LockBusiness, AllLockedBut
  <2>5. \A v \in Worker, c, d \in Business :
          lock'[c] = v /\ d \in biz'[v] /\ d < c => lock'[d] = v
    BY <1>1, <2>1, <2>2, KeysAreNumbers DEF LockBusiness, NextToLock
  <2>6. QED
    BY <2>3, <2>4, <2>5
<1>2. ASSUME NEW w \in Worker, NEW b \in Business, NEW p \in Plan, BeginActivate(w, b, p)
      PROVE LockInv'
  BY <1>2 DEF BeginActivate
<1>3. ASSUME NEW w \in Worker, NEW selected \in SUBSET SubId, BeginReactivate(w, selected)
      PROVE LockInv'
  BY <1>3 DEF BeginReactivate
<1>4. ASSUME NEW w \in Worker, NEW pk \in SubId, NextReactivate(w, pk) PROVE LockInv'
  BY <1>4 DEF NextReactivate
<1>5. ASSUME NEW w \in Worker, Supersede(w) PROVE LockInv'
  BY <1>5 DEF Supersede
<1>6. ASSUME NEW w \in Worker, NEW b \in Business, NEW pk \in SubId, InsertAndCommit(w, b, pk)
      PROVE LockInv'
  BY <1>6, UnlockedRows DEF InsertAndCommit, AfterCommit
<1>7. ASSUME NEW w \in Worker, NEW selected \in SUBSET Active, BeginDeactivate(w, selected)
      PROVE LockInv'
  BY <1>7 DEF BeginDeactivate
<1>8. ASSUME NEW w \in Worker, DeactivateUpdate(w) PROVE LockInv'
  BY <1>8 DEF DeactivateUpdate
<1>9. ASSUME NEW w \in Worker, DeactivateSync(w) PROVE LockInv'
  BY <1>9 DEF DeactivateSync
<1>10. ASSUME NEW w \in Worker, DeactivateCommit(w) PROVE LockInv'
  BY <1>10, UnlockedRows DEF DeactivateCommit, AfterCommit
<1>11. ASSUME NEW w \in Worker, NEW b \in Business, CacheCompute(w, b) PROVE LockInv'
  BY <1>11 DEF CacheCompute
<1>12. ASSUME NEW w \in Worker, CacheSet(w) PROVE LockInv'
  BY <1>12 DEF CacheSet
<1>13. ASSUME NEW w \in Worker, DropCache(w) PROVE LockInv'
  BY <1>13 DEF DropCache
<1>14. ASSUME NEW w \in Worker, Crash(w) PROVE LockInv'
  BY <1>14, UnlockedRows DEF Crash
<1>15. ASSUME NEW b \in Business, CacheExpire(b) \/ InvalidateProfile(b) PROVE LockInv'
  BY <1>15 DEF CacheExpire, InvalidateProfile
<1>16. CASE Tick
  BY <1>16 DEF Tick
<1>17. ASSUME NEW w \in Worker, NEW b \in Business, EditLoad(w, b) PROVE LockInv'
  BY <1>17 DEF EditLoad
<1>18. ASSUME NEW w \in Worker, EditSave(w) PROVE LockInv'
  BY <1>18 DEF EditSave
<1>19. CASE UNCHANGED vars
  BY <1>19 DEF vars
<1>20. ASSUME NEW b \in Business, NEW checked \in BOOLEAN, ChangeForm(b, checked)
       PROVE LockInv'
  BY <1>20 DEF ChangeForm
<1>21. CASE ServiceNext
  BY <1>21, <1>1, <1>2, <1>3, <1>4, <1>5, <1>6, <1>7, <1>8, <1>9, <1>10, <1>11, <1>12,
     <1>13, <1>14, <1>15, <1>16
     DEF ServiceNext, ActivateStep, DeactivateStep, ReadStep, BeginSweep,
         BeginAdminDeactivate, Expired
<1>22. QED
  BY <1>17, <1>18, <1>19, <1>20, <1>21 DEF Next, EditStep

-----------------------------------------------------------------------------
(* What transactions have read stays true until they commit.               *)

\* A step touches only businesses in S: rows keep their business, and a row of
\* any other business neither becomes nor stops being active.
TouchesOnly(S) ==
  /\ \A pk \in Existing : pk \in Existing' /\ subs'[pk].business = subs[pk].business
  /\ \A pk \in Active' : pk \in Active \/ subs'[pk].business \in S
  /\ \A pk \in Active : pk \in Active' \/ subs[pk].business \in S

LEMMA InsertTouches ==
  ASSUME Typed, ReadInv, NEW w \in Worker, NEW b \in Business, NEW pk \in SubId,
         InsertAndCommit(w, b, pk)
  PROVE  /\ TouchesOnly(biz[w])
         /\ pk \in Active' /\ subs'[pk].business = b
         /\ \A q \in Active' : subs'[q].business = b => q = pk
<1>1. deact[w] = {q \in Active : subs[q].business \in biz[w]} /\ biz[w] = {b}
  BY DEF InsertAndCommit, ReadInv
<1>2. pk \notin Existing /\ pk \notin Active /\ pk \notin deact[w]
  BY <1>1 DEF InsertAndCommit, NewPk, Existing, Active
<1>3. \A q \in SubId : subs'[q] = IF q = pk THEN NewRow(b, plan[w]) ELSE Deactivated(deact[w])[q]
  BY DeactivatedRows DEF InsertAndCommit, Typed, RefInv
<1>4. subs'[pk].business = b /\ subs'[pk].state = "active"
  BY <1>3 DEF NewRow
<1>5. deact[w] \subseteq Existing
  BY DEF Typed, RefInv
<1>6. \A q \in SubId \ {pk} :
        /\ q \notin deact[w] => subs'[q] = subs[q]
        /\ q \in deact[w] => subs'[q].state = "inactive" /\ subs'[q].business = subs[q].business
  BY <1>3, <1>5, DeactivatedRows
<1>7. QED
  BY <1>1, <1>2, <1>4, <1>6 DEF TouchesOnly, Existing, Active

LEMMA DeactivateTouches ==
  ASSUME Typed, ReadInv, NEW w \in Worker, DeactivateCommit(w)
  PROVE  /\ TouchesOnly(biz[w])
         /\ Active' = Active \ deact[w]
<1>1. deact[w] = ids[w] \cap Active /\ \A q \in ids[w] : subs[q].business \in biz[w]
  BY DEF DeactivateCommit, ReadInv, DeactSteps
<1>2. deact[w] \subseteq Existing
  BY DEF Typed, RefInv
<1>3. \A q \in SubId :
        /\ q \notin deact[w] => subs'[q] = subs[q]
        /\ q \in deact[w] => subs'[q].state = "inactive" /\ subs'[q].business = subs[q].business
  BY <1>2, DeactivatedRows DEF DeactivateCommit
<1>4. QED
  BY <1>1, <1>3 DEF TouchesOnly, Existing, Active

\* Two transactions past their locking statements work on different businesses.
LEMMA Disjoint ==
  ASSUME Typed, LockInv, NEW v \in Worker, NEW w \in Worker, v # w,
         pc[v] \in FullyLocked, pc[w] \in FullyLocked
  PROVE  biz[v] \cap biz[w] = {}
BY DEF LockInv, Typed, TypeOK

\* The reads of every other process survive a commit of w.
LEMMA OthersKeepReads ==
  ASSUME Typed, LockInv, ReadInv, NEW w \in Worker, pc[w] \in FullyLocked,
         TouchesOnly(biz[w]),
         NEW v \in Worker, v # w,
         pc'[v] = pc[v], biz'[v] = biz[v], ids'[v] = ids[v], deact'[v] = deact[v],
         feat'[v] = feat[v]
  PROVE  /\ pc'[v] = "act_insert" =>
              deact'[v] = {pk \in Active' : subs'[pk].business \in biz'[v]}
         /\ pc'[v] \in DeactSteps => \A pk \in ids'[v] : subs'[pk].business \in biz'[v]
         /\ pc'[v] \in {"deact_sync", "deact_commit"} => deact'[v] = ids'[v] \cap Active'
         /\ pc'[v] = "deact_commit" => feat'[v] = StillFeatured(v)'
<1> DEFINE Mine(pk) == subs[pk].business \in biz[v]
<1>1. \A pk \in ids[v] : pk \in Existing /\ subs'[pk].business = subs[pk].business
  BY DEF TouchesOnly, Typed, RefInv
<1>2. pc'[v] \in DeactSteps => \A pk \in ids'[v] : subs'[pk].business \in biz'[v]
  BY <1>1 DEF ReadInv
<1>3. CASE pc[v] \notin {"act_insert", "deact_sync", "deact_commit"}
  BY <1>2, <1>3
<1>4. CASE pc[v] \in {"act_insert", "deact_sync", "deact_commit"}
  <2>1. biz[v] \cap biz[w] = {}
    BY <1>4, Disjoint DEF FullyLocked, InTransaction, ActSteps, DeactSteps
  <2>2. \A pk \in Active \cup Active' : pk \in SubId
    BY DEF Active
  <2>3. \A pk \in SubId :
          /\ (pk \in Active /\ Mine(pk)) => (pk \in Active' /\ subs'[pk].business = subs[pk].business)
          /\ (pk \in Active' /\ subs'[pk].business \in biz[v]) => pk \in Active /\ Mine(pk)
    <3>1. Active \subseteq Existing
      BY DEF Active, Existing
    <3>2. QED
      BY <2>1, <3>1 DEF TouchesOnly
  <2>4. CASE pc[v] = "act_insert"
    BY <1>2, <2>2, <2>3, <2>4 DEF ReadInv
  <2>5. CASE pc[v] \in {"deact_sync", "deact_commit"}
    <3>1. \A pk \in ids[v] : Mine(pk) /\ subs'[pk].business \in biz[v] /\ pk \in SubId
      BY <1>1, <2>5 DEF ReadInv, DeactSteps, Existing
    <3>2. ids[v] \cap Active = ids[v] \cap Active'
      BY <2>3, <3>1
    <3>3. StillFeatured(v)' = StillFeatured(v)
      <4>1. ASSUME NEW c \in biz[v]
            PROVE  (\E pk \in ActiveOf(c) : pk \notin deact[v])
                     <=> (\E pk \in Active' : subs'[pk].business = c /\ pk \notin deact[v])
        BY <2>2, <2>3 DEF ActiveOf
      <4>2. QED
        BY <4>1 DEF StillFeatured, ActiveOf
    <3>4. QED
      BY <1>2, <2>5, <3>2, <3>3 DEF ReadInv
  <2>6. QED
    BY <1>4, <2>4, <2>5
<1>5. QED
  BY <1>3, <1>4

\* What an open transaction has read under its locks stays so, and a
\* business never has two active rows.
LEMMA ReadsStep == IInv /\ [Next]_vars => ReadInv' /\ OneActive'
<1> SUFFICES ASSUME IInv, [Next]_vars PROVE ReadInv' /\ OneActive'
  OBVIOUS
<1>0. Typed /\ LockInv /\ ReadInv /\ OneActive /\ Typed'
  BY TypedStep DEF IInv
<1>a. ASSUME UNCHANGED subs, NEW w \in Worker,
             \A v \in Worker \ {w} :
               /\ pc'[v] = pc[v] /\ biz'[v] = biz[v] /\ ids'[v] = ids[v]
               /\ deact'[v] = deact[v] /\ feat'[v] = feat[v],
             pc'[w] \notin DeactSteps \cup {"act_insert"}
      PROVE  ReadInv' /\ OneActive'
  <2>1. Active' = Active /\ OneActive'
    BY <1>0, <1>a DEF Active, OneActive
  <2>2. \A v \in Worker \ {w} : StillFeatured(v)' = StillFeatured(v)
    BY <1>a, <2>1 DEF StillFeatured, ActiveOf
  <2>3. QED
    BY <1>0, <1>a, <2>1, <2>2 DEF ReadInv, DeactSteps
<1> USE <1>0 DEF Typed, TypeOK, Goto, table, local
<1>1. ASSUME NEW w \in Worker, NEW b \in Business, LockBusiness(w, b)
      PROVE ReadInv' /\ OneActive'
  <2>1. Active' = Active /\ \A v \in Worker : StillFeatured(v)' = StillFeatured(v)
    BY <1>1 DEF LockBusiness, Active, StillFeatured, ActiveOf
  <2>2. QED
    BY <1>1, <2>1 DEF LockBusiness, ReadInv, OneActive, DeactSteps
<1>2. ASSUME NEW w \in Worker, NEW b \in Business, NEW p \in Plan, BeginActivate(w, b, p)
      PROVE ReadInv' /\ OneActive'
  BY <1>2, <1>a DEF BeginActivate, DeactSteps
<1>3. ASSUME NEW w \in Worker, NEW selected \in SUBSET SubId, BeginReactivate(w, selected)
      PROVE ReadInv' /\ OneActive'
  BY <1>3, <1>a DEF BeginReactivate, DeactSteps
<1>4. ASSUME NEW w \in Worker, NEW pk \in SubId, NextReactivate(w, pk)
      PROVE ReadInv' /\ OneActive'
  BY <1>4, <1>a DEF NextReactivate, DeactSteps
<1>5. ASSUME NEW w \in Worker, Supersede(w) PROVE ReadInv' /\ OneActive'
  <2>1. Active' = Active
    BY <1>5 DEF Supersede, Active
  <2>2. \A v \in Worker \ {w} : StillFeatured(v)' = StillFeatured(v)
    BY <1>5, <2>1 DEF Supersede, StillFeatured, ActiveOf
  <2>3. QED
    BY <1>5, <2>1, <2>2 DEF Supersede, ReadInv, OneActive, DeactSteps
<1>6. ASSUME NEW w \in Worker, NEW b \in Business, NEW pk \in SubId, InsertAndCommit(w, b, pk)
      PROVE ReadInv' /\ OneActive'
  <2>1. TouchesOnly(biz[w]) /\ \A q \in Active' : subs'[q].business = b => q = pk
    BY <1>6, InsertTouches
  <2>2. biz[w] = {b} /\ pc[w] \in FullyLocked
    BY <1>6 DEF InsertAndCommit, FullyLocked, InTransaction, ActSteps
  <2>3. ASSUME NEW q \in Active', NEW r \in Active', subs'[q].business = subs'[r].business
        PROVE  q = r
    <3>1. CASE subs'[q].business = b
      BY <2>1, <2>3, <3>1
    <3>2. CASE subs'[q].business # b
      <4>1. Active \subseteq Existing
        BY DEF Active, Existing
      <4>2. q \in Active /\ r \in Active
        BY <2>1, <2>2, <2>3, <3>2 DEF TouchesOnly
      <4>3. subs[q].business = subs[r].business
        BY <2>1, <2>3, <4>1, <4>2 DEF TouchesOnly
      <4>4. QED
        BY <4>2, <4>3 DEF OneActive
    <3>3. QED
      BY <3>1, <3>2
  <2>4. OneActive'
    BY <2>3 DEF OneActive
  <2>5. pc'[w] = "drop_cache" /\ \A v \in Worker \ {w} :
          pc'[v] = pc[v] /\ biz'[v] = biz[v] /\ ids'[v] = ids[v]
          /\ deact'[v] = deact[v] /\ feat'[v] = feat[v]
    BY <1>6 DEF InsertAndCommit, AfterCommit
  <2>6. QED
    BY <2>1, <2>2, <2>4, <2>5, OthersKeepReads DEF ReadInv, DeactSteps
<1>7. ASSUME NEW w \in Worker, NEW selected \in SUBSET Active, BeginDeactivate(w, selected)
      PROVE ReadInv' /\ OneActive'
  <2>1. Active' = Active
    BY <1>7 DEF BeginDeactivate, Active
  <2>2. \A v \in Worker \ {w} : StillFeatured(v)' = StillFeatured(v)
    BY <1>7, <2>1 DEF BeginDeactivate, StillFeatured, ActiveOf
  <2>3. QED
    BY <1>7, <2>1, <2>2 DEF BeginDeactivate, ReadInv, OneActive, DeactSteps
<1>8. ASSUME NEW w \in Worker, DeactivateUpdate(w) PROVE ReadInv' /\ OneActive'
  <2>1. Active' = Active
    BY <1>8 DEF DeactivateUpdate, Active
  <2>2. \A v \in Worker \ {w} : StillFeatured(v)' = StillFeatured(v)
    BY <1>8, <2>1 DEF DeactivateUpdate, StillFeatured, ActiveOf
  <2>3. QED
    BY <1>8, <2>1, <2>2 DEF DeactivateUpdate, RowsToEnd, ReadInv, OneActive, DeactSteps
<1>9. ASSUME NEW w \in Worker, DeactivateSync(w) PROVE ReadInv' /\ OneActive'
  <2>1. Active' = Active
    BY <1>9 DEF DeactivateSync, Active
  <2>2. \A v \in Worker : StillFeatured(v)' = StillFeatured(v)
    BY <1>9, <2>1 DEF DeactivateSync, StillFeatured, ActiveOf
  <2>3. QED
    BY <1>9, <2>1, <2>2 DEF DeactivateSync, ReadInv, OneActive, DeactSteps
<1>10. ASSUME NEW w \in Worker, DeactivateCommit(w) PROVE ReadInv' /\ OneActive'
  <2>1. TouchesOnly(biz[w]) /\ Active' = Active \ deact[w]
    BY <1>10, DeactivateTouches
  <2>2. pc[w] \in FullyLocked
    BY <1>10 DEF DeactivateCommit, FullyLocked, InTransaction, DeactSteps
  <2>3. Active \subseteq Existing
    BY DEF Active, Existing
  <2>4. OneActive'
    BY <2>1, <2>3 DEF OneActive, TouchesOnly
  <2>5. pc'[w] = "drop_cache" /\ \A v \in Worker \ {w} :
          pc'[v] = pc[v] /\ biz'[v] = biz[v] /\ ids'[v] = ids[v]
          /\ deact'[v] = deact[v] /\ feat'[v] = feat[v]
    BY <1>10 DEF DeactivateCommit, AfterCommit
  <2>6. QED
    BY <2>1, <2>2, <2>4, <2>5, OthersKeepReads DEF ReadInv, DeactSteps
<1>11. ASSUME NEW w \in Worker, NEW b \in Business, CacheCompute(w, b)
       PROVE ReadInv' /\ OneActive'
  BY <1>11, <1>a DEF CacheCompute, DeactSteps
<1>12. ASSUME NEW w \in Worker, CacheSet(w) PROVE ReadInv' /\ OneActive'
  BY <1>12, <1>a DEF CacheSet, DeactSteps
<1>13. ASSUME NEW w \in Worker, DropCache(w) PROVE ReadInv' /\ OneActive'
  BY <1>13, <1>a DEF DropCache, DeactSteps
<1>14. ASSUME NEW w \in Worker, Crash(w) PROVE ReadInv' /\ OneActive'
  BY <1>14, <1>a DEF Crash, DeactSteps
<1>15. ASSUME UNCHANGED <<subs, local>> PROVE ReadInv' /\ OneActive'
  <2>1. Active' = Active /\ \A v \in Worker : StillFeatured(v)' = StillFeatured(v)
    BY <1>15 DEF Active, StillFeatured, ActiveOf
  <2>2. QED
    BY <1>15, <2>1 DEF ReadInv, OneActive
<1>16. ASSUME NEW w \in Worker, NEW b \in Business, EditLoad(w, b)
       PROVE ReadInv' /\ OneActive'
  BY <1>16, <1>a DEF EditLoad, DeactSteps
<1>17. ASSUME NEW w \in Worker, EditSave(w) PROVE ReadInv' /\ OneActive'
  BY <1>17, <1>a DEF EditSave, DeactSteps
<1>18. ASSUME NEW b \in Business, CacheExpire(b) \/ InvalidateProfile(b)
       PROVE UNCHANGED <<subs, local>>
  BY <1>18 DEF CacheExpire, InvalidateProfile
<1>19. ASSUME Tick \/ UNCHANGED vars PROVE UNCHANGED <<subs, local>>
  BY <1>19 DEF Tick, vars
<1>20. ASSUME NEW b \in Business, NEW checked \in BOOLEAN, ChangeForm(b, checked)
       PROVE UNCHANGED <<subs, local>>
  BY <1>20 DEF ChangeForm
<1>21. QED
  BY <1>1, <1>2, <1>3, <1>4, <1>5, <1>6, <1>7, <1>8, <1>9, <1>10, <1>11, <1>12, <1>13,
     <1>14, <1>15, <1>16, <1>17, <1>18, <1>19, <1>20
     DEF Next, ServiceNext, ActivateStep, DeactivateStep, ReadStep, EditStep,
         BeginSweep, BeginAdminDeactivate, Expired

-----------------------------------------------------------------------------
(* The flag.                                                               *)

\* A commit leaves every business it does not work on as it was.
LEMMA Untouched ==
  ASSUME Typed, NEW S, TouchesOnly(S), NEW b \in Business, b \notin S
  PROVE  (ActiveOf(b) # {})' <=> ActiveOf(b) # {}
<1>1. Active \subseteq Existing
  BY DEF Active, Existing
<1>2. QED
  BY <1>1 DEF TouchesOnly, ActiveOf

\* No service step makes is_featured of a business go wrong.
LEMMA ServiceStepMirrors ==
  ASSUME IInv, ServiceNext \/ UNCHANGED vars, NEW b \in Business, Mirrors(b)
  PROVE  Mirrors(b)'
<1>0. Typed /\ LockInv /\ ReadInv /\ OneActive
  BY DEF IInv
<1>1. ASSUME UNCHANGED <<subs, flag>> PROVE Mirrors(b)'
  BY <1>1 DEF Mirrors, ActiveOf, Active
<1>2. ASSUME NEW w \in Worker, NEW c \in Business, NEW pk \in SubId, InsertAndCommit(w, c, pk)
      PROVE Mirrors(b)'
  <2>1. /\ TouchesOnly(biz[w]) /\ biz[w] = {c}
        /\ pk \in Active' /\ subs'[pk].business = c
    BY <1>0, <1>2, InsertTouches DEF InsertAndCommit
  <2>2. CASE b = c
    <3>1. (ActiveOf(b) # {})'
      BY <2>1, <2>2 DEF ActiveOf
    <3>2. flag'[b] = TRUE
      BY <1>0, <1>2, <2>2 DEF InsertAndCommit, Typed, TypeOK
    <3>3. QED
      BY <3>1, <3>2 DEF Mirrors
  <2>3. CASE b # c
    <3>1. (ActiveOf(b) # {})' <=> ActiveOf(b) # {}
      BY <1>0, <2>1, <2>3, Untouched
    <3>2. flag'[b] = flag[b]
      BY <1>0, <1>2, <2>3 DEF InsertAndCommit, Typed, TypeOK
    <3>3. QED
      BY <3>1, <3>2 DEF Mirrors
  <2>4. QED
    BY <2>2, <2>3
<1>3. ASSUME NEW w \in Worker, DeactivateCommit(w) PROVE Mirrors(b)'
  <2>1. TouchesOnly(biz[w]) /\ Active' = Active \ deact[w]
    BY <1>0, <1>3, DeactivateTouches
  <2>2. feat[w] = StillFeatured(w)
    BY <1>0, <1>3 DEF DeactivateCommit, ReadInv
  <2>3. CASE b \in biz[w]
    <3>1. flag'[b] <=> b \in feat[w]
      BY <1>3, <2>3 DEF DeactivateCommit, WriteFlags
    <3>2. b \in feat[w] <=> \E pk \in Active \ deact[w] : subs[pk].business = b
      BY <2>2, <2>3 DEF StillFeatured, ActiveOf
    <3>3. \A pk \in Active' : subs'[pk].business = subs[pk].business
      <4>1. Active \subseteq Existing
        BY DEF Active, Existing
      <4>2. QED
        BY <2>1, <4>1 DEF TouchesOnly
    <3>4. QED
      BY <2>1, <3>1, <3>2, <3>3 DEF Mirrors, ActiveOf
  <2>4. CASE b \notin biz[w]
    <3>1. (ActiveOf(b) # {})' <=> ActiveOf(b) # {}
      BY <1>0, <2>1, <2>4, Untouched
    <3>2. flag'[b] = flag[b]
      BY <1>3, <2>4 DEF DeactivateCommit, WriteFlags
    <3>3. QED
      BY <3>1, <3>2 DEF Mirrors
  <2>5. QED
    BY <2>3, <2>4
<1>4. ASSUME NEW w \in Worker,
             \/ \E c \in Business : LockBusiness(w, c) \/ CacheCompute(w, c)
             \/ \E c \in Business, p \in Plan : BeginActivate(w, c, p)
             \/ \E selected \in SUBSET SubId :
                  BeginReactivate(w, selected) \/ BeginDeactivate(w, selected)
             \/ \E pk \in SubId : NextReactivate(w, pk)
             \/ Supersede(w) \/ DeactivateUpdate(w) \/ DeactivateSync(w)
             \/ CacheSet(w) \/ DropCache(w) \/ Crash(w)
      PROVE  UNCHANGED <<subs, flag>>
  BY <1>4 DEF LockBusiness, CacheCompute, BeginActivate, BeginReactivate, BeginDeactivate,
              NextReactivate, Supersede, DeactivateUpdate, DeactivateSync, CacheSet,
              DropCache, Crash, table
<1>5. ASSUME \/ \E c \in Business : CacheExpire(c) \/ InvalidateProfile(c)
             \/ Tick \/ UNCHANGED vars
      PROVE  UNCHANGED <<subs, flag>>
  BY <1>5 DEF CacheExpire, InvalidateProfile, Tick, vars, table
<1>6. QED
  BY <1>1, <1>2, <1>3, <1>4, <1>5
     DEF ServiceNext, ActivateStep, DeactivateStep, ReadStep, BeginSweep,
         BeginAdminDeactivate, Expired, Active

-----------------------------------------------------------------------------
(* The theorems.                                                           *)

\* The invariant holds in the empty database.
LEMMA InitInv == Init => MirrorInv
<1> SUFFICES ASSUME Init PROVE MirrorInv
  OBVIOUS
<1> USE DEF Init
<1>1. Existing = {} /\ Active = {}
  BY DEF Existing, Active, Absent
<1>2. Typed
  BY <1>1 DEF Typed, TypeOK, RefInv, Steps, ActSteps, Absent
<1>3. LockInv
  BY ProcessesDistinct DEF LockInv, FullyLocked, InTransaction, ActSteps, DeactSteps
<1>4. ReadInv /\ OneActive
  BY <1>1 DEF ReadInv, OneActive, DeactSteps
<1>5. FlagMirrors
  BY <1>1 DEF FlagMirrors, Mirrors, ActiveOf
<1>6. QED
  BY <1>2, <1>3, <1>4, <1>5 DEF MirrorInv, IInv

\* Every step, edits included, keeps the inductive invariant.
LEMMA StepInv == IInv /\ [Next]_vars => IInv'
BY TypedStep, LockStep, ReadsStep DEF IInv

\* The inductive invariant holds in every reachable state.
LEMMA Invariance == Spec => []IInv
<1>1. Init => IInv
  BY InitInv DEF MirrorInv
<1>2. QED
  BY <1>1, StepInv, PTL DEF Spec

\* Every variable keeps its type (TypeOK), profile edits included.
THEOREM TypeCorrect == Spec => []TypeOK
<1>1. IInv => TypeOK
  BY DEF IInv, Typed
<1>2. QED
  BY <1>1, Invariance, PTL

\* activate_subscription never runs into uniq_active_featured_per_biz: the lock
\* on the business row keeps every other activation out until it commits.
THEOREM InsertIsSafe == Spec => []InsertNeverConflicts
<1>1. IInv => InsertNeverConflicts
  BY DEF IInv, ReadInv, InsertNeverConflicts, ConstraintAllows
<1>2. QED
  BY <1>1, Invariance, PTL

\* Locking in key order: no two processes ever wait for each other.
THEOREM LocksAreOrdered == Spec => []NoCircularWait
<1>1. IInv => NoCircularWait
  <2> SUFFICES ASSUME IInv, NEW v \in Worker, NEW w \in Worker,
                      WaitsFor(v, w), WaitsFor(w, v)
               PROVE  FALSE
    BY DEF NoCircularWait
  <2>1. PICK b \in Business : NextToLock(v, b) /\ lock[b] = w
    BY DEF WaitsFor
  <2>2. PICK c \in Business : NextToLock(w, c) /\ lock[c] = v
    BY DEF WaitsFor
  <2>3. ~ (b < c) /\ ~ (c < b)
    BY <2>1, <2>2 DEF NextToLock, IInv, LockInv
  <2>4. b = c
    BY <2>3, KeysAreNumbers
  <2>5. QED
    BY <2>1, <2>2, <2>4 DEF NextToLock
<1>2. QED
  BY <1>1, Invariance, PTL

\* "The flag cannot drift out of sync": true of the services on their own.
THEOREM FlagInSync == ServiceSpec => []FlagMirrors
<1>1. Init => MirrorInv
  BY InitInv
<1>2. MirrorInv /\ [ServiceNext]_vars => MirrorInv'
  <2> SUFFICES ASSUME MirrorInv, [ServiceNext]_vars PROVE MirrorInv'
    OBVIOUS
  <2>1. IInv'
    BY StepInv DEF MirrorInv, Next
  <2>2. \A b \in Business : Mirrors(b)'
    BY ServiceStepMirrors DEF MirrorInv, FlagMirrors
  <2>3. QED
    BY <2>1, <2>2 DEF MirrorInv, FlagMirrors
<1>3. MirrorInv => FlagMirrors
  BY DEF MirrorInv
<1>4. QED
  BY <1>1, <1>2, <1>3, PTL DEF ServiceSpec

\* With profile edits, the only step that makes the flag wrong is the full save
\* of the edited profile.
THEOREM EditsAlone == Spec => OnlyEditDrifts
<1>1. IInv /\ [Next]_vars =>
        [\A b \in Business : Mirrors(b) /\ ~ Mirrors(b)' =>
           \/ \E w \in Worker : EditSave(w) /\ b \in biz[w]
           \/ \E checked \in BOOLEAN : ChangeForm(b, checked)]_vars
  <2> SUFFICES ASSUME IInv, [Next]_vars, NEW b \in Business, Mirrors(b),
                      \A w \in Worker : EditSave(w) => b \notin biz[w],
                      \A checked \in BOOLEAN : ~ ChangeForm(b, checked)
               PROVE  Mirrors(b)'
    OBVIOUS
  <2>1. CASE ServiceNext \/ UNCHANGED vars
    BY <2>1, ServiceStepMirrors
  <2>2. ASSUME NEW w \in Worker, NEW c \in Business, EditLoad(w, c) PROVE Mirrors(b)'
    BY <2>2 DEF EditLoad, table, Mirrors, ActiveOf, Active
  <2>3. ASSUME NEW w \in Worker, EditSave(w) PROVE Mirrors(b)'
    <3>1. flag'[b] = flag[b] /\ subs' = subs
      BY <2>3 DEF EditSave, WriteFlags
    <3>2. QED
      BY <3>1 DEF Mirrors, ActiveOf, Active
  <2>4. ASSUME NEW c \in Business, NEW checked \in BOOLEAN, ChangeForm(c, checked)
        PROVE  Mirrors(b)'
    <3>1. c # b
      BY <2>4
    <3>2. flag'[b] = flag[b] /\ subs' = subs
      BY <2>4, <3>1 DEF ChangeForm
    <3>3. QED
      BY <3>2 DEF Mirrors, ActiveOf, Active
  <2>5. QED
    BY <2>1, <2>2, <2>3, <2>4 DEF Next, EditStep
<1>2. QED
  BY <1>1, Invariance, PTL DEF Spec, OnlyEditDrifts

\* A row that exists stays, and only turns inactive.
LEMMA RowStays ==
  ASSUME IInv, [Next]_vars, NEW pk \in Existing
  PROVE  /\ pk \in Existing'
         /\ subs[pk].state = "inactive" => subs'[pk] = subs[pk]
         /\ subs[pk].state = "active" =>
              subs'[pk] \in {subs[pk], [subs[pk] EXCEPT !.state = "inactive"]}
<1>1. Typed /\ ReadInv
  BY DEF IInv
<1>2. ASSUME UNCHANGED subs
      PROVE  pk \in Existing' /\ subs'[pk] = subs[pk]
  BY <1>2 DEF Existing
<1>3. ASSUME NEW w \in Worker, subs'[pk] = Deactivated(deact[w])[pk], deact[w] \subseteq Active
      PROVE  /\ pk \in Existing'
             /\ subs[pk].state = "inactive" => subs'[pk] = subs[pk]
             /\ subs[pk].state = "active" =>
                  subs'[pk] \in {subs[pk], [subs[pk] EXCEPT !.state = "inactive"]}
  <2>1. pk \in SubId /\ deact[w] \subseteq Existing
    BY <1>3 DEF Existing, Active
  <2>2. CASE pk \in deact[w]
    <3>1. subs[pk].state = "active"
      BY <1>3, <2>2 DEF Active
    <3>2. subs'[pk] = [subs[pk] EXCEPT !.state = "inactive"]
      BY <1>3, <2>1, <2>2, Zenon DEF Deactivated
    <3>3. subs'[pk].state = "inactive"
      BY <1>1, <1>3, <2>1, <2>2, DeactivatedRows
    <3>4. QED
      BY <2>1, <3>1, <3>2, <3>3 DEF Existing
  <2>3. CASE pk \notin deact[w]
    <3>1. subs'[pk] = subs[pk]
      BY <1>1, <1>3, <2>1, <2>3, DeactivatedRows
    <3>2. QED
      BY <2>1, <3>1 DEF Existing
  <2>4. QED
    BY <2>2, <2>3
<1>4. ASSUME NEW w \in Worker, NEW b \in Business, NEW new \in SubId,
             InsertAndCommit(w, b, new)
      PROVE  subs'[pk] = Deactivated(deact[w])[pk] /\ deact[w] \subseteq Active
  <2>1. pk # new
    BY <1>4 DEF InsertAndCommit, NewPk
  <2>2. Deactivated(deact[w]) \in [SubId -> Row \cup {Absent}]
    BY <1>1, DeactivatedRows DEF Typed, RefInv
  <2>3. QED
    BY <1>1, <1>4, <2>1, <2>2 DEF InsertAndCommit, ReadInv, Existing
<1>5. ASSUME NEW w \in Worker, DeactivateCommit(w)
      PROVE  subs'[pk] = Deactivated(deact[w])[pk] /\ deact[w] \subseteq Active
  BY <1>1, <1>5 DEF DeactivateCommit, ReadInv
<1>6. ASSUME NEW w \in Worker,
             \/ \E c \in Business : LockBusiness(w, c) \/ CacheCompute(w, c) \/ EditLoad(w, c)
             \/ \E c \in Business, p \in Plan : BeginActivate(w, c, p)
             \/ \E selected \in SUBSET SubId :
                  BeginReactivate(w, selected) \/ BeginDeactivate(w, selected)
             \/ \E q \in SubId : NextReactivate(w, q)
             \/ Supersede(w) \/ DeactivateUpdate(w) \/ DeactivateSync(w)
             \/ CacheSet(w) \/ DropCache(w) \/ Crash(w) \/ EditSave(w)
      PROVE  UNCHANGED subs
  BY <1>6 DEF LockBusiness, CacheCompute, EditLoad, BeginActivate, BeginReactivate,
              BeginDeactivate, NextReactivate, Supersede, DeactivateUpdate,
              DeactivateSync, CacheSet, DropCache, Crash, EditSave, table
<1>7. ASSUME \/ \E c \in Business : CacheExpire(c) \/ InvalidateProfile(c)
             \/ \E c \in Business, checked \in BOOLEAN : ChangeForm(c, checked)
             \/ Tick \/ UNCHANGED vars
      PROVE  UNCHANGED subs
  BY <1>7 DEF CacheExpire, InvalidateProfile, ChangeForm, Tick, vars, table
<1>8. QED
  BY <1>2, <1>3, <1>4, <1>5, <1>6, <1>7
     DEF Next, ServiceNext, ActivateStep, DeactivateStep, ReadStep, EditStep,
         BeginSweep, BeginAdminDeactivate, Expired, Active

\* Subscriptions are history: no row is lost, edited or revived.
THEOREM HistoryIsKept == Spec => HistoryKept
<1>1. IInv /\ [Next]_vars =>
        [\A pk \in Existing :
           /\ pk \in Existing'
           /\ subs[pk].state = "inactive" => subs'[pk] = subs[pk]
           /\ subs[pk].state = "active" =>
                subs'[pk] \in {subs[pk], [subs[pk] EXCEPT !.state = "inactive"]}]_vars
  BY RowStays
<1>2. QED
  BY <1>1, Invariance, PTL DEF Spec, HistoryKept

\* What a sweep has listed had expired when it was listed, and time goes on.
SweepInv == \A w \in Celery : \A pk \in ids[w] : subs[pk].expires_at <= now

LEMMA SweepStep == IInv /\ SweepInv /\ [Next]_vars => SweepInv'
<1> SUFFICES ASSUME IInv, SweepInv, [Next]_vars, NEW w \in Celery, NEW pk \in ids'[w]
             PROVE  subs'[pk].expires_at <= now'
  BY DEF SweepInv
<1>0. Typed /\ w \in Worker /\ w \notin Web /\ now \in Nat /\ ids \in [Worker -> SUBSET SubId]
  BY ProcessesDistinct DEF IInv, Typed, TypeOK, Worker
<1>1. now' \in Nat /\ now <= now'
  BY <1>0 DEF Next, ServiceNext, ActivateStep, DeactivateStep, ReadStep, EditStep, LockBusiness, BeginActivate,
     BeginReactivate, NextReactivate, Supersede, InsertAndCommit, BeginSweep, BeginAdminDeactivate,
     BeginDeactivate, DeactivateUpdate, DeactivateSync, DeactivateCommit, CacheCompute, CacheSet, DropCache,
     Crash, CacheExpire, InvalidateProfile, Tick, EditLoad, EditSave, ChangeForm, vars, table, local
<1>2. pk \in ids[w] \/ (pk \in Expired /\ BeginSweep(w))
  BY <1>0 DEF Next, ServiceNext, ActivateStep, DeactivateStep, ReadStep, EditStep, LockBusiness, BeginActivate,
     BeginReactivate, NextReactivate, Supersede, InsertAndCommit, BeginSweep, BeginAdminDeactivate,
     BeginDeactivate, DeactivateUpdate, DeactivateSync, DeactivateCommit, CacheCompute, CacheSet, DropCache,
     Crash, CacheExpire, InvalidateProfile, Tick, EditLoad, EditSave, ChangeForm, vars, table, local
<1>3. pk \in Existing /\ subs[pk].expires_at <= now
  BY <1>0, <1>2 DEF SweepInv, Typed, RefInv, Expired, Active, Existing
<1>4. subs[pk] \in Row
  BY <1>0, <1>3 DEF Typed, TypeOK, Existing, Absent
<1>5. subs'[pk].expires_at = subs[pk].expires_at
  <2>1. subs'[pk] \in {subs[pk], [subs[pk] EXCEPT !.state = "inactive"]}
    BY <1>3, <1>4, RowStays DEF Row
  <2> QED  BY <1>4, <2>1 DEF Row
<1> QED  BY <1>0, <1>1, <1>3, <1>4, <1>5 DEF Row

\* A sweep ends only what has expired, whatever was bought while it waited for the lock.
THEOREM SweepsEndTheExpired == Spec => SweepEndsOnlyExpired
<1>1. Init => SweepInv
  BY DEF Init, SweepInv, Worker
<1>2. IInv /\ SweepInv /\ [Next]_vars => SweepInv'
  BY SweepStep
<1>3. IInv /\ SweepInv /\ [Next]_vars =>
        [\A w \in Celery : DeactivateCommit(w) =>
           \A pk \in Active : subs'[pk] # subs[pk] => subs[pk].expires_at <= now]_vars
  <2> SUFFICES ASSUME IInv, SweepInv, NEW w \in Celery, DeactivateCommit(w),
                      NEW pk \in Active, subs'[pk] # subs[pk]
               PROVE  subs[pk].expires_at <= now
    OBVIOUS
  <2>1. w \in Worker /\ pc[w] = "deact_commit" /\ pk \in SubId
    BY DEF DeactivateCommit, Worker, Active
  <2>2. pk \in deact[w]
    BY <2>1 DEF DeactivateCommit, Deactivated
  <2>3. pk \in ids[w]
    BY <2>1, <2>2 DEF IInv, ReadInv
  <2> QED
    BY <2>3 DEF SweepInv
<1>4. QED
  BY <1>1, <1>2, <1>3, Invariance, PTL DEF Spec, SweepEndsOnlyExpired

\* A cached copy goes stale only where its deletion is still to come, by a late reader,
\* or by the Admin's form.
THEOREM StaleCopiesAreOwed == Spec => StaleCopyIsOwed
<1>1. IInv /\ [Next]_vars =>
        [\A b \in Business : ~ Stale(b) /\ Stale(b)' =>
           \/ \E w \in Worker :
                /\ b \in biz[w]
                /\ pc[w] = "fill" \/ (pc[w] # "drop_cache" /\ pc'[w] = "drop_cache")
           \/ \E checked \in BOOLEAN : ChangeForm(b, checked)]_vars
  <2> DEFINE Owed(b) == \E w \in Worker :
               /\ b \in biz[w]
               /\ pc[w] = "fill" \/ (pc[w] # "drop_cache" /\ pc'[w] = "drop_cache")
  <2> SUFFICES ASSUME IInv, [Next]_vars, NEW b \in Business, ~ Stale(b), Stale(b)',
                      \A checked \in BOOLEAN : ~ ChangeForm(b, checked)
               PROVE  Owed(b)
    OBVIOUS
  <2>0. /\ pc \in [Worker -> Steps] /\ flag \in [Business -> BOOLEAN]
        /\ cached \in [Business -> {"miss", "featured", "plain"}]
    BY DEF IInv, Typed, TypeOK
  <2>1. cached'[b] # "miss" /\ (cached'[b] # cached[b] \/ flag'[b] # flag[b])
    BY DEF Stale
  <2>2. ASSUME NEW w \in Worker, NEW c \in Business, NEW pk \in SubId, InsertAndCommit(w, c, pk)
        PROVE  Owed(b)
    <3>1. flag' = [flag EXCEPT ![c] = TRUE] /\ biz[w] = {c} /\ pc[w] = "act_insert"
          /\ pc' = [pc EXCEPT ![w] = "drop_cache"] /\ cached' = cached
      BY <2>2 DEF InsertAndCommit, AfterCommit, Goto
    <3>2. b = c  BY <2>0, <2>1, <3>1
    <3> QED  BY <2>0, <3>1, <3>2
  <2>3. ASSUME NEW w \in Worker, DeactivateCommit(w) \/ EditSave(w) PROVE Owed(b)
    <3>1. /\ flag' = [c \in Business |-> IF c \in biz[w] THEN c \in feat[w] ELSE flag[c]]
          /\ pc[w] # "drop_cache" /\ pc' = [pc EXCEPT ![w] = "drop_cache"] /\ cached' = cached
      BY <2>3 DEF DeactivateCommit, EditSave, AfterCommit, Goto, WriteFlags
    <3>2. b \in biz[w]
      <4>1. b \notin biz[w] => flag'[b] = flag[b]  BY <3>1
      <4> QED  BY <2>1, <3>1, <4>1
    <3> QED  BY <2>0, <3>1, <3>2
  <2>4. ASSUME NEW c \in Business, NEW checked \in BOOLEAN, ChangeForm(c, checked) PROVE Owed(b)
    <3>1. c # b  BY <2>4
    <3> QED  BY <2>0, <2>1, <2>4, <3>1 DEF ChangeForm
  <2>5. ASSUME NEW w \in Worker, CacheSet(w) PROVE Owed(b)
    <3>1. /\ pc[w] = "fill" /\ UNCHANGED flag
          /\ cached' = [c \in Business |-> IF c \in biz[w]
                          THEN IF c \in feat[w] THEN "featured" ELSE "plain" ELSE cached[c]]
      BY <2>5 DEF CacheSet
    <3>2. b \in biz[w]
      <4>1. b \notin biz[w] => cached'[b] = cached[b]  BY <3>1
      <4> QED  BY <2>1, <3>1, <4>1
    <3> QED  BY <3>1, <3>2
  <2>6. ASSUME NEW w \in Worker, DropCache(w) PROVE Owed(b)
    <3>1. UNCHANGED flag /\ cached' = [c \in Business |-> IF c \in biz[w] THEN "miss" ELSE cached[c]]
      BY <2>6 DEF DropCache
    <3> QED  BY <2>1, <3>1
  <2>7. ASSUME NEW c \in Business, CacheExpire(c) \/ InvalidateProfile(c) PROVE Owed(b)
    BY <2>0, <2>1, <2>7 DEF CacheExpire, InvalidateProfile
  <2>8. ASSUME NEW w \in Worker,
               \/ \E c \in Business : LockBusiness(w, c) \/ CacheCompute(w, c) \/ EditLoad(w, c)
               \/ \E c \in Business, p \in Plan : BeginActivate(w, c, p)
               \/ \E selected \in SUBSET SubId :
                    BeginReactivate(w, selected) \/ BeginDeactivate(w, selected)
               \/ \E q \in SubId : NextReactivate(w, q)
               \/ Supersede(w) \/ DeactivateUpdate(w) \/ DeactivateSync(w) \/ Crash(w)
        PROVE  Owed(b)
    <3>1. UNCHANGED <<cached, flag>>
      BY <2>8 DEF LockBusiness, CacheCompute, EditLoad, BeginActivate, BeginReactivate, BeginDeactivate,
                  NextReactivate, Supersede, DeactivateUpdate, DeactivateSync, Crash, table
    <3> QED  BY <2>1, <3>1
  <2>9. CASE Tick \/ UNCHANGED vars
    BY <2>1, <2>9 DEF Tick, vars, table
  <2> QED
    BY <2>2, <2>3, <2>4, <2>5, <2>6, <2>7, <2>8, <2>9
       DEF Next, ServiceNext, ActivateStep, DeactivateStep, ReadStep, EditStep,
           BeginSweep, BeginAdminDeactivate, Expired, Active
<1>2. QED
  BY <1>1, Invariance, PTL DEF Spec, StaleCopyIsOwed
=============================================================================
