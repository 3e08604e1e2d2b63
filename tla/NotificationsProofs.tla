-------------------------- MODULE NotificationsProofs --------------------------
(***************************************************************************)
(* Proofs about Notifications: an event is told at most once, whatever     *)
(* workers die, and a muted category is silent.                            *)
(***************************************************************************)
EXTENDS Notifications, TLAPS

\* The states of a task.
Waiting(t) ==
  /\ t = [at |-> t.at, event |-> t.event]
  /\ t.at \in {"check", "create", "list"} /\ t.event \in Known
Sending(t) ==
  /\ t = [at |-> t.at, event |-> t.event, todo |-> t.todo, locale |-> t.locale]
  /\ t.at = "send" /\ t.event \in Known /\ t.todo \subseteq Token

\* The types of the variables the counts depend on.
Shape ==
  /\ event \in [Event -> {None} \cup [to : User, type : Type, full : BOOLEAN]]
  /\ queue \subseteq Known /\ open \subseteq Event
  /\ DOMAIN task = Celery
  /\ \A w \in Celery : task[w] = Idle \/ Waiting(task[w]) \/ Sending(task[w])
  /\ rows \in [Event -> Nat]
  /\ DOMAIN sent = Event \X Token
  /\ \A x \in Event \X Token : sent[x].times \in Nat

\* One worker has an event, and none while it waits in the broker.
OneWorker ==
  /\ \A v, w \in Celery : task[v] # Idle /\ task[w] # Idle /\ task[v].event = task[w].event => v = w
  /\ \A w \in Celery : task[w] # Idle => task[w].event \notin queue

\* What an event has been told follows from where its task is.
Progress ==
  /\ \A e \in Event : e \notin Known \/ e \in queue =>
       rows[e] = 0 /\ \A k \in Token : sent[<<e, k>>].times = 0
  /\ \A w \in Celery :
       /\ task[w].at \in {"check", "create"} => rows[task[w].event] = 0
       /\ task[w].at \in {"list", "send"} => rows[task[w].event] = 1
       /\ task[w].at \in {"check", "create", "list"} =>
            \A k \in Token : sent[<<task[w].event, k>>].times = 0
       /\ task[w].at = "send" => \A k \in task[w].todo : sent[<<task[w].event, k>>].times = 0

\* The category of an event that has always been off is off, while there is anybody
\* to tell, and its task has not got past the check.
Off(e) ==
  LET v == event[e] IN
  /\ Field(v.type) # None
  /\ v.to \in exists => pref[v.to] # None /\ ~pref[v.to][Field(v.type)]
Muted ==
  /\ pref \in [User -> {None} \cup [Category -> BOOLEAN]]
  /\ DOMAIN edit = Web
  /\ \A p \in Web : edit[p] # Idle => edit[p].copy \in [Category -> BOOLEAN]
  /\ \A e \in Known \ open :
       /\ Off(e)
       /\ \A w \in Celery : task[w] # Idle /\ task[w].event = e => task[w].at = "check"

IInv == Shape /\ OneWorker /\ Progress /\ ToldOnce /\ Muted /\ MutedIsSilent

-----------------------------------------------------------------------------
(* The invariant                                                           *)

\* No event has happened.
LEMMA InitInv == Init => IInv
<1> SUFFICES ASSUME Init PROVE IInv
  OBVIOUS
<1>1. Known = {} /\ \A w \in Celery : task[w] = Idle
  BY DEF Init, Known
<1>2. \A e \in Event, k \in Token : sent[<<e, k>>] = Unsent
  BY DEF Init
<1>3. \A x \in Event \X Token : sent[x] = Unsent
  BY DEF Init
<1>4. Unsent.times = 0 /\ Idle.at = "idle"
  BY DEF Unsent, Idle
<1>5. Shape
  BY <1>1, <1>3, <1>4 DEF Init, Shape
<1>6. OneWorker
  BY <1>1 DEF OneWorker
<1>7. Progress
  BY <1>1, <1>2, <1>4 DEF Init, Progress
<1>8. ToldOnce
  BY <1>2, <1>4 DEF Init, ToldOnce
<1>9. Muted /\ MutedIsSilent
  BY <1>1 DEF Init, Muted, MutedIsSilent, AllOn
<1>10. QED
  BY <1>5, <1>6, <1>7, <1>8, <1>9 DEF IInv

\* A task goes on to a step with the same event.
LEMMA GoesOn ==
  ASSUME Shape, NEW w \in Celery, NEW at \in {"create", "list"}, Goto(w, at),
         task[w].at \in {"check", "create"}
  PROVE  /\ task'[w] = [at |-> at, event |-> task[w].event] /\ task[w].event \in Known
         /\ DOMAIN task' = Celery /\ \A v \in Celery : v # w => task'[v] = task[v]
<1>1. Waiting(task[w])
  BY DEF Shape, Waiting, Sending, Idle
<1>2. QED
  BY <1>1 DEF Shape, Waiting, Goto

\* A task ends.
LEMMA Ends ==
  ASSUME Shape, NEW w \in Celery, Done(w)
  PROVE  /\ task'[w] = Idle
         /\ DOMAIN task' = Celery /\ \A v \in Celery : v # w => task'[v] = task[v]
BY DEF Shape, Done

\* What a task whose step is known looks like.
LEMMA TaskAt ==
  ASSUME Shape, NEW w \in Celery, task[w] # Idle
  PROVE  /\ task[w].event \in Known /\ task[w].event \in Event
         /\ task[w].at \in {"check", "create", "list", "send"}
         /\ task[w].at = "send" => Sending(task[w])
         /\ task[w].at # "send" => Waiting(task[w])
BY DEF Shape, Waiting, Sending, Known

\* What is over is idle, and what is under way is not.
LEMMA IdleTask == Idle.at = "idle"
BY DEF Idle

\* What a push does: the counts of other tokens stay.
PushTo(w, k) ==
  LET t == task[w] IN
  /\ Sending(t) /\ t.event \in Event /\ k \in t.todo
  /\ DOMAIN sent' = Event \X Token /\ \A x \in Event \X Token : sent'[x].times \in Nat
  /\ sent'[<<t.event, k>>].times \in {sent[<<t.event, k>>].times, sent[<<t.event, k>>].times + 1}
  /\ \A x \in Event \X Token : x # <<t.event, k>> => sent'[x] = sent[x]
  /\ UNCHANGED <<event, open, queue, rows>>
  /\ DOMAIN task' = Celery /\ \A v \in Celery : v # w => task'[v] = task[v]
  /\ \/ task'[w] = Idle
     \/ task'[w] = [at |-> "send", event |-> t.event, todo |-> t.todo \ {k}, locale |-> t.locale]

LEMMA OnePush ==
  ASSUME Shape, NEW w \in Celery, NEW k \in Token, Send(w, k)
  PROVE  PushTo(w, k)
<1>1. task[w].at = "send" /\ k \in task[w].todo /\ UNCHANGED <<event, open, queue, rows>>
  BY DEF Send, eventVars
<1>2. Sending(task[w]) /\ task[w].event \in Event /\ task[w].event \in Known
  BY <1>1, TaskAt, IdleTask
<1>3. /\ DOMAIN task' = Celery /\ \A v \in Celery : v # w => task'[v] = task[v]
      /\ \/ task'[w] = Idle
         \/ task'[w] = [at |-> "send", event |-> task[w].event, todo |-> task[w].todo \ {k},
                        locale |-> task[w].locale]
  <2>1. CASE Done(w)
    BY <2>1, Ends
  <2>2. CASE task' = [task EXCEPT ![w] = [task[w] EXCEPT !.todo = task[w].todo \ {k}]]
    BY <1>2, <2>2, <1>1 DEF Sending, Shape
  <2>3. QED
    BY <2>1, <2>2 DEF Send
<1>4. PICK l : \/ sent' = [sent EXCEPT ![<<task[w].event, k>>] =
                           [times |-> sent[<<task[w].event, k>>].times + 1, language |-> l]]
               \/ UNCHANGED sent
  BY DEF Send
<1>5. QED
  BY <1>1, <1>2, <1>3, <1>4 DEF Shape, PushTo

\* Every step keeps the types.
LEMMA ShapeStep == Assumptions /\ Shape /\ [Next]_vars => Shape'
<1> SUFFICES ASSUME Assumptions, Shape, [Next]_vars PROVE Shape'
  OBVIOUS
<1> USE DEF userVars, eventVars, taskVars
<1>1. ASSUME NEW p \in Web, NEW u \in User, NEW c \in Category, NEW on \in BOOLEAN,
             LoadPreferences(p, u, c, on)
      PROVE  Shape'
  BY <1>1 DEF LoadPreferences, Shape, Waiting, Sending, Known, Idle
<1>2. ASSUME NEW p \in Web, SavePreferences(p) PROVE Shape'
  BY <1>2 DEF SavePreferences, Shape, Waiting, Sending, Known, Idle
<1>3. ASSUME NEW u \in User, NEW k \in Token, NEW locale \in Tongue \cup {""},
             Register(u, k, locale)
      PROVE  Shape'
  BY <1>3 DEF Register, Shape, Waiting, Sending, Known, Idle
<1>4. ASSUME NEW u \in User, DeleteUser(u) PROVE Shape'
  BY <1>4 DEF DeleteUser, Shape, Waiting, Sending, Known, Idle
<1>5. ASSUME NEW e \in Event, NEW u \in User, NEW t \in Type, NEW full \in BOOLEAN,
             NEW accepted \in BOOLEAN, Enqueue(e, u, t, full, accepted)
      PROVE  Shape'
  <2>1. /\ e \in Event /\ e \notin Known
        /\ event' = [event EXCEPT ![e] = [to |-> u, type |-> t, full |-> full]]
        /\ open' \in {open, open \cup {e}} /\ queue' \in {queue, queue \cup {e}}
        /\ UNCHANGED <<task, rows, sent>>
    BY <1>5 DEF Enqueue, taskVars
  <2>2. Known' = Known \cup {e}
    BY <2>1 DEF Shape, Known, Assumptions
  <2>3. \A v \in Celery : task'[v] = task[v]
    BY <2>1
  <2>4. \A v \in Celery : Waiting(task[v]) => Waiting(task[v])'
    BY <2>2, <2>3 DEF Waiting
  <2>5. \A v \in Celery : Sending(task[v]) => Sending(task[v])'
    BY <2>2, <2>3 DEF Sending
  <2>6. event' \in [Event -> {None} \cup [to : User, type : Type, full : BOOLEAN]]
    BY <2>1 DEF Shape
  <2>7. QED
    BY <2>1, <2>2, <2>3, <2>4, <2>5, <2>6 DEF Shape
<1>6. ASSUME NEW w \in Celery, NEW e \in Event, Receive(w, e) PROVE Shape'
  BY <1>6 DEF Receive, Shape, Waiting, Sending, Known, Idle
<1>7. ASSUME NEW w \in Celery, Check(w) PROVE Shape'
  <2>1. task[w].at = "check" /\ task[w] # Idle
        /\ UNCHANGED <<exists, pref, edit, event, open, queue, rows, sent>>
    BY <1>7, IdleTask DEF Check, eventVars
  <2>2. CASE Goto(w, "create")
    <3>1. /\ task'[w] = [at |-> "create", event |-> task[w].event] /\ task[w].event \in Known
          /\ DOMAIN task' = Celery /\ \A v \in Celery : v # w => task'[v] = task[v]
      BY <2>1, <2>2, GoesOn
    <3>2. QED
      BY <2>1, <3>1, IdleTask DEF Shape, Waiting, Sending, Known
  <2>3. CASE Done(w)
    BY <2>1, <2>3, Ends, IdleTask DEF Shape, Waiting, Sending, Known
  <2>4. QED
    BY <1>7, <2>2, <2>3 DEF Check
<1>8. ASSUME NEW w \in Celery, CreateRow(w) PROVE Shape'
  <2>1. task[w].at = "create" /\ task[w] # Idle
        /\ UNCHANGED <<exists, pref, edit, event, open, queue, sent>>
    BY <1>8, IdleTask DEF CreateRow, eventVars
  <2>2. task[w].event \in Known /\ task[w].event \in Event
    BY <2>1, TaskAt
  <2>3. CASE Goto(w, "list") /\ rows' = [rows EXCEPT ![task[w].event] = rows[task[w].event] + 1]
    <3>1. /\ task'[w] = [at |-> "list", event |-> task[w].event]
          /\ DOMAIN task' = Celery /\ \A v \in Celery : v # w => task'[v] = task[v]
      BY <2>1, <2>3, GoesOn
    <3>2. QED
      BY <2>1, <2>2, <2>3, <3>1, IdleTask DEF Shape, Waiting, Sending, Known
  <2>4. CASE Done(w) /\ UNCHANGED rows
    BY <2>1, <2>4, Ends, IdleTask DEF Shape, Waiting, Sending, Known
  <2>5. QED
    BY <1>8, <2>3, <2>4 DEF CreateRow
<1>9. ASSUME NEW w \in Celery, ListTokens(w) PROVE Shape'
  <2>1. task[w].at = "list" /\ task[w] # Idle
        /\ UNCHANGED <<exists, pref, edit, event, open, queue, rows, sent>>
    BY <1>9, IdleTask DEF ListTokens, eventVars, taskVars
  <2>2. task[w].event \in Known /\ task[w].event \in Event
    BY <2>1, TaskAt
  <2>3. CASE Done(w)
    BY <2>1, <2>3, Ends, IdleTask DEF Shape, Waiting, Sending, Known
  <2>4. ASSUME ~Done(w) PROVE Shape'
    <3>1. PICK own, l : own \subseteq Token /\ task' = [task EXCEPT ![w] =
            [at |-> "send", event |-> task[w].event, todo |-> own, locale |-> l]]
      BY <1>9, <2>4 DEF ListTokens
    <3>2. QED
      BY <2>1, <2>2, <3>1, IdleTask DEF Shape, Waiting, Sending, Known
  <2>5. QED
    BY <2>3, <2>4
<1>10. ASSUME NEW w \in Celery, NEW k \in Token, Send(w, k) PROVE Shape'
  <2>1. PushTo(w, k)
    BY <1>10, OnePush
  <2>2. CASE task'[w] = Idle
    BY <2>1, <2>2, IdleTask DEF PushTo, Sending, Shape, Waiting, Sending, Known
  <2>3. CASE task'[w] # Idle
    BY <2>1, <2>3, IdleTask DEF PushTo, Sending, Shape, Waiting, Sending, Known
  <2>4. QED
    BY <2>2, <2>3
<1>11. ASSUME NEW w \in Celery, Crash(w) PROVE Shape'
  BY <1>11, Ends DEF Crash, AfterCrash, Shape, Waiting, Sending, Known
<1>12. CASE UNCHANGED vars
  BY <1>12 DEF vars, Shape, Waiting, Sending, Known, OneWorker, Progress,
     ToldOnce, Muted, Off, MutedIsSilent
<1>13. QED
  BY <1>1, <1>2, <1>3, <1>4, <1>5, <1>6, <1>7, <1>8, <1>9, <1>10, <1>11, <1>12
     DEF Next, PushNext, SettingsNext, DeviceNext, EventNext, Work

\* A task is taken from the broker once.
LEMMA WorkerStep == Shape /\ OneWorker /\ [Next]_vars => OneWorker'
<1> SUFFICES ASSUME Shape, OneWorker, [Next]_vars PROVE OneWorker'
  OBVIOUS
<1> USE DEF userVars, eventVars, taskVars
<1>1. ASSUME NEW p \in Web, NEW u \in User, NEW c \in Category, NEW on \in BOOLEAN,
             LoadPreferences(p, u, c, on)
      PROVE  OneWorker'
  BY <1>1, TaskAt DEF LoadPreferences, OneWorker, Known, Shape
<1>2. ASSUME NEW p \in Web, SavePreferences(p) PROVE OneWorker'
  BY <1>2, TaskAt DEF SavePreferences, OneWorker, Known, Shape
<1>3. ASSUME NEW u \in User, NEW k \in Token, NEW locale \in Tongue \cup {""},
             Register(u, k, locale)
      PROVE  OneWorker'
  BY <1>3, TaskAt DEF Register, OneWorker, Known, Shape
<1>4. ASSUME NEW u \in User, DeleteUser(u) PROVE OneWorker'
  BY <1>4, TaskAt DEF DeleteUser, OneWorker, Known, Shape
<1>5. ASSUME NEW e \in Event, NEW u \in User, NEW t \in Type, NEW full \in BOOLEAN,
             NEW accepted \in BOOLEAN, Enqueue(e, u, t, full, accepted)
      PROVE  OneWorker'
  BY <1>5, TaskAt DEF Enqueue, OneWorker, Known, Shape
<1>6. ASSUME NEW w \in Celery, NEW e \in Event, Receive(w, e) PROVE OneWorker'
  BY <1>6, TaskAt DEF Receive, OneWorker, Known, Shape
<1>7. ASSUME NEW w \in Celery, Check(w) PROVE OneWorker'
  <2>1. task[w].at = "check" /\ task[w] # Idle
        /\ UNCHANGED <<exists, pref, edit, event, open, queue, rows, sent>>
    BY <1>7, IdleTask DEF Check, eventVars
  <2>2. CASE Goto(w, "create")
    <3>1. /\ task'[w] = [at |-> "create", event |-> task[w].event] /\ task[w].event \in Known
          /\ DOMAIN task' = Celery /\ \A v \in Celery : v # w => task'[v] = task[v]
      BY <2>1, <2>2, GoesOn
    <3>2. QED
      BY <2>1, <3>1, IdleTask DEF OneWorker, Known
  <2>3. CASE Done(w)
    BY <2>1, <2>3, Ends, IdleTask DEF OneWorker, Known
  <2>4. QED
    BY <1>7, <2>2, <2>3 DEF Check
<1>8. ASSUME NEW w \in Celery, CreateRow(w) PROVE OneWorker'
  <2>1. task[w].at = "create" /\ task[w] # Idle
        /\ UNCHANGED <<exists, pref, edit, event, open, queue, sent>>
    BY <1>8, IdleTask DEF CreateRow, eventVars
  <2>2. task[w].event \in Known /\ task[w].event \in Event
    BY <2>1, TaskAt
  <2>3. CASE Goto(w, "list") /\ rows' = [rows EXCEPT ![task[w].event] = rows[task[w].event] + 1]
    <3>1. /\ task'[w] = [at |-> "list", event |-> task[w].event]
          /\ DOMAIN task' = Celery /\ \A v \in Celery : v # w => task'[v] = task[v]
      BY <2>1, <2>3, GoesOn
    <3>2. QED
      BY <2>1, <2>2, <2>3, <3>1, IdleTask DEF OneWorker, Known
  <2>4. CASE Done(w) /\ UNCHANGED rows
    BY <2>1, <2>4, Ends, IdleTask DEF OneWorker, Known
  <2>5. QED
    BY <1>8, <2>3, <2>4 DEF CreateRow
<1>9. ASSUME NEW w \in Celery, ListTokens(w) PROVE OneWorker'
  <2>1. task[w].at = "list" /\ task[w] # Idle
        /\ UNCHANGED <<exists, pref, edit, event, open, queue, rows, sent>>
    BY <1>9, IdleTask DEF ListTokens, eventVars, taskVars
  <2>2. task[w].event \in Known /\ task[w].event \in Event
    BY <2>1, TaskAt
  <2>3. CASE Done(w)
    BY <2>1, <2>3, Ends, IdleTask DEF OneWorker, Known
  <2>4. ASSUME ~Done(w) PROVE OneWorker'
    <3>1. PICK own, l : own \subseteq Token /\ task' = [task EXCEPT ![w] =
            [at |-> "send", event |-> task[w].event, todo |-> own, locale |-> l]]
      BY <1>9, <2>4 DEF ListTokens
    <3>2. QED
      BY <2>1, <2>2, <3>1, IdleTask DEF OneWorker, Known
  <2>5. QED
    BY <2>3, <2>4
<1>10. ASSUME NEW w \in Celery, NEW k \in Token, Send(w, k) PROVE OneWorker'
  <2>1. PushTo(w, k)
    BY <1>10, OnePush
  <2>2. CASE task'[w] = Idle
    BY <2>1, <2>2, IdleTask DEF PushTo, Sending, OneWorker, Known
  <2>3. CASE task'[w] # Idle
    BY <2>1, <2>3, IdleTask DEF PushTo, Sending, OneWorker, Known
  <2>4. QED
    BY <2>2, <2>3
<1>11. ASSUME NEW w \in Celery, Crash(w) PROVE OneWorker'
  BY <1>11, Ends DEF Crash, AfterCrash, OneWorker
<1>12. CASE UNCHANGED vars
  BY <1>12 DEF vars, Shape, Waiting, Sending, Known, OneWorker, Progress,
     ToldOnce, Muted, Off, MutedIsSilent
<1>13. QED
  BY <1>1, <1>2, <1>3, <1>4, <1>5, <1>6, <1>7, <1>8, <1>9, <1>10, <1>11, <1>12
     DEF Next, PushNext, SettingsNext, DeviceNext, EventNext, Work

\* A task tells in order.
LEMMA ProgressStep == Shape /\ OneWorker /\ Progress /\ [Next]_vars => Progress'
<1> SUFFICES ASSUME Shape, OneWorker, Progress, [Next]_vars PROVE Progress'
  OBVIOUS
<1> USE DEF userVars, eventVars, taskVars
<1>1. ASSUME NEW p \in Web, NEW u \in User, NEW c \in Category, NEW on \in BOOLEAN,
             LoadPreferences(p, u, c, on)
      PROVE  Progress'
  BY <1>1, TaskAt, IdleTask DEF LoadPreferences, OneWorker, Known, Shape, Progress
<1>2. ASSUME NEW p \in Web, SavePreferences(p) PROVE Progress'
  BY <1>2, TaskAt, IdleTask DEF SavePreferences, OneWorker, Known, Shape, Progress
<1>3. ASSUME NEW u \in User, NEW k \in Token, NEW locale \in Tongue \cup {""},
             Register(u, k, locale)
      PROVE  Progress'
  BY <1>3, TaskAt, IdleTask DEF Register, OneWorker, Known, Shape, Progress
<1>4. ASSUME NEW u \in User, DeleteUser(u) PROVE Progress'
  BY <1>4, TaskAt, IdleTask DEF DeleteUser, OneWorker, Known, Shape, Progress
<1>5. ASSUME NEW e \in Event, NEW u \in User, NEW t \in Type, NEW full \in BOOLEAN,
             NEW accepted \in BOOLEAN, Enqueue(e, u, t, full, accepted)
      PROVE  Progress'
  BY <1>5, TaskAt, IdleTask DEF Enqueue, OneWorker, Known, Shape, Progress
<1>6. ASSUME NEW w \in Celery, NEW e \in Event, Receive(w, e) PROVE Progress'
  BY <1>6, TaskAt, IdleTask DEF Receive, OneWorker, Known, Shape, Progress
<1>7. ASSUME NEW w \in Celery, Check(w) PROVE Progress'
  <2>1. task[w].at = "check" /\ task[w] # Idle
        /\ UNCHANGED <<exists, pref, edit, event, open, queue, rows, sent>>
    BY <1>7, IdleTask DEF Check, eventVars
  <2>2. CASE Goto(w, "create")
    <3>1. /\ task'[w] = [at |-> "create", event |-> task[w].event] /\ task[w].event \in Known
          /\ DOMAIN task' = Celery /\ \A v \in Celery : v # w => task'[v] = task[v]
      BY <2>1, <2>2, GoesOn
    <3>2. QED
      BY <2>1, <3>1, IdleTask DEF Progress, OneWorker, Known, Shape
  <2>3. CASE Done(w)
    BY <2>1, <2>3, Ends, IdleTask DEF Progress, OneWorker, Known, Shape
  <2>4. QED
    BY <1>7, <2>2, <2>3 DEF Check
<1>8. ASSUME NEW w \in Celery, CreateRow(w) PROVE Progress'
  <2>1. task[w].at = "create" /\ task[w] # Idle
        /\ UNCHANGED <<exists, pref, edit, event, open, queue, sent>>
    BY <1>8, IdleTask DEF CreateRow, eventVars
  <2>2. task[w].event \in Known /\ task[w].event \in Event
    BY <2>1, TaskAt
  <2>3. CASE Goto(w, "list") /\ rows' = [rows EXCEPT ![task[w].event] = rows[task[w].event] + 1]
    <3>1. /\ task'[w] = [at |-> "list", event |-> task[w].event]
          /\ DOMAIN task' = Celery /\ \A v \in Celery : v # w => task'[v] = task[v]
      BY <2>1, <2>3, GoesOn
    <3>2. QED
      BY <2>1, <2>2, <2>3, <3>1, IdleTask DEF Progress, OneWorker, Known, Shape
  <2>4. CASE Done(w) /\ UNCHANGED rows
    BY <2>1, <2>4, Ends, IdleTask DEF Progress, OneWorker, Known, Shape
  <2>5. QED
    BY <1>8, <2>3, <2>4 DEF CreateRow
<1>9. ASSUME NEW w \in Celery, ListTokens(w) PROVE Progress'
  <2>1. task[w].at = "list" /\ task[w] # Idle
        /\ UNCHANGED <<exists, pref, edit, event, open, queue, rows, sent>>
    BY <1>9, IdleTask DEF ListTokens, eventVars, taskVars
  <2>2. task[w].event \in Known /\ task[w].event \in Event
    BY <2>1, TaskAt
  <2>3. CASE Done(w)
    BY <2>1, <2>3, Ends, IdleTask DEF Progress, OneWorker, Known, Shape
  <2>4. ASSUME ~Done(w) PROVE Progress'
    <3>1. PICK own, l : own \subseteq Token /\ task' = [task EXCEPT ![w] =
            [at |-> "send", event |-> task[w].event, todo |-> own, locale |-> l]]
      BY <1>9, <2>4 DEF ListTokens
    <3>2. QED
      BY <2>1, <2>2, <3>1, IdleTask DEF Progress, OneWorker, Known, Shape
  <2>5. QED
    BY <2>3, <2>4
<1>10. ASSUME NEW w \in Celery, NEW k \in Token, Send(w, k) PROVE Progress'
  <2> DEFINE d == task[w].event
  <2>1. PushTo(w, k)
    BY <1>10, OnePush
  <2>2. /\ d \in Event /\ d \in Known /\ d \notin queue /\ rows[d] = 1 /\ k \in task[w].todo
        /\ task[w] # Idle /\ \A j \in task[w].todo : sent[<<d, j>>].times = 0
    BY <2>1, IdleTask DEF PushTo, Sending, Progress, OneWorker
  <2>3. /\ UNCHANGED <<event, queue, rows>> /\ Known' = Known
        /\ \A x \in Event \X Token : x # <<d, k>> => sent'[x] = sent[x]
    BY <2>1 DEF PushTo, Known
  <2>4. \A e \in Event, j \in Token : e # d \/ j # k => sent'[<<e, j>>] = sent[<<e, j>>]
    BY <2>3
  <2>5. \A e \in Event : e \notin Known' \/ e \in queue' =>
          rows'[e] = 0 /\ \A j \in Token : sent'[<<e, j>>].times = 0
    BY <2>2, <2>3, <2>4 DEF Progress
  <2>6. ASSUME NEW v \in Celery, v # w
        PROVE  /\ task'[v].at \in {"check", "create"} => rows'[task'[v].event] = 0
               /\ task'[v].at \in {"list", "send"} => rows'[task'[v].event] = 1
               /\ task'[v].at \in {"check", "create", "list"} =>
                    \A j \in Token : sent'[<<task'[v].event, j>>].times = 0
               /\ task'[v].at = "send" =>
                    \A j \in task'[v].todo : sent'[<<task'[v].event, j>>].times = 0
    <3>1. task'[v] = task[v]
      BY <2>1, <2>6 DEF PushTo
    <3>2. CASE task[v] = Idle
      BY <3>1, <3>2, IdleTask
    <3>3. CASE task[v] # Idle
      <4>1. task[v].event \in Event /\ task[v].event # d /\ (task[v].at = "send" => task[v].todo \subseteq Token)
        BY <2>2, <2>6, <3>3, TaskAt DEF OneWorker, Sending
      <4>2. QED
        BY <2>3, <2>4, <3>1, <4>1 DEF Progress
    <3>4. QED
      BY <3>2, <3>3
  <2>7. CASE task'[w] = Idle
    BY <2>5, <2>6, <2>7, IdleTask DEF Progress
  <2>8. CASE task'[w] # Idle
    <3>1. task'[w].at = "send" /\ task'[w].event = d /\ task'[w].todo = task[w].todo \ {k}
      BY <2>1, <2>8 DEF PushTo
    <3>2. \A j \in task'[w].todo : sent'[<<d, j>>].times = 0
      BY <2>1, <2>2, <2>4, <3>1 DEF PushTo, Sending
    <3>3. QED
      BY <2>2, <2>3, <2>5, <2>6, <3>1, <3>2 DEF Progress
  <2>9. QED
    BY <2>7, <2>8
<1>11. ASSUME NEW w \in Celery, Crash(w) PROVE Progress'
  <2>1. task[w] # Idle /\ UNCHANGED <<event, open, rows, sent>> /\ UNCHANGED queue
    BY <1>11 DEF Crash, AfterCrash
  <2>2. task'[w] = Idle /\ \A v \in Celery : v # w => task'[v] = task[v]
    BY <1>11, Ends DEF Crash
  <2>3. QED
    BY <2>1, <2>2, IdleTask DEF OneWorker, Progress, Known
<1>12. CASE UNCHANGED vars
  BY <1>12 DEF vars, Shape, Waiting, Sending, Known, OneWorker, Progress,
     ToldOnce, Muted, Off, MutedIsSilent
<1>13. QED
  BY <1>1, <1>2, <1>3, <1>4, <1>5, <1>6, <1>7, <1>8, <1>9, <1>10, <1>11, <1>12
     DEF Next, PushNext, SettingsNext, DeviceNext, EventNext, Work

\* A row comes first, and each push once.
LEMMA ToldStep == Shape /\ Progress /\ ToldOnce /\ [Next]_vars => ToldOnce'
<1> SUFFICES ASSUME Shape, Progress, ToldOnce, [Next]_vars PROVE ToldOnce'
  OBVIOUS
<1> USE DEF userVars, eventVars, taskVars
<1>1. ASSUME NEW p \in Web, NEW u \in User, NEW c \in Category, NEW on \in BOOLEAN,
             LoadPreferences(p, u, c, on)
      PROVE  ToldOnce'
  BY <1>1 DEF LoadPreferences, ToldOnce
<1>2. ASSUME NEW p \in Web, SavePreferences(p) PROVE ToldOnce'
  BY <1>2 DEF SavePreferences, ToldOnce
<1>3. ASSUME NEW u \in User, NEW k \in Token, NEW locale \in Tongue \cup {""},
             Register(u, k, locale)
      PROVE  ToldOnce'
  BY <1>3 DEF Register, ToldOnce
<1>4. ASSUME NEW u \in User, DeleteUser(u) PROVE ToldOnce'
  BY <1>4 DEF DeleteUser, ToldOnce
<1>5. ASSUME NEW e \in Event, NEW u \in User, NEW t \in Type, NEW full \in BOOLEAN,
             NEW accepted \in BOOLEAN, Enqueue(e, u, t, full, accepted)
      PROVE  ToldOnce'
  BY <1>5 DEF Enqueue, ToldOnce
<1>6. ASSUME NEW w \in Celery, NEW e \in Event, Receive(w, e) PROVE ToldOnce'
  BY <1>6 DEF Receive, ToldOnce
<1>7. ASSUME NEW w \in Celery, Check(w) PROVE ToldOnce'
  BY <1>7 DEF Check, ToldOnce
<1>8. ASSUME NEW w \in Celery, CreateRow(w) PROVE ToldOnce'
  <2>1. task[w].at = "create" /\ task[w] # Idle
        /\ UNCHANGED <<exists, pref, edit, event, open, queue, sent>>
    BY <1>8, IdleTask DEF CreateRow, eventVars
  <2>2. task[w].event \in Known /\ task[w].event \in Event
    BY <2>1, TaskAt
  <2>3. CASE Goto(w, "list") /\ rows' = [rows EXCEPT ![task[w].event] = rows[task[w].event] + 1]
    <3>1. /\ task'[w] = [at |-> "list", event |-> task[w].event]
          /\ DOMAIN task' = Celery /\ \A v \in Celery : v # w => task'[v] = task[v]
      BY <2>1, <2>3, GoesOn
    <3>2. QED
      BY <2>1, <2>2, <2>3, <3>1, IdleTask DEF Shape, Progress, ToldOnce
  <2>4. CASE Done(w) /\ UNCHANGED rows
    BY <2>1, <2>4, Ends, IdleTask DEF ToldOnce
  <2>5. QED
    BY <1>8, <2>3, <2>4 DEF CreateRow
<1>9. ASSUME NEW w \in Celery, ListTokens(w) PROVE ToldOnce'
  BY <1>9 DEF ListTokens, ToldOnce
<1>10. ASSUME NEW w \in Celery, NEW k \in Token, Send(w, k) PROVE ToldOnce'
  <2>1. task[w].event \in Event /\ rows[task[w].event] = 1 /\ sent[<<task[w].event, k>>].times = 0
    BY <1>10, OnePush DEF PushTo, Progress, Sending, Known
  <2>2. PushTo(w, k)
    BY <1>10, OnePush
  <2>3. ASSUME NEW e \in Event, NEW j \in Token PROVE sent'[<<e, j>>].times <= rows[e]
    BY <2>1, <2>2 DEF PushTo, ToldOnce, Shape
  <2>4. UNCHANGED rows
    BY <2>2 DEF PushTo
  <2>5. QED
    BY <2>3, <2>4 DEF ToldOnce
<1>11. ASSUME NEW w \in Celery, Crash(w) PROVE ToldOnce'
  BY <1>11 DEF Crash, ToldOnce
<1>12. CASE UNCHANGED vars
  BY <1>12 DEF vars, Shape, Waiting, Sending, Known, OneWorker, Progress,
     ToldOnce, Muted, Off, MutedIsSilent
<1>13. QED
  BY <1>1, <1>2, <1>3, <1>4, <1>5, <1>6, <1>7, <1>8, <1>9, <1>10, <1>11, <1>12
     DEF Next, PushNext, SettingsNext, DeviceNext, EventNext, Work

\* What is off stays off until it is turned on.
LEMMA MutedStep == Assumptions /\ Shape /\ OneWorker /\ Muted /\ [Next]_vars => Muted'
<1> SUFFICES ASSUME Assumptions, Shape, OneWorker, Muted, [Next]_vars PROVE Muted'
  OBVIOUS
<1> USE DEF userVars, eventVars, taskVars
<1>1. ASSUME NEW p \in Web, NEW u \in User, NEW c \in Category, NEW on \in BOOLEAN,
             LoadPreferences(p, u, c, on)
      PROVE  Muted'
  <2> DEFINE own == IF pref[u] = None THEN AllOn ELSE pref[u]
  <2>1. /\ pref' = [pref EXCEPT ![u] = own]
        /\ edit' = [edit EXCEPT ![p] = [at |-> "loaded", user |-> u, category |-> c,
                                        copy |-> Patched(own, c, on)]]
        /\ UNCHANGED <<exists, event, open, queue, task>>
    BY <1>1 DEF LoadPreferences, taskVars
  <2>2. own \in [Category -> BOOLEAN] /\ Patched(own, c, on) \in [Category -> BOOLEAN]
    BY DEF Patched, AllOn, Muted
  <2>3. DOMAIN edit' = Web /\ pref' \in [User -> {None} \cup [Category -> BOOLEAN]]
    BY <2>1, <2>2 DEF Muted
  <2>4. \A q \in Web : edit'[q] # Idle => edit'[q].copy \in [Category -> BOOLEAN]
    BY <2>1, <2>2 DEF Muted
  <2>5. \A v \in User : pref[v] # None => pref'[v] = pref[v]
    BY <2>1 DEF Muted
  <2>6. \A e \in Known : event[e].to \in User
    BY DEF Shape, Known
  <2>7. QED
    BY <2>1, <2>3, <2>4, <2>5, <2>6 DEF Muted, Off, Known
<1>2. ASSUME NEW p \in Web, SavePreferences(p) PROVE Muted'
  <2>1. /\ edit[p] # Idle /\ edit' = [edit EXCEPT ![p] = Idle] /\ UNCHANGED <<exists, event, task>>
        /\ pref' = IF edit[p].user \in exists THEN [pref EXCEPT ![edit[p].user] = edit[p].copy]
                    ELSE pref
    BY <1>2 DEF SavePreferences, taskVars, Idle
  <2>2. /\ DOMAIN edit' = Web /\ pref' \in [User -> {None} \cup [Category -> BOOLEAN]]
        /\ edit[p].copy # None
    BY <2>1 DEF Muted, Assumptions
  <2>3. \A q \in Web : edit'[q] # Idle => edit'[q].copy \in [Category -> BOOLEAN]
    BY <2>1 DEF Muted
  <2>4. ASSUME NEW e \in Known', e \notin open'
        PROVE  e \in Known /\ e \notin open /\ Off(e)'
    <3>1. e \in Known /\ e \notin open
      BY <1>2, <2>1, <2>4 DEF SavePreferences, Known
    <3>2. Off(e) /\ event[e].to \in User
      BY <3>1 DEF Muted, Shape, Known
    <3>3. edit[p].user = event[e].to => ~edit[p].copy[Field(event[e].type)]
      BY <1>2, <2>4, <3>1, <3>2 DEF SavePreferences, Off
    <3>4. QED
      BY <2>1, <2>2, <3>1, <3>2, <3>3 DEF Muted, Off
  <2>5. QED
    BY <2>1, <2>2, <2>3, <2>4 DEF Muted
<1>3. ASSUME NEW u \in User, NEW k \in Token, NEW locale \in Tongue \cup {""},
             Register(u, k, locale)
      PROVE  Muted'
  BY <1>3, TaskAt DEF Register, Muted, Off, Known, Shape
<1>4. ASSUME NEW u \in User, DeleteUser(u) PROVE Muted'
  BY <1>4, TaskAt DEF DeleteUser, Muted, Off, Known, Shape
<1>5. ASSUME NEW e \in Event, NEW u \in User, NEW t \in Type, NEW full \in BOOLEAN,
             NEW accepted \in BOOLEAN, Enqueue(e, u, t, full, accepted)
      PROVE  Muted'
  BY <1>5, TaskAt DEF Enqueue, Muted, Off, Known, Shape, Assumptions
<1>6. ASSUME NEW w \in Celery, NEW e \in Event, Receive(w, e) PROVE Muted'
  BY <1>6, TaskAt DEF Receive, Muted, Off, Known, Shape
<1>7. ASSUME NEW w \in Celery, Check(w) PROVE Muted'
  <2>1. task[w].at = "check" /\ task[w] # Idle
        /\ UNCHANGED <<exists, pref, edit, event, open, queue, rows, sent>>
    BY <1>7, IdleTask DEF Check, eventVars
  <2>2. CASE Goto(w, "create")
    <3>1. /\ task'[w] = [at |-> "create", event |-> task[w].event] /\ task[w].event \in Known
          /\ DOMAIN task' = Celery /\ \A v \in Celery : v # w => task'[v] = task[v]
      BY <2>1, <2>2, GoesOn
    <3>2. task'[w] # Idle /\ event[task[w].event].to \in exists
          /\ Enabled(event[task[w].event].to, event[task[w].event].type)
      BY <1>7, <3>1, Ends, IdleTask DEF Check
    <3>3. task[w].event \in open
      <4>1. Off(task[w].event) => pref[event[task[w].event].to] # None
                                 /\ ~pref[event[task[w].event].to][Field(event[task[w].event].type)]
        BY <3>2 DEF Off
      <4>2. ~Off(task[w].event)
        BY <3>2, <4>1 DEF Enabled, Off
      <4>3. QED
        BY <3>1, <4>2 DEF Muted
    <3>4. QED
      BY <2>1, <3>1, <3>3, IdleTask DEF Muted, Off, Known
  <2>3. CASE Done(w)
    BY <2>1, <2>3, Ends, IdleTask DEF Muted, Off, Known
  <2>4. QED
    BY <1>7, <2>2, <2>3 DEF Check
<1>8. ASSUME NEW w \in Celery, CreateRow(w) PROVE Muted'
  <2>1. task[w].at = "create" /\ task[w] # Idle
        /\ UNCHANGED <<exists, pref, edit, event, open, queue, sent>>
    BY <1>8, IdleTask DEF CreateRow, eventVars
  <2>2. task[w].event \in Known /\ task[w].event \in Event
    BY <2>1, TaskAt
  <2>3. CASE Goto(w, "list") /\ rows' = [rows EXCEPT ![task[w].event] = rows[task[w].event] + 1]
    <3>1. /\ task'[w] = [at |-> "list", event |-> task[w].event]
          /\ DOMAIN task' = Celery /\ \A v \in Celery : v # w => task'[v] = task[v]
      BY <2>1, <2>3, GoesOn
    <3>2. QED
      BY <2>1, <2>2, <2>3, <3>1, IdleTask DEF Muted, Off, Known
  <2>4. CASE Done(w) /\ UNCHANGED rows
    BY <2>1, <2>4, Ends, IdleTask DEF Muted, Off, Known
  <2>5. QED
    BY <1>8, <2>3, <2>4 DEF CreateRow
<1>9. ASSUME NEW w \in Celery, ListTokens(w) PROVE Muted'
  <2>1. task[w].at = "list" /\ task[w] # Idle
        /\ UNCHANGED <<exists, pref, edit, event, open, queue, rows, sent>>
    BY <1>9, IdleTask DEF ListTokens, eventVars, taskVars
  <2>2. task[w].event \in Known /\ task[w].event \in Event
    BY <2>1, TaskAt
  <2>3. CASE Done(w)
    BY <2>1, <2>3, Ends, IdleTask DEF Muted, Off, Known
  <2>4. ASSUME ~Done(w) PROVE Muted'
    <3>1. PICK own, l : own \subseteq Token /\ task' = [task EXCEPT ![w] =
            [at |-> "send", event |-> task[w].event, todo |-> own, locale |-> l]]
      BY <1>9, <2>4 DEF ListTokens
    <3>2. QED
      BY <2>1, <2>2, <3>1, IdleTask DEF Muted, Off, Known
  <2>5. QED
    BY <2>3, <2>4
<1>10. ASSUME NEW w \in Celery, NEW k \in Token, Send(w, k) PROVE Muted'
  <2>1. PushTo(w, k)
    BY <1>10, OnePush
  <2>5. UNCHANGED <<exists, pref, edit>>
    BY <1>10 DEF Send
  <2>2. CASE task'[w] = Idle
    BY <2>1, <2>2, <2>5, IdleTask DEF PushTo, Sending, Muted, Off, Known
  <2>3. CASE task'[w] # Idle
    BY <2>1, <2>3, <2>5, IdleTask DEF PushTo, Sending, Muted, Off, Known
  <2>4. QED
    BY <2>2, <2>3
<1>11. ASSUME NEW w \in Celery, Crash(w) PROVE Muted'
  BY <1>11, Ends DEF Crash, Muted, Off, Known, AfterCrash
<1>12. CASE UNCHANGED vars
  BY <1>12 DEF vars, Shape, Waiting, Sending, Known, OneWorker, Progress,
     ToldOnce, Muted, Off, MutedIsSilent
<1>13. QED
  BY <1>1, <1>2, <1>3, <1>4, <1>5, <1>6, <1>7, <1>8, <1>9, <1>10, <1>11, <1>12
     DEF Next, PushNext, SettingsNext, DeviceNext, EventNext, Work

\* What is off is not told.
LEMMA SilentStep ==
  Assumptions /\ Shape /\ OneWorker /\ Progress /\ Muted /\ MutedIsSilent /\ [Next]_vars =>
    MutedIsSilent'
<1> SUFFICES ASSUME Assumptions, Shape, OneWorker, Progress, Muted, MutedIsSilent, [Next]_vars
             PROVE MutedIsSilent'
  OBVIOUS
<1> USE DEF userVars, eventVars, taskVars
<1>1. ASSUME NEW p \in Web, NEW u \in User, NEW c \in Category, NEW on \in BOOLEAN,
             LoadPreferences(p, u, c, on)
      PROVE  MutedIsSilent'
  BY <1>1 DEF LoadPreferences, MutedIsSilent, Known
<1>2. ASSUME NEW p \in Web, SavePreferences(p) PROVE MutedIsSilent'
  BY <1>2 DEF SavePreferences, MutedIsSilent, Known
<1>3. ASSUME NEW u \in User, NEW k \in Token, NEW locale \in Tongue \cup {""},
             Register(u, k, locale)
      PROVE  MutedIsSilent'
  BY <1>3 DEF Register, MutedIsSilent, Known
<1>4. ASSUME NEW u \in User, DeleteUser(u) PROVE MutedIsSilent'
  BY <1>4 DEF DeleteUser, MutedIsSilent, Known
<1>5. ASSUME NEW e \in Event, NEW u \in User, NEW t \in Type, NEW full \in BOOLEAN,
             NEW accepted \in BOOLEAN, Enqueue(e, u, t, full, accepted)
      PROVE  MutedIsSilent'
  <2>1. /\ e \in Event /\ e \notin Known
        /\ event' = [event EXCEPT ![e] = [to |-> u, type |-> t, full |-> full]]
        /\ open' \in {open, open \cup {e}} /\ queue' \in {queue, queue \cup {e}}
        /\ UNCHANGED <<task, rows, sent>>
    BY <1>5 DEF Enqueue, taskVars
  <2>2. rows[e] = 0 /\ \A k \in Token : sent[<<e, k>>].times = 0
    BY <2>1 DEF Progress
  <2>3. Known' \subseteq Known \cup {e}
    BY <2>1 DEF Known, Shape
  <2>4. QED
    BY <2>1, <2>2, <2>3 DEF MutedIsSilent
<1>6. ASSUME NEW w \in Celery, NEW e \in Event, Receive(w, e) PROVE MutedIsSilent'
  BY <1>6 DEF Receive, MutedIsSilent, Known
<1>7. ASSUME NEW w \in Celery, Check(w) PROVE MutedIsSilent'
  BY <1>7 DEF Check, MutedIsSilent, Known
<1>8. ASSUME NEW w \in Celery, CreateRow(w) PROVE MutedIsSilent'
  <2>1. task[w].at = "create" /\ task[w] # Idle /\ UNCHANGED <<event, open, queue, sent>>
    BY <1>8, IdleTask DEF CreateRow, eventVars
  <2>2. task[w].event \in open
    BY <2>1, TaskAt DEF Muted
  <2>3. \A e \in Event \ open : rows'[e] = rows[e]
    BY <1>8, <2>2 DEF CreateRow, Shape
  <2>4. QED
    BY <2>1, <2>3 DEF MutedIsSilent, Known
<1>9. ASSUME NEW w \in Celery, ListTokens(w) PROVE MutedIsSilent'
  BY <1>9 DEF ListTokens, MutedIsSilent, Known
<1>10. ASSUME NEW w \in Celery, NEW k \in Token, Send(w, k) PROVE MutedIsSilent'
  <2>1. PushTo(w, k)
    BY <1>10, OnePush
  <2>2. task[w].event \in open
    BY <2>1, IdleTask DEF PushTo, Sending, Muted
  <2>3. QED
    BY <2>1, <2>2 DEF PushTo, MutedIsSilent, Known
<1>11. ASSUME NEW w \in Celery, Crash(w) PROVE MutedIsSilent'
  BY <1>11 DEF Crash, MutedIsSilent, Known
<1>12. CASE UNCHANGED vars
  BY <1>12 DEF vars, Shape, Waiting, Sending, Known, OneWorker, Progress,
     ToldOnce, Muted, Off, MutedIsSilent
<1>13. QED
  BY <1>1, <1>2, <1>3, <1>4, <1>5, <1>6, <1>7, <1>8, <1>9, <1>10, <1>11, <1>12
     DEF Next, PushNext, SettingsNext, DeviceNext, EventNext, Work

-----------------------------------------------------------------------------
(* The language of a push, and the types                                   *)

\* A registered locale, and one a task has read, were registered by that account; what
\* was sent is in a language of the recipient.
Speaks(e, k, l) ==
  \/ l = Render(event[e], Language[event[e].to])
  \/ \E m \in Tongue : <<event[e].to, k, m>> \in spoken /\ l = Render(event[e], m)
Tongues ==
  /\ \A k \in Token : device[k].locale \in Tongue =>
       <<device[k].user, k, device[k].locale>> \in spoken
  /\ \A w \in Celery : task[w].at = "send" => \A k \in task[w].todo :
       task[w].locale[k] \in Tongue => <<event[task[w].event].to, k, task[w].locale[k]>> \in spoken
  /\ \A e \in Event, k \in Token :
       sent[<<e, k>>].language # None => e \in Known /\ Speaks(e, k, sent[<<e, k>>].language)

\* The types that Shape leaves open.
Types ==
  /\ exists \subseteq User /\ open \subseteq Known
  /\ device \in [Token -> [user : exists \cup {None}, locale : Tongue \cup {""}]]
  /\ DOMAIN edit = Web /\ \A p \in Web : edit[p].at \in {"idle", "loaded"}
  /\ row \in [Event -> Tongue \cup {None}]
  /\ sent = [x \in Event \X Token |-> sent[x]]
  /\ \A x \in Event \X Token :
       sent[x] = [times |-> sent[x].times, language |-> sent[x].language]
       /\ sent[x].language \in Tongue \cup {None}

LEMMA SpeechInit == Init => Tongues /\ Types
<1> SUFFICES ASSUME Init PROVE Tongues /\ Types
  OBVIOUS
<1>1. sent = [x \in Event \X Token |-> Unsent] /\ \A k \in Token : device[k] = Unowned
  BY DEF Init
<1>2. \A e \in Event, k \in Token : sent[<<e, k>>].language = None
  BY <1>1 DEF Unsent
<1>3. \A w \in Celery : task[w].at # "send"
  BY DEF Init, Idle
<1>4. Tongues
  <2>1. Unowned.locale \notin Tongue
    BY DEF Unowned, Tongue
  <2> QED  BY <1>1, <1>2, <1>3, <2>1 DEF Tongues
<1>5. \A x \in Event \X Token : sent[x] = Unsent
  BY <1>1
<1>6. Unsent = [times |-> Unsent.times, language |-> Unsent.language] /\ Unsent.language = None
  BY DEF Unsent
<1>7. sent = [x \in Event \X Token |-> sent[x]]
  BY <1>1
<1>8. device \in [Token -> [user : exists \cup {None}, locale : Tongue \cup {""}]]
  BY DEF Init, Unowned
<1> QED  BY <1>4, <1>5, <1>6, <1>7, <1>8 DEF Init, Types, Idle

\* A text is in Arabic or English.
LEMMA Rendered ==
  ASSUME NEW v, NEW l \in Tongue PROVE Render(v, l) \in Tongue
BY DEF Render, Tongue

\* What was said once stays said.
LEMMA StillSpoken ==
  ASSUME NEW e, NEW k, NEW l, Speaks(e, k, l), event'[e] = event[e], spoken \subseteq spoken'
  PROVE  Speaks(e, k, l)'
BY DEF Speaks, Render

\* A step that reads and sends no locale keeps them.
LEMMA TonguesFrame ==
  ASSUME Tongues, spoken \subseteq spoken', UNCHANGED sent,
         \A e \in Known : e \in Known' /\ event'[e] = event[e],
         \A k \in Token : device'[k] = device[k] \/ device'[k].locale \notin Tongue
                          \/ <<device'[k].user, k, device'[k].locale>> \in spoken',
         \A w \in Celery : \/ task'[w] = task[w] /\ (task[w].at = "send" => task[w].event \in Known)
                           \/ task'[w].at # "send"
  PROVE  Tongues'
<1>1. \A k \in Token : device'[k].locale \in Tongue => <<device'[k].user, k, device'[k].locale>> \in spoken'
  BY DEF Tongues
<1>2. \A w \in Celery : task'[w].at = "send" => \A k \in task'[w].todo : task'[w].locale[k] \in Tongue =>
        <<event'[task'[w].event].to, k, task'[w].locale[k]>> \in spoken'
  BY DEF Tongues
<1>3. ASSUME NEW e \in Event, NEW k \in Token, sent'[<<e, k>>].language # None
      PROVE  e \in Known' /\ Speaks(e, k, sent[<<e, k>>].language)'
  BY <1>3, StillSpoken DEF Tongues
<1> QED  BY <1>1, <1>2, <1>3 DEF Tongues

LEMMA TonguesStep ==
  ASSUME Assumptions, Shape, Types, Tongues, [Next]_vars PROVE Tongues'
<1> USE DEF userVars, eventVars, taskVars
<1>1. ASSUME NEW p \in Web, NEW u \in User, NEW c \in Category, NEW on \in BOOLEAN,
             LoadPreferences(p, u, c, on)
      PROVE  Tongues'
  BY <1>1, TaskAt, IdleTask, TonguesFrame DEF LoadPreferences, Known
<1>2. ASSUME NEW p \in Web, SavePreferences(p) PROVE Tongues'
  BY <1>2, TaskAt, IdleTask, TonguesFrame DEF SavePreferences, Known
<1>3. ASSUME NEW u \in User, NEW k \in Token, NEW locale \in Tongue \cup {""},
             Register(u, k, locale)
      PROVE  Tongues'
  BY <1>3, TaskAt, IdleTask, TonguesFrame DEF Register, NewLocale, Types, Known
<1>4. ASSUME NEW u \in User, DeleteUser(u) PROVE Tongues'
  <2>1. \A k \in Token : device'[k] = device[k] \/ device'[k].locale \notin Tongue
    BY <1>4 DEF DeleteUser, Unowned, Tongue
  <2>2. UNCHANGED <<event, task, sent, spoken>>  BY <1>4 DEF DeleteUser
  <2> QED  BY <2>1, <2>2, TaskAt, IdleTask, TonguesFrame DEF Known
<1>5. ASSUME NEW e \in Event, NEW u \in User, NEW t \in Type, NEW full \in BOOLEAN,
             NEW accepted \in BOOLEAN, Enqueue(e, u, t, full, accepted)
      PROVE  Tongues'
  <2>1. \A d \in Known : d \in Known' /\ event'[d] = event[d]
    BY <1>5 DEF Enqueue, Known, Shape
  <2>2. UNCHANGED <<device, task, sent, spoken>>  BY <1>5 DEF Enqueue
  <2> QED  BY <2>1, <2>2, TaskAt, IdleTask, TonguesFrame
<1>6. ASSUME NEW w \in Celery, NEW e \in Event, Receive(w, e) PROVE Tongues'
  BY <1>6, TaskAt, IdleTask, TonguesFrame DEF Receive, Known, Shape
<1>7. ASSUME NEW w \in Celery, Check(w) PROVE Tongues'
  <2>1. task[w].at = "check" /\ task[w] # Idle
        /\ UNCHANGED <<event, device, spoken, sent>>
    BY <1>7, IdleTask DEF Check
  <2>2. task'[w].at # "send" /\ \A v \in Celery : v # w => task'[v] = task[v]
    <3>1. CASE Goto(w, "create")
      <4>1. /\ task'[w] = [at |-> "create", event |-> task[w].event]
            /\ \A v \in Celery : v # w => task'[v] = task[v]
        BY <2>1, <3>1, GoesOn
      <4> QED  BY <4>1
    <3>2. CASE Done(w)  BY <3>2, Ends, IdleTask
    <3> QED  BY <1>7, <3>1, <3>2 DEF Check
  <2> QED  BY <2>1, <2>2, TaskAt, IdleTask, TonguesFrame DEF Known
<1>8. ASSUME NEW w \in Celery, CreateRow(w) PROVE Tongues'
  <2>1. task[w].at = "create" /\ task[w] # Idle
        /\ UNCHANGED <<event, device, spoken, sent>>
    BY <1>8, IdleTask DEF CreateRow
  <2>2. task'[w].at # "send" /\ \A v \in Celery : v # w => task'[v] = task[v]
    <3>1. CASE Goto(w, "list")
      <4>1. /\ task'[w] = [at |-> "list", event |-> task[w].event]
            /\ \A v \in Celery : v # w => task'[v] = task[v]
        BY <2>1, <3>1, GoesOn
      <4> QED  BY <4>1
    <3>2. CASE Done(w)  BY <3>2, Ends, IdleTask
    <3> QED  BY <1>8, <3>1, <3>2 DEF CreateRow
  <2> QED  BY <2>1, <2>2, TaskAt, IdleTask, TonguesFrame DEF Known
<1>9. ASSUME NEW w \in Celery, ListTokens(w) PROVE Tongues'
  <2>1. task[w].at = "list" /\ task[w] # Idle
        /\ UNCHANGED <<event, device, spoken, sent>>
    BY <1>9, IdleTask DEF ListTokens
  <2>2. task[w].event \in Known  BY <2>1, TaskAt
  <2>3. \A v \in Celery : v # w => task'[v] = task[v]
    BY <1>9 DEF ListTokens, Done, Shape
  <2>4. CASE Done(w)
    BY <2>1, <2>3, <2>4, Ends, TaskAt, IdleTask, TonguesFrame DEF Known
  <2>5. ASSUME ~Done(w) PROVE Tongues'
    <3> DEFINE own == {k \in Token : device[k].user = event[task[w].event].to}
    <3>1. task'[w] = [at |-> "send", event |-> task[w].event, todo |-> own,
                      locale |-> [k \in own |-> device[k].locale]]
      BY <1>9, <2>5 DEF ListTokens, Shape
    <3>2. \A k \in own : device[k].locale \in Tongue =>
            <<event[task[w].event].to, k, device[k].locale>> \in spoken
      BY DEF Tongues
    <3>3. \A k \in task'[w].todo : task'[w].locale[k] \in Tongue =>
            <<event[task[w].event].to, k, task'[w].locale[k]>> \in spoken
      BY <3>1, <3>2
    <3>4. \A v \in Celery : v # w => (task'[v].at = "send" => \A k \in task'[v].todo :
            task'[v].locale[k] \in Tongue => <<event[task'[v].event].to, k, task'[v].locale[k]>> \in spoken)
      BY <2>3 DEF Tongues
    <3>5. \A v \in Celery : task'[v].at = "send" => \A k \in task'[v].todo :
            task'[v].locale[k] \in Tongue => <<event'[task'[v].event].to, k, task'[v].locale[k]>> \in spoken'
      BY <2>1, <3>1, <3>3, <3>4
    <3>6. \A e \in Event, k \in Token : sent'[<<e, k>>].language # None =>
            e \in Known' /\ Speaks(e, k, sent[<<e, k>>].language)'
      BY <2>1, StillSpoken DEF Tongues, Known
    <3> QED  BY <2>1, <3>5, <3>6 DEF Tongues
  <2> QED  BY <2>4, <2>5
<1>10. ASSUME NEW w \in Celery, NEW k \in Token, Send(w, k) PROVE Tongues'
  <2> DEFINE e == task[w].event
             l == IF task[w].locale[k] \in Tongue THEN task[w].locale[k] ELSE Language[event[e].to]
  <2>1. PushTo(w, k)  BY <1>10, OnePush
  <2>2. UNCHANGED <<event, spoken, device>>  BY <1>10 DEF Send
  <2>3. e \in Event /\ e \in Known /\ k \in task[w].todo /\ task[w].at = "send"
    BY <2>1 DEF PushTo, Sending
  <2>4. sent' = [sent EXCEPT ![<<e, k>>] = [times |-> sent[<<e, k>>].times + 1, language |-> Render(event[e], l)]]
        \/ sent' = sent
    BY <1>10 DEF Send
  <2>5. Speaks(e, k, Render(event[e], l))
    BY <2>3 DEF Tongues, Speaks
  <2>6. ASSUME NEW d \in Event, NEW j \in Token, sent'[<<d, j>>].language # None
        PROVE  d \in Known' /\ Speaks(d, j, sent'[<<d, j>>].language)
    <3>1. CASE <<d, j>> = <<e, k>> /\ sent' # sent
      BY <2>2, <2>3, <2>4, <2>5, <3>1 DEF Shape, Known
    <3>2. CASE <<d, j>> # <<e, k>> \/ sent' = sent
      <4>1. sent'[<<d, j>>] = sent[<<d, j>>]  BY <2>4, <3>2 DEF Shape
      <4> QED  BY <2>2, <2>6, <4>1 DEF Tongues, Known
    <3> QED  BY <3>1, <3>2
  <2>7. \A d \in Event, j \in Token : sent'[<<d, j>>].language # None =>
          d \in Known' /\ Speaks(d, j, sent[<<d, j>>].language)'
    BY <2>2, <2>6 DEF Speaks, Render
  <2>8. ASSUME NEW v \in Celery, task'[v].at = "send", NEW j \in task'[v].todo, task'[v].locale[j] \in Tongue
        PROVE  <<event[task'[v].event].to, j, task'[v].locale[j]>> \in spoken
    <3>1. CASE v = w
      BY <2>1, <2>8, <3>1, IdleTask DEF PushTo, Tongues, Sending
    <3>2. CASE v # w
      BY <2>1, <2>8, <3>2 DEF PushTo, Tongues
    <3> QED  BY <3>1, <3>2
  <2> QED  BY <2>2, <2>7, <2>8 DEF Tongues
<1>11. ASSUME NEW w \in Celery, Crash(w) PROVE Tongues'
  BY <1>11, Ends, TaskAt, IdleTask, TonguesFrame DEF Crash, Known
<1>12. CASE UNCHANGED vars
  BY <1>12, TaskAt, IdleTask, TonguesFrame DEF vars, Known
<1> QED
  BY <1>1, <1>2, <1>3, <1>4, <1>5, <1>6, <1>7, <1>8, <1>9, <1>10, <1>11, <1>12
     DEF Next, PushNext, SettingsNext, DeviceNext, EventNext, Work

LEMMA TypesStep ==
  ASSUME Assumptions, Shape, Types, [Next]_vars PROVE Types'
<1> USE DEF userVars, eventVars, taskVars
<1>1. ASSUME NEW p \in Web, NEW u \in User, NEW c \in Category, NEW on \in BOOLEAN,
             LoadPreferences(p, u, c, on)
      PROVE  Types'
  BY <1>1 DEF LoadPreferences, Types, Known
<1>2. ASSUME NEW p \in Web, SavePreferences(p) PROVE Types'
  BY <1>2 DEF SavePreferences, Types, Known, Idle
<1>3. ASSUME NEW u \in User, NEW k \in Token, NEW locale \in Tongue \cup {""},
             Register(u, k, locale)
      PROVE  Types'
  BY <1>3 DEF Register, NewLocale, Types, Known
<1>4. ASSUME NEW u \in User, DeleteUser(u) PROVE Types'
  <2>1. device' \in [Token -> [user : exists' \cup {None}, locale : Tongue \cup {""}]]
    BY <1>4 DEF DeleteUser, Types, Unowned
  <2> QED  BY <1>4, <2>1 DEF DeleteUser, Types, Known
<1>5. ASSUME NEW e \in Event, NEW u \in User, NEW t \in Type, NEW full \in BOOLEAN,
             NEW accepted \in BOOLEAN, Enqueue(e, u, t, full, accepted)
      PROVE  Types'
  <2>1. Known' = Known \cup {e}
    BY <1>5 DEF Enqueue, Known, Shape, Assumptions
  <2> QED  BY <1>5, <2>1 DEF Enqueue, Types
<1>6. ASSUME NEW w \in Celery, NEW e \in Event, Receive(w, e) PROVE Types'
  BY <1>6 DEF Receive, Types, Known
<1>7. ASSUME NEW w \in Celery, Check(w) PROVE Types'
  BY <1>7 DEF Check, Types, Known
<1>8. ASSUME NEW w \in Celery, CreateRow(w) PROVE Types'
  <2>1. task[w].event \in Known  BY <1>8, TaskAt, IdleTask DEF CreateRow
  <2>2. event[task[w].event].to \in User  BY <2>1 DEF Shape, Known
  <2>3. Render(event[task[w].event], Language[event[task[w].event].to]) \in Tongue
    BY <2>2, Rendered DEF Assumptions
  <2>4. row' \in [Event -> Tongue \cup {None}]  BY <1>8, <2>3 DEF CreateRow, Types
  <2> QED  BY <1>8, <2>4 DEF CreateRow, Types, Known
<1>9. ASSUME NEW w \in Celery, ListTokens(w) PROVE Types'
  BY <1>9 DEF ListTokens, Types, Known
<1>10. ASSUME NEW w \in Celery, NEW k \in Token, Send(w, k) PROVE Types'
  <2> DEFINE e == task[w].event
             l == IF task[w].locale[k] \in Tongue THEN task[w].locale[k] ELSE Language[event[e].to]
  <2>1. e \in Known  BY <1>10, TaskAt, IdleTask DEF Send
  <2>2. Render(event[e], l) \in Tongue
    BY <2>1, Rendered DEF Assumptions, Shape, Known
  <2>3. sent' = [sent EXCEPT ![<<e, k>>] = [times |-> sent[<<e, k>>].times + 1, language |-> Render(event[e], l)]]
        \/ sent' = sent
    BY <1>10 DEF Send
  <2> HIDE DEF l
  <2>5. sent' = [x \in Event \X Token |-> sent'[x]]
    BY <2>3 DEF Types
  <2>4. ASSUME NEW x \in Event \X Token
        PROVE  /\ sent'[x] = [times |-> sent'[x].times, language |-> sent'[x].language]
               /\ sent'[x].language \in Tongue \cup {None}
    <3>1. \/ sent'[x] = [times |-> sent[<<e, k>>].times + 1, language |-> Render(event[e], l)]
          \/ sent'[x] = sent[x]
      BY <2>3 DEF Shape
    <3>2. sent[x] = [times |-> sent[x].times, language |-> sent[x].language]
          /\ sent[x].language \in Tongue \cup {None}
      BY DEF Types
    <3>3. CASE sent'[x] = sent[x]  BY <3>2, <3>3
    <3>4. CASE sent'[x] = [times |-> sent[<<e, k>>].times + 1, language |-> Render(event[e], l)]
      BY <2>2, <3>4
    <3> QED  BY <3>1, <3>3, <3>4
  <2> QED  BY <1>10, <2>4, <2>5 DEF Send, Types, Known
<1>11. ASSUME NEW w \in Celery, Crash(w) PROVE Types'
  BY <1>11 DEF Crash, Types, Known
<1>12. CASE UNCHANGED vars
  BY <1>12 DEF vars, Types, Known
<1> QED
  BY <1>1, <1>2, <1>3, <1>4, <1>5, <1>6, <1>7, <1>8, <1>9, <1>10, <1>11, <1>12
     DEF Next, PushNext, SettingsNext, DeviceNext, EventNext, Work

\* What the invariants say of the properties.
LEMMA TypesShow == ASSUME IInv, Types PROVE TypeOK
<1>1. \A w \in Celery : task[w].at \in {"idle", "check", "create", "list", "send"}
  BY TaskAt, IdleTask DEF IInv
<1>2. \A u \in User : pref[u] = None \/ pref[u] \in [Category -> BOOLEAN]
  BY DEF IInv, Muted
<1>3. ASSUME NEW x \in Event \X Token PROVE sent[x] \in [times : 0..2, language : Tongue \cup {None}]
  <2>1. PICK e \in Event, k \in Token : x = <<e, k>>  OBVIOUS
  <2>2. rows[e] <= 1 /\ sent[x].times <= rows[e] /\ rows[e] \in Nat /\ sent[x].times \in Nat
    BY <2>1 DEF IInv, ToldOnce, Shape
  <2>3. sent[x].times \in 0..2  BY <2>2
  <2>4. sent[x] = [times |-> sent[x].times, language |-> sent[x].language]
        /\ sent[x].language \in Tongue \cup {None}
    BY DEF Types
  <2> QED  BY <2>3, <2>4
<1>4. sent \in [Event \X Token -> [times : 0..2, language : Tongue \cup {None}]]
  BY <1>3 DEF Types
<1>5. \A k \in Token : device[k].user \in exists \cup {None}  BY DEF Types
<1> QED  BY <1>1, <1>2, <1>4, <1>5 DEF TypeOK, IInv, Shape, OneWorker, Types

LEMMA TonguesShow == ASSUME Tongues PROVE OwnLanguage
BY DEF Tongues, Speaks, OwnLanguage, Known

-----------------------------------------------------------------------------
(* The theorems                                                            *)

\* The invariant is inductive.
LEMMA Inductive == Assumptions /\ IInv /\ [Next]_vars => IInv'
BY ShapeStep, WorkerStep, ProgressStep, ToldStep, MutedStep, SilentStep DEF IInv

\* Every reachable state has the invariant.
THEOREM Invariance ==
  ASSUME Assumptions PROVE Spec => []IInv
BY InitInv, Inductive, PTL DEF Spec

\* An event has at most one row, and no token more pushes of it than rows.
THEOREM AtMostOnce ==
  ASSUME Assumptions PROVE Spec => []ToldOnce
<1>1. IInv => ToldOnce
  BY DEF IInv
<1>2. QED
  BY <1>1, Invariance, PTL

\* An event whose category was off from the moment it happened is not told.
THEOREM Silent ==
  ASSUME Assumptions PROVE Spec => []MutedIsSilent
<1>1. IInv => MutedIsSilent
  BY DEF IInv
<1>2. QED
  BY <1>1, Invariance, PTL

\* A push speaks a language its recipient prefers or has registered the token with,
\* whoever had the token before (devices/views.py:43-45).
THEOREM OwnTongue ==
  ASSUME Assumptions PROVE Spec => []OwnLanguage
<1>1. Init => IInv /\ Types /\ Tongues
  BY InitInv, SpeechInit
<1>2. IInv /\ Types /\ Tongues /\ [Next]_vars => (IInv /\ Types /\ Tongues)'
  BY Inductive, TypesStep, TonguesStep DEF IInv
<1>3. Tongues => OwnLanguage
  BY TonguesShow
<1>4. QED
  BY <1>1, <1>2, <1>3, PTL DEF Spec

\* Every variable has its type.
THEOREM TypeCorrect ==
  ASSUME Assumptions PROVE Spec => []TypeOK
<1>1. Init => IInv /\ Types
  BY InitInv, SpeechInit
<1>2. IInv /\ Types /\ [Next]_vars => (IInv /\ Types)'
  BY Inductive, TypesStep DEF IInv
<1>3. IInv /\ Types => TypeOK
  BY TypesShow
<1>4. QED
  BY <1>1, <1>2, <1>3, PTL DEF Spec

===============================================================================
