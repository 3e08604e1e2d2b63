---------------------------- MODULE Notifications ----------------------------
(***************************************************************************)
(* From an event to an in-app row and pushes: dispatch_notification        *)
(* (notifications/tasks.py, services.py, messages.py), the preferences     *)
(* (notifications/views.py) and the registration of devices                *)
(* (devices/views.py).                                                     *)
(*                                                                         *)
(* A task checks the recipient and the category, writes the row, reads the *)
(* recipient's tokens and sends to them one by one.  It is acknowledged    *)
(* before it runs and never retried.                                       *)
(***************************************************************************)
EXTENDS Integers, FiniteSets

CONSTANTS
  User,      \* accounts
  Language,  \* preferred_language of each account
  Token,     \* app installations
  Type,      \* kinds of notification in use
  Web,       \* processes that serve HTTP requests
  Celery,    \* worker processes
  MaxEvent,  \* bound on events
  None       \* no owner, no row, no language

Tongue == {"ar", "en"}
Category == {"chat", "moderation", "social"}
Event == 1..MaxEvent

AllTypes == {"chat_message", "moderation_approved", "moderation_rejected", "new_follower",
             "comment_on_content", "new_like", "new_share", "new_rating", "system_announcement"}

Assumptions ==
  /\ Language \in [User -> Tongue]
  /\ Type \subseteq AllTypes
  /\ MaxEvent \in Nat
  /\ None \notin [to : User, type : Type, full : BOOLEAN] \cup [Category -> BOOLEAN]

VARIABLES
  exists,  \* accounts that have not been deleted
  pref,    \* NotificationPreference; None is a missing row
  edit,    \* the PATCH a web process works on
  device,  \* owner and locale of each DeviceToken
  spoken,  \* the locales every account has registered its tokens with
  event,   \* the arguments of each dispatch
  open,    \* events whose category was on at some time since they happened
  queue,   \* events whose task waits in the broker
  task,    \* what each worker works on
  row,     \* language of the Notification rows of each event; None is no row
  rows,    \* how many rows an event has had
  sent     \* pushes of each event to each token: how many, and the last language

vars == <<exists, pref, edit, device, spoken, event, open, queue, task, row, rows, sent>>
userVars == <<exists, pref, edit, device, spoken>>
eventVars == <<event, open, queue>>
taskVars == <<task, row, rows, sent>>

Idle == [at |-> "idle"]
AllOn == [c \in Category |-> TRUE]
Unowned == [user |-> None, locale |-> ""]
Unsent == [times |-> 0, language |-> None]
Known == {e \in Event : event[e] # None}

TypeOK ==
  /\ exists \subseteq User
  /\ \A u \in User : pref[u] = None \/ pref[u] \in [Category -> BOOLEAN]
  /\ \A p \in Web : edit[p].at \in {"idle", "loaded"}
  /\ \A k \in Token : device[k].user \in exists \cup {None}
  /\ queue \subseteq Known /\ open \subseteq Known
  /\ \A w \in Celery : task[w].at \in {"idle", "check", "create", "list", "send"}
  /\ \A v, w \in Celery : v # w /\ task[v] # Idle /\ task[w] # Idle => task[v].event # task[w].event
  /\ row \in [Event -> Tongue \cup {None}]
  /\ sent \in [Event \X Token -> [times : 0..2, language : Tongue \cup {None}]]

\* A crash between the account's INSERT and the signal's leaves no preferences.
Init ==
  /\ exists = User
  /\ pref \in [User -> {None, AllOn}]
  /\ edit = [p \in Web |-> Idle]
  /\ device = [k \in Token |-> Unowned] /\ spoken = {}
  /\ event = [e \in Event |-> None]
  /\ open = {} /\ queue = {}
  /\ task = [w \in Celery |-> Idle]
  /\ row = [e \in Event |-> None]
  /\ rows = [e \in Event |-> 0]
  /\ sent = [x \in Event \X Token |-> Unsent]

-----------------------------------------------------------------------------
(* Preferences                                                             *)

\* NOTIFICATION_TYPE_TO_PREFERENCE_FIELD
Field(t) ==
  CASE t = "chat_message" -> "chat"
    [] t \in {"moderation_approved", "moderation_rejected"} -> "moderation"
    [] t \in {"comment_on_content", "new_follower", "new_like", "new_share", "new_rating"} -> "social"
    [] OTHER -> None

\* _is_category_enabled: a missing row is all enabled.
EnabledOrTrue(u, t) == TRUE  \* Faulty: value or True
EnabledMissingOff(u, t) ==  \* Faulty: a missing row disables
  Field(t) = None \/ (pref[u] # None /\ pref[u][Field(t)])
Enabled(u, t) ==
  LET f == Field(t) IN f = None \/ pref[u] = None \/ pref[u][f]

Patched(own, c, on) == [own EXCEPT ![c] = on]

\* GET, or the first half of a PATCH: get_or_create.
LoadPreferences(p, u, c, on) ==
  /\ edit[p] = Idle /\ u \in exists
  /\ LET own == IF pref[u] = None THEN AllOn ELSE pref[u] IN
     /\ pref' = [pref EXCEPT ![u] = own]
     /\ edit' = [edit EXCEPT ![p] = [at |-> "loaded", user |-> u, category |-> c,
                                     copy |-> Patched(own, c, on)]]
  /\ UNCHANGED <<exists, device, spoken, eventVars, taskVars>>

\* serializer.save writes every column.
SavePreferences(p) ==
  LET r == edit[p] IN
  /\ r.at = "loaded"
  /\ pref' = IF r.user \in exists THEN [pref EXCEPT ![r.user] = r.copy] ELSE pref
  /\ edit' = [edit EXCEPT ![p] = Idle]
  /\ open' = open \cup {e \in Known : /\ event[e].to = r.user
                                      /\ Field(event[e].type) # None
                                      /\ r.copy[Field(event[e].type)]}
  /\ UNCHANGED <<exists, device, spoken, event, queue, taskVars>>

-----------------------------------------------------------------------------
(* Devices                                                                 *)

KeepLocale(k, locale) == IF locale = "" THEN device[k].locale ELSE locale  \* Faulty
NewLocale(k, locale) == locale

\* DeviceRegisterView: update_or_create on the unique token.
Register(u, k, locale) ==
  /\ u \in exists
  /\ device' = [device EXCEPT ![k] = [user |-> u, locale |-> NewLocale(k, locale)]]
  /\ spoken' = spoken \cup {<<u, k, locale>>}
  /\ UNCHANGED <<exists, pref, edit, eventVars, taskVars>>

\* The Admin deletes an account other than its own; its rows, tokens and preferences go with it.
DeleteUser(u) ==
  /\ u \in exists /\ exists # {u}
  /\ exists' = exists \ {u}
  /\ pref' = [pref EXCEPT ![u] = None]
  /\ device' = [k \in Token |-> IF device[k].user = u THEN Unowned ELSE device[k]]
  /\ row' = [e \in Event |-> IF event[e] # None /\ event[e].to = u THEN None ELSE row[e]]
  /\ UNCHANGED <<edit, spoken, eventVars, task, rows, sent>>

-----------------------------------------------------------------------------
(* dispatch_notification                                                   *)

\* enqueue_notification, after the source's transaction; a broker that refuses is
\* logged.  full: the params suffice to render the text.
Enqueue(e, u, t, full, accepted) ==
  /\ e \notin Known /\ \A d \in 1..(e - 1) : d \in Known
  /\ u \in exists
  /\ event' = [event EXCEPT ![e] = [to |-> u, type |-> t, full |-> full]]
  /\ open' = IF Field(t) # None /\ pref[u] # None /\ ~pref[u][Field(t)] THEN open ELSE open \cup {e}
  /\ queue' = IF accepted THEN queue \cup {e} ELSE queue
  /\ UNCHANGED <<userVars, taskVars>>

Receive(w, e) ==
  /\ e \in queue /\ task[w] = Idle
  /\ queue' = queue \ {e}
  /\ task' = [task EXCEPT ![w] = [at |-> "check", event |-> e]]
  /\ UNCHANGED <<userVars, event, open, row, rows, sent>>

Goto(w, at) == task' = [task EXCEPT ![w].at = at]
Done(w) == task' = [task EXCEPT ![w] = Idle]

\* The recipient and the category.
Check(w) ==
  LET v == event[task[w].event] IN
  /\ task[w].at = "check"
  /\ IF v.to \in exists /\ Enabled(v.to, v.type) THEN Goto(w, "create") ELSE Done(w)
  /\ UNCHANGED <<userVars, eventVars, row, rows, sent>>

\* render_for_all_languages: the recipient's language, or the English text of the source.
Render(v, language) == IF v.full THEN language ELSE "en"

\* create_notification; a recipient deleted meanwhile fails the task.
CreateRow(w) ==
  LET e == task[w].event
      v == event[e]
  IN
  /\ task[w].at = "create"
  /\ IF v.to \in exists
     THEN /\ row' = [row EXCEPT ![e] = Render(v, Language[v.to])]
          /\ rows' = [rows EXCEPT ![e] = @ + 1]
          /\ Goto(w, "list")
     ELSE Done(w) /\ UNCHANGED <<row, rows>>
  /\ UNCHANGED <<userVars, eventVars, sent>>

\* send_push_notification: the recipient's tokens and their locales, read once.
ListTokens(w) ==
  LET u == event[task[w].event].to
      own == {k \in Token : device[k].user = u}
  IN
  /\ task[w].at = "list"
  /\ IF own = {} THEN Done(w)
     ELSE task' = [task EXCEPT ![w] = [at |-> "send", event |-> task[w].event, todo |-> own,
                                       locale |-> [k \in own |-> device[k].locale]]]
  /\ UNCHANGED <<userVars, eventVars, row, rows, sent>>

\* One token: sent, or an error that is logged; the loop goes on.
Send(w, k) ==
  LET r == task[w]
      v == event[r.event]
      language == IF r.locale[k] \in Tongue THEN r.locale[k] ELSE Language[v.to]
  IN
  /\ r.at = "send" /\ k \in r.todo
  /\ \/ sent' = [sent EXCEPT ![<<r.event, k>>] = [times |-> @.times + 1, language |-> Render(v, language)]]
     \/ UNCHANGED sent
  /\ IF r.todo = {k} THEN Done(w) ELSE task' = [task EXCEPT ![w].todo = @ \ {k}]
  /\ UNCHANGED <<userVars, eventVars, row, rows>>

\* The worker dies; the task was acknowledged when it was received.
RequeueOnCrash(e) == queue \cup {e}  \* Faulty: acks_late
AfterCrash(e) == queue
Crash(w) ==
  /\ task[w] # Idle
  /\ Done(w)
  /\ queue' = AfterCrash(task[w].event)
  /\ UNCHANGED <<userVars, event, open, row, rows, sent>>

-----------------------------------------------------------------------------
Work(w) ==
  \/ Check(w) \/ CreateRow(w) \/ ListTokens(w)
  \/ \E k \in Token : Send(w, k)
  \/ \E e \in Event : Receive(w, e)

SettingsNext ==
  \/ \E p \in Web : \/ SavePreferences(p)
                    \/ \E u \in User, c \in Category, on \in BOOLEAN : LoadPreferences(p, u, c, on)
DeviceNext == \E u \in User, k \in Token, locale \in Tongue \cup {""} : Register(u, k, locale)
EventNext == \E e \in Event, u \in User, t \in Type, full, accepted \in BOOLEAN :
               Enqueue(e, u, t, full, accepted)

PushNext ==
  \/ DeviceNext \/ EventNext
  \/ \E w \in Celery : Work(w) \/ Crash(w)
  \/ \E u \in User : DeleteUser(u)
Next == PushNext \/ SettingsNext

Spec == Init /\ [][Next]_vars
SettingsSpec == Init /\ [][SettingsNext]_vars
\* Nothing dies and nobody mutes: workers go on with what they took.
CalmNext == DeviceNext \/ EventNext \/ \E w \in Celery : Work(w)
Fairness == \A w \in Celery : WF_vars(Work(w))
FairSpec == Init /\ [][CalmNext]_vars /\ Fairness

-----------------------------------------------------------------------------
(* Properties                                                              *)

\* No row and no push for an event whose category was off from the moment it
\* happened until its task looked (notifications/tasks.py:15-18).
MutedIsSilent ==
  \A e \in Known \ open : rows[e] = 0 /\ \A k \in Token : sent[<<e, k>>].times = 0

\* Workers may die at any step: an event has at most one row and one push to a
\* token, and no push without its row (notifications/tasks.py:37-47).
ToldOnce ==
  \A e \in Event : /\ rows[e] <= 1
                   /\ \A k \in Token : sent[<<e, k>>].times <= rows[e]

\* A push speaks a language its recipient registered the token with, or prefers: a
\* token that changes hands keeps nothing of the account before it
\* (devices/views.py:43-45).
OwnLanguage ==
  \A e \in Known, k \in Token :
    LET v == event[e] IN
    sent[<<e, k>>].language \in {None, Render(v, Language[v.to])}
      \cup {Render(v, l) : l \in {m \in Tongue : <<v.to, k, m>> \in spoken}}

\* If nothing dies, an event the broker took is told: an account without a row of
\* preferences too (notifications/tasks.py:95-98).
Heard == \A e \in Event : e \in queue ~> rows[e] = 1

\* A PATCH changes the toggle it names and no other.  Refuted: both requests have
\* loaded the row, and each writes all of it.
PatchKeepsOthers ==
  [][\A p \in Web : edit[p] # Idle /\ edit'[p] = Idle =>
       \A c \in Category \ {edit[p].category} :
         (pref'[edit[p].user])[c] = (pref[edit[p].user])[c]]_vars

\* A push goes to a token its recipient owns.  Refuted: the token was read before
\* it moved to another account.
PushToOwner ==
  [][\A e \in Event, k \in Token :
       sent'[<<e, k>>] # sent[<<e, k>>] => device[k].user = event[e].to]_vars
=============================================================================
