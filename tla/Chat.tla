-------------------------------- MODULE Chat --------------------------------
(***************************************************************************)
(* One conversation of two accounts: MessageSendView and                   *)
(* MessageFetchSinceView of chat/views.py, and ChatConsumer.               *)
(*                                                                         *)
(* A message is stored, then announced to the connections in the group,    *)
(* then, if the recipient's presence key is missing, handed to             *)
(* notify_offline_recipient; both announcements are best effort.  A client *)
(* that comes back asks for the messages after the last it had when it was *)
(* cut off.  Each connection stands for one client, a tab or the app, that *)
(* connects again and again.  The consumers of the one Daphne process take *)
(* turns in its database thread.                                           *)
(***************************************************************************)
EXTENDS Integers, Sequences, FiniteSets, FiniteSetsExt

CONSTANTS
  User,    \* the two participants
  Conn,    \* clients, each with its WebSocket connection
  UserOf,  \* the account a connection's token belongs to
  Web,     \* processes that serve HTTP requests
  MaxId,   \* bound on messages
  None     \* no account, no connection

Assumptions ==
  /\ Cardinality(User) = 2 /\ IsFiniteSet(User)
  /\ UserOf \in [Conn -> User]
  /\ MaxId \in Nat
  /\ None \notin User \cup Conn

VARIABLES
  nextId,  \* the sequence of Message.id
  from,    \* sender_id of the committed messages
  status,  \* Message.status
  send,    \* the request each web process serves
  conn,    \* where each connection is
  inbox,   \* messages in a connection's channel
  thread,  \* the consumer whose call runs in the database thread
  ack,     \* the acknowledgement it applies
  online,  \* users whose presence key is set
  pushed,  \* messages handed to notify_offline_recipient
  slipped, \* history: messages that were overtaken by a later one or never announced
  seen,    \* messages each client has received, its account's own included
  since,   \* the last message it had when its connection closed
  caught   \* clients that have fetched since they connected

requests == <<nextId, from, send, pushed, slipped>>
sockets == <<conn, inbox>>
clients == <<seen, since, caught>>
vars == <<nextId, from, status, send, conn, inbox, thread, ack, online, pushed, slipped, seen, since, caught>>

Id == 1..MaxId
Idle == [at |-> "idle"]
Committed == {i \in Id : from[i] # None}
Other(u) == CHOOSE v \in User : v # u
\* The message a client asks from: the last it had, if it was not still catching up.
Had(c) == IF c \in caught THEN Max(seen[c] \cup {0}) ELSE since[c]

TypeOK ==
  /\ nextId \in 1..(MaxId + 1)
  /\ from \in [Id -> User \cup {None}]
  /\ status \in [Id -> {"sent", "delivered", "read"}]
  /\ \A p \in Web : send[p].at \in {"idle", "insert", "broadcast", "push"}
  /\ conn \in [Conn -> {"closed", "joined", "live", "closing"}]
  /\ inbox \in [Conn -> Seq(Id)]
  /\ thread \in Conn \cup {None}
  /\ \A c \in Conn : ack[c] = Idle \/ (ack[c].id \in Committed /\ thread = c)
  /\ online \subseteq User /\ caught \subseteq Conn
  /\ pushed \subseteq Committed /\ slipped \subseteq Id
  /\ seen \in [Conn -> SUBSET Committed]
  /\ since \in [Conn -> 0..MaxId]

Init ==
  /\ nextId = 1
  /\ from = [i \in Id |-> None]
  /\ status = [i \in Id |-> "sent"]
  /\ send = [p \in Web |-> Idle]
  /\ conn = [c \in Conn |-> "closed"]
  /\ inbox = [c \in Conn |-> << >>]
  /\ thread = None
  /\ ack = [c \in Conn |-> Idle]
  /\ online = {} /\ pushed = {} /\ slipped = {} /\ caught = {}
  /\ seen = [c \in Conn |-> {}]
  /\ since = [c \in Conn |-> 0]

-----------------------------------------------------------------------------
(* MessageSendView                                                         *)

\* The messages before n that are at the same point.
Behind(n, at) == {i \in Id : i < n /\ \E p \in Web : send[p].at = at /\ send[p].id = i}

\* The INSERT takes its id from the sequence; the row is seen when it commits.
Reserve(p, u) ==
  /\ send[p] = Idle /\ nextId <= MaxId
  /\ send' = [send EXCEPT ![p] = [at |-> "insert", id |-> nextId, user |-> u]]
  /\ nextId' = nextId + 1
  /\ UNCHANGED <<from, status, sockets, thread, ack, online, pushed, slipped, clients>>

Insert(p) ==
  /\ send[p].at = "insert"
  /\ from' = [from EXCEPT ![send[p].id] = send[p].user]
  /\ send' = [send EXCEPT ![p].at = "broadcast"]
  /\ slipped' = slipped \cup Behind(send[p].id, "insert")
  /\ UNCHANGED <<nextId, status, sockets, thread, ack, online, pushed, clients>>

\* group_send reaches every connection that has joined, the sender's too.
Broadcast(p) ==
  /\ send[p].at = "broadcast"
  /\ inbox' = [c \in Conn |-> IF conn[c] \in {"joined", "live"}
                              THEN Append(inbox[c], send[p].id) ELSE inbox[c]]
  /\ send' = [send EXCEPT ![p].at = "push"]
  /\ slipped' = slipped \cup Behind(send[p].id, "broadcast")
  /\ UNCHANGED <<nextId, from, status, conn, thread, ack, online, pushed, clients>>

\* The channel layer fails; that is logged.
BroadcastFails(p) ==
  /\ send[p].at = "broadcast"
  /\ send' = [send EXCEPT ![p].at = "push"]
  /\ slipped' = slipped \cup {send[p].id}
  /\ UNCHANGED <<nextId, from, status, sockets, thread, ack, online, pushed, clients>>

\* What the presence endpoint answers: the key exists.
IsOnline(u) == u \in online

\* The presence of the other participant decides; then the 201.
Push(p) ==
  LET r == send[p] IN
  /\ r.at = "push"
  /\ \/ pushed' = IF IsOnline(Other(r.user)) THEN pushed ELSE pushed \cup {r.id}
     \/ UNCHANGED pushed  \* the dispatch fails
  /\ send' = [send EXCEPT ![p] = Idle]
  /\ UNCHANGED <<nextId, from, status, sockets, thread, ack, online, slipped, clients>>

CrashWeb(p) ==
  /\ send[p] # Idle
  /\ send' = [send EXCEPT ![p] = Idle]
  /\ slipped' = IF send[p].at = "broadcast" THEN slipped \cup {send[p].id} ELSE slipped
  /\ UNCHANGED <<nextId, from, status, sockets, thread, ack, online, pushed, clients>>

-----------------------------------------------------------------------------
(* ChatConsumer: connect, receive, disconnect                              *)

\* connect: the participant check, then group_add.
Connect(c) ==
  /\ conn[c] = "closed"
  /\ conn' = [conn EXCEPT ![c] = "joined"]
  /\ UNCHANGED <<requests, status, inbox, thread, ack, online, clients>>

\* accept and _set_online.
Accept(c) ==
  /\ conn[c] = "joined"
  /\ conn' = [conn EXCEPT ![c] = "live"]
  /\ online' = online \cup {UserOf[c]}
  /\ UNCHANGED <<requests, status, inbox, thread, ack, clients>>

\* A connection of the same account to a conversation it is not part of: close(4003).
Reject(c) ==
  /\ conn[c] = "closed"
  /\ conn' = [conn EXCEPT ![c] = "closing"]
  /\ UNCHANGED <<requests, status, inbox, thread, ack, online, clients>>

AfterHeartbeatNothing(u) == online  \* Faulty: the frame is not recognized
AfterHeartbeat(u) == online \cup {u}
Heartbeat(c) ==
  /\ conn[c] = "live"
  /\ online' = AfterHeartbeat(UserOf[c])
  /\ UNCHANGED <<requests, status, sockets, thread, ack, clients>>

\* chat_message: the next event of the channel goes to the client.
Forward(c) ==
  /\ conn[c] = "live" /\ inbox[c] # << >>
  /\ seen' = [seen EXCEPT ![c] = @ \cup {Head(inbox[c])}]
  /\ inbox' = [inbox EXCEPT ![c] = Tail(@)]
  /\ UNCHANGED <<requests, status, conn, thread, ack, online, since, caught>>

\* The socket closes: what is in the channel is lost.  group_discard ...
Close(c) ==
  /\ conn[c] = "live" /\ thread # c
  /\ conn' = [conn EXCEPT ![c] = "closing"]
  /\ inbox' = [inbox EXCEPT ![c] = << >>]
  /\ since' = [since EXCEPT ![c] = Had(c)]
  /\ caught' = caught \ {c}
  /\ UNCHANGED <<requests, status, thread, ack, online, seen>>

\* ... and _clear_online, for a rejected connection too.
ClearOnline(c) ==
  /\ conn[c] = "closing"
  /\ conn' = [conn EXCEPT ![c] = "closed"]
  /\ online' = online \ {UserOf[c]}
  /\ UNCHANGED <<requests, status, inbox, thread, ack, clients>>

\* PRESENCE_TTL_SECONDS without a heartbeat; a live connection sends them in time.
ExpirePresence(u) ==
  /\ u \in online /\ \A c \in Conn : conn[c] = "live" => UserOf[c] # u
  /\ online' = online \ {u}
  /\ UNCHANGED <<requests, status, sockets, thread, ack, clients>>

\* The Daphne process dies: no disconnect runs, the presence keys stay.
CrashAsgi ==
  /\ \E c \in Conn : conn[c] # "closed"
  /\ conn' = [c \in Conn |-> "closed"]
  /\ inbox' = [c \in Conn |-> << >>]
  /\ thread' = None
  /\ ack' = [c \in Conn |-> Idle]
  /\ since' = [c \in Conn |-> Had(c)]
  /\ caught' = {}
  /\ UNCHANGED <<requests, status, online, seen>>

-----------------------------------------------------------------------------
(* Acknowledgements                                                        *)

Allowed(now, target) ==
  \/ now = "sent" /\ target \in {"delivered", "read"}
  \/ now = "delivered" /\ target = "read"

\* database_sync_to_async runs one call at a time in the process.
ThreadFreeAlways == TRUE  \* Faulty: thread_sensitive=False
ThreadFree == thread = None

\* _apply_status_transition, of any message of the conversation that the caller did not
\* send: the SELECT and the check ...
AckRead(c, i, target) ==
  /\ conn[c] = "live" /\ ThreadFree /\ ack[c] = Idle
  /\ i \in Committed /\ from[i] # UserOf[c]
  /\ Allowed(status[i], target)
  /\ thread' = c
  /\ ack' = [ack EXCEPT ![c] = [at |-> "save", id |-> i, target |-> target]]
  /\ UNCHANGED <<requests, status, sockets, online, clients>>

\* ... and the UPDATE of the status alone; the event to the group changes no state.
AckSave(c) ==
  /\ ack[c] # Idle
  /\ status' = [status EXCEPT ![ack[c].id] = ack[c].target]
  /\ thread' = None
  /\ ack' = [ack EXCEPT ![c] = Idle]
  /\ UNCHANGED <<requests, sockets, online, clients>>

-----------------------------------------------------------------------------
(* MessageFetchSinceView                                                   *)

\* id__gt=since
FetchedAfterNext(n) == {i \in Committed : i > n + 1}  \* Faulty: off by one
Fetched(n) == {i \in Committed : i > n}

\* The client connects first and then asks for what it missed.
Fetch(c) ==
  /\ conn[c] = "live" /\ c \notin caught
  /\ seen' = [seen EXCEPT ![c] = @ \cup Fetched(since[c])]
  /\ caught' = caught \cup {c}
  /\ UNCHANGED <<requests, status, sockets, thread, ack, online, since>>

-----------------------------------------------------------------------------
SendStep(p) ==
  \/ Insert(p) \/ Broadcast(p) \/ Push(p) \/ \E u \in User : Reserve(p, u)

ClientStep(c) ==
  \/ Connect(c) \/ Accept(c) \/ Forward(c) \/ Fetch(c) \/ Close(c) \/ ClearOnline(c)

PresenceStep(c) ==
  \/ Heartbeat(c) \/ Reject(c) \/ ExpirePresence(UserOf[c])

AckStep(c) ==
  \/ AckSave(c)
  \/ \E i \in Id, target \in {"delivered", "read"} : AckRead(c, i, target)

MessageNext ==
  \/ \E p \in Web : SendStep(p) \/ BroadcastFails(p) \/ CrashWeb(p)
  \/ \E c \in Conn : ClientStep(c)
  \/ CrashAsgi
Next == MessageNext \/ \E c \in Conn : PresenceStep(c) \/ AckStep(c)

\* No two requests at a time, and all broadcasts succeed: they do not touch a status.
SpacedNext ==
  /\ Next /\ slipped' = {}
  /\ \A p, q \in Web : send'[p] # Idle /\ send'[q] # Idle => p = q

Spec == Init /\ [][Next]_vars
\* A client sends heartbeats, a call in the thread ends, a closed socket is cleaned up.
Fairness == \A c \in Conn : WF_vars(Heartbeat(c)) /\ WF_vars(ClearOnline(c))
FairSpec == Spec /\ Fairness

-----------------------------------------------------------------------------
(* Properties                                                              *)

\* A status only moves from sent to delivered to read, whatever acknowledgements
\* the connections of an account race (chat/consumers.py:53-62).
Rank(s) == CASE s = "sent" -> 0 [] s = "delivered" -> 1 [] s = "read" -> 2
StatusForward == [][\A i \in Id : Rank(status'[i]) >= Rank(status[i])]_vars

Inbox(c) == {inbox[c][n] : n \in DOMAIN inbox[c]}
Announcing(i) == \E p \in Web : send[p].at = "broadcast" /\ send[p].id = i

\* What a client has of a message of the other, or will have: it received it, it will
\* fetch it, or it has fetched and the message is on its way to it.
Has(c, i) ==
  \/ i \in seen[c]
  \/ c \notin caught /\ i > since[c]
  \/ c \in caught /\ (i \in Inbox(c) \/ Announcing(i))

\* The fetch closes the gap (chat/views.py:319): whatever closes or dies, every client has
\* or will have each message of the other, save one that was never announced or that a
\* message with a greater id overtook, at the commit or at the announcement.
NothingMissed ==
  \A c \in Conn : \A i \in Committed \ slipped : from[i] = Other(UserOf[c]) => Has(c, i)

\* The same without the exception.  Refuted by two web processes, and by a broadcast that
\* fails.
NoGap == \A c \in Conn : \A i \in Committed : from[i] = Other(UserOf[c]) => Has(c, i)

\* An account with a connection is shown online, again and again: closing one of
\* two connections hides it at most until the other's next heartbeat.
OnlineAgain ==
  \A c \in Conn : []<>(conn[c] # "live" \/ IsOnline(UserOf[c]))

\* An account is online while its one accepted connection is.  Refuted with a
\* rejected connection of the account: its disconnect clears the key they share.
LiveIsOnline ==
  \A c \in Conn : conn[c] = "live" /\ (\A d \in Conn \ {c} : UserOf[d] = UserOf[c] =>
                                         conn[d] = "closed")
    => IsOnline(UserOf[c])
=============================================================================
