------------------------------ MODULE ChatProofs ------------------------------
(***************************************************************************)
(* Proofs about Chat: a status never moves back, and the fetch closes the  *)
(* gap for every message that kept its place.                              *)
(***************************************************************************)
EXTENDS Chat, FiniteSetTheorems, NaturalsInduction, TLAPS

Request == {Idle} \cup [at : {"insert", "broadcast", "push"}, id : Id, user : User]
Acknowledgement == {Idle} \cup [at : {"save"}, id : Id, target : {"delivered", "read"}]

\* The types of the variables that the messages depend on.
Shape ==
  /\ nextId \in 1..(MaxId + 1)
  /\ from \in [Id -> User \cup {None}]
  /\ status \in [Id -> {"sent", "delivered", "read"}]
  /\ send \in [Web -> Request]
  /\ inbox \in [Conn -> Seq(Id)]
  /\ ack \in [Conn -> Acknowledgement]
  /\ seen \in [Conn -> SUBSET Committed]
  /\ slipped \subseteq Id

\* An id is reserved once, and has a sender from its INSERT on.
IdInv ==
  /\ \A i \in Id : i >= nextId => from[i] = None
  /\ \A p \in Web : send[p] # Idle => send[p].id < nextId
  /\ \A p \in Web : send[p].at = "insert" => from[send[p].id] = None
  /\ \A p, q \in Web :
       send[p].at = "insert" /\ send[q].at = "insert" /\ send[p].id = send[q].id => p = q
  /\ \A p \in Web : send[p].at \in {"broadcast", "push"} => send[p].id \in Committed

\* What travels to a client is committed, and so is what has a status.
CommittedInv ==
  /\ \A c \in Conn, n \in Nat : n \in 1..Len(inbox[c]) => inbox[c][n] \in Committed
  /\ \A i \in Id : status[i] # "sent" => i \in Committed

\* The one acknowledgement that runs is still allowed, for a committed message.
AckInv ==
  \A c \in Conn : ack[c] # Idle =>
    /\ thread = c
    /\ ack[c].id \in Committed
    /\ Allowed(status[ack[c].id], ack[c].target)

IInv == Shape /\ IdInv /\ CommittedInv /\ AckInv

-----------------------------------------------------------------------------
(* The invariant                                                           *)

\* Nothing is sent, nobody is connected.
LEMMA InitInv == Assumptions /\ Init => IInv
<1> SUFFICES ASSUME Assumptions, Init PROVE IInv
  OBVIOUS
<1> USE DEF Init, Assumptions
<1>1. Committed = {}
  BY DEF Committed
<1>2. Shape
  BY <1>1 DEF Shape, Request, Acknowledgement, Id
<1>3. IdInv /\ AckInv
  BY DEF IdInv, AckInv, Idle
<1>4. CommittedInv
  BY DEF CommittedInv
<1>5. QED
  BY <1>2, <1>3, <1>4 DEF IInv

\* Every step keeps the types.
LEMMA ShapeStep == Assumptions /\ Shape /\ CommittedInv /\ AckInv /\ [Next]_vars => Shape'
<1> SUFFICES ASSUME Assumptions, Shape, CommittedInv, AckInv, [Next]_vars PROVE Shape'
  OBVIOUS
<1> USE DEF Assumptions, Shape, Request, Acknowledgement, Idle, Id, CommittedInv, AckInv,
       Committed, requests, sockets, clients
<1>1. ASSUME NEW p \in Web, NEW u \in User, Reserve(p, u) PROVE Shape'
  BY <1>1 DEF Reserve
<1>2. ASSUME NEW p \in Web, Insert(p) PROVE Shape'
  <2>1. send[p] \in [at : {"insert", "broadcast", "push"}, id : Id, user : User]
    BY <1>2 DEF Insert
  <2>2. [send[p] EXCEPT !.at = "broadcast"] \in Request
    BY <2>1
  <2>3. from'[send[p].id] = send[p].user /\ Committed \subseteq Committed'
    BY <1>2, <2>1 DEF Insert
  <2>4. slipped' \subseteq Id
    BY <1>2 DEF Insert, Behind
  <2>5. /\ UNCHANGED <<nextId, status, inbox, ack, seen>>
        /\ send' = [send EXCEPT ![p] = [send[p] EXCEPT !.at = "broadcast"]]
        /\ from' = [from EXCEPT ![send[p].id] = send[p].user]
    BY <1>2 DEF Insert
  <2>6. send' \in [Web -> Request]
    BY <2>2, <2>5
  <2>7. from' \in [Id -> User \cup {None}]
    BY <2>1, <2>5
  <2>8. QED
    BY <2>3, <2>4, <2>5, <2>6, <2>7
<1>3. ASSUME NEW p \in Web, Broadcast(p) PROVE Shape'
  <2>1. send[p] \in [at : {"insert", "broadcast", "push"}, id : Id, user : User]
    BY <1>3 DEF Broadcast
  <2>2. [send[p] EXCEPT !.at = "push"] \in Request
    BY <2>1
  <2>3. send' = [send EXCEPT ![p] = [send[p] EXCEPT !.at = "push"]]
    BY <1>3 DEF Broadcast
  <2>4. ASSUME NEW c \in Conn PROVE Append(inbox[c], send[p].id) \in Seq(Id)
    <3>1. inbox[c] \in Seq(Id) /\ send[p].id \in Id
      BY <2>1
    <3>2. QED
      BY <3>1
  <2>5. QED
    <3>1. inbox' \in [Conn -> Seq(Id)]
      BY <1>3, <2>4 DEF Broadcast
    <3>2. send' \in [Web -> Request]
      BY <2>2, <2>3
    <3>3. UNCHANGED <<nextId, from, status, ack, seen>> /\ slipped' \subseteq Id
      BY <1>3 DEF Broadcast, Behind
    <3>4. QED
      BY <3>1, <3>2, <3>3
<1>4. ASSUME NEW p \in Web, BroadcastFails(p) PROVE Shape'
  <2>1. send[p] \in [at : {"insert", "broadcast", "push"}, id : Id, user : User]
    BY <1>4 DEF BroadcastFails
  <2>2. [send[p] EXCEPT !.at = "push"] \in Request
    BY <2>1
  <2>3. send' = [send EXCEPT ![p] = [send[p] EXCEPT !.at = "push"]]
    BY <1>4 DEF BroadcastFails
  <2>4. QED
    BY <1>4, <2>2, <2>3 DEF BroadcastFails
<1>5. ASSUME NEW p \in Web, Push(p) PROVE Shape'
  BY <1>5 DEF Push
<1>6. ASSUME NEW p \in Web, CrashWeb(p) PROVE Shape'
  BY <1>6 DEF CrashWeb
<1>7. ASSUME NEW c \in Conn, Connect(c) PROVE Shape'
  BY <1>7 DEF Connect
<1>8. ASSUME NEW c \in Conn, Accept(c) PROVE Shape'
  BY <1>8 DEF Accept
<1>9. ASSUME NEW c \in Conn, Reject(c) PROVE Shape'
  BY <1>9 DEF Reject
<1>10. ASSUME NEW c \in Conn, Heartbeat(c) PROVE Shape'
  BY <1>10 DEF Heartbeat
<1>11. ASSUME NEW c \in Conn, Forward(c) PROVE Shape'
  BY <1>11 DEF Forward
<1>12. ASSUME NEW c \in Conn, Close(c) PROVE Shape'
  BY <1>12 DEF Close
<1>13. ASSUME NEW c \in Conn, ClearOnline(c) PROVE Shape'
  BY <1>13 DEF ClearOnline
<1>14. ASSUME NEW c \in Conn, Fetch(c) PROVE Shape'
  BY <1>14 DEF Fetch, Fetched
<1>15. ASSUME NEW c \in Conn, NEW i \in Id, NEW target \in {"delivered", "read"},
             AckRead(c, i, target)
      PROVE  Shape'
  BY <1>15 DEF AckRead
<1>16. ASSUME NEW c \in Conn, AckSave(c) PROVE Shape'
  BY <1>16 DEF AckSave
<1>17. ASSUME CrashAsgi PROVE Shape'
  BY <1>17 DEF CrashAsgi
<1>18. ASSUME NEW c \in Conn, ExpirePresence(UserOf[c]) PROVE Shape'
  BY <1>18 DEF ExpirePresence
<1>19. CASE UNCHANGED vars
  BY <1>19 DEF vars
<1> HIDE DEF Assumptions, Shape, CommittedInv, AckInv
<1>20. QED
  BY <1>1, <1>2, <1>3, <1>4, <1>5, <1>6, <1>7, <1>8, <1>9, <1>10, <1>11,
     <1>12, <1>13, <1>14, <1>15, <1>16, <1>17, <1>18, <1>19
     DEF Next, MessageNext, SendStep, ClientStep, PresenceStep, AckStep

\* An id is reserved once.
LEMMA IdStep == Assumptions /\ Shape /\ IdInv /\ [Next]_vars => IdInv'
<1> SUFFICES ASSUME Assumptions, Shape, IdInv, [Next]_vars PROVE IdInv'
  OBVIOUS
<1> USE DEF Assumptions, Shape, Request, IdInv, Idle, Id, Committed, requests, sockets, clients
<1>1. ASSUME NEW p \in Web, NEW u \in User, Reserve(p, u) PROVE IdInv'
  <2>1. nextId \in Id /\ from[nextId] = None
    BY <1>1 DEF Reserve
  <2>2. send'[p] = [at |-> "insert", id |-> nextId, user |-> u]
    BY <1>1 DEF Reserve
  <2>3. \A q \in Web : q # p => send'[q] = send[q]
    BY <1>1 DEF Reserve
  <2>4. nextId' = nextId + 1 /\ from' = from
    BY <1>1 DEF Reserve
  <2>5. \A q \in Web : send[q].at = "insert" => send[q].id < nextId /\ send[q].id \in Id
    OBVIOUS
  <2>6. \A q \in Web : send'[q].at = "insert" => from'[send'[q].id] = None
    BY <2>1, <2>2, <2>3, <2>4
  <2>7. \A q \in Web : send'[q] # Idle => send'[q].id < nextId'
    <3>1. \A q \in Web : q # p /\ send[q] # Idle => send[q].id < nextId /\ send[q].id \in Int
      OBVIOUS
    <3>2. QED
      BY <2>1, <2>2, <2>3, <2>4, <3>1
  <2>8. \A q, r \in Web :
          send'[q].at = "insert" /\ send'[r].at = "insert" /\ send'[q].id = send'[r].id => q = r
    <3>1. \A q \in Web : q # p /\ send'[q].at = "insert" => send'[q].id # nextId
      BY <2>1, <2>3, <2>5
    <3>2. \A q, r \in Web : q # p /\ r # p /\ send'[q].at = "insert" /\ send'[r].at = "insert"
                           /\ send'[q].id = send'[r].id => q = r
      BY <2>3
    <3>3. send'[p].id = nextId
      BY <2>2
    <3>4. QED
      BY <3>1, <3>2, <3>3
  <2>9. \A q \in Web : send'[q].at \in {"broadcast", "push"} => from'[send'[q].id] # None /\ send'[q].id \in Id
    BY <2>2, <2>3, <2>4
  <2>10. \A i \in Id : i >= nextId' => from'[i] = None
    BY <2>4
  <2>11. QED
    BY <2>6, <2>7, <2>8, <2>9, <2>10
<1>2. ASSUME NEW p \in Web, Insert(p) PROVE IdInv'
  BY <1>2 DEF Insert
<1>3. ASSUME NEW p \in Web, Broadcast(p) PROVE IdInv'
  BY <1>3 DEF Broadcast
<1>4. ASSUME NEW p \in Web, BroadcastFails(p) PROVE IdInv'
  BY <1>4 DEF BroadcastFails
<1>5. ASSUME NEW p \in Web, Push(p) PROVE IdInv'
  BY <1>5 DEF Push
<1>6. ASSUME NEW p \in Web, CrashWeb(p) PROVE IdInv'
  BY <1>6 DEF CrashWeb
<1>7. ASSUME NEW c \in Conn, Connect(c) PROVE IdInv'
  BY <1>7 DEF Connect
<1>8. ASSUME NEW c \in Conn, Accept(c) PROVE IdInv'
  BY <1>8 DEF Accept
<1>9. ASSUME NEW c \in Conn, Reject(c) PROVE IdInv'
  BY <1>9 DEF Reject
<1>10. ASSUME NEW c \in Conn, Heartbeat(c) PROVE IdInv'
  BY <1>10 DEF Heartbeat
<1>11. ASSUME NEW c \in Conn, Forward(c) PROVE IdInv'
  BY <1>11 DEF Forward
<1>12. ASSUME NEW c \in Conn, Close(c) PROVE IdInv'
  BY <1>12 DEF Close
<1>13. ASSUME NEW c \in Conn, ClearOnline(c) PROVE IdInv'
  BY <1>13 DEF ClearOnline
<1>14. ASSUME NEW c \in Conn, Fetch(c) PROVE IdInv'
  BY <1>14 DEF Fetch
<1>15. ASSUME NEW c \in Conn, NEW i \in Id, NEW target \in {"delivered", "read"},
             AckRead(c, i, target)
      PROVE  IdInv'
  BY <1>15 DEF AckRead
<1>16. ASSUME NEW c \in Conn, AckSave(c) PROVE IdInv'
  BY <1>16 DEF AckSave
<1>17. ASSUME CrashAsgi PROVE IdInv'
  BY <1>17 DEF CrashAsgi
<1>18. ASSUME NEW c \in Conn, ExpirePresence(UserOf[c]) PROVE IdInv'
  BY <1>18 DEF ExpirePresence
<1>19. CASE UNCHANGED vars
  BY <1>19 DEF vars
<1> HIDE DEF Assumptions, Shape, IdInv
<1>20. QED
  BY <1>1, <1>2, <1>3, <1>4, <1>5, <1>6, <1>7, <1>8, <1>9, <1>10, <1>11,
     <1>12, <1>13, <1>14, <1>15, <1>16, <1>17, <1>18, <1>19
     DEF Next, MessageNext, SendStep, ClientStep, PresenceStep, AckStep

\* Nothing travels before it is committed.
LEMMA CommittedStep ==
  Assumptions /\ Shape /\ IdInv /\ AckInv /\ CommittedInv /\ [Next]_vars =>
    CommittedInv'
<1> SUFFICES ASSUME Assumptions, Shape, IdInv, AckInv, CommittedInv, [Next]_vars
             PROVE CommittedInv'
  OBVIOUS
<1> USE DEF Assumptions, Shape, Request, Acknowledgement, IdInv, CommittedInv, Idle, Id,
       Committed, requests, sockets, clients
<1>1. ASSUME NEW p \in Web, NEW u \in User, Reserve(p, u) PROVE CommittedInv'
  BY <1>1 DEF Reserve
<1>2. ASSUME NEW p \in Web, Insert(p) PROVE CommittedInv'
  BY <1>2 DEF Insert
<1>3. ASSUME NEW p \in Web, Broadcast(p) PROVE CommittedInv'
  BY <1>3 DEF Broadcast
<1>4. ASSUME NEW p \in Web, BroadcastFails(p) PROVE CommittedInv'
  BY <1>4 DEF BroadcastFails
<1>5. ASSUME NEW p \in Web, Push(p) PROVE CommittedInv'
  BY <1>5 DEF Push
<1>6. ASSUME NEW p \in Web, CrashWeb(p) PROVE CommittedInv'
  BY <1>6 DEF CrashWeb
<1>7. ASSUME NEW c \in Conn, Connect(c) PROVE CommittedInv'
  BY <1>7 DEF Connect
<1>8. ASSUME NEW c \in Conn, Accept(c) PROVE CommittedInv'
  BY <1>8 DEF Accept
<1>9. ASSUME NEW c \in Conn, Reject(c) PROVE CommittedInv'
  BY <1>9 DEF Reject
<1>10. ASSUME NEW c \in Conn, Heartbeat(c) PROVE CommittedInv'
  BY <1>10 DEF Heartbeat
<1>11. ASSUME NEW c \in Conn, Forward(c) PROVE CommittedInv'
  BY <1>11 DEF Forward
<1>12. ASSUME NEW c \in Conn, Close(c) PROVE CommittedInv'
  BY <1>12 DEF Close
<1>13. ASSUME NEW c \in Conn, ClearOnline(c) PROVE CommittedInv'
  BY <1>13 DEF ClearOnline
<1>14. ASSUME NEW c \in Conn, Fetch(c) PROVE CommittedInv'
  BY <1>14 DEF Fetch
<1>15. ASSUME NEW c \in Conn, NEW i \in Id, NEW target \in {"delivered", "read"},
             AckRead(c, i, target)
      PROVE  CommittedInv'
  BY <1>15 DEF AckRead
<1>16. ASSUME NEW c \in Conn, AckSave(c) PROVE CommittedInv'
  <2>1. ack[c].id \in Committed
    BY <1>16 DEF AckSave, AckInv
  <2>2. QED
    BY <1>16, <2>1 DEF AckSave
<1>17. ASSUME CrashAsgi PROVE CommittedInv'
  BY <1>17 DEF CrashAsgi
<1>18. ASSUME NEW c \in Conn, ExpirePresence(UserOf[c]) PROVE CommittedInv'
  BY <1>18 DEF ExpirePresence
<1>19. CASE UNCHANGED vars
  BY <1>19 DEF vars
<1> HIDE DEF Assumptions, Shape, IdInv, CommittedInv
<1>20. QED
  BY <1>1, <1>2, <1>3, <1>4, <1>5, <1>6, <1>7, <1>8, <1>9, <1>10, <1>11,
     <1>12, <1>13, <1>14, <1>15, <1>16, <1>17, <1>18, <1>19
     DEF Next, MessageNext, SendStep, ClientStep, PresenceStep, AckStep

\* An acknowledgement stays allowed until it is saved.
LEMMA AckInvStep == Assumptions /\ Shape /\ IdInv /\ AckInv /\ [Next]_vars => AckInv'
<1> SUFFICES ASSUME Assumptions, Shape, IdInv, AckInv, [Next]_vars PROVE AckInv'
  OBVIOUS
<1> USE DEF Assumptions, Shape, Request, Acknowledgement, IdInv, AckInv, Idle, Id, Committed,
       requests, sockets, clients
<1>1. ASSUME NEW p \in Web, NEW u \in User, Reserve(p, u) PROVE AckInv'
  BY <1>1 DEF Reserve
<1>2. ASSUME NEW p \in Web, Insert(p) PROVE AckInv'
  BY <1>2 DEF Insert
<1>3. ASSUME NEW p \in Web, Broadcast(p) PROVE AckInv'
  BY <1>3 DEF Broadcast
<1>4. ASSUME NEW p \in Web, BroadcastFails(p) PROVE AckInv'
  BY <1>4 DEF BroadcastFails
<1>5. ASSUME NEW p \in Web, Push(p) PROVE AckInv'
  BY <1>5 DEF Push
<1>6. ASSUME NEW p \in Web, CrashWeb(p) PROVE AckInv'
  BY <1>6 DEF CrashWeb
<1>7. ASSUME NEW c \in Conn, Connect(c) PROVE AckInv'
  BY <1>7 DEF Connect
<1>8. ASSUME NEW c \in Conn, Accept(c) PROVE AckInv'
  BY <1>8 DEF Accept
<1>9. ASSUME NEW c \in Conn, Reject(c) PROVE AckInv'
  BY <1>9 DEF Reject
<1>10. ASSUME NEW c \in Conn, Heartbeat(c) PROVE AckInv'
  BY <1>10 DEF Heartbeat
<1>11. ASSUME NEW c \in Conn, Forward(c) PROVE AckInv'
  BY <1>11 DEF Forward
<1>12. ASSUME NEW c \in Conn, Close(c) PROVE AckInv'
  BY <1>12 DEF Close
<1>13. ASSUME NEW c \in Conn, ClearOnline(c) PROVE AckInv'
  BY <1>13 DEF ClearOnline
<1>14. ASSUME NEW c \in Conn, Fetch(c) PROVE AckInv'
  BY <1>14 DEF Fetch
<1>15. ASSUME NEW c \in Conn, NEW i \in Id, NEW target \in {"delivered", "read"},
             AckRead(c, i, target)
      PROVE  AckInv'
  <2>1. ack' = [ack EXCEPT ![c] = [at |-> "save", id |-> i, target |-> target]] /\ thread' = c
    BY <1>15 DEF AckRead
  <2>2. \A d \in Conn : d # c => ack'[d] = ack[d] /\ ack[d] = Idle
    BY <1>15, <2>1 DEF AckRead, ThreadFree
  <2>3. UNCHANGED <<from, status, seen>>
    BY <1>15 DEF AckRead
  <2>4. ack'[c].id = i /\ ack'[c].target = target /\ i \in Committed /\ Allowed(status[i], target)
    BY <1>15, <2>1 DEF AckRead
  <2>5. QED
    BY <2>1, <2>2, <2>3, <2>4 DEF Allowed
<1>16. ASSUME NEW c \in Conn, AckSave(c) PROVE AckInv'
  <2>1. thread = c
    BY <1>16 DEF AckSave
  <2>2. \A d \in Conn : ack'[d] = Idle
    BY <1>16, <2>1 DEF AckSave
  <2>3. QED
    BY <2>2
<1>17. ASSUME CrashAsgi PROVE AckInv'
  BY <1>17 DEF CrashAsgi
<1>18. ASSUME NEW c \in Conn, ExpirePresence(UserOf[c]) PROVE AckInv'
  BY <1>18 DEF ExpirePresence
<1>19. CASE UNCHANGED vars
  BY <1>19 DEF vars
<1> HIDE DEF Assumptions, Shape, IdInv, AckInv
<1>20. QED
  BY <1>1, <1>2, <1>3, <1>4, <1>5, <1>6, <1>7, <1>8, <1>9, <1>10, <1>11,
     <1>12, <1>13, <1>14, <1>15, <1>16, <1>17, <1>18, <1>19
     DEF Next, MessageNext, SendStep, ClientStep, PresenceStep, AckStep

-----------------------------------------------------------------------------
(* The theorems                                                            *)

\* The invariant is inductive.
LEMMA Inductive == Assumptions /\ IInv /\ [Next]_vars => IInv'
BY ShapeStep, IdStep, CommittedStep, AckInvStep DEF IInv

\* Every reachable state has the invariant.
THEOREM Invariance ==
  ASSUME Assumptions PROVE Spec => []IInv
<1>1. Init => IInv
  BY InitInv
<1>2. IInv /\ [Next]_vars => IInv'
  BY Inductive
<1>3. QED
  BY <1>1, <1>2, PTL DEF Spec

\* Only the save of an acknowledgement changes a status.
LEMMA OnlySaves ==
  [Next]_vars => UNCHANGED status \/ \E c \in Conn : AckSave(c)
BY DEF Next, MessageNext, SendStep, ClientStep, PresenceStep, AckStep, Reserve, Insert, Broadcast, BroadcastFails,
   Push, CrashWeb, Connect, Accept, Reject, Heartbeat, Forward, Close, ClearOnline, Fetch, AckRead,
   CrashAsgi, ExpirePresence, vars, requests, sockets, clients

\* A status that changes is allowed to.
LEMMA NeverBack ==
  ASSUME IInv, [Next]_vars, NEW i \in Id PROVE Rank(status'[i]) >= Rank(status[i])
<1>1. status[i] \in {"sent", "delivered", "read"}
  BY DEF IInv, Shape
<1>2. CASE UNCHANGED status
  BY <1>1, <1>2 DEF Rank
<1>3. ASSUME NEW c \in Conn, AckSave(c) PROVE Rank(status'[i]) >= Rank(status[i])
  <2>1. ack[c] # Idle /\ Allowed(status[ack[c].id], ack[c].target)
    BY <1>3 DEF AckSave, IInv, AckInv
  <2>2. status' = [status EXCEPT ![ack[c].id] = ack[c].target]
    BY <1>3 DEF AckSave
  <2>3. CASE i = ack[c].id
    BY <1>1, <2>1, <2>2, <2>3 DEF IInv, Shape, Allowed, Rank
  <2>4. CASE i # ack[c].id
    BY <1>1, <2>2, <2>4 DEF IInv, Shape, Rank
  <2>5. QED
    BY <2>3, <2>4
<1>4. QED
  BY <1>2, <1>3, OnlySaves

\* No interleaving of acknowledgements, disconnects and crashes moves a status back.
THEOREM Forwards ==
  ASSUME Assumptions PROVE Spec => StatusForward
<1>1. IInv /\ [Next]_vars => [\A i \in Id : Rank(status'[i]) >= Rank(status[i])]_vars
  BY NeverBack
<1>2. QED
  BY <1>1, Invariance, PTL DEF Spec, StatusForward

-----------------------------------------------------------------------------
(* Nothing is missed                                                       *)

\* A set of numbers that is not empty has a least one.
LEMMA Least ==
  ASSUME NEW T \in SUBSET Nat, T # {}
  PROVE  \E x \in T : \A y \in T : x <= y
<1> DEFINE R == {ss \in Nat \X Nat : ss[1] < ss[2]}
<1>1. IsWellFoundedOn(R, Nat)  BY NatLessThanWellFounded DEF OpToRel
<1>2. PICK x \in T : \A y \in T : ~(<<y, x>> \in R)  BY <1>1, WFMin
<1>3. \A y \in T : ~(y < x)  BY <1>2
<1> QED  BY <1>3

\* The greatest of a set of numbers up to n is one of them.
LEMMA Greatest ==
  ASSUME NEW n \in Nat, NEW S \in SUBSET (0..n), S # {}
  PROVE  Max(S) \in S /\ \A y \in S : y <= Max(S)
<1> DEFINE T == {n - x : x \in S}
<1>0. \A x \in S : n - x \in Nat  OBVIOUS
<1>1. T \in SUBSET Nat /\ T # {}  BY <1>0
<1> HIDE DEF T
<1>2. PICK d \in T : \A e \in T : d <= e  BY <1>1, Least
<1> USE DEF T
<1>3. PICK x \in S : d = n - x  OBVIOUS
<1>4. \A y \in S : x >= y  BY <1>2, <1>3
<1> QED  BY <1>4 DEF Max

\* What the client had is a committed message, or nothing.
LEMMA HadCommitted ==
  ASSUME Assumptions, Shape, NEW c \in Conn, since[c] \in Committed \cup {0}
  PROVE  /\ Had(c) \in Committed \cup {0}
         /\ c \in caught => Had(c) \in seen[c] \cup {0} /\ \A i \in seen[c] : i <= Had(c)
<1>1. seen[c] \subseteq Committed /\ seen[c] \cup {0} \subseteq 0..MaxId
  BY DEF Shape, Committed, Id, Assumptions
<1>2. MaxId \in Nat  BY DEF Assumptions
<1> DEFINE S == seen[c] \cup {0}
<1>3. S \in SUBSET (0..MaxId) /\ S # {}  BY <1>1
<1> HIDE DEF S
<1>4. Max(S) \in S /\ \A y \in S : y <= Max(S)  BY <1>2, <1>3, Greatest
<1> QED  BY <1>1, <1>4 DEF Had, S

\* What a client asks from next was committed.
SinceInv == since \in [Conn -> Nat] /\ \A c \in Conn : since[c] \in Committed \cup {0}
LEMMA SinceStep ==
  ASSUME Assumptions, Shape, SinceInv, [Next]_vars PROVE SinceInv'
<1>1. Committed \subseteq Committed'
  <2>1. \A i \in Id : from[i] # None => from'[i] # None
    <3>1. ASSUME NEW p \in Web, Insert(p) PROVE \A i \in Id : from[i] # None => from'[i] # None
      BY <3>1 DEF Insert, Shape, Request, Idle, Assumptions
    <3>2. CASE UNCHANGED from  BY <3>2
    <3> QED  BY <3>1, <3>2 DEF Next, MessageNext, SendStep, ClientStep, PresenceStep, AckStep, Reserve, Broadcast,
          BroadcastFails, Push, CrashWeb, Connect, Accept, Reject, Heartbeat, Forward, Close, ClearOnline,
          Fetch, AckRead, AckSave, CrashAsgi, ExpirePresence, vars, requests, sockets, clients
  <2> QED  BY <2>1 DEF Committed
<1>2. \A c \in Conn : Had(c) \in Committed \cup {0}  BY HadCommitted DEF SinceInv
<1>3. Committed \cup {0} \subseteq Nat  BY DEF Committed, Id
<1>4. ASSUME NEW c \in Conn, Close(c) PROVE SinceInv'
  <2>1. since' = [since EXCEPT ![c] = Had(c)]  BY <1>4 DEF Close
  <2> QED  BY <1>1, <1>2, <1>3, <2>1 DEF SinceInv
<1>5. CASE CrashAsgi
  <2>1. since' \in [Conn -> Nat] /\ \A c \in Conn : since'[c] \in {Had(c), since[c]}
    BY <1>2, <1>3, <1>5 DEF CrashAsgi, SinceInv
  <2> QED  BY <1>1, <1>2, <2>1 DEF SinceInv
<1>6. CASE UNCHANGED since  BY <1>1, <1>6 DEF SinceInv
<1> QED  BY <1>4, <1>5, <1>6 DEF Next, MessageNext, SendStep, ClientStep, PresenceStep, AckStep, Reserve, Insert, Broadcast,
      BroadcastFails, Push, CrashWeb, Connect, Accept, Reject, Heartbeat, Forward, ClearOnline,
      Fetch, AckRead, AckSave, ExpirePresence, vars, requests, sockets, clients

\* Where a connection may be, and who may be online.
PlacesInv ==
  /\ conn \in [Conn -> {"closed", "joined", "live", "closing"}]
  /\ thread \in Conn \cup {None}
  /\ online \subseteq User /\ caught \subseteq Conn
  /\ pushed \subseteq Committed
LEMMA PlacesStep ==
  ASSUME Assumptions, Shape, IdInv, PlacesInv, [Next]_vars PROVE PlacesInv'
<1>1. Committed \subseteq Committed'
  <2>1. \A i \in Id : from[i] # None => from'[i] # None
    <3>1. ASSUME NEW p \in Web, Insert(p) PROVE \A i \in Id : from[i] # None => from'[i] # None
      BY <3>1 DEF Insert, Shape, Request, Idle, Assumptions
    <3>2. CASE UNCHANGED from  BY <3>2
    <3> QED  BY <3>1, <3>2 DEF Next, MessageNext, SendStep, ClientStep, PresenceStep, AckStep, Reserve, Broadcast,
          BroadcastFails, Push, CrashWeb, Connect, Accept, Reject, Heartbeat, Forward, Close, ClearOnline,
          Fetch, AckRead, AckSave, CrashAsgi, ExpirePresence, vars, requests, sockets, clients
  <2> QED  BY <2>1 DEF Committed
<1>2. \A c \in Conn : UserOf[c] \in User  BY DEF Assumptions
<1>3. (conn \in [Conn -> {"closed", "joined", "live", "closing"}])'
  <2>1. conn \in [Conn -> {"closed", "joined", "live", "closing"}]  BY DEF PlacesInv
  <2> QED
    BY <2>1 DEF Next, MessageNext, SendStep, ClientStep, PresenceStep, AckStep, Reserve, Insert, Broadcast,
        BroadcastFails, Push, CrashWeb, Connect, Accept, Reject, Heartbeat, Forward, Close, ClearOnline,
        Fetch, AckRead, AckSave, CrashAsgi, ExpirePresence, vars, requests, sockets, clients
<1>4. (thread \in Conn \cup {None} /\ online \subseteq User /\ caught \subseteq Conn)'
  BY <1>2 DEF PlacesInv, Next, MessageNext, SendStep, ClientStep, PresenceStep, AckStep, Reserve, Insert, Broadcast,
        BroadcastFails, Push, CrashWeb, Connect, Accept, Reject, Heartbeat, AfterHeartbeat, Forward, Close,
        ClearOnline, Fetch, AckRead, AckSave, CrashAsgi, ExpirePresence, vars, requests, sockets, clients
<1>5. pushed' \subseteq Committed
  <2>1. ASSUME NEW p \in Web, Push(p) PROVE pushed' \subseteq Committed
    BY <2>1 DEF Push, IdInv, PlacesInv
  <2>2. CASE UNCHANGED pushed  BY <2>2 DEF PlacesInv
  <2> QED  BY <2>1, <2>2 DEF Next, MessageNext, SendStep, ClientStep, PresenceStep, AckStep, Reserve, Insert, Broadcast,
        BroadcastFails, CrashWeb, Connect, Accept, Reject, Heartbeat, Forward, Close, ClearOnline,
        Fetch, AckRead, AckSave, CrashAsgi, ExpirePresence, vars, requests, sockets, clients
<1> QED  BY <1>1, <1>3, <1>4, <1>5 DEF PlacesInv

\* The whole invariant with the types of the rest.
Placed == IInv /\ SinceInv /\ PlacesInv

LEMMA PlacedInit == ASSUME Assumptions, Init PROVE Placed
<1>1. IInv  BY InitInv
<1> QED  BY <1>1 DEF Placed, SinceInv, PlacesInv, Init

LEMMA PlacedStep == ASSUME Assumptions, Placed, [Next]_vars PROVE Placed'
<1>1. IInv'  BY Inductive DEF Placed
<1>2. SinceInv' /\ PlacesInv'  BY SinceStep, PlacesStep DEF Placed, IInv
<1> QED  BY <1>1, <1>2 DEF Placed

LEMMA TypesShow == ASSUME Assumptions, Placed PROVE TypeOK
<1>1. \A p \in Web : send[p].at \in {"idle", "insert", "broadcast", "push"}
  BY DEF Placed, IInv, Shape, Request, Idle
<1>2. \A c \in Conn : ack[c] = Idle \/ (ack[c].id \in Committed /\ thread = c)
  BY DEF Placed, IInv, Shape, AckInv, Assumptions
<1>3. since \in [Conn -> 0..MaxId]
  BY DEF Placed, SinceInv, Committed, Id, Assumptions
<1> QED  BY <1>1, <1>2, <1>3 DEF TypeOK, Placed, IInv, Shape, PlacesInv

\* The types of a conversation hold through every failure: an acknowledgement in the
\* thread is of a committed message, and what was pushed and asked from was committed.
THEOREM TypeCorrect == ASSUME Assumptions PROVE Spec => []TypeOK
<1>1. Init => Placed  BY PlacedInit
<1>2. Placed /\ [Next]_vars => Placed'  BY PlacedStep
<1>3. Placed => TypeOK  BY TypesShow
<1> QED  BY <1>1, <1>2, <1>3, PTL DEF Spec

\* The committed messages that no later one overtook and that are or were announced.
Kept == Committed \ slipped

\* A message that kept its place commits after every smaller one, and is announced to a
\* connection after every smaller one.
InOrder(c) ==
  /\ \A p \in Web : send[p].at = "insert" /\ send[p].id \notin slipped =>
       \A j \in Committed : j < send[p].id
  /\ \A p \in Web : send[p].at = "broadcast" /\ send[p].id \notin slipped =>
       \A j \in Inbox(c) : j <= send[p].id
  /\ \A m, n \in 1..Len(inbox[c]) : m < n /\ inbox[c][n] \notin slipped =>
       inbox[c][m] <= inbox[c][n]

\* A client has everything up to where it will ask from.  One that has caught up is
\* connected, has everything but what is on its way, and has it without a hole.
Complete(c) ==
  /\ \A i \in Kept : i <= since[c] => i \in seen[c]
  /\ c \in caught =>
       /\ conn[c] = "live"
       /\ \A i \in Kept : i \in seen[c] \cup Inbox(c) \/ Announcing(i)
       /\ \A i \in Kept, j \in seen[c] : i < j => i \in seen[c]

GapInv == \A c \in Conn : InOrder(c) /\ Complete(c)

\* What the facts say of indices.
LEMMA TypesOf ==
  ASSUME Assumptions, Shape, IdInv, CommittedInv, NEW c \in Conn
  PROVE  /\ inbox[c] \in Seq(Id) /\ Len(inbox[c]) \in Nat /\ DOMAIN inbox[c] = 1..Len(inbox[c])
         /\ Inbox(c) \subseteq Committed /\ Committed \subseteq Id /\ Id \subseteq Nat
         /\ \A i \in Committed : i < nextId
         /\ nextId \in Nat
         /\ seen[c] \subseteq Committed
         /\ \A p \in Web : send[p] # Idle => send[p].id \in Id
         /\ \A p \in Web : send[p].at \in {"insert", "broadcast", "push"} => send[p] # Idle
<1>1. inbox[c] \in Seq(Id) /\ Len(inbox[c]) \in Nat /\ DOMAIN inbox[c] = 1..Len(inbox[c])  BY DEF Shape
<1>2. Inbox(c) \subseteq Committed  BY <1>1 DEF Inbox, CommittedInv
<1>3. \A i \in Committed : i < nextId  BY DEF Committed, IdInv, Shape, Id, Assumptions
<1> QED  BY <1>1, <1>2, <1>3 DEF Shape, Committed, Id, Assumptions, Request, Idle

\* A step that neither sends nor delivers leaves the order.
LEMMA OrderFrame ==
  ASSUME NEW c, InOrder(c), UNCHANGED <<send, from, slipped>>, inbox'[c] = inbox[c] PROVE InOrder(c)'
BY DEF InOrder, Inbox, Committed

\* An emptied channel is in order.
LEMMA OrderEmpty ==
  ASSUME NEW c, InOrder(c), UNCHANGED <<send, from, slipped>>, inbox'[c] = << >> PROVE InOrder(c)'
<1>1. Len(inbox'[c]) = 0 /\ Inbox(c)' = {}  BY DEF Inbox
<1> QED  BY <1>1 DEF InOrder, Committed

\* Every step keeps the order of what kept its place.
LEMMA OrderStep ==
  ASSUME Assumptions, Shape, IdInv, CommittedInv, NEW c \in Conn, InOrder(c), [Next]_vars
  PROVE  InOrder(c)'
<1> USE DEF requests, sockets, clients
<1> USE TypesOf
<1>1. ASSUME NEW p \in Web, NEW u \in User, Reserve(p, u) PROVE InOrder(c)'
  <2>1. /\ send' = [send EXCEPT ![p] = [at |-> "insert", id |-> nextId, user |-> u]]
        /\ UNCHANGED <<from, inbox, slipped>>
    BY <1>1 DEF Reserve
  <2>2. send'[p].at = "insert" /\ send'[p].id = nextId /\ \A q \in Web \ {p} : send'[q] = send[q]
    BY <2>1 DEF Shape
  <2> QED  BY <2>1, <2>2 DEF InOrder, Inbox, Committed
<1>2. ASSUME NEW p \in Web, Insert(p) PROVE InOrder(c)'
  <2> DEFINE n == send[p].id
  <2>1. send[p].at = "insert" /\ send[p] # Idle /\ n \in Id
    BY <1>2 DEF Insert
  <2>2. /\ send' = [send EXCEPT ![p].at = "broadcast"] /\ inbox' = inbox
        /\ slipped' = slipped \cup Behind(n, "insert") /\ from' = [from EXCEPT ![n] = send[p].user]
    BY <1>2 DEF Insert
  <2>3. /\ send'[p].id = n /\ send'[p].at = "broadcast"
        /\ \A q \in Web \ {p} : send'[q] = send[q]
    BY <2>2 DEF Shape
  <2>4. Committed' \subseteq Committed \cup {n}  BY <2>1, <2>2 DEF Committed, Shape
  <2>5. ASSUME NEW q \in Web, send'[q].at = "insert", send'[q].id \notin slipped', NEW j \in Committed'
        PROVE  j < send'[q].id
    <3>1. q # p /\ send'[q] = send[q]  BY <2>3, <2>5
    <3>2. send[q].id \in Id /\ send[q].id # n  BY <2>1, <2>5, <3>1 DEF IdInv
    <3>3. ~(send[q].id < n)  BY <2>2, <2>5, <3>1, <3>2 DEF Behind
    <3>4. n < send[q].id  BY <2>1, <3>2, <3>3
    <3>5. CASE j = n  BY <3>1, <3>4, <3>5
    <3>6. CASE j \in Committed  BY <2>2, <2>5, <3>1, <3>6 DEF InOrder
    <3> QED  BY <2>4, <2>5, <3>5, <3>6
  <2>6. ASSUME NEW q \in Web, send'[q].at = "broadcast", send'[q].id \notin slipped', NEW j \in Inbox(c)'
        PROVE  j <= send'[q].id
    <3>1. j \in Inbox(c) /\ j \in Committed /\ j \in Nat  BY <2>2, <2>6 DEF Inbox
    <3>2. CASE q = p
      <4>1. j < n  BY <2>1, <2>2, <2>3, <2>6, <3>1, <3>2 DEF InOrder
      <4> QED  BY <2>1, <2>3, <3>1, <3>2, <4>1
    <3>3. CASE q # p  BY <2>2, <2>3, <2>6, <3>1, <3>3 DEF InOrder
    <3> QED  BY <3>2, <3>3
  <2>7. \A m, k \in 1..Len(inbox'[c]) : m < k /\ inbox'[c][k] \notin slipped' => inbox'[c][m] <= inbox'[c][k]
    BY <2>2 DEF InOrder
  <2> QED  BY <2>5, <2>6, <2>7 DEF InOrder
<1>3. ASSUME NEW p \in Web, Broadcast(p) PROVE InOrder(c)'
  <2> DEFINE n == send[p].id
  <2>1. send[p].at = "broadcast" /\ send[p] # Idle /\ n \in Id
    BY <1>3 DEF Broadcast
  <2>2. /\ send' = [send EXCEPT ![p].at = "push"] /\ from' = from
        /\ slipped' = slipped \cup Behind(n, "broadcast")
    BY <1>3 DEF Broadcast
  <2>3. send'[p].at = "push" /\ \A q \in Web \ {p} : send'[q] = send[q]
    BY <2>2 DEF Shape
  <2>4. inbox'[c] = inbox[c] \/ inbox'[c] = Append(inbox[c], n)
    BY <1>3 DEF Broadcast
  <2>5. \A q \in Web : send'[q].at = "insert" /\ send'[q].id \notin slipped' =>
          \A j \in Committed' : j < send'[q].id
    BY <2>2, <2>3 DEF InOrder, Committed
  <2>6. CASE inbox'[c] = inbox[c]
    <3>1. \A q \in Web : send'[q].at = "broadcast" /\ send'[q].id \notin slipped' =>
            \A j \in Inbox(c)' : j <= send'[q].id
      BY <2>2, <2>3, <2>6 DEF InOrder, Inbox
    <3>2. \A m, k \in 1..Len(inbox'[c]) : m < k /\ inbox'[c][k] \notin slipped' => inbox'[c][m] <= inbox'[c][k]
      BY <2>2, <2>6 DEF InOrder
    <3> QED  BY <2>5, <3>1, <3>2 DEF InOrder
  <2>7. CASE inbox'[c] = Append(inbox[c], n)
    <3>1. /\ Len(inbox'[c]) = Len(inbox[c]) + 1
          /\ inbox'[c][Len(inbox[c]) + 1] = n
          /\ \A m \in 1..Len(inbox[c]) : inbox'[c][m] = inbox[c][m]
      BY <2>1, <2>7
    <3>2. \A m \in 1..Len(inbox'[c]) : m \in 1..Len(inbox[c]) \/ m = Len(inbox[c]) + 1
      BY <3>1
    <3>3. DOMAIN inbox'[c] = 1..Len(inbox'[c])  BY <2>1, <2>7
    <3>4. Inbox(c)' \subseteq Inbox(c) \cup {n}
      <4>1. Inbox(c)' = {inbox'[c][m] : m \in 1..Len(inbox'[c])}  BY <3>3 DEF Inbox
      <4> QED  BY <3>1, <3>2, <4>1 DEF Inbox
    <3>5. ASSUME NEW q \in Web, send'[q].at = "broadcast", send'[q].id \notin slipped', NEW j \in Inbox(c)'
          PROVE  j <= send'[q].id
      <4>1. q # p /\ send'[q] = send[q] /\ send[q].id \in Id  BY <2>3, <3>5
      <4>2. ~(send[q].id < n)  BY <2>2, <3>5, <4>1 DEF Behind
      <4>3. CASE j = n  BY <2>1, <4>1, <4>2, <4>3
      <4>4. CASE j \in Inbox(c)  BY <2>2, <3>5, <4>1, <4>4 DEF InOrder
      <4> QED  BY <3>4, <3>5, <4>3, <4>4
    <3>6. ASSUME NEW m \in 1..Len(inbox'[c]), NEW k \in 1..Len(inbox'[c]), m < k,
                 inbox'[c][k] \notin slipped'
          PROVE  inbox'[c][m] <= inbox'[c][k]
      <4>1. m \in 1..Len(inbox[c])  BY <3>1, <3>6
      <4>2. CASE k = Len(inbox[c]) + 1
        <5>1. inbox[c][m] \in Inbox(c)  BY <4>1 DEF Inbox
        <5> QED  BY <2>1, <2>2, <3>1, <3>6, <4>1, <4>2, <5>1 DEF InOrder
      <4>3. CASE k # Len(inbox[c]) + 1
        <5>1. k \in 1..Len(inbox[c])  BY <3>2, <4>3
        <5> QED  BY <2>2, <3>1, <3>6, <4>1, <5>1 DEF InOrder
      <4> QED  BY <4>2, <4>3
    <3> QED  BY <2>5, <3>5, <3>6 DEF InOrder
  <2> QED  BY <2>4, <2>6, <2>7
<1>4. ASSUME NEW p \in Web, \/ BroadcastFails(p) \/ Push(p) \/ CrashWeb(p) PROVE InOrder(c)'
  <2>1. UNCHANGED <<from, inbox>> /\ slipped \subseteq slipped'
    BY <1>4 DEF BroadcastFails, Push, CrashWeb
  <2>2. \/ send' = [send EXCEPT ![p].at = "push"] /\ send[p] # Idle
        \/ send' = [send EXCEPT ![p] = Idle]
    BY <1>4 DEF BroadcastFails, Push, CrashWeb, Idle
  <2>3. send'[p].at \in {"push", "idle"} /\ \A q \in Web \ {p} : send'[q] = send[q]
    BY <2>2 DEF Shape, Request, Idle
  <2> QED  BY <2>1, <2>3 DEF InOrder, Inbox, Committed
<1>5. ASSUME NEW d \in Conn, Forward(d) PROVE InOrder(c)'
  <2>1. UNCHANGED <<send, from, slipped>>  BY <1>5 DEF Forward
  <2>2. CASE d = c
    <3>1. inbox[c] # << >> /\ inbox'[c] = Tail(inbox[c])  BY <1>5, <2>2 DEF Forward, Shape
    <3>2. /\ Len(inbox'[c]) = Len(inbox[c]) - 1 /\ DOMAIN inbox'[c] = 1..Len(inbox'[c])
          /\ \A m \in 1..(Len(inbox[c]) - 1) : inbox'[c][m] = inbox[c][m + 1]
      BY <3>1
    <3>3. Inbox(c)' \subseteq Inbox(c)
      <4>1. ASSUME NEW m \in 1..Len(inbox'[c])
            PROVE  inbox'[c][m] = inbox[c][m + 1] /\ m + 1 \in 1..Len(inbox[c])
        BY <3>2
      <4>2. Inbox(c)' = {inbox'[c][m] : m \in 1..Len(inbox'[c])}  BY <3>2 DEF Inbox
      <4> QED  BY <4>1, <4>2 DEF Inbox
    <3>4. ASSUME NEW m \in 1..Len(inbox'[c]), NEW n \in 1..Len(inbox'[c]), m < n, inbox'[c][n] \notin slipped
          PROVE  inbox'[c][m] <= inbox'[c][n]
      <4>1. m + 1 \in 1..Len(inbox[c]) /\ n + 1 \in 1..Len(inbox[c]) /\ m + 1 < n + 1
        BY <3>2, <3>4
      <4> QED  BY <3>2, <3>4, <4>1 DEF InOrder
    <3> QED  BY <2>1, <3>3, <3>4 DEF InOrder, Committed
  <2>3. CASE d # c
    <3>1. inbox'[c] = inbox[c]  BY <1>5, <2>3 DEF Forward
    <3> QED  BY <2>1, <3>1, OrderFrame
  <2> QED  BY <2>2, <2>3
<1>6. ASSUME NEW d \in Conn, Close(d) PROVE InOrder(c)'
  <2>1. UNCHANGED <<send, from, slipped>>  BY <1>6 DEF Close
  <2>2. inbox'[c] = << >> \/ inbox'[c] = inbox[c]  BY <1>6 DEF Close, Shape
  <2> QED  BY <2>1, <2>2, OrderFrame, OrderEmpty
<1>7. CASE CrashAsgi
  BY <1>7, OrderEmpty DEF CrashAsgi
<1>8. CASE UNCHANGED <<send, from, slipped, inbox>>  BY <1>8, OrderFrame
<1> QED
  BY <1>1, <1>2, <1>3, <1>4, <1>5, <1>6, <1>7, <1>8
     DEF Next, MessageNext, SendStep, ClientStep, PresenceStep, AckStep, Connect, Accept, Reject,
         Heartbeat, ClearOnline, ExpirePresence, Fetch, AckRead, AckSave, vars

\* Nothing of what the client depends on changes.
LEMMA CompleteFrame ==
  ASSUME NEW c, Complete(c), UNCHANGED <<from, send, slipped, inbox, seen, since, caught>>,
         conn[c] = "live" => conn'[c] = "live"
  PROVE  Complete(c)'
BY DEF Complete, Kept, Inbox, Committed, Announcing

\* What the client asks from when it comes back leaves nothing out that kept its place.
LEMMA HadComplete ==
  ASSUME Assumptions, Placed, NEW c \in Conn, Complete(c), NEW i \in Kept, i <= Had(c)
  PROVE  i \in seen[c]
<1>1. since[c] \in Committed \cup {0}  BY DEF Placed, SinceInv
<1>2. CASE c \in caught
  <2>1. Had(c) \in seen[c] \cup {0}  BY <1>1, <1>2, HadCommitted DEF Placed, IInv
  <2>2. i \in Nat \ {0} /\ Had(c) \in Nat
    BY <2>1 DEF Kept, Committed, Id, Placed, IInv, Shape
  <2>3. Had(c) \in seen[c]  BY <2>1, <2>2
  <2> QED  BY <1>2, <2>2, <2>3 DEF Complete
<1>3. CASE c \notin caught  BY <1>3 DEF Complete, Had
<1> QED  BY <1>2, <1>3

\* Every step leaves each client complete.
LEMMA CompleteStep ==
  ASSUME Assumptions, Placed, NEW c \in Conn, InOrder(c), Complete(c), [Next]_vars
  PROVE  Complete(c)'
<1> USE DEF requests, sockets, clients
<1> USE TypesOf DEF IInv, Placed
<1>1. ASSUME NEW p \in Web, NEW v \in User, Reserve(p, v) PROVE Complete(c)'
  <2>1. UNCHANGED <<from, conn, inbox, seen, since, caught, slipped>>  BY <1>1 DEF Reserve
  <2>2. \A q \in Web : send[q].at = "broadcast" => send'[q] = send[q]
    BY <1>1 DEF Reserve, Shape, Idle
  <2> QED  BY <2>1, <2>2 DEF Complete, Kept, Inbox, Committed, Announcing
<1>2. ASSUME NEW p \in Web, Insert(p) PROVE Complete(c)'
  <2> DEFINE n == send[p].id
  <2>1. send[p].at = "insert" /\ send[p] # Idle /\ n \in Id
    BY <1>2 DEF Insert
  <2>2. /\ from' = [from EXCEPT ![n] = send[p].user] /\ send'[p].at = "broadcast" /\ send'[p].id = n
        /\ \A q \in Web \ {p} : send'[q] = send[q]
        /\ slipped \subseteq slipped' /\ UNCHANGED <<conn, inbox, seen, since, caught>>
    BY <1>2 DEF Insert, Shape
  <2>3. Kept' \subseteq Kept \cup {n}  BY <2>1, <2>2 DEF Kept, Committed, Shape
  <2>4. n \in Kept' => \A j \in Committed : j < n  BY <2>1, <2>2 DEF InOrder, Kept
  <2>5. \E q \in Web : send'[q].at = "broadcast" /\ send'[q].id = n  BY <2>2
  <2>6. n \in Kept' => since[c] < n
    <3>1. since[c] \in Committed \cup {0} /\ n \in Nat \ {0}  BY <2>1 DEF SinceInv, Id
    <3> QED  BY <2>4, <3>1
  <2>7. ASSUME NEW i \in Kept', i <= since[c] PROVE i \in seen[c]
    <3>1. i # n  BY <2>1, <2>6, <2>7 DEF SinceInv, Id
    <3> QED  BY <2>3, <2>7, <3>1 DEF Complete
  <2>8. ASSUME c \in caught, NEW i \in Kept' PROVE i \in seen[c] \cup Inbox(c) \/ Announcing(i)'
    <3>1. CASE i = n  BY <2>5, <3>1 DEF Announcing
    <3>2. CASE i \in Kept
      <4>1. i \in seen[c] \cup Inbox(c) \/ Announcing(i)  BY <2>8, <3>2 DEF Complete
      <4>2. CASE Announcing(i)
        <5>1. PICK q \in Web : send[q].at = "broadcast" /\ send[q].id = i  BY <4>2 DEF Announcing
        <5>2. q # p  BY <2>1, <5>1
        <5>3. send'[q].at = "broadcast" /\ send'[q].id = i  BY <2>2, <5>1, <5>2
        <5> QED  BY <5>3 DEF Announcing
      <4> QED  BY <4>1, <4>2
    <3> QED  BY <2>3, <2>8, <3>1, <3>2
  <2>9. ASSUME c \in caught, NEW i \in Kept', NEW j \in seen[c], i < j PROVE i \in seen[c]
    <3>1. j \in Committed /\ j \in Nat /\ n \in Nat  BY <2>1
    <3>2. i # n  BY <2>4, <2>9, <3>1
    <3> QED  BY <2>3, <2>9, <3>2 DEF Complete
  <2> QED  BY <2>2, <2>7, <2>8, <2>9 DEF Complete, Inbox
<1>3. ASSUME NEW p \in Web, \/ Broadcast(p) \/ BroadcastFails(p) \/ Push(p) \/ CrashWeb(p)
      PROVE  Complete(c)'
  <2> DEFINE n == send[p].id
  <2>1. /\ UNCHANGED <<from, conn, seen, since, caught>> /\ slipped \subseteq slipped'
        /\ \A q \in Web \ {p} : send'[q] = send[q]
    BY <1>3 DEF Broadcast, BroadcastFails, Push, CrashWeb, Shape
  <2>2. Kept' \subseteq Kept  BY <2>1 DEF Kept, Committed
  <2>3. ASSUME conn[c] = "live" PROVE Inbox(c) \subseteq Inbox(c)'
    <3>1. CASE inbox' = inbox  BY <3>1 DEF Inbox
    <3>2. CASE inbox'[c] = Append(inbox[c], n) /\ n \in Id
      <4>1. /\ Len(inbox'[c]) = Len(inbox[c]) + 1 /\ DOMAIN inbox'[c] = 1..Len(inbox'[c])
            /\ \A m \in 1..Len(inbox[c]) : inbox'[c][m] = inbox[c][m]
        BY <3>2
      <4>2. \A m \in 1..Len(inbox[c]) : m \in 1..Len(inbox'[c])  BY <4>1
      <4> QED  BY <4>1, <4>2 DEF Inbox
    <3> QED  BY <1>3, <2>3, <3>1, <3>2 DEF Broadcast, BroadcastFails, Push, CrashWeb
  <2>4. ASSUME conn[c] = "live", send[p].at = "broadcast", n \in Kept' PROVE n \in Inbox(c)'
    <3>1. Broadcast(p)  BY <1>3, <2>4 DEF BroadcastFails, Push, CrashWeb, Kept
    <3>2. inbox'[c] = Append(inbox[c], n) /\ n \in Id  BY <2>4, <3>1 DEF Broadcast
    <3>3. /\ Len(inbox'[c]) = Len(inbox[c]) + 1 /\ DOMAIN inbox'[c] = 1..Len(inbox'[c])
          /\ inbox'[c][Len(inbox[c]) + 1] = n
      BY <3>2
    <3>4. Len(inbox[c]) + 1 \in 1..Len(inbox'[c])  BY <3>3
    <3> QED  BY <3>3, <3>4 DEF Inbox
  <2>5. ASSUME NEW i \in Kept', Announcing(i), ~ Announcing(i)' PROVE send[p].at = "broadcast" /\ i = n
    <3>1. PICK q \in Web : send[q].at = "broadcast" /\ send[q].id = i  BY <2>5 DEF Announcing
    <3>2. q = p  BY <2>1, <2>5, <3>1 DEF Announcing
    <3> QED  BY <3>1, <3>2
  <2>6. ASSUME c \in caught, NEW i \in Kept'
        PROVE  i \in seen[c] \cup Inbox(c)' \/ Announcing(i)'
    <3>1. conn[c] = "live" /\ (i \in seen[c] \cup Inbox(c) \/ Announcing(i))
      BY <2>2, <2>6 DEF Complete
    <3> QED  BY <2>3, <2>4, <2>5, <2>6, <3>1
  <2>7. \A i \in Kept' : i <= since[c] => i \in seen[c]  BY <2>2 DEF Complete
  <2>8. c \in caught => \A i \in Kept', j \in seen[c] : i < j => i \in seen[c]  BY <2>2 DEF Complete
  <2> QED  BY <2>1, <2>6, <2>7, <2>8 DEF Complete
<1>4. ASSUME NEW d \in Conn, Forward(d) PROVE Complete(c)'
  <2>1. UNCHANGED <<from, send, conn, since, caught, slipped>>  BY <1>4 DEF Forward
  <2>2. Kept' = Kept /\ \A i : Announcing(i)' <=> Announcing(i)  BY <2>1 DEF Kept, Committed, Announcing
  <2>3. CASE d # c
    <3>1. inbox'[c] = inbox[c] /\ seen'[c] = seen[c]  BY <1>4, <2>3 DEF Forward, Shape
    <3> QED  BY <2>1, <2>2, <3>1 DEF Complete, Inbox
  <2>4. CASE d = c
    <3> DEFINE h == Head(inbox[c])
    <3>1. /\ inbox[c] # << >> /\ seen'[c] = seen[c] \cup {h} /\ inbox'[c] = Tail(inbox[c])
      BY <1>4, <2>4 DEF Forward, Shape
    <3>2. /\ h = inbox[c][1] /\ h \in Inbox(c) /\ DOMAIN inbox'[c] = 1..Len(inbox'[c])
          /\ \A m \in 2..Len(inbox[c]) : m - 1 \in 1..Len(inbox'[c]) /\ inbox'[c][m - 1] = inbox[c][m]
      BY <3>1 DEF Inbox
    <3>3. Inbox(c) \subseteq Inbox(c)' \cup {h}
      <4>1. ASSUME NEW m \in 1..Len(inbox[c]) PROVE inbox[c][m] \in Inbox(c)' \cup {h}
        <5>1. CASE m = 1  BY <3>2, <5>1
        <5>2. CASE m # 1
          <6>1. m \in 2..Len(inbox[c])  BY <5>2
          <6>2. m - 1 \in DOMAIN inbox'[c] /\ inbox'[c][m - 1] = inbox[c][m]  BY <3>2, <6>1
          <6> QED  BY <6>2 DEF Inbox
        <5> QED  BY <5>1, <5>2
      <4> QED  BY <4>1 DEF Inbox
    <3>4. ASSUME c \in caught, NEW i \in Kept, i < h PROVE i \in seen[c]
      <4>1. i \in Nat /\ h \in Nat /\ i \notin slipped  BY <3>2 DEF Kept
      <4>2. i \notin Inbox(c)
        <5>1. ASSUME NEW m \in 1..Len(inbox[c]), i = inbox[c][m] PROVE FALSE
          <6>1. m # 1  BY <3>2, <3>4, <4>1, <5>1
          <6>2. 1 < m /\ 1 \in 1..Len(inbox[c])  BY <6>1
          <6>3. inbox[c][1] <= inbox[c][m]  BY <4>1, <5>1, <6>2 DEF InOrder
          <6> QED  BY <3>2, <3>4, <4>1, <5>1, <6>3
        <5> QED  BY <5>1 DEF Inbox
      <4>3. ~ Announcing(i)
        <5>1. ASSUME NEW p \in Web, send[p].at = "broadcast", send[p].id = i PROVE FALSE
          <6>1. h <= i  BY <3>2, <4>1, <5>1 DEF InOrder
          <6> QED  BY <3>4, <4>1, <6>1
        <5> QED  BY <5>1 DEF Announcing
      <4> QED  BY <3>4, <4>2, <4>3 DEF Complete
    <3>5. ASSUME c \in caught, NEW i \in Kept, NEW j \in seen'[c], i < j PROVE i \in seen'[c]
      BY <3>1, <3>4, <3>5 DEF Complete
    <3>6. ASSUME c \in caught, NEW i \in Kept
          PROVE  i \in seen'[c] \cup Inbox(c)' \/ Announcing(i)
      BY <3>1, <3>3, <3>6 DEF Complete
    <3>7. \A i \in Kept : i <= since[c] => i \in seen'[c]  BY <3>1 DEF Complete
    <3> QED  BY <2>1, <2>2, <3>5, <3>6, <3>7 DEF Complete
  <2> QED  BY <2>3, <2>4
<1>5. ASSUME NEW d \in Conn, Close(d) PROVE Complete(c)'
  <2>1. UNCHANGED <<from, send, seen, slipped>>  BY <1>5 DEF Close
  <2>2. CASE d # c
    <3>1. since'[c] = since[c] /\ inbox'[c] = inbox[c] /\ conn'[c] = conn[c] /\ (c \in caught' <=> c \in caught)
      BY <1>5, <2>2 DEF Close, SinceInv, Shape, PlacesInv
    <3> QED  BY <2>1, <3>1 DEF Complete, Kept, Committed, Inbox, Announcing
  <2>3. CASE d = c
    <3>1. since'[c] = Had(c) /\ c \notin caught'
      BY <1>5, <2>3 DEF Close, SinceInv
    <3>2. Kept' = Kept  BY <2>1 DEF Kept, Committed
    <3>3. \A i \in Kept : i <= Had(c) => i \in seen[c]  BY HadComplete
    <3> QED  BY <2>1, <3>1, <3>2, <3>3 DEF Complete
  <2> QED  BY <2>2, <2>3
<1>6. CASE CrashAsgi
  <2>1. since'[c] = Had(c) /\ c \notin caught' /\ UNCHANGED <<from, seen, slipped>>
    BY <1>6 DEF CrashAsgi
  <2>2. Kept' = Kept  BY <2>1 DEF Kept, Committed
  <2>3. \A i \in Kept : i <= Had(c) => i \in seen[c]  BY HadComplete
  <2> QED  BY <2>1, <2>2, <2>3 DEF Complete
<1>7. ASSUME NEW d \in Conn, Fetch(d) PROVE Complete(c)'
  <2>1. UNCHANGED <<from, send, conn, inbox, since, slipped>>  BY <1>7 DEF Fetch
  <2>2. Kept' = Kept /\ \A i : Announcing(i)' <=> Announcing(i)  BY <2>1 DEF Kept, Committed, Announcing
  <2>3. CASE d # c
    <3>1. seen'[c] = seen[c] /\ (c \in caught' <=> c \in caught)  BY <1>7, <2>3 DEF Fetch, Shape
    <3> QED  BY <2>1, <2>2, <3>1 DEF Complete, Inbox
  <2>4. CASE d = c
    <3>1. conn[c] = "live" /\ seen'[c] = seen[c] \cup Fetched(since[c])  BY <1>7, <2>4 DEF Fetch, Shape
    <3>2. since[c] \in Nat  BY DEF SinceInv
    <3>3. ASSUME NEW i \in Kept PROVE i \in seen'[c]
      <4>1. i \in Committed /\ i \in Nat  BY DEF Kept
      <4>2. CASE i <= since[c]  BY <3>1, <4>2 DEF Complete
      <4>3. CASE i > since[c]  BY <3>1, <4>1, <4>3 DEF Fetched
      <4> QED  BY <3>2, <4>1, <4>2, <4>3
    <3> QED  BY <2>1, <2>2, <3>1, <3>3 DEF Complete
  <2> QED  BY <2>3, <2>4
<1>8. ASSUME UNCHANGED <<from, send, slipped, inbox, seen, since, caught>>,
             \A d \in Conn : conn[d] = "live" => conn'[d] = "live"
      PROVE  Complete(c)'
  BY <1>8, CompleteFrame
<1>9. ASSUME NEW d \in Conn,
             \/ Connect(d) \/ Accept(d) \/ Reject(d) \/ ClearOnline(d) \/ Heartbeat(d)
             \/ ExpirePresence(UserOf[d]) \/ AckSave(d)
             \/ \E i \in Id, target \in {"delivered", "read"} : AckRead(d, i, target)
      PROVE  Complete(c)'
  <2>1. UNCHANGED <<from, send, slipped, inbox, seen, since, caught>>
    BY <1>9 DEF Connect, Accept, Reject, ClearOnline, Heartbeat, ExpirePresence, AckSave, AckRead
  <2>2. \A e \in Conn : conn[e] = "live" => conn'[e] = "live"
    BY <1>9 DEF Connect, Accept, Reject, ClearOnline, Heartbeat, ExpirePresence, AckSave, AckRead,
       PlacesInv
  <2> QED  BY <1>8, <2>1, <2>2
<1>10. CASE UNCHANGED vars  BY <1>8, <1>10 DEF vars
<1> QED
  BY <1>1, <1>2, <1>3, <1>4, <1>5, <1>6, <1>7, <1>9, <1>10
     DEF Next, MessageNext, SendStep, ClientStep, PresenceStep, AckStep

\* Everything starts with nobody connected and nothing sent.
LEMMA GapInit == ASSUME Assumptions, Init PROVE GapInv
<1> SUFFICES ASSUME NEW c \in Conn PROVE InOrder(c) /\ Complete(c)
  BY DEF GapInv
<1>1. Committed = {} /\ Kept = {}  BY DEF Init, Committed, Kept
<1>2. inbox[c] = << >> /\ c \notin caught  BY DEF Init
<1>3. Len(inbox[c]) = 0  BY <1>2
<1>4. \A p \in Web : send[p].at # "broadcast" /\ send[p].at # "insert"  BY DEF Init, Idle
<1> QED  BY <1>1, <1>2, <1>3, <1>4 DEF InOrder, Complete

\* The order of what kept its place is what keeps the clients complete.
LEMMA GapStep == ASSUME Assumptions, Placed, GapInv, [Next]_vars PROVE GapInv'
<1> SUFFICES ASSUME NEW c \in Conn PROVE InOrder(c)' /\ Complete(c)'
  BY DEF GapInv
<1> QED  BY OrderStep, CompleteStep DEF IInv, Placed, GapInv

\* A client that is complete misses nothing.
LEMMA GapNone == ASSUME Assumptions, Placed, GapInv PROVE NothingMissed
<1> SUFFICES ASSUME NEW c \in Conn, NEW i \in Committed \ slipped PROVE Has(c, i)
  BY DEF NothingMissed
<1>1. i \in Nat /\ since[c] \in Nat /\ i \in Kept
  BY DEF Committed, Id, Placed, SinceInv, Kept
<1>2. CASE c \in caught  BY <1>1, <1>2 DEF GapInv, Complete, Has
<1>3. CASE c \notin caught  BY <1>1, <1>3 DEF GapInv, Complete, Has
<1> QED  BY <1>2, <1>3

\* Whatever connections close, and whatever broadcasts fail or processes die, each client has
\* or will have every message that was announced and that none with a greater id overtook.
THEOREM Missed ==
  ASSUME Assumptions PROVE Spec => []NothingMissed
<1> DEFINE Inv == Placed /\ GapInv
<1>1. Init => Inv  BY PlacedInit, GapInit
<1>2. Inv /\ [Next]_vars => Inv'  BY PlacedStep, GapStep
<1>3. Inv => NothingMissed  BY GapNone
<1> HIDE DEF Inv
<1> QED  BY <1>1, <1>2, <1>3, PTL DEF Spec
===============================================================================
