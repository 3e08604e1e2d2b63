----------------------------- MODULE UsersProofs -----------------------------
(***************************************************************************)
(* Proofs about Users: what the run of its turns checks on small sizes     *)
(* holds for all sizes.                                                    *)
(*                                                                         *)
(* Each component has an invariant (BooksInv and NamesInv of accounts,     *)
(* TalkInv, AskedInv and TwinsInv of conversations, FeedInv, SearchInv),   *)
(* proved for every size c, whatever the number of processes; those of     *)
(* messages and of notifications are in ChatProofs and NotificationsProofs. *)
(* At the end they are put together turn by turn.                          *)
(***************************************************************************)
EXTENDS Users, ChatProofs, FiniteSetTheorems, FunctionTheorems, TLAPS

-----------------------------------------------------------------------------
(* Accounts and their tokens                                               *)

\* The instance's Cardinality is that of FiniteSets.
LEMMA EntryCardinality == ASSUME NEW c, NEW S PROVE Accounts(c)!Cardinality(S) = Cardinality(S)
  BY DEF Accounts!Cardinality, Cardinality

\* The rows and tokens are numbered from 1, and each refers to one that is there.
BooksTypes(c) ==
  /\ \E n \in 0..c.MaxAccounts : DOMAIN account = 1..n
  /\ \A u \in DOMAIN account : account[u] \in
       [email : Accounts(c)!Email, active : BOOLEAN, moderator : BOOLEAN, language : c.Language]
  /\ \E n \in 0..c.MaxTokens : DOMAIN token = 1..n
  /\ \A t \in DOMAIN token : /\ token[t].owner \in DOMAIN account /\ token[t].session \in 1..t
                             /\ token[t].parent \in 0..(t - 1)
  /\ black \subseteq DOMAIN token /\ expired \subseteq DOMAIN token
  /\ access \subseteq DOMAIN account /\ ended \subseteq DOMAIN token

\* What a process works on, as it was read.
Working(c, r) ==
  \/ r = Accounts(c)!Idle
  \/ r.at = "insert" /\ r.email \in Accounts(c)!Email
  \/ r.at \in {"retire", "issue", "revoke"} /\ r.token \in DOMAIN token
  \/ r.at = "save" /\ r.account \in DOMAIN account /\ r.row.language \in c.Language

\* A token was retired before its successor is made.
BooksInv(c) ==
  /\ BooksTypes(c)
  /\ DOMAIN request = c.Web /\ \A p \in c.Web : Working(c, request[p])
  /\ \A p \in c.Web : request[p].at = "issue" => request[p].token \in black
  /\ Accounts(c)!RetiredFirst

LEMMA BooksInit == ASSUME NEW c, Accounts(c)!Assumptions, Accounts(c)!Init PROVE BooksInv(c)
<1>1. DOMAIN account = {} /\ DOMAIN token = {} /\ 0 \in 0..c.MaxAccounts /\ 0 \in 0..c.MaxTokens
  BY DEF Accounts!Init, Accounts!Assumptions
<1>2. {} = 1..0  OBVIOUS
<1>3. BooksTypes(c)  BY <1>1, <1>2 DEF BooksTypes, Accounts!Init
<1>4. \A p \in c.Web : request[p] = Accounts(c)!Idle /\ request[p].at = "idle"
  BY DEF Accounts!Init, Accounts!Idle
<1> QED  BY <1>1, <1>3, <1>4 DEF BooksInv, Working, Accounts!Init, Accounts!RetiredFirst, Accounts!Token

\* The numbers of the next row and of the next token.
LEMMA BooksNumbers ==
  ASSUME NEW c, Accounts(c)!Assumptions, BooksTypes(c)
  PROVE  /\ Accounts(c)!Cardinality(DOMAIN account) \in 0..c.MaxAccounts
         /\ DOMAIN account = 1..Accounts(c)!Cardinality(DOMAIN account)
         /\ Accounts(c)!Cardinality(DOMAIN token) \in 0..c.MaxTokens
         /\ DOMAIN token = 1..Accounts(c)!Cardinality(DOMAIN token)
         /\ Accounts(c)!Fresh = Accounts(c)!Cardinality(DOMAIN token) + 1
         /\ c.MaxAccounts \in Nat /\ c.MaxTokens \in Nat
<1>0. c.MaxAccounts \in Nat /\ c.MaxTokens \in Nat  BY DEF Accounts!Assumptions
<1>1. PICK n \in 0..c.MaxAccounts : DOMAIN account = 1..n  BY DEF BooksTypes
<1>2. PICK m \in 0..c.MaxTokens : DOMAIN token = 1..m  BY DEF BooksTypes
<1>3. n \in Nat /\ m \in Nat  BY <1>0
<1>4. Cardinality(1..n) = n /\ Cardinality(1..m) = m  BY <1>3, FS_Interval
<1> QED  BY <1>0, <1>1, <1>2, <1>4, EntryCardinality DEF Accounts!Fresh, Accounts!Token

\* A step that grows the books, or leaves them, keeps what the processes know.
LEMMA BooksGrow ==
  ASSUME NEW c, BooksInv(c), NEW p \in c.Web, NEW r, Accounts(c)!Becomes(p, r),
         DOMAIN account \subseteq DOMAIN account', DOMAIN token \subseteq DOMAIN token',
         black \subseteq black',
         Working(c, request[p])', r.at = "issue" => r.token \in black'
  PROVE  /\ DOMAIN request' = c.Web /\ \A q \in c.Web : Working(c, request[q])'
         /\ \A q \in c.Web : request'[q].at = "issue" => request'[q].token \in black'
<1>1. /\ DOMAIN request' = c.Web /\ request'[p] = r
      /\ \A q \in c.Web : q # p => request'[q] = request[q]
  BY DEF BooksInv, Accounts!Becomes
<1>2. ASSUME NEW q \in c.Web, q # p PROVE Working(c, request[q])'
  <2>1. Working(c, request[q])  BY DEF BooksInv
  <2>2. request'[q] = request[q]  BY <1>1, <1>2
  <2> QED  BY <2>1, <2>2 DEF Working, Accounts!Idle
<1>3. ASSUME NEW q \in c.Web, q # p, request'[q].at = "issue" PROVE request'[q].token \in black'
  BY <1>1, <1>3 DEF BooksInv
<1> QED  BY <1>1, <1>2, <1>3

\* Adding a token leaves the others as they are.
LEMMA TokenAdded ==
  ASSUME NEW c, Accounts(c)!Assumptions, BooksTypes(c), NEW t, Accounts(c)!Add(t)
  PROVE  LET n == Accounts(c)!Fresh IN
         /\ n \in Nat \ {0} /\ n \notin DOMAIN token
         /\ DOMAIN token' = DOMAIN token \cup {n} /\ DOMAIN token' = 1..n
         /\ token'[n] = t /\ \A i \in DOMAIN token : token'[i] = token[i]
<1> DEFINE n == Accounts(c)!Fresh
<1>1. n \in Nat \ {0} /\ DOMAIN token = 1..(n - 1)  BY BooksNumbers
<1>2. token' = [i \in 1..n |-> IF i = n THEN t ELSE token[i]]  BY DEF Accounts!Add
<1> HIDE DEF n
<1>3. DOMAIN token' = 1..n /\ 1..n = DOMAIN token \cup {n} /\ n \notin DOMAIN token  BY <1>1, <1>2
<1>4. \A i \in DOMAIN token : i # n /\ i \in 1..n  BY <1>3
<1>5. token'[n] = t /\ \A i \in DOMAIN token : token'[i] = token[i]  BY <1>1, <1>2, <1>3, <1>4
<1> QED  BY <1>1, <1>3, <1>5 DEF n

LEMMA BooksStep ==
  ASSUME NEW c, Accounts(c)!Assumptions, BooksInv(c), Accounts(c)!Next PROVE BooksInv(c)'
<1> USE DEF Accounts!tokenVars
<1>0. BooksTypes(c) /\ Accounts(c)!RetiredFirst /\ DOMAIN request = c.Web
      /\ \A p \in c.Web : Working(c, request[p])
  BY DEF BooksInv
<1>same. ASSUME NEW p \in c.Web, NEW r, Accounts(c)!Becomes(p, r),
                UNCHANGED <<account, token, black, expired, access, ended>>,
                Working(c, r), r.at = "issue" => r.token \in black
         PROVE  BooksInv(c)'
  <2>1. BooksTypes(c)' /\ Accounts(c)!RetiredFirst'
    BY <1>0, <1>same DEF BooksTypes, Accounts!RetiredFirst, Accounts!Token
  <2>2. request'[p] = r  BY <1>0, <1>same DEF Accounts!Becomes
  <2>3. Working(c, request[p])'  BY <1>same, <2>2 DEF Working, Accounts!Idle
  <2> QED  BY <1>same, <2>1, <2>3, BooksGrow DEF BooksInv
<1>idle. Working(c, Accounts(c)!Idle) /\ Accounts(c)!Idle.at # "issue"  BY DEF Working, Accounts!Idle
<1>1. ASSUME NEW p \in c.Web, NEW e \in Accounts(c)!Email, Accounts(c)!Register(p, e) PROVE BooksInv(c)'
  BY <1>1, <1>same DEF Accounts!Register, Working
<1>2. ASSUME NEW p \in c.Web, Accounts(c)!Insert(p) PROVE BooksInv(c)'
  <2> DEFINE e == request[p].email
             n == Accounts(c)!Cardinality(DOMAIN account) + 1
             new == [email |-> e, active |-> TRUE, moderator |-> FALSE, language |-> Accounts(c)!Default]
  <2>1. /\ request[p].at = "insert" /\ n <= c.MaxAccounts
        /\ \/ account' = [u \in 1..n |-> IF u = n THEN new ELSE account[u]]
           \/ UNCHANGED account
        /\ Accounts(c)!Becomes(p, Accounts(c)!Idle)
        /\ UNCHANGED <<token, black, expired, access, ended>>
    BY <1>2 DEF Accounts!Insert, Accounts!Account
  <2>2. e \in Accounts(c)!Email  BY <1>0, <2>1 DEF Working, Accounts!Idle
  <2>3. CASE UNCHANGED account  BY <1>same, <1>idle, <2>1, <2>3
  <2>4. CASE account' = [u \in 1..n |-> IF u = n THEN new ELSE account[u]]
    <3>0. /\ Accounts(c)!Cardinality(DOMAIN account) \in 0..c.MaxAccounts /\ c.MaxAccounts \in Nat
          /\ DOMAIN account = 1..Accounts(c)!Cardinality(DOMAIN account)
      BY <1>0, BooksNumbers
    <3>1. n \in Nat /\ n - 1 \in 0..c.MaxAccounts /\ DOMAIN account = 1..(n - 1)
      BY <3>0
    <3>2. new \in [email : Accounts(c)!Email, active : BOOLEAN, moderator : BOOLEAN, language : c.Language]
      <4>1. Accounts(c)!Default \in c.Language  BY DEF Accounts!Default, Accounts!Assumptions
      <4> QED  BY <2>2, <4>1
    <3> HIDE DEF n, new
    <3>3. n \in 0..c.MaxAccounts /\ DOMAIN account' = 1..n /\ DOMAIN account \subseteq 1..n
      BY <2>1, <2>4, <3>0, <3>1
    <3>4. \A u \in DOMAIN account' : u = n \/ u \in DOMAIN account  BY <3>1, <3>3
    <3>5. account'[n] = new /\ \A u \in DOMAIN account : account'[u] = account[u]
      BY <2>4, <3>1, <3>3
    <3>6. \A u \in DOMAIN account' : account'[u] \in
             [email : Accounts(c)!Email, active : BOOLEAN, moderator : BOOLEAN, language : c.Language]
      BY <1>0, <3>2, <3>4, <3>5 DEF BooksTypes
    <3>7. BooksTypes(c)'  BY <1>0, <2>1, <3>3, <3>6 DEF BooksTypes
    <3>8. Accounts(c)!RetiredFirst'  BY <1>0, <2>1 DEF Accounts!RetiredFirst, Accounts!Token
    <3>9. Working(c, request[p])'
      BY <1>0, <2>1 DEF Working, Accounts!Becomes
    <3> QED  BY <1>idle, <2>1, <3>3, <3>7, <3>8, <3>9, BooksGrow DEF BooksInv
  <2> QED  BY <2>1, <2>3, <2>4
<1>3. ASSUME NEW p \in c.Web, NEW e \in Accounts(c)!Email, Accounts(c)!Login(p, e) PROVE BooksInv(c)'
  <2> DEFINE n == Accounts(c)!Fresh
  <2>1. PICK u \in Accounts(c)!Candidates(e) :
          /\ Accounts(c)!Add([owner |-> u, session |-> n, parent |-> 0]) /\ access' = access \cup {u}
    BY <1>3 DEF Accounts!Login
  <2>2. u \in DOMAIN account  BY DEF Accounts!Candidates, Accounts!WithAddress, Accounts!Account
  <2>3. n <= c.MaxTokens /\ UNCHANGED <<account, black, expired, request, ended>>
    BY <1>3 DEF Accounts!Login
  <2>4. /\ n \in Nat \ {0} /\ n \notin DOMAIN token
        /\ DOMAIN token' = DOMAIN token \cup {n} /\ DOMAIN token' = 1..n
        /\ token'[n] = [owner |-> u, session |-> n, parent |-> 0]
        /\ \A i \in DOMAIN token : token'[i] = token[i]
    BY <1>0, <2>1, TokenAdded
  <2>n. c.MaxTokens \in Nat  BY DEF Accounts!Assumptions
  <2> HIDE DEF n
  <2>5. \A t \in DOMAIN token' : /\ token'[t].owner \in DOMAIN account /\ token'[t].session \in 1..t
                                 /\ token'[t].parent \in 0..(t - 1)
    BY <1>0, <2>2, <2>4 DEF BooksTypes
  <2>6. n \in 0..c.MaxTokens  BY <2>3, <2>4, <2>n
  <2>7. BooksTypes(c)'  BY <1>0, <2>1, <2>2, <2>3, <2>4, <2>5, <2>6 DEF BooksTypes
  <2>8. Accounts(c)!RetiredFirst'  BY <1>0, <2>3, <2>4 DEF Accounts!RetiredFirst, Accounts!Token
  <2>9. \A q \in c.Web : Working(c, request[q])'  BY <1>0, <2>3, <2>4 DEF Working, Accounts!Idle
  <2> QED  BY <2>3, <2>7, <2>8, <2>9 DEF BooksInv
<1>4. ASSUME NEW p \in c.Web, NEW t, Accounts(c)!Refresh(p, t) PROVE BooksInv(c)'
  BY <1>4, <1>same DEF Accounts!Refresh, Working, Accounts!Token
<1>5. ASSUME NEW p \in c.Web, Accounts(c)!Retire(p) PROVE BooksInv(c)'
  <2> DEFINE t == request[p].token
  <2>1. /\ request[p].at = "retire" /\ black' = black \cup {t}
        /\ Accounts(c)!Becomes(p, [at |-> "issue", token |-> t])
        /\ UNCHANGED <<account, token, expired, access, ended>>
    BY <1>5 DEF Accounts!Retire, Accounts!Retired
  <2>2. t \in DOMAIN token  BY <1>0, <2>1 DEF Working, Accounts!Idle
  <2>3. BooksTypes(c)'  BY <1>0, <2>1, <2>2 DEF BooksTypes
  <2>4. Accounts(c)!RetiredFirst'  BY <1>0, <2>1 DEF Accounts!RetiredFirst, Accounts!Token
  <2>5. request'[p] = [at |-> "issue", token |-> t]  BY <1>0, <2>1 DEF Accounts!Becomes
  <2>6. Working(c, request[p])'  BY <2>1, <2>2, <2>5 DEF Working
  <2> QED  BY <2>1, <2>3, <2>4, <2>6, BooksGrow DEF BooksInv
<1>6. ASSUME NEW p \in c.Web, Accounts(c)!Issue(p) PROVE BooksInv(c)'
  <2> DEFINE n == Accounts(c)!Fresh
             t == request[p].token
  <2>1. /\ request[p].at = "issue" /\ n <= c.MaxTokens
        /\ Accounts(c)!Add([owner |-> token[t].owner, session |-> token[t].session, parent |-> t])
        /\ access' = access \cup {token[t].owner} /\ Accounts(c)!Becomes(p, Accounts(c)!Idle)
        /\ UNCHANGED <<account, black, expired, ended>>
    BY <1>6 DEF Accounts!Issue
  <2>2. t \in DOMAIN token /\ t \in black  BY <1>0, <2>1 DEF Working, Accounts!Idle, BooksInv
  <2>4. /\ n \in Nat \ {0} /\ n \notin DOMAIN token
        /\ DOMAIN token' = DOMAIN token \cup {n} /\ DOMAIN token' = 1..n
        /\ token'[n] = [owner |-> token[t].owner, session |-> token[t].session, parent |-> t]
        /\ \A i \in DOMAIN token : token'[i] = token[i]
    BY <1>0, <2>1, TokenAdded
  <2>n. c.MaxTokens \in Nat  BY DEF Accounts!Assumptions
  <2>3. DOMAIN token = 1..(n - 1)  BY <1>0, BooksNumbers
  <2> HIDE DEF n
  <2>h. t \in 1..(n - 1) /\ token[t].session \in 1..t /\ token[t].owner \in DOMAIN account
    BY <1>0, <2>2, <2>3 DEF BooksTypes
  <2>5. ASSUME NEW i \in DOMAIN token'
        PROVE  /\ token'[i].owner \in DOMAIN account /\ token'[i].session \in 1..i
               /\ token'[i].parent \in 0..(i - 1)
    <3>1. CASE i = n
      <4>1. token[t].session \in 1..n /\ t \in 0..(n - 1)  BY <2>4, <2>h
      <4> QED  BY <2>4, <2>h, <3>1, <4>1
    <3>2. CASE i \in DOMAIN token  BY <1>0, <2>4, <3>2 DEF BooksTypes
    <3> QED  BY <2>4, <3>1, <3>2
  <2>6. n \in 0..c.MaxTokens  BY <2>1, <2>4, <2>n DEF n
  <2>7. BooksTypes(c)'  BY <1>0, <2>1, <2>2, <2>4, <2>5, <2>6, <2>h DEF BooksTypes
  <2>8. Accounts(c)!RetiredFirst'
    BY <1>0, <2>1, <2>2, <2>4 DEF Accounts!RetiredFirst, Accounts!Token
  <2>9. Working(c, request[p])'  BY <1>0, <2>1 DEF Working, Accounts!Becomes
  <2> QED  BY <1>idle, <2>1, <2>4, <2>7, <2>8, <2>9, BooksGrow DEF BooksInv
<1>7. ASSUME NEW p \in c.Web, NEW u, NEW t, Accounts(c)!Logout(p, u, t) PROVE BooksInv(c)'
  BY <1>7, <1>same DEF Accounts!Logout, Working, Accounts!Token
<1>8. ASSUME NEW p \in c.Web, Accounts(c)!Revoke(p) PROVE BooksInv(c)'
  <2> DEFINE t == request[p].token
  <2>1. /\ request[p].at = "revoke" /\ black' = black \cup {t}
        /\ ended' = ended \cup {token[t].session}
        /\ Accounts(c)!Becomes(p, Accounts(c)!Idle)
        /\ UNCHANGED <<account, token, expired, access>>
    BY <1>8 DEF Accounts!Revoke
  <2>2. t \in DOMAIN token  BY <1>0, <2>1 DEF Working, Accounts!Idle
  <2>3. token[t].session \in DOMAIN token
    <3>1. PICK m \in 0..c.MaxTokens : DOMAIN token = 1..m  BY <1>0 DEF BooksTypes
    <3>2. token[t].session \in 1..t  BY <1>0, <2>2 DEF BooksTypes
    <3> QED  BY <2>2, <3>1, <3>2 DEF Accounts!Assumptions
  <2>4. BooksTypes(c)'  BY <1>0, <2>1, <2>2, <2>3 DEF BooksTypes
  <2>5. Accounts(c)!RetiredFirst'  BY <1>0, <2>1 DEF Accounts!RetiredFirst, Accounts!Token
  <2>6. Working(c, request[p])'  BY <1>0, <2>1 DEF Working, Accounts!Becomes
  <2> QED  BY <1>idle, <2>1, <2>4, <2>5, <2>6, BooksGrow DEF BooksInv
<1>9. ASSUME NEW t, Accounts(c)!ExpireRefresh(t) PROVE BooksInv(c)'
  BY <1>9 DEF Accounts!ExpireRefresh, Accounts!Token, BooksInv, BooksTypes, Working, Accounts!RetiredFirst
<1>10. ASSUME NEW u, Accounts(c)!ExpireAccess(u) PROVE BooksInv(c)'
  BY <1>10 DEF Accounts!ExpireAccess, Accounts!Token, BooksInv, BooksTypes, Working, Accounts!RetiredFirst
<1>11. ASSUME NEW p \in c.Web, NEW u, NEW l \in c.Language, Accounts(c)!Prefer(p, u, l)
       PROVE  BooksInv(c)'
  <2> DEFINE r == [at |-> "save", account |-> u, row |-> [account[u] EXCEPT !.language = l]]
  <2>1. u \in DOMAIN account /\ Accounts(c)!Becomes(p, r)
        /\ UNCHANGED <<account, token, black, expired, access, ended>>
    BY <1>0, <1>11 DEF Accounts!Prefer, BooksTypes
  <2>2. Working(c, r) /\ r.at # "issue"  BY <1>0, <2>1 DEF Working, BooksTypes
  <2> QED  BY <1>same, <2>1, <2>2
<1>keep. ASSUME DOMAIN account' = DOMAIN account,
                \A u \in DOMAIN account : account'[u] \in
                  [email : Accounts(c)!Email, active : BOOLEAN, moderator : BOOLEAN, language : c.Language],
                UNCHANGED <<token, black, expired, access, ended>>
         PROVE  BooksTypes(c)' /\ Accounts(c)!RetiredFirst'
  BY <1>0, <1>keep DEF BooksTypes, Accounts!RetiredFirst, Accounts!Token
<1>12. ASSUME NEW p \in c.Web, Accounts(c)!SavePreference(p) PROVE BooksInv(c)'
  <2> DEFINE r == request[p]
  <2>1. /\ r.at = "save" /\ account' = [account EXCEPT ![r.account] = Accounts(c)!Saved(r)]
        /\ Accounts(c)!Becomes(p, Accounts(c)!Idle) /\ UNCHANGED <<token, black, expired, access, ended>>
    BY <1>12 DEF Accounts!SavePreference
  <2>2. r.account \in DOMAIN account /\ r.row.language \in c.Language
    BY <1>0, <2>1 DEF Working, Accounts!Idle
  <2>3. Accounts(c)!Saved(r) \in
          [email : Accounts(c)!Email, active : BOOLEAN, moderator : BOOLEAN, language : c.Language]
    BY <1>0, <2>2 DEF BooksTypes, Accounts!Saved
  <2>4. BooksTypes(c)' /\ Accounts(c)!RetiredFirst'
    BY <1>0, <1>keep, <2>1, <2>2, <2>3 DEF BooksTypes
  <2>6. Working(c, request[p])'  BY <1>0, <2>1 DEF Working, Accounts!Becomes
  <2> QED  BY <1>idle, <2>1, <2>4, <2>6, BooksGrow DEF BooksInv
<1>13. ASSUME NEW u, NEW a \in BOOLEAN, NEW m \in BOOLEAN, Accounts(c)!AdminSet(u, a, m)
       PROVE  BooksInv(c)'
  <2>1. /\ u \in DOMAIN account /\ account' = [account EXCEPT ![u].active = a, ![u].moderator = m]
        /\ UNCHANGED <<request, token, black, expired, access, ended>>
    BY <1>13 DEF Accounts!AdminSet, Accounts!Account
  <2>2. BooksTypes(c)' /\ Accounts(c)!RetiredFirst'
    <3>1. \A v \in DOMAIN account : account[v] \in
            [email : Accounts(c)!Email, active : BOOLEAN, moderator : BOOLEAN, language : c.Language]
      BY <1>0 DEF BooksTypes
    <3>2. \A v \in DOMAIN account : account'[v] \in
            [email : Accounts(c)!Email, active : BOOLEAN, moderator : BOOLEAN, language : c.Language]
      BY <2>1, <3>1
    <3> QED  BY <1>keep, <2>1, <3>2
  <2> QED  BY <2>1, <2>2 DEF BooksInv, Working
<1>14. ASSUME NEW p \in c.Web, Accounts(c)!Abort(p) PROVE BooksInv(c)'
  BY <1>14, <1>same, <1>idle DEF Accounts!Abort
<1> QED
  BY <1>1, <1>2, <1>3, <1>4, <1>5, <1>6, <1>7, <1>8, <1>9, <1>10, <1>11, <1>12, <1>13, <1>14
     DEF Accounts!Next, Accounts!EntryNext, Accounts!SessionNext, Accounts!RowNext

LEMMA BooksStutter == ASSUME NEW c, BooksInv(c), UNCHANGED Accounts(c)!vars PROVE BooksInv(c)'
BY DEF BooksInv, BooksTypes, Working, Accounts!RetiredFirst, Accounts!Token, Accounts!vars

\* The types of an account's variables.
LEMMA BooksShow == ASSUME NEW c, BooksInv(c) PROVE Accounts(c)!TypeOK
BY DEF BooksInv, BooksTypes, Working, Accounts!TypeOK, Accounts!Account, Accounts!Token, Accounts!Idle

\* The rows of an address, and the registrations of it that have passed the check.
RowsOf(a) == {u \in DOMAIN account : account[u].email.address = a}
Entering(c, a) == {p \in c.Web : request[p].at = "insert" /\ request[p].email.address = a}

\* Whoever is about to insert an address that has rows has been at it since there were none.
NamesInv(c) ==
  \A a \in c.Address : RowsOf(a) # {} =>
    Cardinality(RowsOf(a)) + Cardinality(Entering(c, a)) <= Cardinality(c.Web)

LEMMA NamesInit == ASSUME NEW c, Accounts(c)!Init PROVE NamesInv(c)
<1>1. DOMAIN account = {}  BY DEF Accounts!Init
<1> QED  BY <1>1 DEF NamesInv, RowsOf

\* The sets that are counted are finite.
LEMMA NamesFinite ==
  ASSUME NEW c, Accounts(c)!Assumptions, BooksTypes(c), NEW a
  PROVE  /\ IsFiniteSet(RowsOf(a)) /\ IsFiniteSet(Entering(c, a))
         /\ Cardinality(RowsOf(a)) \in Nat /\ Cardinality(Entering(c, a)) \in Nat
         /\ Cardinality(c.Web) \in Nat /\ Cardinality(Entering(c, a)) <= Cardinality(c.Web)
<1>1. IsFiniteSet(c.Web)
  BY DEF Accounts!Assumptions, Accounts!IsFiniteSet, IsFiniteSet
<1>2. Entering(c, a) \subseteq c.Web  BY DEF Entering
<1>3. IsFiniteSet(DOMAIN account)
  <2>1. PICK n \in 0..c.MaxAccounts : DOMAIN account = 1..n  BY DEF BooksTypes
  <2>2. n \in Nat  BY DEF Accounts!Assumptions
  <2> QED  BY <2>1, <2>2, FS_Interval
<1>4. RowsOf(a) \subseteq DOMAIN account  BY DEF RowsOf
<1>5. IsFiniteSet(RowsOf(a)) /\ IsFiniteSet(Entering(c, a)) /\ Cardinality(Entering(c, a)) <= Cardinality(c.Web)
  BY <1>1, <1>2, <1>3, <1>4, FS_Subset
<1> QED  BY <1>1, <1>5, FS_CardinalityType

\* Fewer registrations of the same rows.
LEMMA NamesStay ==
  ASSUME NEW c, Accounts(c)!Assumptions, BooksTypes(c), NEW a,
         RowsOf(a) # {} => Cardinality(RowsOf(a)) + Cardinality(Entering(c, a)) <= Cardinality(c.Web),
         RowsOf(a)' = RowsOf(a), RowsOf(a) = {} \/ Entering(c, a)' \subseteq Entering(c, a)
  PROVE  (RowsOf(a) # {})' =>
           (Cardinality(RowsOf(a)) + Cardinality(Entering(c, a)) <= Cardinality(c.Web))'
<1> DEFINE R == RowsOf(a)  E == Entering(c, a)  F == Entering(c, a)'
<1>1. /\ IsFiniteSet(R) /\ IsFiniteSet(E) /\ Cardinality(R) \in Nat /\ Cardinality(E) \in Nat
      /\ Cardinality(c.Web) \in Nat
  BY NamesFinite
<1> HIDE DEF R, E, F
<1>2. ASSUME R # {}
      PROVE  Cardinality(R) + Cardinality(F) <= Cardinality(c.Web)
  <2>1. F \subseteq E /\ Cardinality(R) + Cardinality(E) <= Cardinality(c.Web)
    BY <1>2 DEF R, E, F
  <2>2. IsFiniteSet(F) /\ Cardinality(F) <= Cardinality(E)  BY <1>1, <2>1, FS_Subset
  <2>3. Cardinality(F) \in Nat  BY <2>2, FS_CardinalityType
  <2> QED  BY <1>1, <2>1, <2>2, <2>3
<1>3. RowsOf(a)' = R  BY DEF R
<1> QED  BY <1>2, <1>3 DEF F

LEMMA NamesStep ==
  ASSUME NEW c, Accounts(c)!Assumptions, BooksInv(c), NamesInv(c), Accounts(c)!Next
  PROVE  NamesInv(c)'
<1> USE DEF Accounts!tokenVars
<1>0. DOMAIN request = c.Web /\ BooksTypes(c) /\ \A p \in c.Web : Working(c, request[p])  BY DEF BooksInv
<1>keep. ASSUME \A a \in c.Address : /\ RowsOf(a)' = RowsOf(a)
                                     /\ RowsOf(a) = {} \/ Entering(c, a)' \subseteq Entering(c, a)
         PROVE  NamesInv(c)'
  <2> SUFFICES ASSUME NEW a \in c.Address
               PROVE  (RowsOf(a) # {})' =>
                        (Cardinality(RowsOf(a)) + Cardinality(Entering(c, a)) <= Cardinality(c.Web))'
    BY DEF NamesInv
  <2> QED  BY <1>0, <1>keep, NamesStay DEF NamesInv
<1>rows. ASSUME DOMAIN account' = DOMAIN account,
                \A u \in DOMAIN account : account'[u].email = account[u].email, NEW a
         PROVE  RowsOf(a)' = RowsOf(a)
  BY <1>rows DEF RowsOf
<1>now. ASSUME NEW p \in c.Web, NEW r, Accounts(c)!Becomes(p, r), r.at # "insert", NEW a
        PROVE  Entering(c, a)' \subseteq Entering(c, a)
  BY <1>0, <1>now DEF Accounts!Becomes, Entering
<1>same. ASSUME NEW p \in c.Web, NEW r, Accounts(c)!Becomes(p, r), r.at # "insert", UNCHANGED account
         PROVE  NamesInv(c)'
  <2>1. \A a \in c.Address : RowsOf(a)' = RowsOf(a)  BY <1>same DEF RowsOf
  <2>2. \A a \in c.Address : Entering(c, a)' \subseteq Entering(c, a)  BY <1>same, <1>now
  <2> QED  BY <1>keep, <2>1, <2>2
<1>idle. Accounts(c)!Idle.at # "insert"  BY DEF Accounts!Idle
<1>1. ASSUME NEW p \in c.Web, NEW e \in Accounts(c)!Email, Accounts(c)!Register(p, e) PROVE NamesInv(c)'
  <2>1. RowsOf(e.address) = {}
    BY <1>1 DEF Accounts!Register, Accounts!Taken, Accounts!WithAddress, Accounts!Account, RowsOf
  <2>2. request' = [request EXCEPT ![p] = [at |-> "insert", email |-> e]] /\ UNCHANGED account
    BY <1>1 DEF Accounts!Register, Accounts!Becomes
  <2>3. \A a \in c.Address : a # e.address => Entering(c, a)' \subseteq Entering(c, a)
    BY <1>0, <2>2 DEF Entering
  <2>4. \A a \in c.Address : RowsOf(a)' = RowsOf(a)  BY <2>2 DEF RowsOf
  <2> QED  BY <1>keep, <2>1, <2>3, <2>4
<1>2. ASSUME NEW p \in c.Web, Accounts(c)!Insert(p) PROVE NamesInv(c)'
  <2> DEFINE e == request[p].email
             n == Accounts(c)!Cardinality(DOMAIN account) + 1
             new == [email |-> e, active |-> TRUE, moderator |-> FALSE, language |-> Accounts(c)!Default]
  <2>1. /\ request[p].at = "insert"
        /\ \/ account' = [u \in 1..n |-> IF u = n THEN new ELSE account[u]]
           \/ UNCHANGED account
        /\ Accounts(c)!Becomes(p, Accounts(c)!Idle)
    BY <1>2 DEF Accounts!Insert, Accounts!Account
  <2>2. CASE UNCHANGED account  BY <1>same, <1>idle, <2>1, <2>2
  <2>3. CASE account' = [u \in 1..n |-> IF u = n THEN new ELSE account[u]]
    <3>1. n \in Nat \ {0} /\ DOMAIN account = 1..(n - 1)  BY <1>0, BooksNumbers
    <3>2. new.email = e  OBVIOUS
    <3> HIDE DEF n, new
    <3>3. DOMAIN account' = DOMAIN account \cup {n} /\ n \notin DOMAIN account  BY <2>3, <3>1
    <3>4. account'[n] = new /\ \A u \in DOMAIN account : account'[u] = account[u]  BY <2>3, <3>1
    <3>5. ASSUME NEW a \in c.Address
          PROVE  (RowsOf(a) # {})' =>
                   (Cardinality(RowsOf(a)) + Cardinality(Entering(c, a)) <= Cardinality(c.Web))'
      <4>1. CASE a # e.address
        <5>1. RowsOf(a)' = RowsOf(a)  BY <3>2, <3>3, <3>4, <4>1 DEF RowsOf
        <5>2. Entering(c, a)' \subseteq Entering(c, a)  BY <1>idle, <1>now, <2>1
        <5> QED  BY <1>0, <5>1, <5>2, NamesStay DEF NamesInv
      <4>2. CASE a = e.address
        <5> DEFINE R == RowsOf(a)  E == Entering(c, a)
        <5>1. RowsOf(a)' = R \cup {n} /\ n \notin R  BY <3>2, <3>3, <3>4, <4>2 DEF RowsOf
        <5>2. Entering(c, a)' = E \ {p} /\ p \in E
          BY <1>0, <1>idle, <2>1, <4>2 DEF Entering, Accounts!Becomes
        <5>3. /\ IsFiniteSet(R) /\ IsFiniteSet(E) /\ Cardinality(R) \in Nat /\ Cardinality(E) \in Nat
              /\ Cardinality(c.Web) \in Nat /\ Cardinality(E) <= Cardinality(c.Web)
          BY <1>0, NamesFinite
        <5>4. R # {} => Cardinality(R) + Cardinality(E) <= Cardinality(c.Web)  BY DEF NamesInv
        <5> HIDE DEF R, E
        <5>5. Cardinality(R \cup {n}) = Cardinality(R) + 1 /\ Cardinality(E \ {p}) = Cardinality(E) - 1
          BY <5>1, <5>2, <5>3, FS_AddElement, FS_RemoveElement
        <5>6. R = {} => Cardinality(R) = 0  BY FS_EmptySet
        <5> QED  BY <5>1, <5>2, <5>3, <5>4, <5>5, <5>6
      <4> QED  BY <4>1, <4>2
    <3> QED  BY <3>5 DEF NamesInv
  <2> QED  BY <2>1, <2>2, <2>3
<1>3. ASSUME NEW p \in c.Web, Accounts(c)!SavePreference(p) PROVE NamesInv(c)'
  <2> DEFINE r == request[p]
  <2>1. /\ r.at = "save" /\ account' = [account EXCEPT ![r.account] = Accounts(c)!Saved(r)]
        /\ Accounts(c)!Becomes(p, Accounts(c)!Idle)
    BY <1>3 DEF Accounts!SavePreference
  <2>2. r.account \in DOMAIN account  BY <1>0, <2>1 DEF Working, Accounts!Idle
  <2>3. Accounts(c)!Saved(r).email = account[r.account].email
    BY <1>0, <2>2 DEF BooksTypes, Accounts!Saved
  <2>4. DOMAIN account' = DOMAIN account /\ \A u \in DOMAIN account : account'[u].email = account[u].email
    BY <2>1, <2>2, <2>3
  <2>5. \A a \in c.Address : RowsOf(a)' = RowsOf(a)  BY <2>4, <1>rows
  <2>6. \A a \in c.Address : Entering(c, a)' \subseteq Entering(c, a)  BY <1>idle, <1>now, <2>1
  <2> QED  BY <1>keep, <2>5, <2>6
<1>4. ASSUME NEW u, NEW a \in BOOLEAN, NEW m \in BOOLEAN, Accounts(c)!AdminSet(u, a, m)
      PROVE  NamesInv(c)'
  <2>1. u \in DOMAIN account /\ UNCHANGED request
        /\ account' = [account EXCEPT ![u].active = a, ![u].moderator = m]
    BY <1>4 DEF Accounts!AdminSet, Accounts!Account
  <2>2. \A v \in DOMAIN account : account[v] \in
            [email : Accounts(c)!Email, active : BOOLEAN, moderator : BOOLEAN, language : c.Language]
    BY <1>0 DEF BooksTypes
  <2>3. DOMAIN account' = DOMAIN account /\ \A v \in DOMAIN account : account'[v].email = account[v].email
    BY <2>1, <2>2
  <2>4. \A x \in c.Address : RowsOf(x)' = RowsOf(x)  BY <2>3, <1>rows
  <2>5. \A x \in c.Address : Entering(c, x)' = Entering(c, x)  BY <2>1 DEF Entering
  <2> QED  BY <1>keep, <2>4, <2>5
<1>5. ASSUME NEW p \in c.Web, Accounts(c)!Retire(p) \/ Accounts(c)!Issue(p) \/ Accounts(c)!Revoke(p)
                             \/ Accounts(c)!Abort(p)
      PROVE  NamesInv(c)'
  BY <1>5, <1>idle, <1>same DEF Accounts!Retire, Accounts!Issue, Accounts!Revoke, Accounts!Abort
<1>6. ASSUME NEW p \in c.Web, NEW t, Accounts(c)!Refresh(p, t) PROVE NamesInv(c)'
  BY <1>6, <1>same DEF Accounts!Refresh
<1>7. ASSUME NEW p \in c.Web, NEW u, NEW t, Accounts(c)!Logout(p, u, t) PROVE NamesInv(c)'
  BY <1>7, <1>same DEF Accounts!Logout
<1>8. ASSUME NEW p \in c.Web, NEW u, NEW l, Accounts(c)!Prefer(p, u, l) PROVE NamesInv(c)'
  BY <1>8, <1>same DEF Accounts!Prefer
<1>9. CASE UNCHANGED <<account, request>>
  <2>1. \A a \in c.Address : RowsOf(a)' = RowsOf(a) /\ Entering(c, a)' = Entering(c, a)
    BY <1>9 DEF RowsOf, Entering
  <2> QED  BY <1>keep, <2>1
<1> QED
  BY <1>1, <1>2, <1>3, <1>4, <1>5, <1>6, <1>7, <1>8, <1>9
     DEF Accounts!Next, Accounts!EntryNext, Accounts!SessionNext, Accounts!RowNext,
         Accounts!Login, Accounts!ExpireRefresh, Accounts!ExpireAccess

LEMMA NamesStutter == ASSUME NEW c, UNCHANGED Accounts(c)!vars, NamesInv(c) PROVE NamesInv(c)'
<1>1. \A a : RowsOf(a)' = RowsOf(a) /\ Entering(c, a)' = Entering(c, a)
  BY DEF RowsOf, Entering, Accounts!vars
<1> QED  BY <1>1 DEF NamesInv

\* The rows of an address are no more than the processes.
LEMMA NamesShow ==
  ASSUME NEW c, Accounts(c)!Assumptions, BooksInv(c), NamesInv(c)
  PROVE  Accounts(c)!TwinsOnlyTogether
<1>1. ASSUME NEW e \in Accounts(c)!Email
      PROVE  Accounts(c)!Cardinality(Accounts(c)!WithAddress(e)) <= Accounts(c)!Cardinality(c.Web)
  <2> DEFINE R == RowsOf(e.address)  E == Entering(c, e.address)
  <2>1. Accounts(c)!WithAddress(e) = R /\ e.address \in c.Address
    BY DEF Accounts!WithAddress, Accounts!Account, Accounts!Email, RowsOf
  <2>2. Cardinality(R) \in Nat /\ Cardinality(E) \in Nat /\ Cardinality(c.Web) \in Nat
    BY NamesFinite DEF BooksInv
  <2>3. R # {} => Cardinality(R) + Cardinality(E) <= Cardinality(c.Web)  BY <2>1 DEF NamesInv
  <2> HIDE DEF R, E
  <2>4. R = {} => Cardinality(R) = 0  BY FS_EmptySet
  <2>5. Cardinality(R) <= Cardinality(c.Web)  BY <2>2, <2>3, <2>4
  <2> QED  BY <2>1, <2>5, EntryCardinality
<1> QED  BY <1>1 DEF Accounts!TwinsOnlyTogether

\* What may change the places where a session goes on: a step that only loses some.
LEMMA HandsLost ==
  ASSUME NEW c, NEW s, DOMAIN token' = DOMAIN token, black \subseteq black',
         \A t \in DOMAIN token : token'[t] = token[t],
         \A p \in c.Web : request'[p].at = "issue" => request'[p] = request[p] /\ request[p].token \in DOMAIN token
  PROVE  Accounts(c)!Hands(s)' \subseteq Accounts(c)!Hands(s)
<1>1. Accounts(c)!Live(s)' \subseteq Accounts(c)!Live(s)
  BY DEF Accounts!Live, Accounts!Token
<1>2. /\ Accounts(c)!Rotating(s)' \subseteq Accounts(c)!Rotating(s)
      /\ \A p \in Accounts(c)!Rotating(s)' : request'[p] = request[p]
  BY DEF Accounts!Rotating
<1>3. Accounts(c)!Hands(s)' = {<<t, None>> : t \in Accounts(c)!Live(s)'}
                              \cup {<<request'[p].token, p>> : p \in Accounts(c)!Rotating(s)'}
  BY DEF Accounts!Hands
<1> QED  BY <1>1, <1>2, <1>3 DEF Accounts!Hands

\* A session that is in one place at most stays so, and one that is over stays over, unless
\* the step is a rotation that was overtaken; a step that is not a logout and that leaves the
\* requests of the others is none that overtakes.
LEMMA SessionsStep ==
  ASSUME NEW c, Accounts(c)!Assumptions, BooksInv(c), [Accounts(c)!Next]_(Accounts(c)!vars)
  PROVE  Accounts(c)!SessionsForkByOverlap
<1> USE DEF Accounts!tokenVars
<1> DEFINE Fork == \E p \in c.Web : /\ Accounts(c)!Overtaken(p)
                                    /\ request[p].at = "retire" /\ request'[p].at = "issue"
           Steady(s) ==
             /\ Accounts(c)!AtMostOne(Accounts(c)!Hands(s)) => Accounts(c)!AtMostOne(Accounts(c)!Hands(s)')
             /\ Accounts(c)!Hands(s) = {} => Accounts(c)!Hands(s)' = {}
<1>0. /\ DOMAIN request = c.Web /\ BooksTypes(c) /\ \A p \in c.Web : Working(c, request[p])
      /\ \A p \in c.Web : request[p].at = "issue" => request[p].token \in black
  BY DEF BooksInv
<1>types. /\ \A p \in c.Web : request[p].at \in {"retire", "issue", "revoke"} => request[p].token \in DOMAIN token
          /\ black \subseteq DOMAIN token
  BY <1>0 DEF Working, Accounts!Idle, BooksTypes
<1>less. ASSUME NEW s, Accounts(c)!Hands(s)' \subseteq Accounts(c)!Hands(s) PROVE Steady(s)
  BY <1>less DEF Accounts!AtMostOne
<1>lost. ASSUME NEW s, UNCHANGED token, black \subseteq black',
                \A p \in c.Web : request'[p].at = "issue" => request'[p] = request[p]
         PROVE  Steady(s) /\ Accounts(c)!Hands(s)' \subseteq Accounts(c)!Hands(s)
  <2>1. \A p \in c.Web : request'[p].at = "issue" => request'[p] = request[p] /\ request[p].token \in DOMAIN token
    BY <1>lost, <1>types
  <2>2. Accounts(c)!Hands(s)' \subseteq Accounts(c)!Hands(s)  BY <1>lost, <2>1, HandsLost
  <2> QED  BY <1>less, <2>2
<1>still. ASSUME NEW p \in c.Web, NEW r, Accounts(c)!Becomes(p, r), r.at # "issue", UNCHANGED token,
                 black \subseteq black', NEW s
          PROVE  Steady(s) /\ Accounts(c)!Hands(s)' \subseteq Accounts(c)!Hands(s)
  <2>1. \A q \in c.Web : request'[q].at = "issue" => request'[q] = request[q]
    BY <1>0, <1>still DEF Accounts!Becomes
  <2> QED  BY <1>lost, <1>still, <2>1
<1>idle. Accounts(c)!Idle.at = "idle"  BY DEF Accounts!Idle
<1> HIDE DEF Steady
<1>hands. \A s, x : x \in Accounts(c)!Hands(s) <=>
            \/ \E t \in DOMAIN token \ black : token[t].session = s /\ x = <<t, None>>
            \/ \E p \in c.Web : /\ request[p].at = "issue" /\ token[request[p].token].session = s
                                /\ x = <<request[p].token, p>>
  BY DEF Accounts!Hands, Accounts!Live, Accounts!Rotating, Accounts!Token
<1>hands2. \A s, x : x \in Accounts(c)!Hands(s)' <=>
            \/ \E t \in DOMAIN token' \ black' : token'[t].session = s /\ x = <<t, None>>
            \/ \E p \in c.Web : /\ request'[p].at = "issue" /\ token'[request'[p].token].session = s
                                /\ x = <<request'[p].token, p>>
  BY DEF Accounts!Hands, Accounts!Live, Accounts!Rotating, Accounts!Token
<1>1. ASSUME NEW s \in DOMAIN token PROVE Steady(s) \/ Fork
  <2>1. ASSUME NEW p \in c.Web, Accounts(c)!Retire(p) PROVE Steady(s) \/ Fork
    <3> DEFINE t == request[p].token
    <3>1. /\ request[p].at = "retire" /\ black' = black \cup {t} /\ UNCHANGED token
          /\ request' = [request EXCEPT ![p] = [at |-> "issue", token |-> t]]
      BY <2>1 DEF Accounts!Retire, Accounts!Retired, Accounts!Becomes
    <3>2. CASE t \in black
      <4>1. Accounts(c)!Overtaken(p)  BY <3>1, <3>2 DEF Accounts!Overtaken
      <4>2. request'[p].at = "issue"  BY <1>0, <3>1
      <4> QED  BY <3>1, <4>1, <4>2
    <3>3. CASE t \notin black /\ token[t].session # s
      <4>1. Accounts(c)!Hands(s)' \subseteq Accounts(c)!Hands(s)
        BY <1>0, <1>hands, <1>hands2, <3>1, <3>3
      <4> QED  BY <1>less, <4>1
    <3>4. CASE t \notin black /\ token[t].session = s
      <4>1. <<t, None>> \in Accounts(c)!Hands(s)
        BY <1>hands, <1>types, <3>1, <3>4
      <4>2. ASSUME Accounts(c)!AtMostOne(Accounts(c)!Hands(s)), NEW x \in Accounts(c)!Hands(s)'
            PROVE  x = <<t, p>>
        <5>1. \A y \in Accounts(c)!Hands(s) : y = <<t, None>>  BY <4>1, <4>2 DEF Accounts!AtMostOne
        <5>2. CASE \E i \in DOMAIN token \ black' : token[i].session = s /\ x = <<i, None>>
          <6>1. PICK i \in DOMAIN token \ black' : token[i].session = s /\ x = <<i, None>>  BY <5>2
          <6>2. x \in Accounts(c)!Hands(s)  BY <1>hands, <3>1, <6>1
          <6> QED  BY <3>1, <5>1, <6>1, <6>2
        <5>3. CASE \E q \in c.Web : /\ request'[q].at = "issue" /\ token[request'[q].token].session = s
                                    /\ x = <<request'[q].token, q>>
          <6>1. PICK q \in c.Web : /\ request'[q].at = "issue" /\ token[request'[q].token].session = s
                                   /\ x = <<request'[q].token, q>>
            BY <5>3
          <6>2. CASE q = p  BY <1>0, <3>1, <6>1, <6>2
          <6>3. CASE q # p
            <7>1. request'[q] = request[q]  BY <1>0, <3>1, <6>3
            <7>2. x \in Accounts(c)!Hands(s)  BY <1>hands, <6>1, <7>1
            <7>3. request[q].token = t /\ request[q].at = "issue"  BY <5>1, <6>1, <7>1, <7>2
            <7> QED  BY <1>0, <3>4, <7>3
          <6> QED  BY <6>2, <6>3
        <5> QED  BY <1>hands2, <3>1, <4>2, <5>2, <5>3
      <4> QED  BY <4>1, <4>2 DEF Steady, Accounts!AtMostOne
    <3> QED  BY <3>2, <3>3, <3>4
  <2>2. ASSUME NEW p \in c.Web, Accounts(c)!Issue(p) PROVE Steady(s)
    <3> DEFINE n == Accounts(c)!Fresh
               t == request[p].token
    <3>1. /\ request[p].at = "issue" /\ UNCHANGED black
          /\ Accounts(c)!Add([owner |-> token[t].owner, session |-> token[t].session, parent |-> t])
          /\ request' = [request EXCEPT ![p] = Accounts(c)!Idle]
      BY <2>2 DEF Accounts!Issue, Accounts!Becomes
    <3>2. /\ DOMAIN token' = DOMAIN token \cup {n} /\ n \notin DOMAIN token
          /\ token'[n] = [owner |-> token[t].owner, session |-> token[t].session, parent |-> t]
          /\ \A i \in DOMAIN token : token'[i] = token[i]
      BY <1>0, <3>1, TokenAdded
    <3> HIDE DEF n
    <3>3. token'[n].session = token[t].session /\ t \in black  BY <1>0, <3>1, <3>2
    <3>4. ASSUME NEW x \in Accounts(c)!Hands(s)'
          PROVE  (x \in Accounts(c)!Hands(s) /\ x # <<t, p>>) \/ (x = <<n, None>> /\ token[t].session = s)
      <4>1. CASE \E i \in DOMAIN token' \ black : token'[i].session = s /\ x = <<i, None>>
        <5>1. PICK i \in DOMAIN token' \ black : token'[i].session = s /\ x = <<i, None>>  BY <4>1
        <5>2. CASE i = n  BY <3>3, <5>1, <5>2
        <5>3. CASE i # n
          <6>1. i \in DOMAIN token \ black /\ token[i].session = s /\ i # t  BY <3>2, <3>3, <5>1, <5>3
          <6> QED  BY <1>hands, <5>1, <6>1
        <5> QED  BY <5>2, <5>3
      <4>2. CASE \E q \in c.Web : /\ request'[q].at = "issue" /\ token'[request'[q].token].session = s
                                  /\ x = <<request'[q].token, q>>
        <5>1. PICK q \in c.Web : /\ request'[q].at = "issue" /\ token'[request'[q].token].session = s
                                 /\ x = <<request'[q].token, q>>
          BY <4>2
        <5>2. q # p /\ request'[q] = request[q]  BY <1>0, <1>idle, <3>1, <5>1
        <5>3. request[q].token \in DOMAIN token  BY <1>types, <5>1, <5>2
        <5> QED  BY <1>hands, <3>2, <5>1, <5>2, <5>3
      <4> QED  BY <1>hands2, <3>1, <3>4, <4>1, <4>2
    <3>5. token[t].session = s => <<t, p>> \in Accounts(c)!Hands(s)  BY <1>hands, <3>1
    <3> QED  BY <3>4, <3>5 DEF Steady, Accounts!AtMostOne
  <2>3. ASSUME NEW p \in c.Web, NEW e, Accounts(c)!Login(p, e) PROVE Steady(s)
    <3> DEFINE n == Accounts(c)!Fresh
    <3>1. PICK u \in Accounts(c)!Candidates(e) : Accounts(c)!Add([owner |-> u, session |-> n, parent |-> 0])
      BY <2>3 DEF Accounts!Login
    <3>2. UNCHANGED <<black, request>>  BY <2>3 DEF Accounts!Login
    <3>3. /\ DOMAIN token' = DOMAIN token \cup {n} /\ n \notin DOMAIN token
          /\ token'[n] = [owner |-> u, session |-> n, parent |-> 0]
          /\ \A i \in DOMAIN token : token'[i] = token[i]
      BY <1>0, <3>1, TokenAdded
    <3> HIDE DEF n
    <3>4. token'[n].session # s  BY <3>3
    <3>5. ASSUME NEW x \in Accounts(c)!Hands(s)' PROVE x \in Accounts(c)!Hands(s)
      <4>1. CASE \E i \in DOMAIN token' \ black : token'[i].session = s /\ x = <<i, None>>
        BY <1>hands, <3>3, <3>4, <4>1
      <4>2. CASE \E q \in c.Web : /\ request'[q].at = "issue" /\ token'[request'[q].token].session = s
                                  /\ x = <<request'[q].token, q>>
        BY <1>hands, <1>types, <3>2, <3>3, <4>2
      <4> QED  BY <1>hands2, <3>2, <3>5, <4>1, <4>2
    <3> QED  BY <1>less, <3>5
  <2>4. ASSUME NEW p \in c.Web, Accounts(c)!Revoke(p) PROVE Steady(s)
    BY <1>idle, <1>still, <2>4 DEF Accounts!Revoke
  <2>5. ASSUME NEW p \in c.Web, Accounts(c)!Insert(p) \/ Accounts(c)!Abort(p) \/ Accounts(c)!SavePreference(p)
        PROVE  Steady(s)
    BY <1>idle, <1>still, <2>5 DEF Accounts!Insert, Accounts!Abort, Accounts!SavePreference
  <2>6. ASSUME NEW p \in c.Web, NEW e, Accounts(c)!Register(p, e) PROVE Steady(s)
    BY <1>still, <2>6 DEF Accounts!Register
  <2>7. ASSUME NEW p \in c.Web, NEW t, Accounts(c)!Refresh(p, t) PROVE Steady(s)
    BY <1>still, <2>7 DEF Accounts!Refresh
  <2>8. ASSUME NEW p \in c.Web, NEW u, NEW t, Accounts(c)!Logout(p, u, t) PROVE Steady(s)
    BY <1>still, <2>8 DEF Accounts!Logout
  <2>9. ASSUME NEW p \in c.Web, NEW u, NEW l, Accounts(c)!Prefer(p, u, l) PROVE Steady(s)
    BY <1>still, <2>9 DEF Accounts!Prefer
  <2>10. CASE UNCHANGED <<token, black, request>>  BY <1>lost, <2>10
  <2> QED
    BY <2>1, <2>2, <2>3, <2>4, <2>5, <2>6, <2>7, <2>8, <2>9, <2>10
       DEF Accounts!Next, Accounts!EntryNext, Accounts!SessionNext, Accounts!RowNext,
           Accounts!ExpireRefresh, Accounts!ExpireAccess, Accounts!AdminSet, Accounts!vars
<1>2. ASSUME NEW p \in c.Web, NEW s \in DOMAIN token, Accounts(c)!Revoke(p), ~Accounts(c)!Overtaken(p),
             token[request[p].token].session = s, Accounts(c)!AtMostOne(Accounts(c)!Hands(s))
      PROVE  Accounts(c)!Hands(s)' = {}
  <2> DEFINE t == request[p].token
  <2>1. /\ request[p].at = "revoke" /\ black' = black \cup {t} /\ UNCHANGED token
        /\ Accounts(c)!Becomes(p, Accounts(c)!Idle)
    BY <1>2 DEF Accounts!Revoke
  <2>2. t \in DOMAIN token \ black  BY <1>2, <1>types, <2>1 DEF Accounts!Overtaken
  <2>3. <<t, None>> \in Accounts(c)!Hands(s)  BY <1>2, <1>hands, <2>2
  <2>4. Accounts(c)!Hands(s)' \subseteq Accounts(c)!Hands(s)  BY <1>idle, <1>still, <2>1
  <2>5. <<t, None>> \notin Accounts(c)!Hands(s)'
    <3>1. ~\E i \in DOMAIN token' \ black' : token'[i].session = s /\ <<t, None>> = <<i, None>>
      BY <2>1
    <3>2. ~\E q \in c.Web : /\ request'[q].at = "issue" /\ token'[request'[q].token].session = s
                            /\ <<t, None>> = <<request'[q].token, q>>
      BY <1>0, <1>idle, <2>1, <2>2 DEF Accounts!Becomes
    <3> QED  BY <1>hands2, <3>1, <3>2
  <2> QED  BY <1>2, <2>3, <2>4, <2>5 DEF Accounts!AtMostOne
<1>3. ASSUME NEW p \in c.Web, ~Accounts(c)!Overtaken(p), Accounts(c)!Overtaken(p)'
      PROVE  \E q \in c.Web \ {p} : /\ request[q].at \in {"retire", "revoke"} /\ request'[q] # request[q]
                                    /\ request[q].token = request[p].token
  <2>1. request'[p].at \in {"retire", "revoke"} /\ request'[p].token \in black'
    BY <1>3 DEF Accounts!Overtaken
  <2>2. request'[p] = request[p] => request[p].token \notin black
    BY <1>3, <2>1 DEF Accounts!Overtaken
  <2>3. ASSUME NEW q \in c.Web, NEW r, Accounts(c)!Becomes(q, r), UNCHANGED black,
               r.at \in {"retire", "revoke"} => r.token \notin black
        PROVE  FALSE
    <3>1. CASE q = p  BY <1>0, <2>1, <2>3, <3>1 DEF Accounts!Becomes
    <3>2. CASE q # p  BY <1>0, <2>1, <2>2, <2>3, <3>2 DEF Accounts!Becomes
    <3> QED  BY <3>1, <3>2
  <2>4. ASSUME NEW q \in c.Web, Accounts(c)!Retire(q) \/ Accounts(c)!Revoke(q)
        PROVE  /\ q # p /\ request[q].at \in {"retire", "revoke"} /\ request'[q] # request[q]
               /\ request[q].token = request[p].token
    <3> DEFINE t == request[q].token
    <3>1. PICK r : /\ request[q].at \in {"retire", "revoke"} /\ black' = black \cup {t}
                   /\ Accounts(c)!Becomes(q, r) /\ r.at \notin {"retire", "revoke"}
      <4>1. CASE Accounts(c)!Retire(q)  BY <4>1 DEF Accounts!Retire, Accounts!Retired
      <4>2. CASE Accounts(c)!Revoke(q)  BY <1>idle, <4>2 DEF Accounts!Revoke
      <4> QED  BY <2>4, <4>1, <4>2
    <3>2. request'[q] = r /\ (p # q => request'[p] = request[p])  BY <1>0, <3>1 DEF Accounts!Becomes
    <3>3. q # p  BY <2>1, <3>1, <3>2
    <3>4. request[p].token \in black \cup {t} /\ request[p].token \notin black  BY <2>1, <2>2, <3>1, <3>2, <3>3
    <3> QED  BY <3>1, <3>2, <3>3, <3>4
  <2>5. ASSUME NEW q \in c.Web, Accounts(c)!Issue(q) \/ Accounts(c)!Insert(q) \/ Accounts(c)!Abort(q)
                                \/ Accounts(c)!SavePreference(q)
        PROVE  FALSE
    BY <1>idle, <2>3, <2>5 DEF Accounts!Issue, Accounts!Insert, Accounts!Abort, Accounts!SavePreference
  <2>6. ASSUME NEW q \in c.Web, NEW e, Accounts(c)!Register(q, e) PROVE FALSE
    BY <2>3, <2>6 DEF Accounts!Register
  <2>7. ASSUME NEW q \in c.Web, NEW t, Accounts(c)!Refresh(q, t) PROVE FALSE
    BY <2>3, <2>7 DEF Accounts!Refresh, Accounts!Usable
  <2>8. ASSUME NEW q \in c.Web, NEW u, NEW t, Accounts(c)!Logout(q, u, t) PROVE FALSE
    BY <2>3, <2>8 DEF Accounts!Logout, Accounts!Usable
  <2>9. ASSUME NEW q \in c.Web, NEW u, NEW l, Accounts(c)!Prefer(q, u, l) PROVE FALSE
    BY <2>3, <2>9 DEF Accounts!Prefer
  <2>10. CASE UNCHANGED <<black, request>>  BY <2>1, <2>2, <2>10
  <2> QED
    BY <2>4, <2>5, <2>6, <2>7, <2>8, <2>9, <2>10
       DEF Accounts!Next, Accounts!EntryNext, Accounts!SessionNext, Accounts!RowNext, Accounts!Login,
           Accounts!ExpireRefresh, Accounts!ExpireAccess, Accounts!AdminSet, Accounts!vars
<1>4. ASSUME NEW s \in DOMAIN token,
             \/ Accounts(c)!AtMostOne(Accounts(c)!Hands(s)) /\ ~Accounts(c)!AtMostOne(Accounts(c)!Hands(s)')
             \/ Accounts(c)!Hands(s) = {} /\ Accounts(c)!Hands(s)' # {}
      PROVE  Fork
  <2>1. ~Steady(s)  BY <1>4 DEF Steady
  <2> HIDE DEF Fork
  <2> QED  BY <1>1, <2>1
<1> HIDE DEF Fork
<1> QED  BY <1>2, <1>3, <1>4 DEF Fork, Accounts!SessionsForkByOverlap, Accounts!Token

-----------------------------------------------------------------------------
(* Conversations and what is put in them                                   *)

\* The instance's operators are those of FiniteSets and FiniteSetsExt.
LEMMA TalkCardinality == ASSUME NEW c, NEW S PROVE Conversations(c)!Cardinality(S) = Cardinality(S)
  BY DEF Conversations!Cardinality, Cardinality
LEMMA TalkMax == ASSUME NEW c, NEW S PROVE Conversations(c)!Max(S) = Max(S)
  BY DEF Conversations!Max, Max

Couple(c, S) == \E u, v \in c.User : u # v /\ S = {u, v}

\* What a stored message may carry.
Says(c, m) ==
  /\ m.conversation \in DOMAIN members /\ m.sender \in members[m.conversation]
  /\ m.text \in BOOLEAN
  /\ m.mediaType \in {"image", "video", None}
  /\ ~m.text /\ m.mediaType = None => m.shared # None
  /\ m.media # None => m.mediaType = Conversations(c)!MediaTypeOf(m.media)

\* A conversation is of two accounts, and what is stored in it says something.
TalkInv(c) ==
  /\ reachable \subseteq c.Business /\ visible \subseteq c.Content
  /\ \E n \in 0..c.MaxConversations : DOMAIN members = 1..n
  /\ \A i \in DOMAIN members : Couple(c, members[i])
  /\ DOMAIN asking = c.Web
  /\ \A p \in c.Web : \/ asking[p] = Conversations(c)!Idle
                      \/ asking[p].at = "create" /\ asking[p].asker \in c.User /\ asking[p].asked \in c.User
  /\ answer = None \/ answer.conversation \in DOMAIN members
  /\ \E n \in Nat : DOMAIN message = 1..n
  /\ \A m \in DOMAIN message : Says(c, message[m])

\* Only by a padded id somebody asks for oneself; everybody gets the one that was asked for.
AskedInv(c) ==
  /\ \A p \in c.Web : asking[p].at = "create" /\ asking[p].asker = asking[p].asked => asking[p].how = "padded"
  /\ Conversations(c)!AnswerIsBoth

\* The conversations of two accounts, and the requests that found none and will create one.
Creating(c, u, v) ==
  {p \in c.Web : asking[p].at = "create" /\ {asking[p].asker, asking[p].asked} = {u, v}}

\* Whoever is about to create a conversation of two that have one has been at it since they
\* had none.
TwinsInv(c) ==
  \A u, v \in c.User : Conversations(c)!Between(u, v) # {} =>
    Cardinality(Conversations(c)!Between(u, v)) + Cardinality(Creating(c, u, v)) <= Cardinality(c.Web)

LEMMA TalkInit ==
  ASSUME NEW c, Conversations(c)!Assumptions, Conversations(c)!Init
  PROVE  TalkInv(c) /\ AskedInv(c) /\ TwinsInv(c)
<1>1. DOMAIN members = {} /\ DOMAIN message = {} /\ {} = 1..0 /\ 0 \in 0..c.MaxConversations
  BY DEF Conversations!Init, Conversations!Assumptions
<1>2. \A p \in c.Web : asking[p] = Conversations(c)!Idle /\ asking[p].at = "idle"
  BY DEF Conversations!Init, Conversations!Idle
<1>3. TalkInv(c)  BY <1>1, <1>2 DEF TalkInv, Conversations!Init
<1>4. AskedInv(c)  BY <1>2 DEF AskedInv, Conversations!Init, Conversations!AnswerIsBoth
<1>5. TwinsInv(c)
  BY <1>1 DEF TwinsInv, Conversations!Between, Conversations!Conversation
<1> QED  BY <1>3, <1>4, <1>5

\* The numbers of the conversations and of the next one.
LEMMA TalkNumbers ==
  ASSUME NEW c, Conversations(c)!Assumptions, TalkInv(c)
  PROVE  /\ Conversations(c)!Cardinality(DOMAIN members) \in 0..c.MaxConversations
         /\ DOMAIN members = 1..Conversations(c)!Cardinality(DOMAIN members)
         /\ Conversations(c)!Cardinality(DOMAIN message) \in Nat
         /\ DOMAIN message = 1..Conversations(c)!Cardinality(DOMAIN message)
         /\ c.MaxConversations \in Nat
<1>0. c.MaxConversations \in Nat  BY DEF Conversations!Assumptions
<1>1. PICK n \in 0..c.MaxConversations : DOMAIN members = 1..n  BY DEF TalkInv
<1>2. PICK m \in Nat : DOMAIN message = 1..m  BY DEF TalkInv
<1>3. n \in Nat /\ m \in Nat  BY <1>0
<1>4. Cardinality(1..n) = n /\ Cardinality(1..m) = m  BY <1>3, FS_Interval
<1> QED  BY <1>0, <1>1, <1>2, <1>4, TalkCardinality

\* A file the two phases accept is named for what it is, and what may be stored is accepted.
LEMMA Classified ==
  ASSUME NEW c, NEW f \in Conversations(c)!File
  PROVE  /\ Conversations(c)!Classify(f) \in {"image", "video", "refused"}
         /\ Conversations(c)!Classify(f) = Conversations(c)!MediaTypeOf(f)
<1> USE DEF Conversations!ImageMax, Conversations!VideoMax
<1>0. /\ f.mime \in {"image", "video", "octets", "other"} /\ f.size \in {1, 2, 3} /\ f.probe \in BOOLEAN
  BY DEF Conversations!File
<1> DEFINE phase(mimes, max) == Conversations(c)!validate_upload(f, mimes, max)
<1>1. CASE f.size = 3
  <2>1. phase({"image"}, 2) = "file_too_large"
    BY <1>1 DEF Conversations!validate_upload
  <2>2. Conversations(c)!Classify(f) = "refused"  BY <2>1 DEF Conversations!Classify
  <2>3. Conversations(c)!MediaTypeOf(f) = "refused"  BY <1>1 DEF Conversations!MediaTypeOf
  <2> QED  BY <2>2, <2>3
<1>2. CASE f.size \in {1, 2} /\ f.mime = "image"
  <2>1. phase({"image"}, 2) = "ok"
    BY <1>2 DEF Conversations!validate_upload
  <2>2. CASE f.size = 1
    <3>1. phase({"image"}, 1) = "ok"  BY <1>2, <2>2 DEF Conversations!validate_upload
    <3>2. Conversations(c)!Classify(f) = "image"  BY <2>1, <3>1 DEF Conversations!Classify
    <3>3. Conversations(c)!MediaTypeOf(f) = "image"  BY <1>2, <2>2 DEF Conversations!MediaTypeOf
    <3> QED  BY <3>2, <3>3
  <2>3. CASE f.size = 2
    <3>1. phase({"image"}, 1) = "file_too_large"
      BY <1>2, <2>3 DEF Conversations!validate_upload
    <3>2. Conversations(c)!Classify(f) = "refused"  BY <2>1, <3>1 DEF Conversations!Classify
    <3>3. Conversations(c)!MediaTypeOf(f) = "refused"  BY <1>2, <2>3 DEF Conversations!MediaTypeOf
    <3> QED  BY <3>2, <3>3
  <2> QED  BY <1>2, <2>2, <2>3
<1>3. CASE f.size \in {1, 2} /\ f.mime # "image"
  <2>1. phase({"image"}, 2) = "unsupported_file_type"
    BY <1>3 DEF Conversations!validate_upload
  <2>2. phase({"video"}, 2) = IF f.mime = "video" THEN "ok" ELSE "unsupported_file_type"
    BY <1>3 DEF Conversations!validate_upload
  <2>3. CASE f.mime = "video" \/ (f.mime = "octets" /\ f.probe)
    <3>1. Conversations(c)!Classify(f) = "video"
      BY <2>1, <2>2, <2>3 DEF Conversations!Classify, Conversations!UnknownBinaryIsVideo
    <3>2. Conversations(c)!MediaTypeOf(f) = "video"  BY <1>3, <2>3 DEF Conversations!MediaTypeOf
    <3> QED  BY <3>1, <3>2
  <2>4. CASE ~(f.mime = "video" \/ (f.mime = "octets" /\ f.probe))
    <3>1. Conversations(c)!Classify(f) = "refused"
      BY <2>1, <2>2, <2>4 DEF Conversations!Classify, Conversations!UnknownBinaryIsVideo
    <3>2. Conversations(c)!MediaTypeOf(f) = "refused"  BY <1>3, <2>4 DEF Conversations!MediaTypeOf
    <3> QED  BY <3>1, <3>2
  <2> QED  BY <2>3, <2>4
<1> QED  BY <1>0, <1>1, <1>2, <1>3

\* A message of a valid form says something.
LEMMA ValidSays ==
  ASSUME NEW c, Conversations(c)!Assumptions, NEW i \in DOMAIN members, NEW u \in members[i],
         NEW form \in Conversations(c)!Form, Conversations(c)!Valid(form)
  PROVE  Says(c, Conversations(c)!Stored(i, u, form))
<1> DEFINE m == Conversations(c)!Stored(i, u, form)
<1>1. /\ m.conversation = i /\ m.sender = u /\ m.text = form.text /\ m.shared = form.sharedId
      /\ m.media = form.media
      /\ m.mediaType = IF form.media = None THEN None ELSE Conversations(c)!Classify(form.media)
  BY DEF Conversations!Stored
<1>2. form.text \in BOOLEAN /\ form.media \in Conversations(c)!File \cup {None}
  BY DEF Conversations!Form
<1>3. /\ form.media # None => Conversations(c)!Classify(form.media) # "refused"
      /\ (form.sharedType = None) <=> (form.sharedId = None)
      /\ form.text \/ form.media # None \/ form.sharedType # None
  BY DEF Conversations!Valid, Conversations!Carries
<1>4. form.media # None => /\ Conversations(c)!Classify(form.media) \in {"image", "video"}
                           /\ Conversations(c)!Classify(form.media) = Conversations(c)!MediaTypeOf(form.media)
  BY <1>2, <1>3, Classified
<1> HIDE DEF m
<1>5. ASSUME ~m.text, m.mediaType = None PROVE m.shared # None
  BY <1>1, <1>3, <1>4, <1>5 DEF Conversations!Assumptions
<1>6. Says(c, m)  BY <1>1, <1>2, <1>4, <1>5 DEF Says
<1> QED  BY <1>6 DEF m

\* Messages stay what they were when conversations are added.
LEMMA SaysStill ==
  ASSUME NEW c, NEW m, Says(c, m), DOMAIN members \subseteq DOMAIN members',
         \A i \in DOMAIN members : members'[i] = members[i]
  PROVE  Says(c, m)'
BY DEF Says

LEMMA TalkStep ==
  ASSUME NEW c, Conversations(c)!Assumptions, TalkInv(c), Conversations(c)!Next PROVE TalkInv(c)'
<1>same. ASSUME UNCHANGED <<members, message>>, reachable' \subseteq reachable, visible' \subseteq visible,
                DOMAIN asking' = c.Web,
                \A p \in c.Web : \/ asking'[p] = asking[p] \/ asking'[p] = Conversations(c)!Idle
                                 \/ /\ asking'[p].at = "create"
                                    /\ asking'[p].asker \in c.User /\ asking'[p].asked \in c.User,
                answer' = answer \/ answer'.conversation \in DOMAIN members
         PROVE  TalkInv(c)'
  <2>1. \A m \in DOMAIN message : Says(c, message[m])'
    BY <1>same, SaysStill DEF TalkInv
  <2> QED  BY <1>same, <2>1 DEF TalkInv
<1>1. ASSUME NEW p \in c.Web, NEW u \in c.User, NEW v \in c.User, NEW how, Conversations(c)!Start(p, u, v, how)
      PROVE  TalkInv(c)'
  <2>1. CASE Conversations(c)!Existing(u, v) # {}
    <3> DEFINE i == Conversations(c)!Max(Conversations(c)!Existing(u, v))
    <3>1. /\ answer' = [asker |-> u, asked |-> v, how |-> how, conversation |-> i]
          /\ UNCHANGED <<asking, reachable, visible, members, message>>
      BY <1>1, <2>1 DEF Conversations!Start
    <3>2. i \in DOMAIN members
      <4>1. /\ Conversations(c)!Cardinality(DOMAIN members) \in Nat
            /\ DOMAIN members = 1..Conversations(c)!Cardinality(DOMAIN members)
        BY TalkNumbers
      <4> DEFINE S == Conversations(c)!Existing(u, v)
                 n == Conversations(c)!Cardinality(DOMAIN members)
      <4>2. S \subseteq DOMAIN members
        BY DEF Conversations!Existing, Conversations!Of, Conversations!Conversation
      <4>3. n \in Nat /\ S \in SUBSET (0..n) /\ S # {}  BY <2>1, <4>1, <4>2
      <4> HIDE DEF S, n
      <4>4. Max(S) \in S  BY <4>3, Greatest
      <4> USE DEF S
      <4> QED  BY <4>2, <4>4, TalkMax
    <3> HIDE DEF i
    <3> QED  BY <1>same, <3>1, <3>2 DEF TalkInv
  <2>2. CASE Conversations(c)!Existing(u, v) = {}
    <3>1. /\ asking' = [asking EXCEPT ![p] = [at |-> "create", asker |-> u, asked |-> v, how |-> how]]
          /\ UNCHANGED <<answer, reachable, visible, members, message>>
      BY <1>1, <2>2 DEF Conversations!Start
    <3> QED  BY <1>same, <3>1 DEF TalkInv
  <2> QED  BY <2>1, <2>2
<1>2. ASSUME NEW p \in c.Web, Conversations(c)!Create(p) PROVE TalkInv(c)'
  <2> DEFINE r == asking[p]
             n == Conversations(c)!Cardinality(DOMAIN members) + 1
  <2>1. /\ r.at = "create" /\ n \in 1..c.MaxConversations
        /\ asking' = [asking EXCEPT ![p] = Conversations(c)!Idle]
        /\ UNCHANGED <<reachable, visible, message>>
    BY <1>2 DEF Conversations!Create, Conversations!Id, Conversations!Conversation
  <2>2. CASE r.asker = r.asked
    <3>1. UNCHANGED <<members, answer>>  BY <1>2, <2>2 DEF Conversations!Create
    <3> QED  BY <1>same, <2>1, <3>1 DEF TalkInv
  <2>3. CASE r.asker # r.asked
    <3>1. /\ members' = [j \in 1..n |-> IF j = n THEN {r.asker, r.asked} ELSE members[j]]
          /\ answer' = [asker |-> r.asker, asked |-> r.asked, how |-> r.how, conversation |-> n]
      BY <1>2, <2>3 DEF Conversations!Create, Conversations!Conversation
    <3>2. n \in Nat \ {0} /\ DOMAIN members = 1..(n - 1) /\ c.MaxConversations \in Nat  BY TalkNumbers
    <3>3. Couple(c, {r.asker, r.asked})
      BY <2>1, <2>3 DEF Couple, TalkInv, Conversations!Idle
    <3> HIDE DEF n
    <3>4. DOMAIN members' = 1..n /\ n \in 0..c.MaxConversations /\ DOMAIN members \subseteq 1..n /\ n \in 1..n
      BY <2>1, <3>1, <3>2
    <3>5. members'[n] = {r.asker, r.asked} /\ \A i \in DOMAIN members : members'[i] = members[i]
      BY <3>1, <3>2, <3>4
    <3>6. \A i \in DOMAIN members' : i = n \/ i \in DOMAIN members  BY <3>2, <3>4
    <3>7. \A i \in DOMAIN members' : Couple(c, members'[i])  BY <3>3, <3>5, <3>6 DEF TalkInv
    <3>8. \A m \in DOMAIN message : Says(c, message[m])'
      BY <2>1, <3>4, <3>5, SaysStill DEF TalkInv
    <3>9. (\A i \in DOMAIN members : Couple(c, members[i]))'  BY <3>7 DEF Couple
    <3>10. answer'.conversation \in DOMAIN members'  BY <3>1, <3>4
    <3> QED  BY <2>1, <3>4, <3>8, <3>9, <3>10 DEF TalkInv
  <2> QED  BY <2>2, <2>3
<1>3. ASSUME NEW p \in c.Web, Conversations(c)!Abort(p) PROVE TalkInv(c)'
  BY <1>3, <1>same DEF Conversations!Abort, TalkInv
<1>4. CASE Conversations(c)!Disappear
  BY <1>4, <1>same DEF Conversations!Disappear, TalkInv
<1>5. ASSUME NEW i, NEW u \in c.User, NEW form \in Conversations(c)!Form, Conversations(c)!Send(i, u, form)
      PROVE  TalkInv(c)'
  <2> DEFINE n == Conversations(c)!Cardinality(DOMAIN message) + 1
             new == Conversations(c)!Stored(i, u, form)
  <2>1. /\ i \in DOMAIN members /\ u \in members[i] /\ Conversations(c)!Valid(form)
        /\ message' = [m \in 1..n |-> IF m = n THEN new ELSE message[m]]
        /\ UNCHANGED <<reachable, visible, members, asking, answer>>
    BY <1>5 DEF Conversations!Send, Conversations!Conversation, Conversations!require_participant
  <2>2. n \in Nat \ {0} /\ DOMAIN message = 1..(n - 1)  BY TalkNumbers
  <2>3. Says(c, new)  BY <2>1, ValidSays
  <2> HIDE DEF n, new
  <2>4. ASSUME NEW m \in DOMAIN message' PROVE Says(c, message'[m])
    <3>1. CASE m = n  BY <2>1, <2>2, <2>3, <3>1
    <3>2. CASE m # n
      <4>1. m \in DOMAIN message /\ message'[m] = message[m]  BY <2>1, <2>2, <3>2
      <4> QED  BY <4>1 DEF TalkInv
    <3> QED  BY <3>1, <3>2
  <2>5. (\A m \in DOMAIN message : Says(c, message[m]))'  BY <2>1, <2>4 DEF Says
  <2>6. DOMAIN message' = 1..n /\ n \in Nat  BY <2>1, <2>2
  <2> QED  BY <2>1, <2>5, <2>6 DEF TalkInv
<1>6. ASSUME NEW p \in c.Web, NEW u \in c.User, NEW b \in c.Business,
             Conversations(c)!StartWithBusiness(p, u, b)
      PROVE  TalkInv(c)'
  BY <1>1, <1>6 DEF Conversations!StartWithBusiness, Conversations!RecipientByBusiness,
                    Conversations!Start, Conversations!Assumptions
<1>7. ASSUME NEW p \in c.Web, NEW u \in c.User, NEW v \in c.User, NEW s \in c.Spelling,
             Conversations(c)!StartWithUser(p, u, v, s)
      PROVE  TalkInv(c)'
  BY <1>1, <1>7 DEF Conversations!StartWithUser, Conversations!RecipientById, Conversations!Start
<1> QED  BY <1>2, <1>3, <1>4, <1>5, <1>6, <1>7 DEF Conversations!Next, Conversations!StartNext

\* The conversation that is found is one of the two.
LEMMA NewestOfBoth ==
  ASSUME NEW c, Conversations(c)!Assumptions, TalkInv(c), NEW u, NEW v, Conversations(c)!Existing(u, v) # {}
  PROVE  LET i == Conversations(c)!Max(Conversations(c)!Existing(u, v)) IN
         i \in DOMAIN members /\ u \in members[i] /\ v \in members[i]
<1> DEFINE S == Conversations(c)!Existing(u, v)
           n == Conversations(c)!Cardinality(DOMAIN members)
<1>1. n \in Nat /\ DOMAIN members = 1..n  BY TalkNumbers
<1>2. \A i \in S : i \in DOMAIN members /\ u \in members[i] /\ v \in members[i]
  BY DEF Conversations!Existing, Conversations!Of, Conversations!Conversation
<1>3. n \in Nat /\ S \in SUBSET (0..n) /\ S # {}  BY <1>1, <1>2
<1> HIDE DEF S, n
<1>4. Max(S) \in S  BY <1>3, Greatest
<1>5. Conversations(c)!Max(S) \in S  BY <1>4, TalkMax
<1>6. Conversations(c)!Max(S) \in DOMAIN members /\ u \in members[Conversations(c)!Max(S)]
      /\ v \in members[Conversations(c)!Max(S)]
  BY <1>2, <1>5
<1> QED  BY <1>6 DEF S

\* Only a padded id of oneself passes the check.
LEMMA AskedStart ==
  ASSUME NEW c, Conversations(c)!Assumptions, NEW p \in c.Web, NEW u \in c.User,
         \/ \E b \in c.Business : Conversations(c)!StartWithBusiness(p, u, b)
         \/ \E v \in c.User, s \in c.Spelling : Conversations(c)!StartWithUser(p, u, v, s)
  PROVE  \E v \in c.User : \E how : (v = u => how = "padded") /\ Conversations(c)!Start(p, u, v, how)
<1>1. ASSUME NEW b \in c.Business, Conversations(c)!StartWithBusiness(p, u, b)
      PROVE  \E v \in c.User : \E how : (v = u => how = "padded") /\ Conversations(c)!Start(p, u, v, how)
  <2> DEFINE v == Conversations(c)!RecipientByBusiness(u, b)
  <2>1. Conversations(c)!Start(p, u, v, "business")  BY <1>1 DEF Conversations!StartWithBusiness
  <2>2. v # None  BY <2>1 DEF Conversations!Start
  <2>3. v \in c.User /\ v # u
    BY <2>2 DEF Conversations!RecipientByBusiness, Conversations!NotSelfByBusiness, Conversations!Assumptions
  <2> HIDE DEF v
  <2> QED  BY <2>1, <2>3
<1>2. ASSUME NEW w \in c.User, NEW s \in c.Spelling, Conversations(c)!StartWithUser(p, u, w, s)
      PROVE  \E v \in c.User : \E how : (v = u => how = "padded") /\ Conversations(c)!Start(p, u, v, how)
  <2> DEFINE v == Conversations(c)!RecipientById(u, w, s)
  <2>1. Conversations(c)!Start(p, u, v, s)  BY <1>2 DEF Conversations!StartWithUser
  <2>2. v # None  BY <2>1 DEF Conversations!Start
  <2>3. v \in c.User /\ (v = u => s = "padded")
    BY <2>2 DEF Conversations!RecipientById, Conversations!Assumptions
  <2> HIDE DEF v
  <2> QED  BY <2>1, <2>3
<1> QED  BY <1>1, <1>2

LEMMA AskedStep ==
  ASSUME NEW c, Conversations(c)!Assumptions, TalkInv(c), AskedInv(c), Conversations(c)!Next
  PROVE  AskedInv(c)'
<1>1. ASSUME NEW p \in c.Web, NEW u \in c.User, NEW v \in c.User, NEW how, v = u => how = "padded",
             Conversations(c)!Start(p, u, v, how)
      PROVE  AskedInv(c)'
  <2>1. CASE Conversations(c)!Existing(u, v) # {}
    <3> DEFINE i == Conversations(c)!Max(Conversations(c)!Existing(u, v))
    <3>1. answer' = [asker |-> u, asked |-> v, how |-> how, conversation |-> i] /\ UNCHANGED <<asking, members>>
      BY <1>1, <2>1 DEF Conversations!Start
    <3>2. i \in DOMAIN members /\ u \in members[i] /\ v \in members[i]  BY <2>1, NewestOfBoth
    <3> HIDE DEF i
    <3>3. u # v => members[i] = {u, v}  BY <3>2 DEF TalkInv, Couple
    <3>4. /\ answer'.asker = u /\ answer'.asked = v /\ answer'.how = how /\ answer'.conversation = i
      BY <3>1
    <3> QED  BY <1>1, <3>1, <3>2, <3>3, <3>4 DEF AskedInv, Conversations!AnswerIsBoth
  <2>2. CASE Conversations(c)!Existing(u, v) = {}
    <3>1. /\ asking' = [asking EXCEPT ![p] = [at |-> "create", asker |-> u, asked |-> v, how |-> how]]
          /\ UNCHANGED <<answer, members>>
      BY <1>1, <2>2 DEF Conversations!Start
    <3>2. \A q \in c.Web :
             asking'[q].at = "create" /\ asking'[q].asker = asking'[q].asked => asking'[q].how = "padded"
      BY <1>1, <3>1 DEF TalkInv, AskedInv
    <3> QED  BY <3>1, <3>2 DEF AskedInv, Conversations!AnswerIsBoth
  <2> QED  BY <2>1, <2>2
<1>still. ASSUME DOMAIN members \subseteq DOMAIN members', \A i \in DOMAIN members : members'[i] = members[i],
                 UNCHANGED answer
          PROVE  Conversations(c)!AnswerIsBoth'
  BY <1>still DEF AskedInv, TalkInv, Conversations!AnswerIsBoth
<1>2. ASSUME NEW p \in c.Web, Conversations(c)!Create(p) PROVE AskedInv(c)'
  <2> DEFINE r == asking[p]
             n == Conversations(c)!Cardinality(DOMAIN members) + 1
  <2>1. r.at = "create" /\ asking' = [asking EXCEPT ![p] = Conversations(c)!Idle]
    BY <1>2 DEF Conversations!Create
  <2>2. \A q \in c.Web : asking'[q].at = "create" => asking'[q] = asking[q]
    BY <2>1 DEF TalkInv, Conversations!Idle
  <2>3. CASE r.asker = r.asked
    <3>1. UNCHANGED <<members, answer>>  BY <1>2, <2>3 DEF Conversations!Create
    <3> QED  BY <1>still, <2>2, <3>1 DEF AskedInv
  <2>4. CASE r.asker # r.asked
    <3>1. /\ members' = [j \in 1..n |-> IF j = n THEN {r.asker, r.asked} ELSE members[j]]
          /\ answer' = [asker |-> r.asker, asked |-> r.asked, how |-> r.how, conversation |-> n]
      BY <1>2, <2>4 DEF Conversations!Create, Conversations!Conversation
    <3>2. n \in Nat \ {0}  BY TalkNumbers
    <3> HIDE DEF n
    <3>3. members'[n] = {r.asker, r.asked}  BY <3>1, <3>2
    <3>4. answer'.asker = r.asker /\ answer'.asked = r.asked /\ answer'.conversation = n  BY <3>1
    <3> QED  BY <2>2, <3>3, <3>4 DEF AskedInv, Conversations!AnswerIsBoth
  <2> QED  BY <2>3, <2>4
<1>3. ASSUME UNCHANGED <<members, answer>>, \A p \in c.Web : asking'[p].at = "create" => asking'[p] = asking[p]
      PROVE  AskedInv(c)'
  BY <1>3 DEF AskedInv, Conversations!AnswerIsBoth
<1>4. ASSUME NEW p \in c.Web, Conversations(c)!Abort(p) PROVE AskedInv(c)'
  BY <1>3, <1>4 DEF Conversations!Abort, Conversations!Idle, TalkInv
<1> QED
  BY <1>1, <1>2, <1>3, <1>4, AskedStart
     DEF Conversations!Next, Conversations!StartNext, Conversations!Disappear, Conversations!Send

\* The sets that are counted are finite.
LEMMA TwinsFinite ==
  ASSUME NEW c, Conversations(c)!Assumptions, TalkInv(c), NEW u, NEW v
  PROVE  /\ IsFiniteSet(Conversations(c)!Between(u, v)) /\ IsFiniteSet(Creating(c, u, v))
         /\ Cardinality(Conversations(c)!Between(u, v)) \in Nat /\ Cardinality(Creating(c, u, v)) \in Nat
         /\ Cardinality(c.Web) \in Nat /\ Cardinality(Creating(c, u, v)) <= Cardinality(c.Web)
<1>1. IsFiniteSet(c.Web)
  BY DEF Conversations!Assumptions, Conversations!IsFiniteSet, IsFiniteSet
<1>2. Creating(c, u, v) \subseteq c.Web  BY DEF Creating
<1>3. IsFiniteSet(DOMAIN members)
  <2>1. PICK n \in 0..c.MaxConversations : DOMAIN members = 1..n  BY DEF TalkInv
  <2>2. n \in Nat  BY DEF Conversations!Assumptions
  <2> QED  BY <2>1, <2>2, FS_Interval
<1>4. Conversations(c)!Between(u, v) \subseteq DOMAIN members
  BY DEF Conversations!Between, Conversations!Conversation
<1>5. /\ IsFiniteSet(Conversations(c)!Between(u, v)) /\ IsFiniteSet(Creating(c, u, v))
      /\ Cardinality(Creating(c, u, v)) <= Cardinality(c.Web)
  BY <1>1, <1>2, <1>3, <1>4, FS_Subset
<1> QED  BY <1>1, <1>5, FS_CardinalityType

LEMMA TwinsStep ==
  ASSUME NEW c, Conversations(c)!Assumptions, TalkInv(c), TwinsInv(c), Conversations(c)!Next
  PROVE  TwinsInv(c)'
<1>stay. ASSUME NEW u, NEW v,
                Conversations(c)!Between(u, v) # {} =>
                  Cardinality(Conversations(c)!Between(u, v)) + Cardinality(Creating(c, u, v))
                    <= Cardinality(c.Web),
                Conversations(c)!Between(u, v)' = Conversations(c)!Between(u, v),
                Conversations(c)!Between(u, v) = {} \/ Creating(c, u, v)' \subseteq Creating(c, u, v)
         PROVE  (Conversations(c)!Between(u, v) # {} =>
                  Cardinality(Conversations(c)!Between(u, v)) + Cardinality(Creating(c, u, v))
                    <= Cardinality(c.Web))'
  <2> DEFINE B == Conversations(c)!Between(u, v)  E == Creating(c, u, v)  F == Creating(c, u, v)'
  <2>1. /\ IsFiniteSet(B) /\ IsFiniteSet(E) /\ Cardinality(B) \in Nat /\ Cardinality(E) \in Nat
        /\ Cardinality(c.Web) \in Nat
    BY TwinsFinite
  <2>2. B # {} => Cardinality(B) + Cardinality(E) <= Cardinality(c.Web)  BY <1>stay
  <2>3. B = {} \/ F \subseteq E  BY <1>stay
  <2> HIDE DEF B, E, F
  <2>4. ASSUME B # {} PROVE Cardinality(B) + Cardinality(F) <= Cardinality(c.Web)
    <3>1. IsFiniteSet(F) /\ Cardinality(F) <= Cardinality(E)  BY <2>1, <2>3, <2>4, FS_Subset
    <3>2. Cardinality(F) \in Nat  BY <3>1, FS_CardinalityType
    <3> QED  BY <2>1, <2>2, <2>4, <3>1, <3>2
  <2>5. Conversations(c)!Between(u, v)' = B  BY <1>stay DEF B
  <2> QED  BY <2>4, <2>5 DEF F
<1>keep. ASSUME UNCHANGED members,
                \A u, v \in c.User : \/ Conversations(c)!Between(u, v) = {}
                                     \/ Creating(c, u, v)' \subseteq Creating(c, u, v)
         PROVE  TwinsInv(c)'
  <2>1. \A u, v : Conversations(c)!Between(u, v)' = Conversations(c)!Between(u, v)
    BY <1>keep DEF Conversations!Between, Conversations!Conversation
  <2> SUFFICES ASSUME NEW u \in c.User, NEW v \in c.User
               PROVE  (Conversations(c)!Between(u, v) # {} =>
                         Cardinality(Conversations(c)!Between(u, v)) + Cardinality(Creating(c, u, v))
                           <= Cardinality(c.Web))'
    BY DEF TwinsInv
  <2> QED  BY <1>keep, <1>stay, <2>1 DEF TwinsInv
<1>1. ASSUME NEW p \in c.Web, NEW u, NEW v, NEW how, Conversations(c)!Start(p, u, v, how) PROVE TwinsInv(c)'
  <2>1. CASE Conversations(c)!Existing(u, v) # {}
    <3>1. UNCHANGED <<asking, members>>  BY <1>1, <2>1 DEF Conversations!Start
    <3>2. \A x, y : Creating(c, x, y)' = Creating(c, x, y)  BY <3>1 DEF Creating
    <3> QED  BY <1>keep, <3>1, <3>2
  <2>2. CASE Conversations(c)!Existing(u, v) = {}
    <3>1. /\ asking' = [asking EXCEPT ![p] = [at |-> "create", asker |-> u, asked |-> v, how |-> how]]
          /\ UNCHANGED members
      BY <1>1, <2>2 DEF Conversations!Start
    <3>2. \A i \in DOMAIN members : ~({u, v} \subseteq members[i])
      BY <2>2 DEF Conversations!Existing, Conversations!Of, Conversations!Conversation
    <3>3. ASSUME NEW x \in c.User, NEW y \in c.User
          PROVE  \/ Conversations(c)!Between(x, y) = {}
                 \/ Creating(c, x, y)' \subseteq Creating(c, x, y)
      <4>1. CASE {x, y} = {u, v}
        BY <3>2, <4>1 DEF Conversations!Between, Conversations!Conversation
      <4>2. CASE {x, y} # {u, v}
        <5>1. asking'[p].asker = u /\ asking'[p].asked = v /\ \A q \in c.Web : q # p => asking'[q] = asking[q]
          BY <3>1 DEF TalkInv
        <5> QED  BY <4>2, <5>1 DEF Creating
      <4> QED  BY <4>1, <4>2
    <3> QED  BY <1>keep, <3>1, <3>3
  <2> QED  BY <2>1, <2>2
<1>less. ASSUME UNCHANGED members, \A p \in c.Web : asking'[p].at = "create" => asking'[p] = asking[p]
         PROVE  TwinsInv(c)'
  <2>1. \A x, y : Creating(c, x, y)' \subseteq Creating(c, x, y)  BY <1>less DEF Creating
  <2> QED  BY <1>keep, <1>less, <2>1
<1>2. ASSUME NEW p \in c.Web, Conversations(c)!Create(p) PROVE TwinsInv(c)'
  <2> DEFINE r == asking[p]
             n == Conversations(c)!Cardinality(DOMAIN members) + 1
             S == {r.asker, r.asked}
  <2>1. r.at = "create" /\ asking' = [asking EXCEPT ![p] = Conversations(c)!Idle]
    BY <1>2 DEF Conversations!Create
  <2>2. \A q \in c.Web : asking'[q].at = "create" => asking'[q] = asking[q]
    BY <2>1 DEF TalkInv, Conversations!Idle
  <2>3. CASE UNCHANGED members  BY <1>less, <2>2, <2>3
  <2>4. CASE members' = [j \in 1..n |-> IF j = n THEN S ELSE members[j]]
    <3>1. n \in Nat \ {0} /\ DOMAIN members = 1..(n - 1)  BY TalkNumbers
    <3> HIDE DEF n, S
    <3>2. DOMAIN members' = DOMAIN members \cup {n} /\ n \notin DOMAIN members  BY <2>4, <3>1
    <3>3. members'[n] = S /\ \A i \in DOMAIN members : members'[i] = members[i]  BY <2>4, <3>1
    <3>4. ASSUME NEW u \in c.User, NEW v \in c.User
          PROVE  (Conversations(c)!Between(u, v) # {} =>
                    Cardinality(Conversations(c)!Between(u, v)) + Cardinality(Creating(c, u, v))
                      <= Cardinality(c.Web))'
      <4>1. CASE {u, v} # S
        <5>1. Conversations(c)!Between(u, v)' = Conversations(c)!Between(u, v)
          BY <3>2, <3>3, <4>1 DEF Conversations!Between, Conversations!Conversation
        <5>2. Creating(c, u, v)' \subseteq Creating(c, u, v)  BY <2>2 DEF Creating
        <5> QED  BY <1>stay, <5>1, <5>2 DEF TwinsInv
      <4>2. CASE {u, v} = S
        <5> DEFINE B == Conversations(c)!Between(u, v)  E == Creating(c, u, v)
        <5>1. Conversations(c)!Between(u, v)' = B \cup {n} /\ n \notin B
          BY <3>2, <3>3, <4>2 DEF Conversations!Between, Conversations!Conversation
        <5>2. Creating(c, u, v)' = E \ {p} /\ p \in E
          BY <2>1, <2>2, <4>2 DEF Creating, S, TalkInv, Conversations!Idle
        <5>3. /\ IsFiniteSet(B) /\ IsFiniteSet(E) /\ Cardinality(B) \in Nat /\ Cardinality(E) \in Nat
              /\ Cardinality(c.Web) \in Nat /\ Cardinality(E) <= Cardinality(c.Web)
          BY TwinsFinite
        <5>4. B # {} => Cardinality(B) + Cardinality(E) <= Cardinality(c.Web)  BY DEF TwinsInv
        <5> HIDE DEF B, E
        <5>5. Cardinality(B \cup {n}) = Cardinality(B) + 1 /\ Cardinality(E \ {p}) = Cardinality(E) - 1
          BY <5>1, <5>2, <5>3, FS_AddElement, FS_RemoveElement
        <5>6. B = {} => Cardinality(B) = 0  BY FS_EmptySet
        <5> QED  BY <5>1, <5>2, <5>3, <5>4, <5>5, <5>6
      <4> QED  BY <4>1, <4>2
    <3> QED  BY <3>4 DEF TwinsInv
  <2> QED  BY <1>2, <2>3, <2>4 DEF Conversations!Create, Conversations!Conversation
<1>3. ASSUME NEW p \in c.Web, Conversations(c)!Abort(p) PROVE TwinsInv(c)'
  BY <1>3, <1>less DEF Conversations!Abort, Conversations!Idle, TalkInv
<1>4. CASE UNCHANGED <<members, asking>>  BY <1>less, <1>4
<1> QED
  BY <1>1, <1>2, <1>3, <1>4
     DEF Conversations!Next, Conversations!StartNext, Conversations!Disappear, Conversations!Send,
         Conversations!StartWithBusiness, Conversations!StartWithUser

\* The conversations of two accounts are no more than the processes.
LEMMA TwinsShow ==
  ASSUME NEW c, Conversations(c)!Assumptions, TalkInv(c), TwinsInv(c)
  PROVE  Conversations(c)!TwinsOnlyTogether
<1>1. ASSUME NEW u \in c.User, NEW v \in c.User
      PROVE  Conversations(c)!Cardinality(Conversations(c)!Between(u, v)) <= Conversations(c)!Cardinality(c.Web)
  <2> DEFINE B == Conversations(c)!Between(u, v)  E == Creating(c, u, v)
  <2>1. Cardinality(B) \in Nat /\ Cardinality(E) \in Nat /\ Cardinality(c.Web) \in Nat  BY TwinsFinite
  <2>2. B # {} => Cardinality(B) + Cardinality(E) <= Cardinality(c.Web)  BY DEF TwinsInv
  <2> HIDE DEF B, E
  <2>3. B = {} => Cardinality(B) = 0  BY FS_EmptySet
  <2>4. Cardinality(B) <= Cardinality(c.Web)  BY <2>1, <2>2, <2>3
  <2> QED  BY <2>4, TalkCardinality DEF B
<1> QED  BY <1>1 DEF Conversations!TwinsOnlyTogether

LEMMA TalkStutter ==
  ASSUME NEW c, UNCHANGED Conversations(c)!vars
  PROVE  /\ TalkInv(c) => TalkInv(c)'
         /\ AskedInv(c) => AskedInv(c)'
         /\ TwinsInv(c) => TwinsInv(c)'
<1>1. \A u, v : /\ Conversations(c)!Between(u, v)' = Conversations(c)!Between(u, v)
                /\ Creating(c, u, v)' = Creating(c, u, v)
  BY DEF Conversations!Between, Conversations!Conversation, Creating, Conversations!vars
<1>2. TwinsInv(c) => TwinsInv(c)'  BY <1>1 DEF TwinsInv
<1> QED  BY <1>2 DEF TalkInv, Says, Couple, AskedInv, Conversations!AnswerIsBoth, Conversations!vars

LEMMA TalkShows ==
  ASSUME NEW c, Conversations(c)!Assumptions, TalkInv(c)
  PROVE  Conversations(c)!TypeOK /\ Conversations(c)!NeverBlank /\ Conversations(c)!ClassifyRight
<1>1. Conversations(c)!TypeOK
  <2>1. \A i \in DOMAIN members : members[i] \subseteq c.User /\ Conversations(c)!Cardinality(members[i]) = 2
    <3>1. ASSUME NEW i \in DOMAIN members
          PROVE  members[i] \subseteq c.User /\ Cardinality(members[i]) = 2
      <4>1. PICK u, v \in c.User : u # v /\ members[i] = {u, v}  BY DEF TalkInv, Couple
      <4>2. Cardinality({u}) = 1 /\ IsFiniteSet({u})  BY FS_Singleton
      <4>3. {u, v} = {u} \cup {v} /\ v \notin {u}  BY <4>1
      <4>4. Cardinality({u} \cup {v}) = 2  BY <4>2, <4>3, FS_AddElement
      <4> QED  BY <4>1, <4>3, <4>4
    <3> QED  BY <3>1, TalkCardinality
  <2>2. \A p \in c.Web : asking[p].at \in {"idle", "create"}  BY DEF TalkInv, Conversations!Idle
  <2> QED  BY <2>1, <2>2 DEF TalkInv, Says, Conversations!TypeOK, Conversations!Conversation
<1>2. ASSUME NEW m \in DOMAIN message PROVE Conversations(c)!push_body(message[m]) # None
  <2>1. Says(c, message[m])  BY DEF TalkInv
  <2>2. CASE message[m].text
    BY <2>1, <2>2 DEF Says, Conversations!push_body, Conversations!Assumptions
  <2>3. CASE ~message[m].text /\ message[m].mediaType # None
    BY <2>1, <2>3 DEF Says, Conversations!push_body
  <2>4. CASE ~message[m].text /\ message[m].mediaType = None
    BY <2>1, <2>4 DEF Says, Conversations!push_body
  <2> QED  BY <2>1, <2>2, <2>3, <2>4 DEF Says
<1>3. Conversations(c)!ClassifyRight
  BY Classified DEF Conversations!ClassifyRight, TalkInv, Says
<1> QED  BY <1>1, <1>2, <1>3 DEF Conversations!NeverBlank

-----------------------------------------------------------------------------
(* Pages of one order                                                      *)

\* The queries and their pages, apart from who reads them.
Keys == INSTANCE Keyset WITH Nobody <- None

\* The instance's Cardinality is that of FiniteSets.
LEMMA KeysCardinality == ASSUME NEW S PROVE Keys!Cardinality(S) = Cardinality(S)
  BY DEF Keys!Cardinality, Cardinality

UpTo(x, y) == x = y \/ Keys!Before(x, y)

\* Entries are in one order: of two, one is first.
LEMMA BeforeOrders ==
  ASSUME NEW x \in Keys!Entry, NEW y \in Keys!Entry, NEW z \in Keys!Entry
  PROVE  /\ ~Keys!Before(x, x)
         /\ Keys!Before(x, y) /\ Keys!Before(y, z) => Keys!Before(x, z)
         /\ x = y \/ Keys!Before(x, y) \/ Keys!Before(y, x)
<1>1. \A e \in {x, y, z} : /\ e = [featured |-> e.featured, at |-> e.at, kind |-> e.kind, id |-> e.id]
                           /\ e.featured \in BOOLEAN /\ e.at \in Int /\ e.kind \in Int /\ e.id \in Int
  BY DEF Keys!Entry, Keys!Kind
<1>2. ~Keys!Before(x, x)  BY <1>1 DEF Keys!Before, Keys!ByTime
<1>3. Keys!Before(x, y) /\ Keys!Before(y, z) => Keys!Before(x, z)
  BY <1>1 DEF Keys!Before, Keys!ByTime
<1>4. ASSUME ~Keys!Before(x, y), ~Keys!Before(y, x) PROVE x = y
  <2>1. x.featured = y.featured /\ x.at = y.at /\ x.kind = y.kind /\ x.id = y.id
    BY <1>1, <1>4 DEF Keys!Before, Keys!ByTime
  <2> QED  BY <1>1, <2>1
<1> QED  BY <1>2, <1>3, <1>4

\* A query resumes strictly after the cursor, in the order of the merge.
LEMMA ResumesAfter ==
  ASSUME NEW x \in Keys!Entry, NEW y \in Keys!Entry
  PROVE  Keys!FeaturedRowsAfter(x, y) <=> Keys!Before(y, x)
<1>1. \A e \in {x, y} : /\ e.featured \in BOOLEAN /\ e.at \in Int /\ e.kind \in Int /\ e.id \in Int
  BY DEF Keys!Entry, Keys!Kind
<1>2. Keys!RowsAfter(x, y) <=> Keys!ByTime(y, x)  BY <1>1 DEF Keys!RowsAfter, Keys!ByTime
<1> QED  BY <1>1, <1>2 DEF Keys!FeaturedRowsAfter, Keys!Before

\* The entries before x, of a finite set.
Ahead(S, x) == {y \in S : Keys!Before(y, x)}
LEMMA AheadCounts ==
  ASSUME NEW S \in SUBSET Keys!Entry, IsFiniteSet(S), NEW x \in Keys!Entry
  PROVE  /\ IsFiniteSet(Ahead(S, x)) /\ Cardinality(Ahead(S, x)) \in Nat
         /\ \A y \in S : Keys!Before(y, x) => Cardinality(Ahead(S, y)) < Cardinality(Ahead(S, x))
<1>1. \A y \in Keys!Entry : IsFiniteSet(Ahead(S, y)) /\ Cardinality(Ahead(S, y)) \in Nat
  <2>1. \A y \in Keys!Entry : Ahead(S, y) \in SUBSET S  BY DEF Ahead
  <2> QED  BY <2>1, FS_Subset, FS_CardinalityType
<1>2. ASSUME NEW y \in S, Keys!Before(y, x) PROVE Cardinality(Ahead(S, y)) < Cardinality(Ahead(S, x))
  <2>1. Ahead(S, y) \in SUBSET Ahead(S, x)  BY <1>2, BeforeOrders DEF Ahead
  <2>2. y \in Ahead(S, x) /\ y \notin Ahead(S, y)  BY <1>2, BeforeOrders DEF Ahead
  <2>3. Cardinality(Ahead(S, y)) <= Cardinality(Ahead(S, x)) /\ Cardinality(Ahead(S, y)) # Cardinality(Ahead(S, x))
    BY <1>1, <2>1, <2>2, FS_Subset
  <2>4. Cardinality(Ahead(S, y)) \in Nat /\ Cardinality(Ahead(S, x)) \in Nat  BY <1>1
  <2> QED  BY <2>3, <2>4
<1> QED  BY <1>1, <1>2

LEMMA FirstIs ==
  ASSUME NEW S, NEW n PROVE Keys!First(S, n) = {x \in S : Cardinality(Ahead(S, x)) < n}
BY KeysCardinality DEF Keys!First, Ahead

\* A set of entries that is not empty has a first one.
LEMMA HasFirst ==
  ASSUME NEW S \in SUBSET Keys!Entry, IsFiniteSet(S), S # {}
  PROVE  \E x \in S : \A y \in S : UpTo(x, y)
<1> DEFINE T == {Cardinality(Ahead(S, x)) : x \in S}
<1>1. T \in SUBSET Nat /\ T # {}  BY AheadCounts
<1> HIDE DEF T
<1>2. PICK m \in T : \A k \in T : m <= k  BY <1>1, Least
<1> USE DEF T
<1>3. PICK x \in S : m = Cardinality(Ahead(S, x))  OBVIOUS
<1>4. ASSUME NEW y \in S PROVE UpTo(x, y)
  <2>1. Cardinality(Ahead(S, x)) <= Cardinality(Ahead(S, y))  BY <1>2, <1>3
  <2>2. Cardinality(Ahead(S, x)) \in Nat /\ Cardinality(Ahead(S, y)) \in Nat  BY AheadCounts
  <2>3. ~Keys!Before(y, x)
    <3>1. SUFFICES ASSUME Keys!Before(y, x) PROVE FALSE  OBVIOUS
    <3>2. Cardinality(Ahead(S, y)) < Cardinality(Ahead(S, x))  BY <3>1, AheadCounts
    <3> QED  BY <2>1, <2>2, <3>2
  <2> QED  BY <2>3, BeforeOrders DEF UpTo
<1> QED  BY <1>4

\* ... and a last one, which is the one the cursor keeps.
LEMMA HasLast ==
  ASSUME NEW S \in SUBSET Keys!Entry, IsFiniteSet(S), S # {}
  PROVE  Keys!Last(S) \in S /\ \A y \in S : UpTo(y, Keys!Last(S))
<1> DEFINE After(x) == {y \in S : Keys!Before(x, y)}
           T == {Cardinality(After(x)) : x \in S}
<1>1. \A x \in S : IsFiniteSet(After(x)) /\ Cardinality(After(x)) \in Nat
  <2>1. \A x \in S : After(x) \in SUBSET S  OBVIOUS
  <2> HIDE DEF After
  <2> QED  BY <2>1, FS_Subset, FS_CardinalityType
<1>2. T \in SUBSET Nat /\ T # {}
  <2> HIDE DEF After
  <2> QED  BY <1>1
<1> HIDE DEF T
<1>3. PICK m \in T : \A k \in T : m <= k  BY <1>2, Least
<1> USE DEF T
<1>4. PICK x \in S : m = Cardinality(After(x))  OBVIOUS
<1>5. ASSUME NEW y \in S, Keys!Before(x, y) PROVE FALSE
  <2>1. After(y) \in SUBSET After(x)  BY <1>5, BeforeOrders
  <2>2. y \in After(x) /\ y \notin After(y)  BY <1>5, BeforeOrders
  <2> HIDE DEF After
  <2>3. Cardinality(After(y)) <= Cardinality(After(x)) /\ Cardinality(After(y)) # Cardinality(After(x))
    BY <1>1, <2>1, <2>2, FS_Subset
  <2>4. Cardinality(After(x)) <= Cardinality(After(y))  BY <1>3, <1>4
  <2>5. Cardinality(After(x)) \in Nat /\ Cardinality(After(y)) \in Nat  BY <1>1
  <2> QED  BY <2>3, <2>4, <2>5
<1>6. \A y \in S : y = x \/ Keys!Before(y, x)  BY <1>5, BeforeOrders
<1> QED  BY <1>6 DEF Keys!Last, UpTo

\* What is first is everything before it too, and everything if there is room for more.
LEMMA FirstCut ==
  ASSUME NEW S \in SUBSET Keys!Entry, IsFiniteSet(S), NEW n \in Int
  PROVE  LET F == Keys!First(S, n) IN
         /\ F \subseteq S /\ IsFiniteSet(F) /\ Cardinality(F) \in Nat
         /\ \A x \in F, y \in S : Keys!Before(y, x) => y \in F
         /\ Cardinality(F) < n => F = S
         /\ F # {} => n > 0
<1> DEFINE F == Keys!First(S, n)
<1>0. F = {x \in S : Cardinality(Ahead(S, x)) < n}  BY FirstIs
<1> HIDE DEF F
<1>1. F \subseteq S /\ IsFiniteSet(F) /\ Cardinality(F) \in Nat
  <2>1. F \in SUBSET S  BY <1>0
  <2> QED  BY <2>1, FS_Subset, FS_CardinalityType
<1>2. ASSUME NEW x \in F, NEW y \in S, Keys!Before(y, x) PROVE y \in F
  <2>1. Cardinality(Ahead(S, y)) < Cardinality(Ahead(S, x)) /\ Cardinality(Ahead(S, x)) < n
    BY <1>0, <1>2, AheadCounts
  <2>2. Cardinality(Ahead(S, y)) \in Nat /\ Cardinality(Ahead(S, x)) \in Nat  BY <1>0, AheadCounts
  <2> QED  BY <1>0, <2>1, <2>2
<1>3. ASSUME Cardinality(F) < n, F # S PROVE FALSE
  <2> DEFINE R == S \ F
  <2>1. R # {} /\ R \in SUBSET Keys!Entry  BY <1>1, <1>3
  <2>2. IsFiniteSet(R)
    <3>1. R \in SUBSET S  OBVIOUS
    <3> HIDE DEF R
    <3> QED  BY <3>1, FS_Subset
  <2> HIDE DEF R
  <2>3. PICK z \in R : \A y \in R : UpTo(z, y)  BY <2>1, <2>2, HasFirst
  <2> USE DEF R
  <2>4. Ahead(S, z) \in SUBSET F
    <3>1. ASSUME NEW y \in S, Keys!Before(y, z) PROVE y \in F
      <4>1. SUFFICES ASSUME y \in R PROVE FALSE  OBVIOUS
      <4>2. UpTo(z, y)  BY <2>3, <4>1
      <4> QED  BY <3>1, <4>2, BeforeOrders DEF UpTo
    <3> QED  BY <3>1 DEF Ahead
  <2>5. Cardinality(Ahead(S, z)) <= Cardinality(F)  BY <1>1, <2>4, FS_Subset
  <2>6. Cardinality(Ahead(S, z)) \in Nat  BY AheadCounts
  <2>7. Cardinality(Ahead(S, z)) < n  BY <1>1, <1>3, <2>5, <2>6
  <2> QED  BY <1>0, <2>7
<1>4. ASSUME NEW x \in F PROVE n > 0
  <2>1. Cardinality(Ahead(S, x)) \in Nat /\ Cardinality(Ahead(S, x)) < n  BY <1>0, AheadCounts
  <2> QED  BY <2>1
<1> QED  BY <1>1, <1>2, <1>3, <1>4 DEF F

\* Cutting each table to a page before the merge loses nothing.
THEOREM MergeLosesNothing ==
  ASSUME NEW S \in SUBSET Keys!Entry, IsFiniteSet(S), NEW n \in Int
  PROVE  Keys!Merged(S, n) = Keys!First(S, n)
<1> DEFINE Table(k) == {x \in S : x.kind = k}
           U == UNION {Keys!First(Table(k), n) : k \in Keys!Kind}
           F == Keys!First(S, n)
<1>1. \A k : Table(k) \in SUBSET S /\ Table(k) \in SUBSET Keys!Entry  OBVIOUS
<1>2. \A k : IsFiniteSet(Table(k))
  <2> HIDE DEF Table
  <2> QED  BY <1>1, FS_Subset
<1>3. \A x \in S : x.kind \in Keys!Kind /\ x \in Table(x.kind)  BY DEF Keys!Entry
<1>4. Keys!Merged(S, n) = Keys!First(U, n)  BY DEF Keys!Merged
<1>5. U \in SUBSET S /\ IsFiniteSet(U) /\ U \in SUBSET Keys!Entry
  <2>1. ASSUME NEW k PROVE Keys!First(Table(k), n) \subseteq S
    <3> HIDE DEF Table
    <3> QED  BY <1>1, <1>2, FirstCut
  <2>2. U \in SUBSET S  BY <2>1
  <2> HIDE DEF U
  <2> QED  BY <2>2, FS_Subset
<1>6. ASSUME NEW x \in F PROVE x \in U
  <2>1. x \in S /\ Cardinality(Ahead(S, x)) < n  BY FirstIs
  <2> DEFINE k == x.kind
  <2>2. k \in Keys!Kind /\ x \in Table(k)  BY <1>3, <2>1
  <2>3. Ahead(Table(k), x) \in SUBSET Ahead(S, x)  BY DEF Ahead
  <2> HIDE DEF Table, k, U, F
  <2>4. Cardinality(Ahead(Table(k), x)) <= Cardinality(Ahead(S, x))
    BY <2>1, <2>3, AheadCounts, FS_Subset
  <2>5. Cardinality(Ahead(Table(k), x)) \in Nat /\ Cardinality(Ahead(S, x)) \in Nat
    BY <1>1, <1>2, <2>1, AheadCounts
  <2>6. Cardinality(Ahead(Table(k), x)) < n  BY <2>1, <2>4, <2>5
  <2>7. x \in Keys!First(Table(k), n)  BY <2>2, <2>6, FirstIs
  <2> QED  BY <2>2, <2>7 DEF U
<1> HIDE DEF Table, U
<1>7. ASSUME NEW x \in F PROVE x \in Keys!First(U, n)
  <2>1. x \in S /\ Cardinality(Ahead(S, x)) < n /\ x \in U  BY <1>6, FirstIs
  <2>2. Ahead(U, x) \in SUBSET Ahead(S, x)  BY <1>5 DEF Ahead
  <2>3. Cardinality(Ahead(U, x)) <= Cardinality(Ahead(S, x))  BY <2>1, <2>2, AheadCounts, FS_Subset
  <2>4. Cardinality(Ahead(U, x)) \in Nat /\ Cardinality(Ahead(S, x)) \in Nat
    BY <1>5, <2>1, AheadCounts
  <2> QED  BY <2>1, <2>3, <2>4, FirstIs
<1>8. ASSUME NEW x \in Keys!First(U, n), x \notin F PROVE FALSE
  <2>1. x \in U /\ x \in S /\ Cardinality(Ahead(U, x)) < n  BY <1>5, FirstIs
  <2>2. /\ F \subseteq S /\ IsFiniteSet(F) /\ Cardinality(F) \in Nat
        /\ \A z \in F, y \in S : Keys!Before(y, z) => y \in F
        /\ Cardinality(F) < n => F = S
    BY FirstCut
  <2> HIDE DEF F
  <2>3. F \in SUBSET Ahead(U, x)
    <3>1. ASSUME NEW y \in F PROVE Keys!Before(y, x)
      BY <1>8, <2>1, <2>2, BeforeOrders
    <3> QED  BY <1>6, <3>1 DEF Ahead, F
  <2>4. Cardinality(F) <= Cardinality(Ahead(U, x)) /\ Cardinality(Ahead(U, x)) \in Nat
    BY <1>5, <2>1, <2>3, AheadCounts, FS_Subset
  <2>5. F = S  BY <2>1, <2>2, <2>4
  <2> QED  BY <1>8, <2>1, <2>5
<1>9. F \subseteq S  BY FirstCut
<1>10. Keys!First(U, n) = F  BY <1>7, <1>8
<1> QED  BY <1>4, <1>10 DEF F

\* A page after a cursor: what is after it, up to the last served; a short one is the rest.
After(x, y) == x = None \/ Keys!Before(x, y)
Page(S, x, n) == Keys!Merged(Keys!Resumed(S, x), n)
THEOREM PageCut ==
  ASSUME NEW S \in SUBSET Keys!Entry, IsFiniteSet(S), NEW n \in Int,
         NEW x \in Keys!Entry \cup {None}, None \notin Keys!Entry
  PROVE  LET P == Page(S, x, n) IN
         /\ P \subseteq S /\ IsFiniteSet(P) /\ Cardinality(P) \in Nat
         /\ \A e \in P : After(x, e)
         /\ Cardinality(P) < n => \A e \in S : After(x, e) => e \in P
         /\ P # {} => /\ n > 0
                      /\ Keys!Last(P) \in P
                      /\ \A e \in S : e \in P <=> After(x, e) /\ UpTo(e, Keys!Last(P))
                      /\ x # None => \A e \in S : UpTo(e, x) => UpTo(e, Keys!Last(P))
<1> DEFINE R == Keys!Resumed(S, x)
           P == Page(S, x, n)
           L == Keys!Last(P)
<1>1. R = {e \in S : After(x, e)}
  BY ResumesAfter DEF Keys!Resumed, After
<1>2. R \in SUBSET S /\ R \in SUBSET Keys!Entry  BY <1>1
<1> HIDE DEF R
<1>3. IsFiniteSet(R)  BY <1>2, FS_Subset
<1>4. P = Keys!First(R, n)  BY <1>2, <1>3, MergeLosesNothing DEF Page, R
<1> HIDE DEF P
<1>5. /\ P \subseteq R /\ IsFiniteSet(P) /\ Cardinality(P) \in Nat
      /\ \A z \in P, y \in R : Keys!Before(y, z) => y \in P
      /\ Cardinality(P) < n => P = R
      /\ P # {} => n > 0
  BY <1>2, <1>3, <1>4, FirstCut
<1>6. ASSUME P # {}
      PROVE  /\ L \in P /\ \A e \in S : e \in P <=> After(x, e) /\ UpTo(e, L)
             /\ x # None => \A e \in S : UpTo(e, x) => UpTo(e, L)
  <2>1. L \in P /\ \A y \in P : UpTo(y, L)
    <3>1. P \in SUBSET Keys!Entry  BY <1>2, <1>5
    <3> QED  BY <1>5, <1>6, <3>1, HasLast
  <2> HIDE DEF L
  <2>2. ASSUME NEW e \in S PROVE e \in P <=> After(x, e) /\ UpTo(e, L)
    BY <1>1, <1>5, <2>1 DEF UpTo
  <2>3. ASSUME NEW e \in S, UpTo(e, x), x # None PROVE UpTo(e, L)
    <3>1. x \in Keys!Entry /\ e \in Keys!Entry /\ L \in Keys!Entry /\ Keys!Before(x, L)
      BY <1>1, <1>2, <1>5, <2>1, <2>3 DEF After
    <3> QED  BY <2>3, <3>1, BeforeOrders DEF UpTo
  <2> QED  BY <2>1, <2>2, <2>3
<1> QED  BY <1>1, <1>5, <1>6 DEF P

-----------------------------------------------------------------------------
(* The feeds: what a page has read of the followed is still so, for what    *)
(* nobody touched, when the rest is read.                                   *)

\* The feeds have the order and the pages of Keyset.
LEMMA FeedKeys ==
  /\ Feeds!Entry = Keys!Entry
  /\ \A S, x, n : Feeds!Merged(Feeds!Resumed(S, x), n) = Page(S, x, n)
  /\ \A S, n : Feeds!Merged(S, n) = Keys!Merged(S, n) /\ Feeds!First(S, n) = Keys!First(S, n)
  /\ \A S : Feeds!Last(S) = Keys!Last(S) /\ Feeds!Cardinality(S) = Cardinality(S)
BY DEF Feeds!Entry, Keys!Entry, Feeds!Kind, Keys!Kind, Page, Feeds!Merged, Keys!Merged, Feeds!First, Keys!First,
       Feeds!Resumed, Keys!Resumed, Feeds!FeaturedRowsAfter, Keys!FeaturedRowsAfter,
       Feeds!RowsAfter, Keys!RowsAfter, Feeds!Before, Keys!Before, Feeds!ByTime, Keys!ByTime,
       Feeds!Last, Keys!Last, Feeds!Cardinality, Keys!Cardinality, Cardinality

AsFollowed(i) == Feeds!EntryOf(i, FALSE)
AsOther(i) == Feeds!EntryOf(i, i.business \in featured)
IsFollowed(i) == i.business \in followed
IsOther(i) == i.business \notin followed \cup {Reading.Own}

\* What a reader has been served of what is there, if the cursor is c.
FeedReach(i, v, c) ==
  /\ i \in published
  /\ \/ /\ v = "home" /\ IsFollowed(i)
        /\ c # None /\ c.phase = "following" => UpTo(AsFollowed(i), c.last)
     \/ /\ IsOther(i)
        /\ c # None => c.phase = "backfill" /\ UpTo(AsOther(i), c.last)

FeedCursor(v, c) ==
  c # None => /\ c.phase \in {"following", "backfill"} /\ c.last \in Keys!Entry
              /\ v = "discover" => c.phase = "backfill"

\* A page P of n after x has the entry e exactly if it is after x and not beyond the last.
Cuts(P, x, n, e) ==
  /\ e \in P => After(x, e)
  /\ Cardinality(P) < n /\ After(x, e) => e \in P
  /\ P # {} => /\ e \in P <=> After(x, e) /\ UpTo(e, Keys!Last(P))
               /\ x # None /\ UpTo(e, x) => UpTo(e, Keys!Last(P))

\* What a page has read of the followed.
PartRead(P, x) ==
  /\ IsFiniteSet(P) /\ (P # {} => Keys!Last(P) \in P)
  /\ \A e \in P : \E j \in Reading.Item : e = AsFollowed(j)
  /\ \A i \in steady : IF i \in published /\ IsFollowed(i)
                       THEN Cuts(P, x, Reading.PageSize, AsFollowed(i)) ELSE AsFollowed(i) \notin P

\* What nobody touched was served exactly if the cursor has passed it, and a page sees it
\* as it still is.
FeedInv ==
  /\ Feeds!TypeOK
  /\ twice \cap steady = {}
  /\ view = "none" => stage = "idle" /\ cursor = None /\ served = {} /\ twice = {}
  /\ view # "none" /\ stage = "idle" => \A i \in steady : i \in served <=> FeedReach(i, view, cursor)
  /\ stage # "idle" =>
       \A i \in steady : /\ i \in served <=> cursor # None /\ FeedReach(i, view, cursor)
                         /\ i.business \in follows <=> IsFollowed(i)
  /\ stage = "following" => part = {} /\ Feeds!Begun(view, cursor) = "following"
  /\ stage = "backfill" =>
       IF Feeds!Begun(view, cursor) = "following" THEN PartRead(part, Feeds!After) ELSE part = {}

LEMMA FeedInit == Feeds!Assumptions /\ Feeds!Init => FeedInv
BY DEF Feeds!Init, FeedInv, Feeds!TypeOK, Feeds!Assumptions

\* An entry is that of one item.
LEMMA FeedItems ==
  ASSUME Feeds!Assumptions, NEW i \in Reading.Item, NEW f \in BOOLEAN
  PROVE  Feeds!EntryOf(i, f) \in Keys!Entry /\ Feeds!ItemOf(Feeds!EntryOf(i, f)) = i
<1>1. i.at \in Int /\ i.kind \in Keys!Kind /\ i.id \in Int
  BY DEF Feeds!Assumptions, Feeds!Kind, Keys!Kind
<1>2. \A j \in Reading.Item : j.kind = i.kind /\ j.id = i.id => j = i
  BY DEF Feeds!Assumptions, Feeds!KeysUnique
<1>3. Feeds!EntryOf(i, f) = [featured |-> f, at |-> i.at, kind |-> i.kind, id |-> i.id]
  BY DEF Feeds!EntryOf
<1>4. Feeds!EntryOf(i, f) \in Keys!Entry  BY <1>1, <1>3 DEF Keys!Entry
<1>5. Feeds!ItemOf(Feeds!EntryOf(i, f)) = i  BY <1>2, <1>3 DEF Feeds!ItemOf
<1> QED  BY <1>4, <1>5

LEMMA FeedEntries ==
  ASSUME Feeds!Assumptions, NEW i \in Reading.Item
  PROVE  /\ AsFollowed(i) \in Keys!Entry /\ Feeds!ItemOf(AsFollowed(i)) = i
         /\ AsOther(i) \in Keys!Entry /\ Feeds!ItemOf(AsOther(i)) = i
<1>1. AsFollowed(i) \in Keys!Entry /\ Feeds!ItemOf(AsFollowed(i)) = i
  BY FeedItems DEF AsFollowed
<1>2. CASE i.business \in featured
  <2>1. AsOther(i) = Feeds!EntryOf(i, TRUE)  BY <1>2 DEF AsOther, Feeds!EntryOf
  <2> QED  BY <1>1, <2>1, FeedItems
<1>3. CASE i.business \notin featured
  <2>0. (i.business \in featured) = FALSE  BY <1>3
  <2>1. AsOther(i) = Feeds!EntryOf(i, FALSE)  BY <2>0, Zenon DEF AsOther
  <2> QED  BY <1>1, <2>1, FeedItems
<1> QED  BY <1>2, <1>3

\* The tiers of a list are finite sets of entries, those of their items.
LEMMA FeedTiers ==
  ASSUME Feeds!Assumptions, Feeds!TypeOK, NEW list
  PROVE  /\ Feeds!Following(list) \in SUBSET Keys!Entry /\ IsFiniteSet(Feeds!Following(list))
         /\ Feeds!Backfill(list) \in SUBSET Keys!Entry /\ IsFiniteSet(Feeds!Backfill(list))
         /\ \A i \in Reading.Item :
              /\ AsFollowed(i) \in Feeds!Following(list) <=> i \in published /\ i.business \in list
              /\ AsOther(i) \in Feeds!Backfill(list) <=> i \in published /\ i.business \notin list \cup {Reading.Own}
         /\ \A e \in Feeds!Following(list) : \E j \in Reading.Item : e = AsFollowed(j)
         /\ \A e \in Feeds!Backfill(list) : \E j \in Reading.Item : e = AsOther(j)
<1> DEFINE F == {j \in published : j.business \in list}
           B == {j \in published : j.business \notin list \cup {Reading.Own}}
<1>1. published \subseteq Reading.Item /\ IsFiniteSet(Reading.Item)
  BY DEF Feeds!TypeOK, Feeds!Assumptions, Feeds!IsFiniteSet, IsFiniteSet
<1>2. F \in SUBSET Reading.Item /\ B \in SUBSET Reading.Item  BY <1>1
<1>3. IsFiniteSet(F) /\ IsFiniteSet(B)  BY <1>1, <1>2, FS_Subset
<1>4. \A i \in Reading.Item : /\ AsFollowed(i) \in Keys!Entry /\ Feeds!ItemOf(AsFollowed(i)) = i
                              /\ AsOther(i) \in Keys!Entry /\ Feeds!ItemOf(AsOther(i)) = i
  BY FeedEntries
<1>5. Feeds!Following(list) = {AsFollowed(i) : i \in F} /\ Feeds!Backfill(list) = {AsOther(i) : i \in B}
  BY DEF Feeds!Following, Feeds!Backfill, AsFollowed, AsOther
<1>f. \A i : /\ i \in F <=> i \in published /\ i.business \in list
             /\ i \in B <=> i \in published /\ i.business \notin list \cup {Reading.Own}
  OBVIOUS
<1> HIDE DEF F, B
<1>6. IsFiniteSet(Feeds!Following(list))
  <2> DEFINE g == [i \in F |-> AsFollowed(i)]
  <2>1. g \in Surjection(F, Feeds!Following(list))  BY <1>5 DEF Surjection
  <2> QED  BY <1>3, <2>1, FS_Surjection
<1>7. IsFiniteSet(Feeds!Backfill(list))
  <2> DEFINE g == [i \in B |-> AsOther(i)]
  <2>1. g \in Surjection(B, Feeds!Backfill(list))  BY <1>5 DEF Surjection
  <2> QED  BY <1>3, <2>1, FS_Surjection
<1>8. ASSUME NEW i \in Reading.Item
      PROVE  /\ AsFollowed(i) \in Feeds!Following(list) <=> i \in F
             /\ AsOther(i) \in Feeds!Backfill(list) <=> i \in B
  BY <1>2, <1>4, <1>5
<1> QED  BY <1>2, <1>4, <1>5, <1>6, <1>7, <1>8, <1>f

\* What a page of n entries of S after x is.
LEMMA PageCuts ==
  ASSUME NEW S \in SUBSET Keys!Entry, IsFiniteSet(S), NEW n \in Int,
         NEW x \in Keys!Entry \cup {None}, None \notin Keys!Entry
  PROVE  LET P == Page(S, x, n) IN
         /\ P \subseteq S /\ IsFiniteSet(P) /\ Cardinality(P) \in Nat
         /\ P # {} => n > 0 /\ Keys!Last(P) \in P
         /\ \A e \in S : Cuts(P, x, n, e)
BY PageCut DEF Cuts

\* Where a page goes on.
LEMMA Resumes ==
  ASSUME Feeds!Assumptions, FeedInv
  PROVE  /\ None \notin Keys!Entry /\ Feeds!After \in Keys!Entry \cup {None}
         /\ cursor = None => Feeds!After = None
         /\ cursor # None => Feeds!After = cursor.last /\ Feeds!After # None
         /\ FeedCursor(view, cursor) /\ view \in {"none", "home", "discover"}
         /\ Reading.PageSize \in Nat \ {0}
         /\ published \subseteq Reading.Item /\ steady \subseteq Reading.Item
<1>1. None \notin Keys!Entry  BY FeedKeys DEF Feeds!Assumptions
<1>2. cursor # None => cursor.phase \in {"following", "backfill"} /\ cursor.last \in Keys!Entry
  BY FeedKeys DEF FeedInv, Feeds!TypeOK
<1> QED  BY <1>1, <1>2 DEF FeedInv, Feeds!TypeOK, Feeds!Assumptions, Feeds!After, FeedCursor

\* The rest of a page, and what the page serves.
Rest == Feeds!Merged(Feeds!BackfillLeft, Feeds!Remaining)
PageItems == {Feeds!ItemOf(e) : e \in part \cup Rest}
NextCursor == IF Feeds!Cardinality(Rest) < Feeds!Remaining THEN None ELSE Feeds!NextOf(part, Rest)
RestFrom == IF Feeds!Begun(view, cursor) = "following" THEN None ELSE Feeds!After

LEMMA RestCut ==
  ASSUME Feeds!Assumptions, FeedInv, stage = "backfill"
  PROVE  /\ Feeds!Cardinality(Rest) = Cardinality(Rest) /\ Cardinality(Rest) \in Nat
         /\ Cardinality(part) \in Nat /\ Feeds!Remaining = Reading.PageSize - Cardinality(part)
         /\ Rest # {} => Feeds!Remaining > 0 /\ Keys!Last(Rest) \in Keys!Entry
         /\ PageItems \subseteq Reading.Item
         /\ \A i \in steady :
              /\ i \in PageItems <=> AsFollowed(i) \in part \/ AsOther(i) \in Rest
              /\ AsFollowed(i) \in part => i \in published /\ IsFollowed(i)
              /\ AsOther(i) \in Rest => i \in published /\ IsOther(i)
              /\ i \in published /\ IsOther(i) =>
                   AsOther(i) \in Keys!Entry /\ Cuts(Rest, RestFrom, Feeds!Remaining, AsOther(i))
<1> DEFINE S == Feeds!Backfill(follows)
           n == Feeds!Remaining
<1>1. /\ RestFrom \in Keys!Entry \cup {None} /\ None \notin Keys!Entry
      /\ Reading.PageSize \in Nat /\ steady \subseteq Reading.Item /\ Feeds!TypeOK
  BY Resumes DEF RestFrom, FeedInv
<1>2. S \in SUBSET Keys!Entry /\ IsFiniteSet(S)  BY <1>1, FeedTiers
<1>3. Feeds!Cardinality(Rest) = Cardinality(Rest) /\ n = Reading.PageSize - Cardinality(part)
  BY FeedKeys DEF Feeds!Remaining
<1>4. IsFiniteSet(part) /\ \A e \in part : \E j \in Reading.Item : e = AsFollowed(j)
  BY FS_EmptySet DEF FeedInv, PartRead
<1>5. Cardinality(part) \in Nat  BY <1>4, FS_CardinalityType
<1>6. n \in Int  BY <1>1, <1>3, <1>5
<1>7. Rest = Page(S, RestFrom, n)  BY FeedKeys DEF Rest, Feeds!BackfillLeft, RestFrom
<1> HIDE DEF S, n
<1>8. /\ Rest \subseteq S /\ IsFiniteSet(Rest) /\ Cardinality(Rest) \in Nat
      /\ Rest # {} => n > 0 /\ Keys!Last(Rest) \in Rest
      /\ \A e \in S : Cuts(Rest, RestFrom, n, e)
  BY <1>1, <1>2, <1>6, <1>7, PageCuts
<1>9. \A e \in Rest : \E j \in Reading.Item : e = AsOther(j)  BY <1>1, <1>8, FeedTiers DEF S
<1>10. \A i \in Reading.Item : /\ Feeds!ItemOf(AsFollowed(i)) = i
                               /\ AsOther(i) \in Keys!Entry /\ Feeds!ItemOf(AsOther(i)) = i
  BY FeedEntries
<1>11. PageItems \subseteq Reading.Item  BY <1>4, <1>9, <1>10 DEF PageItems
<1>12. ASSUME NEW i \in Reading.Item PROVE i \in PageItems <=> AsFollowed(i) \in part \/ AsOther(i) \in Rest
  BY <1>4, <1>9, <1>10 DEF PageItems
<1>13. \A i \in steady : AsFollowed(i) \in part => i \in published /\ IsFollowed(i)
  BY DEF FeedInv, PartRead
<1>14. \A i \in steady : AsOther(i) \in S <=> i \in published /\ IsOther(i)
  <2>1. \A i \in steady : i.business \in follows <=> IsFollowed(i)  BY DEF FeedInv
  <2> QED  BY <1>1, <2>1, FeedTiers DEF S, IsOther, IsFollowed
<1> QED  BY <1>1, <1>2, <1>3, <1>5, <1>8, <1>10, <1>11, <1>12, <1>13, <1>14 DEF n

\* A page serves what is between its cursor and the next.
FeedServes(i, d) ==
  /\ i \in PageItems <=> FeedReach(i, view, d) /\ ~(cursor # None /\ FeedReach(i, view, cursor))
  /\ cursor # None /\ FeedReach(i, view, cursor) => FeedReach(i, view, d)

\* A page of the rest alone: Discover, and Home once the followed are exhausted.
LEMMA BackfillServes ==
  ASSUME Feeds!Assumptions, FeedInv, stage = "backfill", view # "none", Feeds!Begun(view, cursor) # "following"
  PROVE  FeedCursor(view, NextCursor) /\ \A i \in steady : FeedServes(i, NextCursor)
<1> DEFINE x == Feeds!After
           n == Feeds!Remaining
           L == Keys!Last(Rest)
<1>0. /\ None \notin Keys!Entry /\ x \in Keys!Entry \cup {None}
      /\ (cursor = None => x = None) /\ (cursor # None => x = cursor.last /\ x # None)
      /\ view \in {"home", "discover"} /\ Reading.PageSize \in Nat \ {0}
  BY Resumes
<1>1. part = {} /\ RestFrom = x  BY DEF FeedInv, RestFrom
<1>2. (cursor # None => cursor.phase = "backfill") /\ (cursor = None => view = "discover")
  BY <1>0, Resumes DEF Feeds!Begun, FeedCursor
<1>c. Cardinality(part) = 0  BY <1>1, FS_EmptySet
<1>3. /\ Feeds!Cardinality(Rest) = Cardinality(Rest) /\ Cardinality(Rest) \in Nat
      /\ n = Reading.PageSize /\ (Rest # {} => L \in Keys!Entry)
  BY <1>0, <1>c, RestCut
<1>4. \A i \in steady : /\ i \in PageItems <=> AsOther(i) \in Rest
                        /\ AsOther(i) \in Rest => i \in published /\ IsOther(i)
                        /\ i \in published /\ IsOther(i) =>
                             AsOther(i) \in Keys!Entry /\ Cuts(Rest, x, n, AsOther(i))
  BY <1>1, RestCut
<1>5. \A i : IsOther(i) => ~IsFollowed(i)  BY DEF IsOther, IsFollowed
<1> HIDE DEF x, n, L
<1>6. \A e \in Keys!Entry : x # None => (After(x, e) <=> ~UpTo(e, x))
  BY <1>0, BeforeOrders DEF After, UpTo
<1>7. CASE Cardinality(Rest) < n
  <2>1. NextCursor = None  BY <1>3, <1>7 DEF NextCursor, n
  <2>2. \A i \in steady : i \in published /\ IsOther(i) => (AsOther(i) \in Rest <=> After(x, AsOther(i)))
    BY <1>4, <1>7 DEF Cuts
  <2>3. ASSUME NEW i \in steady PROVE FeedServes(i, None)
    BY <1>0, <1>2, <1>4, <1>5, <1>6, <2>2 DEF FeedServes, FeedReach, After
  <2> QED  BY <2>1, <2>3 DEF FeedCursor
<1>8. CASE ~(Cardinality(Rest) < n)
  <2> DEFINE d == [phase |-> "backfill", last |-> L]
  <2>1. Rest # {}
    <3>1. Cardinality({}) = 0  BY FS_EmptySet
    <3> QED  BY <1>0, <1>3, <1>8, <3>1
  <2>2. NextCursor = d
    BY <1>3, <1>8, <2>1, FeedKeys DEF NextCursor, Feeds!NextOf, n, L
  <2>3. L \in Keys!Entry /\ d # None  BY <1>3, <2>1, FeedKeys DEF Feeds!Assumptions, L
  <2>4. d.phase = "backfill" /\ d.last = L  OBVIOUS
  <2> HIDE DEF d
  <2>5. \A i \in steady : i \in published /\ IsOther(i) =>
          /\ AsOther(i) \in Rest <=> After(x, AsOther(i)) /\ UpTo(AsOther(i), L)
          /\ x # None /\ UpTo(AsOther(i), x) => UpTo(AsOther(i), L)
    BY <1>4, <2>1 DEF Cuts, L
  <2>6. ASSUME NEW i \in steady PROVE FeedServes(i, d)
    BY <1>0, <1>2, <1>4, <1>5, <1>6, <2>3, <2>4, <2>5 DEF FeedServes, FeedReach, After
  <2> QED  BY <2>2, <2>3, <2>4, <2>6 DEF FeedCursor
<1> QED  BY <1>7, <1>8

\* A page of what is followed, filled with the rest.
LEMMA FollowingServes ==
  ASSUME Feeds!Assumptions, FeedInv, stage = "backfill", view # "none", Feeds!Begun(view, cursor) = "following"
  PROVE  FeedCursor(view, NextCursor) /\ \A i \in steady : FeedServes(i, NextCursor)
<1> DEFINE x == Feeds!After
           n == Feeds!Remaining
           size == Reading.PageSize
<1>0. /\ None \notin Keys!Entry /\ x \in Keys!Entry \cup {None}
      /\ (cursor = None => x = None) /\ (cursor # None => x = cursor.last /\ x # None)
      /\ size \in Nat \ {0} /\ steady \subseteq Reading.Item
  BY Resumes
<1>1. view = "home" /\ (cursor # None => cursor.phase = "following")
  BY DEF Feeds!Begun
<1>2. PartRead(part, x) /\ RestFrom = None  BY DEF FeedInv, RestFrom
<1>3. /\ Feeds!Cardinality(Rest) = Cardinality(Rest) /\ Cardinality(Rest) \in Nat /\ Cardinality(part) \in Nat
      /\ n = size - Cardinality(part) /\ (Rest # {} => n > 0 /\ Keys!Last(Rest) \in Keys!Entry)
  BY RestCut
<1>4. \A i \in steady : /\ i \in PageItems <=> AsFollowed(i) \in part \/ AsOther(i) \in Rest
                        /\ AsFollowed(i) \in part => i \in published /\ IsFollowed(i)
                        /\ AsOther(i) \in Rest => i \in published /\ IsOther(i)
                        /\ i \in published /\ IsOther(i) => Cuts(Rest, None, n, AsOther(i))
  BY <1>2, RestCut
<1>5. /\ part # {} => Keys!Last(part) \in Keys!Entry
      /\ \A i \in steady : AsFollowed(i) \in Keys!Entry
      /\ \A i \in steady : i \in published /\ IsFollowed(i) => Cuts(part, x, size, AsFollowed(i))
  BY <1>0, <1>2, FeedEntries DEF PartRead
<1>6. \A i : IsOther(i) => ~IsFollowed(i)  BY DEF IsOther, IsFollowed
<1> HIDE DEF x, n, size
<1>7. \A e \in Keys!Entry : x # None => (After(x, e) <=> ~UpTo(e, x))
  BY <1>0, BeforeOrders DEF After, UpTo
<1>8. ASSUME Cardinality(part) < size, NEW i \in steady, i \in published, IsFollowed(i)
      PROVE  AsFollowed(i) \in part <=> After(x, AsFollowed(i))
  BY <1>5, <1>8 DEF Cuts
<1>9. CASE Cardinality(Rest) < n
  <2>1. NextCursor = None  BY <1>3, <1>9 DEF NextCursor, n
  <2>2. Cardinality(part) < size  BY <1>0, <1>3, <1>9
  <2>3. \A i \in steady : i \in published /\ IsOther(i) => AsOther(i) \in Rest
    BY <1>4, <1>9 DEF Cuts, After
  <2>4. ASSUME NEW i \in steady PROVE FeedServes(i, None)
    BY <1>0, <1>1, <1>4, <1>5, <1>6, <1>7, <1>8, <2>2, <2>3 DEF FeedServes, FeedReach, After
  <2> QED  BY <2>1, <2>4 DEF FeedCursor
<1>10. CASE ~(Cardinality(Rest) < n) /\ Rest # {}
  <2> DEFINE L == Keys!Last(Rest)
             d == [phase |-> "backfill", last |-> L]
  <2>1. NextCursor = d  BY <1>3, <1>10, FeedKeys DEF NextCursor, Feeds!NextOf, n
  <2>2. L \in Keys!Entry /\ d # None  BY <1>3, <1>10, FeedKeys DEF Feeds!Assumptions
  <2>3. Cardinality(part) < size  BY <1>0, <1>3, <1>10
  <2>4. \A i \in steady : i \in published /\ IsOther(i) => (AsOther(i) \in Rest <=> UpTo(AsOther(i), L))
    BY <1>4, <1>10 DEF Cuts, After
  <2>5. d.phase = "backfill" /\ d.last = L  OBVIOUS
  <2> HIDE DEF L, d
  <2>6. ASSUME NEW i \in steady PROVE FeedServes(i, d)
    BY <1>0, <1>1, <1>4, <1>5, <1>6, <1>7, <1>8, <2>2, <2>3, <2>4, <2>5 DEF FeedServes, FeedReach, After
  <2> QED  BY <1>1, <2>1, <2>2, <2>5, <2>6 DEF FeedCursor
<1>11. CASE ~(Cardinality(Rest) < n) /\ Rest = {}
  <2> DEFINE L == Keys!Last(part)
             d == [phase |-> "following", last |-> L]
  <2>1. NextCursor = d  BY <1>3, <1>11, FeedKeys DEF NextCursor, Feeds!NextOf, n
  <2>2. part # {}
    <3>1. Cardinality({}) = 0  BY FS_EmptySet
    <3> QED  BY <1>0, <1>3, <1>11, <3>1
  <2>3. L \in Keys!Entry /\ d # None  BY <1>5, <2>2, FeedKeys DEF Feeds!Assumptions
  <2>4. \A i \in steady : i \in published /\ IsFollowed(i) =>
          /\ AsFollowed(i) \in part <=> After(x, AsFollowed(i)) /\ UpTo(AsFollowed(i), L)
          /\ x # None /\ UpTo(AsFollowed(i), x) => UpTo(AsFollowed(i), L)
    BY <1>5, <2>2 DEF Cuts
  <2>5. d.phase = "following" /\ d.last = L  OBVIOUS
  <2> HIDE DEF L, d
  <2>6. ASSUME NEW i \in steady PROVE FeedServes(i, d)
    BY <1>0, <1>1, <1>4, <1>5, <1>6, <1>7, <1>11, <2>3, <2>4, <2>5 DEF FeedServes, FeedReach, After
  <2> QED  BY <1>1, <2>1, <2>3, <2>5, <2>6 DEF FeedCursor
<1> QED  BY <1>9, <1>10, <1>11

\* Every page serves what is between its cursor and the next.
LEMMA PageServes ==
  ASSUME Feeds!Assumptions, FeedInv, stage = "backfill"
  PROVE  FeedCursor(view, NextCursor) /\ \A i \in steady : FeedServes(i, NextCursor)
<1>1. view # "none"  BY DEF FeedInv
<1> QED  BY <1>1, BackfillServes, FollowingServes

\* What is reached, or was read of the followed, stays so when something else is changed.
LEMMA ReachStays ==
  ASSUME NEW i,
         i \in published' <=> i \in published,
         i.business \in followed' <=> i.business \in followed,
         i.business \in featured' <=> i.business \in featured,
         NEW v, NEW d, view' = v, cursor' = d
  PROVE  /\ FeedReach(i, view, cursor)' <=> FeedReach(i, v, d)
         /\ IsFollowed(i)' <=> IsFollowed(i)
<1>1. (i.business \in featured') = (i.business \in featured)  OBVIOUS
<1>2. AsOther(i)' = AsOther(i)  BY <1>1, Zenon DEF AsOther, Feeds!EntryOf
<1>3. AsFollowed(i)' = AsFollowed(i)  BY DEF AsFollowed, Feeds!EntryOf
<1>4. (IsFollowed(i)' <=> IsFollowed(i)) /\ (IsOther(i)' <=> IsOther(i))
  BY DEF IsFollowed, IsOther
<1>5. \A e, y : UpTo(e, y)' <=> UpTo(e, y)  BY DEF UpTo, Keys!Before, Keys!ByTime
<1> HIDE DEF AsOther, AsFollowed, IsFollowed, IsOther, UpTo
<1> QED  BY <1>2, <1>3, <1>4, <1>5 DEF FeedReach

LEMMA ReadStays ==
  ASSUME steady' \subseteq steady,
         \A i \in steady' : (i \in published' <=> i \in published) /\ (IsFollowed(i)' <=> IsFollowed(i)),
         NEW P, NEW x, part' = P, Feeds!After' = x, PartRead(P, x)
  PROVE  PartRead(part, Feeds!After)'
<1>1. \A e, y : (UpTo(e, y)' <=> UpTo(e, y)) /\ (After(y, e)' <=> After(y, e))
  BY DEF UpTo, After, Keys!Before, Keys!ByTime
<1>2. \A i : AsFollowed(i)' = AsFollowed(i)  BY DEF AsFollowed, Feeds!EntryOf
<1>3. (Keys!Last(part))' = Keys!Last(P) /\ Cardinality(part)' = Cardinality(P) /\ (IsFiniteSet(part)' <=> IsFiniteSet(P))
  BY DEF Keys!Last, Keys!Before, Keys!ByTime
<1> HIDE DEF UpTo, After, AsFollowed, IsFollowed
<1> QED  BY <1>1, <1>2, <1>3 DEF PartRead, Cuts

\* A change of some items, none of which is steady any more.
LEMMA FeedEdited ==
  ASSUME Feeds!Assumptions, FeedInv, NEW touched, Feeds!Edit(touched),
         published' \subseteq Reading.Item,
         followed' \subseteq Reading.Business \ {Reading.Own}, featured' \subseteq Reading.Business \ {Reading.Own},
         \A i \in Reading.Item \ touched :
           /\ i \in published' <=> i \in published
           /\ i.business \in followed' <=> i.business \in followed
           /\ i.business \in featured' <=> i.business \in featured
  PROVE  FeedInv'
<1>1. /\ steady' = steady \ touched /\ UNCHANGED <<view, stage, follows, part, cursor, served, twice>>
      /\ feedEdits < Reading.MaxEdits /\ feedEdits' = feedEdits + 1
  BY DEF Feeds!Edit, Feeds!page
<1>2. feedEdits' \in 0..Reading.MaxEdits
  <2>1. feedEdits \in 0..Reading.MaxEdits /\ Reading.MaxEdits \in Nat
    BY DEF FeedInv, Feeds!TypeOK, Feeds!Assumptions
  <2> QED  BY <1>1, <2>1
<1>3. Feeds!TypeOK'
  <2>1. Feeds!Entry' = Feeds!Entry  BY DEF Feeds!Entry, Feeds!Kind
  <2> QED  BY <1>1, <1>2, <2>1 DEF FeedInv, Feeds!TypeOK
<1>4. steady' \subseteq steady /\ \A i \in steady' : i \in Reading.Item \ touched
  BY <1>1 DEF FeedInv, Feeds!TypeOK
<1>5. ASSUME NEW i \in steady'
      PROVE  /\ FeedReach(i, view, cursor)' <=> FeedReach(i, view, cursor)
             /\ (IsFollowed(i)' <=> IsFollowed(i)) /\ (i \in published' <=> i \in published)
  BY <1>1, <1>4, <1>5, ReachStays
<1>6. Feeds!After' = Feeds!After /\ Feeds!Begun(view, cursor)' = Feeds!Begun(view, cursor)
  BY <1>1 DEF Feeds!After, Feeds!Begun
<1>7. PartRead(part, Feeds!After) => PartRead(part, Feeds!After)'
  BY <1>1, <1>4, <1>5, <1>6, ReadStays
<1> HIDE DEF FeedReach, IsFollowed, PartRead
<1> QED  BY <1>1, <1>3, <1>4, <1>5, <1>6, <1>7 DEF FeedInv

\* The request reads the followed businesses.
LEMMA FeedAsked ==
  ASSUME Feeds!Assumptions, FeedInv, NEW v \in {"home", "discover"}, view' = v, Feeds!Ask(v, cursor),
         steady' \subseteq Reading.Item, FeedCursor(v, cursor), twice \cap steady' = {},
         \A i \in steady' : i \in served <=> cursor # None /\ FeedReach(i, v, cursor)
  PROVE  FeedInv'
<1>1. /\ stage = "idle" /\ stage' = Feeds!Begun(v, cursor) /\ follows' = followed /\ part' = {}
      /\ UNCHANGED <<cursor, served, twice, published, followed, featured, feedEdits>>
  BY DEF Feeds!Ask, Feeds!world
<1>2. Feeds!Entry' = Feeds!Entry  BY DEF Feeds!Entry, Feeds!Kind
<1>3. stage' \in {"following", "backfill"} /\ Feeds!Begun(view, cursor)' = stage'
  BY <1>1 DEF Feeds!Begun
<1>4. Feeds!TypeOK'  BY <1>1, <1>2, <1>3 DEF FeedInv, Feeds!TypeOK, FeedCursor
<1>5. ASSUME NEW i \in steady'
      PROVE  /\ FeedReach(i, view, cursor)' <=> FeedReach(i, v, cursor)
             /\ IsFollowed(i)' <=> IsFollowed(i)
  BY <1>1, ReachStays
<1>6. \A i : IsFollowed(i) <=> i.business \in followed  BY DEF IsFollowed
<1> HIDE DEF FeedReach, IsFollowed, PartRead
<1> QED  BY <1>1, <1>3, <1>4, <1>5, <1>6 DEF FeedInv

LEMMA FeedStep == ASSUME Feeds!Assumptions, FeedInv, Feeds!Next PROVE FeedInv'
<1>0. /\ Feeds!TypeOK /\ twice \cap steady = {}
      /\ view = "none" => stage = "idle" /\ cursor = None /\ served = {} /\ twice = {}
      /\ view # "none" /\ stage = "idle" => \A i \in steady : i \in served <=> FeedReach(i, view, cursor)
  BY DEF FeedInv
<1>e. Feeds!Entry = Keys!Entry /\ Feeds!Entry' = Feeds!Entry
  BY FeedKeys DEF Feeds!Entry, Feeds!Kind
<1>1. ASSUME NEW v \in {"home", "discover"}, Feeds!Open(v) PROVE FeedInv'
  <2>1. view = "none" /\ view' = v /\ steady' = Reading.Item /\ Feeds!Ask(v, None)
    BY <1>1 DEF Feeds!Open
  <2>2. cursor = None /\ served = {} /\ twice = {}  BY <1>0, <2>1
  <2>3. FeedCursor(v, cursor) /\ Feeds!Ask(v, cursor)  BY <2>1, <2>2 DEF FeedCursor
  <2> QED  BY <2>1, <2>2, <2>3, FeedAsked
<1>2. ASSUME Feeds!More PROVE FeedInv'
  <2>1. view \in {"home", "discover"} /\ cursor # None /\ Feeds!Ask(view, cursor)
        /\ UNCHANGED <<view, steady>> /\ stage = "idle"
    BY <1>0, <1>2 DEF Feeds!More, Feeds!TypeOK, Feeds!Ask
  <2>2. FeedCursor(view, cursor) /\ steady \subseteq Reading.Item  BY Resumes
  <2>3. \A i \in steady : i \in served <=> FeedReach(i, view, cursor)  BY <1>0, <2>1
  <2> QED  BY <1>0, <2>1, <2>2, <2>3, FeedAsked
<1>3. ASSUME Feeds!ReadFollowing PROVE FeedInv'
  <2> DEFINE S == Feeds!Following(follows)
             P == Page(S, Feeds!After, Reading.PageSize)
  <2>1. /\ stage = "following" /\ stage' = "backfill" /\ part' = P
        /\ UNCHANGED <<view, follows, cursor, served, twice, steady, published, followed, featured, feedEdits>>
    BY <1>3, FeedKeys DEF Feeds!ReadFollowing, Feeds!FollowingLeft, Feeds!world
  <2>2. S \in SUBSET Keys!Entry /\ IsFiniteSet(S) /\ \A e \in S : \E j \in Reading.Item : e = AsFollowed(j)
    BY <1>0, FeedTiers
  <2>3. /\ P \subseteq S /\ IsFiniteSet(P) /\ (P # {} => Keys!Last(P) \in P)
        /\ \A e \in S : Cuts(P, Feeds!After, Reading.PageSize, e)
    <3> HIDE DEF S
    <3>1. Reading.PageSize \in Int  BY Resumes
    <3> QED  BY <2>2, <3>1, Resumes, PageCuts
  <2>4. \A i \in steady : AsFollowed(i) \in S <=> i \in published /\ IsFollowed(i)
    <3>1. \A i \in steady : i.business \in follows <=> IsFollowed(i)  BY <2>1 DEF FeedInv
    <3>2. steady \subseteq Reading.Item  BY Resumes
    <3> QED  BY <1>0, <3>1, <3>2, FeedTiers
  <2> HIDE DEF S, P
  <2>5. PartRead(P, Feeds!After)  BY <2>2, <2>3, <2>4 DEF PartRead
  <2>6. ASSUME NEW i \in steady
        PROVE  /\ FeedReach(i, view, cursor)' <=> FeedReach(i, view, cursor)
               /\ IsFollowed(i)' <=> IsFollowed(i)
    BY <2>1, ReachStays
  <2>7. Feeds!After' = Feeds!After /\ Feeds!Begun(view, cursor)' = Feeds!Begun(view, cursor)
    BY <2>1 DEF Feeds!After, Feeds!Begun
  <2>8. PartRead(part, Feeds!After)'  BY <2>1, <2>5, <2>6, <2>7, ReadStays
  <2>9. Feeds!TypeOK'
    <3>1. P \subseteq Keys!Entry  BY <2>2, <2>3
    <3> QED  BY <1>0, <1>e, <2>1, <3>1 DEF Feeds!TypeOK
  <2> HIDE DEF FeedReach, IsFollowed, PartRead
  <2> QED  BY <2>1, <2>6, <2>7, <2>8, <2>9 DEF FeedInv
<1>4. ASSUME Feeds!ReadBackfill PROVE FeedInv'
  <2>1. /\ stage = "backfill" /\ stage' = "idle" /\ follows' = {} /\ part' = {}
        /\ served' = served \cup PageItems /\ twice' = twice \cup (served \cap PageItems)
        /\ cursor' = NextCursor
        /\ UNCHANGED <<view, steady, published, followed, featured, feedEdits>>
    BY <1>4 DEF Feeds!ReadBackfill, Rest, PageItems, NextCursor, Feeds!world
  <2>2. FeedCursor(view, cursor') /\ \A i \in steady : FeedServes(i, cursor')
    BY <2>1, PageServes
  <2>3. PageItems \subseteq Reading.Item  BY <2>1, RestCut
  <2>4. Feeds!TypeOK'  BY <1>0, <1>e, <2>1, <2>2, <2>3 DEF Feeds!TypeOK, FeedCursor
  <2>5. \A i \in steady : i \in served <=> cursor # None /\ FeedReach(i, view, cursor)
    BY <2>1 DEF FeedInv
  <2>6. ASSUME NEW i \in steady
        PROVE  /\ i \in served' <=> FeedReach(i, view, NextCursor)
               /\ i \in PageItems => i \notin served
    BY <2>1, <2>2, <2>5 DEF FeedServes
  <2>7. ASSUME NEW i \in steady
        PROVE  FeedReach(i, view, cursor)' <=> FeedReach(i, view, NextCursor)
    BY <2>1, ReachStays
  <2>8. twice' \cap steady' = {}  BY <1>0, <2>1, <2>6
  <2>9. view' # "none"  BY <1>0, <2>1
  <2> HIDE DEF FeedReach, PartRead
  <2> QED  BY <2>1, <2>4, <2>6, <2>7, <2>8, <2>9 DEF FeedInv
<1>5. ASSUME Feeds!Close PROVE FeedInv'
  BY <1>0, <1>e, <1>5 DEF FeedInv, Feeds!Close, Feeds!world, Feeds!TypeOK
<1>6. ASSUME NEW i \in Reading.Item, Feeds!Publish(i) \/ Feeds!TakeDown(i) PROVE FeedInv'
  <2>1. /\ published' = published \cup {i} \/ published' = published \ {i}
        /\ Feeds!Edit({i}) /\ UNCHANGED <<followed, featured>>
    BY <1>6 DEF Feeds!Publish, Feeds!TakeDown
  <2>2. /\ published' \subseteq Reading.Item
        /\ followed' \subseteq Reading.Business \ {Reading.Own} /\ featured' \subseteq Reading.Business \ {Reading.Own}
    BY <1>0, <2>1 DEF Feeds!TypeOK
  <2> QED  BY <2>1, <2>2, FeedEdited
<1>7. ASSUME NEW b \in Reading.Business, Feeds!Follow(b) \/ Feeds!Feature(b) PROVE FeedInv'
  <2>1. /\ b # Reading.Own
        /\ \/ /\ UNCHANGED <<published, featured>>
              /\ followed' = followed \ {b} \/ followed' = followed \cup {b}
           \/ /\ UNCHANGED <<published, followed>>
              /\ featured' = featured \ {b} \/ featured' = featured \cup {b}
        /\ Feeds!Edit(Feeds!Of(b))
    BY <1>7 DEF Feeds!Follow, Feeds!Feature
  <2>2. /\ published' \subseteq Reading.Item
        /\ followed' \subseteq Reading.Business \ {Reading.Own} /\ featured' \subseteq Reading.Business \ {Reading.Own}
    BY <1>0, <2>1 DEF Feeds!TypeOK
  <2>3. \A i \in Reading.Item \ Feeds!Of(b) : i.business # b  BY DEF Feeds!Of
  <2> QED  BY <2>1, <2>2, <2>3, FeedEdited
<1> QED  BY <1>1, <1>2, <1>3, <1>4, <1>5, <1>6, <1>7 DEF Feeds!Next

LEMMA FeedStutter == ASSUME Feeds!Assumptions, FeedInv, UNCHANGED Feeds!vars PROVE FeedInv'
<1>1. Feeds!Entry' = Feeds!Entry  BY DEF Feeds!Entry, Feeds!Kind
<1>2. UNCHANGED <<published, followed, featured, view, stage, follows, part, cursor, served, twice, steady, feedEdits>>
  BY DEF Feeds!vars, Feeds!page
<1>3. Feeds!TypeOK'  BY <1>1, <1>2 DEF FeedInv, Feeds!TypeOK
<1>4. ASSUME NEW i PROVE /\ FeedReach(i, view, cursor)' <=> FeedReach(i, view, cursor)
                         /\ IsFollowed(i)' <=> IsFollowed(i)
  BY <1>2, ReachStays
<1>5. Feeds!After' = Feeds!After /\ Feeds!Begun(view, cursor)' = Feeds!Begun(view, cursor)
  BY <1>2 DEF Feeds!After, Feeds!Begun
<1>6. PartRead(part, Feeds!After) => PartRead(part, Feeds!After)'
  BY <1>2, <1>4, <1>5, ReadStays
<1> HIDE DEF FeedReach, IsFollowed, PartRead
<1> QED  BY <1>2, <1>3, <1>4, <1>5, <1>6 DEF FeedInv

\* What nobody touched is served once and not left out, and the merge is exact.
LEMMA FeedShows ==
  ASSUME Feeds!Assumptions, FeedInv
  PROVE  Feeds!TypeOK /\ Feeds!NoRepeat /\ Feeds!NoSkip /\ Feeds!MergeIsExact
<1>1. Feeds!TypeOK /\ Feeds!NoRepeat  BY DEF FeedInv, Feeds!NoRepeat
<1>2. Feeds!NoSkip
  <2>1. ASSUME view # "none", stage = "idle", cursor = None, NEW i \in Feeds!Eligible(view), i \in steady
        PROVE  i \in served
    <3>1. view \in {"home", "discover"}  BY <1>1, <2>1 DEF Feeds!TypeOK
    <3>2. FeedReach(i, view, cursor)
      BY <2>1, <3>1 DEF Feeds!Eligible, FeedReach, IsFollowed, IsOther
    <3> QED  BY <2>1, <3>2 DEF FeedInv
  <2> QED  BY <2>1 DEF Feeds!NoSkip
<1>3. Feeds!MergeIsExact
  <2>1. ASSUME NEW S \in SUBSET Keys!Entry, IsFiniteSet(S), NEW x, NEW n \in Int
        PROVE  Feeds!Merged(Feeds!Resumed(S, x), n) = Feeds!First(Feeds!Resumed(S, x), n)
    <3> DEFINE R == Feeds!Resumed(S, x)
    <3>1. R \in SUBSET S  BY DEF Feeds!Resumed
    <3> HIDE DEF R
    <3>2. IsFiniteSet(R) /\ R \in SUBSET Keys!Entry  BY <2>1, <3>1, FS_Subset
    <3>3. Feeds!Merged(R, n) = Feeds!First(R, n)  BY <3>2, FeedKeys, MergeLosesNothing
    <3> QED  BY <3>3 DEF R
  <2>2. Reading.PageSize \in Int  BY Resumes
  <2>3. stage = "backfill" => Feeds!Remaining \in Int  BY <2>2, RestCut
  <2> QED  BY <1>1, <2>1, <2>2, <2>3, FeedTiers DEF Feeds!MergeIsExact, Feeds!FollowingLeft, Feeds!BackfillLeft
<1> QED  BY <1>1, <1>2, <1>3

-----------------------------------------------------------------------------
(* The search                                                              *)

\* The search has the order and the pages of Keyset.
LEMMA SearchKeys ==
  /\ Search!Entry = Keys!Entry
  /\ \A q, x : Search!Page(q, x) = Page(Search!Results(q), IF x = None THEN None ELSE x.last, Searching.PageSize)
  /\ \A S : Search!Last(S) = Keys!Last(S) /\ Search!Cardinality(S) = Cardinality(S)
<1>1. Search!Entry = Keys!Entry  BY DEF Search!Entry, Keys!Entry, Search!Kind, Keys!Kind
<1>2. \A S, x, n : Search!Merged(Search!Resumed(S, x), n) = Page(S, x, n)
  BY DEF Page, Search!Merged, Keys!Merged, Search!First, Keys!First,
         Search!Resumed, Keys!Resumed, Search!FeaturedRowsAfter, Keys!FeaturedRowsAfter,
         Search!RowsAfter, Keys!RowsAfter, Search!Before, Keys!Before, Search!ByTime, Keys!ByTime,
         Search!Kind, Keys!Kind, Search!Cardinality, Keys!Cardinality, Cardinality
<1>3. \A S : Search!Last(S) = Keys!Last(S) /\ Search!Cardinality(S) = Cardinality(S)
  BY DEF Search!Last, Keys!Last, Search!Before, Keys!Before, Search!ByTime, Keys!ByTime,
         Search!Cardinality, Cardinality
<1> QED  BY <1>1, <1>2, <1>3 DEF Search!Page

IsResult(i, q) == i \in listed /\ i \in matches /\ (q.featuredOnly => i.business \in featured)
ResultOf(i, q) == Search!EntryOf(i, q)

\* What a client has been served of the results, if the cursor is c.
SearchReach(i, q, c) == IsResult(i, q) /\ (c # None => UpTo(ResultOf(i, q), c.last))

SearchCursor(q, c) == c # None => c.mode = q.mode /\ c.last \in Keys!Entry

\* What nobody touched was served exactly if the cursor has passed it.
SearchInv ==
  /\ Search!TypeOK
  /\ query # None => \A i \in steady : i \in served <=> SearchReach(i, query, cursor)
  /\ twice \cap steady = {}

LEMMA SearchInit == Search!Assumptions /\ Search!Init => SearchInv
BY DEF Search!Init, SearchInv, Search!TypeOK, Search!Assumptions

\* The entry of an item is that of one item, and the results are finite.
LEMMA SearchEntries ==
  ASSUME Search!Assumptions, Search!TypeOK, NEW q \in Search!Query, NEW i \in Searching.Item
  PROVE  ResultOf(i, q) \in Keys!Entry /\ Search!ItemOf(ResultOf(i, q)) = i
<1>1. i.at \in Int /\ i.kind \in Keys!Kind /\ i.id \in Int
  BY DEF Search!Assumptions, Search!Kind, Keys!Kind
<1>2. \A j \in Searching.Item : j.kind = i.kind /\ j.id = i.id => j = i
  BY DEF Search!Assumptions, Search!KeysUnique
<1>3. score[i] \in Int
  <2>1. score \in [Searching.Item -> Searching.Score] /\ Searching.Score \subseteq Nat
    BY DEF Search!Assumptions, Search!TypeOK
  <2> QED  BY <2>1
<1> DEFINE at == IF q.mode = "relevance" THEN score[i] ELSE i.at
<1>4. at \in Int  BY <1>1, <1>3
<1> HIDE DEF at
<1>5. \A f \in BOOLEAN : [featured |-> f, kind |-> i.kind, id |-> i.id, at |-> at] \in Keys!Entry
  BY <1>1, <1>4 DEF Keys!Entry
<1>6. \E f \in BOOLEAN : ResultOf(i, q) = [featured |-> f, kind |-> i.kind, id |-> i.id, at |-> at]
  <2>1. CASE i.business \in featured
    <3>1. ResultOf(i, q) = [featured |-> TRUE, kind |-> i.kind, id |-> i.id, at |-> at]
      BY <2>1 DEF ResultOf, Search!EntryOf, at
    <3> QED  BY <3>1
  <2>2. CASE i.business \notin featured
    <3>0. (i.business \in featured) = FALSE  BY <2>2
    <3>1. ResultOf(i, q) = [featured |-> FALSE, kind |-> i.kind, id |-> i.id, at |-> at]
      BY <3>0, Zenon DEF ResultOf, Search!EntryOf, at
    <3> QED  BY <3>1
  <2> QED  BY <2>1, <2>2
<1>7. PICK f \in BOOLEAN : ResultOf(i, q) = [featured |-> f, kind |-> i.kind, id |-> i.id, at |-> at]
  BY <1>6
<1>8. Search!ItemOf(ResultOf(i, q)) = i  BY <1>2, <1>7 DEF Search!ItemOf
<1> QED  BY <1>5, <1>7, <1>8

LEMMA SearchResults ==
  ASSUME Search!Assumptions, Search!TypeOK, NEW q \in Search!Query
  PROVE  /\ Search!Results(q) \in SUBSET Keys!Entry /\ IsFiniteSet(Search!Results(q))
         /\ \A i \in Searching.Item : IsResult(i, q) => ResultOf(i, q) \in Search!Results(q)
         /\ \A P \in SUBSET Search!Results(q), i \in Searching.Item :
              i \in {Search!ItemOf(e) : e \in P} <=> IsResult(i, q) /\ ResultOf(i, q) \in P
<1> DEFINE R == {j \in listed \cap matches : q.featuredOnly => j.business \in featured}
<1>1. R \in SUBSET Searching.Item /\ IsFiniteSet(Searching.Item)
  BY DEF Search!TypeOK, Search!Assumptions, Search!IsFiniteSet, IsFiniteSet
<1>2. IsFiniteSet(R)  BY <1>1, FS_Subset
<1>3. R = {i \in Searching.Item : IsResult(i, q)}  BY <1>1 DEF IsResult
<1>4. \A i \in Searching.Item : ResultOf(i, q) \in Keys!Entry /\ Search!ItemOf(ResultOf(i, q)) = i
  BY SearchEntries
<1>5. Search!Results(q) = {ResultOf(i, q) : i \in R}  BY DEF Search!Results, ResultOf
<1> HIDE DEF R
<1>6. IsFiniteSet(Search!Results(q))
  <2> DEFINE g == [i \in R |-> ResultOf(i, q)]
  <2>1. g \in Surjection(R, Search!Results(q))  BY <1>5 DEF Surjection
  <2> QED  BY <1>2, <2>1, FS_Surjection
<1>7. ASSUME NEW P \in SUBSET Search!Results(q), NEW i \in Searching.Item
      PROVE  i \in {Search!ItemOf(e) : e \in P} <=> IsResult(i, q) /\ ResultOf(i, q) \in P
  <2>1. \A e \in P : \E j \in R : e = ResultOf(j, q) /\ Search!ItemOf(e) = j  BY <1>1, <1>4, <1>5
  <2> QED  BY <1>3, <1>4, <2>1
<1> QED  BY <1>1, <1>3, <1>4, <1>5, <1>6, <1>7

\* A page serves what is between its cursor and the next.
SearchNext(q, page) ==
  IF Cardinality(page) < Searching.PageSize THEN None ELSE [mode |-> q.mode, last |-> Keys!Last(page)]
Found(page) == {Search!ItemOf(e) : e \in page}

LEMMA SearchServes ==
  ASSUME Search!Assumptions, Search!TypeOK, NEW q \in Search!Query, NEW c, SearchCursor(q, c)
  PROVE  LET d == SearchNext(q, Search!Page(q, c)) IN
         /\ SearchCursor(q, d)
         /\ Found(Search!Page(q, c)) \subseteq Searching.Item
         /\ \A i \in Searching.Item :
              /\ i \in Found(Search!Page(q, c)) <=> SearchReach(i, q, d) /\ ~(c # None /\ SearchReach(i, q, c))
              /\ c # None /\ SearchReach(i, q, c) => SearchReach(i, q, d)
<1> DEFINE x == IF c = None THEN None ELSE c.last
           B == Search!Page(q, c)
           d == SearchNext(q, B)
           L == Keys!Last(B)
<1> SUFFICES /\ SearchCursor(q, d)
             /\ Found(B) \subseteq Searching.Item
             /\ \A i \in Searching.Item :
                  /\ i \in Found(B) <=> SearchReach(i, q, d) /\ ~(c # None /\ SearchReach(i, q, c))
                  /\ c # None /\ SearchReach(i, q, c) => SearchReach(i, q, d)
  OBVIOUS
<1>0. Searching.PageSize \in Nat \ {0} /\ x \in Keys!Entry \cup {None} /\ None \notin Keys!Entry
  BY SearchKeys DEF SearchCursor, Search!Assumptions
<1>x. (c # None => x # None /\ x = c.last) /\ (c = None => x = None)  BY <1>0 DEF SearchCursor
<1>1. B = Page(Search!Results(q), x, Searching.PageSize)  BY SearchKeys
<1> HIDE DEF x, B
<1>t. Search!Results(q) \in SUBSET Keys!Entry /\ IsFiniteSet(Search!Results(q)) /\ Searching.PageSize \in Int
  BY <1>0, SearchResults
<1>2. /\ B \subseteq Search!Results(q) /\ IsFiniteSet(B) /\ Cardinality(B) \in Nat
      /\ \A e \in B : After(x, e)
      /\ Cardinality(B) < Searching.PageSize => \A e \in Search!Results(q) : After(x, e) => e \in B
      /\ B # {} => /\ Keys!Last(B) \in B
                   /\ \A e \in Search!Results(q) : e \in B <=> After(x, e) /\ UpTo(e, Keys!Last(B))
                   /\ x # None => \A e \in Search!Results(q) : UpTo(e, x) => UpTo(e, Keys!Last(B))
  BY <1>0, <1>1, <1>t, PageCut
<1>3. \A i \in Searching.Item : i \in Found(B) <=> IsResult(i, q) /\ ResultOf(i, q) \in B
  BY <1>2, SearchResults DEF Found
<1>4. \A i \in Searching.Item : IsResult(i, q) => ResultOf(i, q) \in Search!Results(q) /\ ResultOf(i, q) \in Keys!Entry
  BY SearchResults, SearchEntries
<1>5. \A i \in Searching.Item : IsResult(i, q) /\ x # None => (After(x, ResultOf(i, q)) <=> ~UpTo(ResultOf(i, q), x))
  BY <1>0, <1>4, BeforeOrders DEF After, UpTo
<1>6. Found(B) \subseteq Searching.Item
  <2>1. ASSUME NEW e \in B PROVE Search!ItemOf(e) \in Searching.Item
    <3>1. PICK j \in listed \cap matches : e = ResultOf(j, q)
      BY <1>2, <2>1 DEF Search!Results, ResultOf
    <3>2. j \in Searching.Item  BY DEF Search!TypeOK
    <3> QED  BY <3>1, <3>2, SearchEntries
  <2> QED  BY <2>1 DEF Found
<1>7. CASE Cardinality(B) < Searching.PageSize
  <2>1. d = None  BY <1>7 DEF SearchNext
  <2> HIDE DEF d
  <2>2. \A i \in Searching.Item : i \in Found(B) <=> IsResult(i, q) /\ After(x, ResultOf(i, q))
    BY <1>2, <1>3, <1>4, <1>7
  <2> QED  BY <1>5, <1>6, <1>x, <2>1, <2>2 DEF SearchReach, SearchCursor, After
<1>8. CASE ~(Cardinality(B) < Searching.PageSize)
  <2>1. B # {}
    <3>1. Cardinality({}) = 0  BY FS_EmptySet
    <3> QED  BY <1>0, <1>8, <3>1
  <2>2. d = [mode |-> q.mode, last |-> L]  BY <1>8 DEF SearchNext
  <2>3. L \in Keys!Entry  BY <1>2, <2>1, SearchResults
  <2>4. d # None
    <3>1. q.mode \in {"relevance", "recency"}  BY DEF Search!Query
    <3> QED  BY <2>2, <2>3, <3>1, SearchKeys DEF Search!Assumptions
  <2>5. d.mode = q.mode /\ d.last = L  BY <2>2
  <2> HIDE DEF d, L
  <2>6. ASSUME NEW i \in Searching.Item, IsResult(i, q)
        PROVE  /\ ResultOf(i, q) \in B <=> After(x, ResultOf(i, q)) /\ UpTo(ResultOf(i, q), L)
               /\ x # None /\ UpTo(ResultOf(i, q), x) => UpTo(ResultOf(i, q), L)
    BY <1>2, <1>4, <2>1, <2>6 DEF L
  <2>7. ASSUME NEW i \in Searching.Item
        PROVE  /\ i \in Found(B) <=> SearchReach(i, q, d) /\ ~(c # None /\ SearchReach(i, q, c))
               /\ c # None /\ SearchReach(i, q, c) => SearchReach(i, q, d)
    BY <1>3, <1>5, <1>x, <2>4, <2>5, <2>6 DEF SearchReach, After
  <2> QED  BY <1>6, <2>3, <2>5, <2>7 DEF SearchCursor
<1> QED  BY <1>7, <1>8

\* What is reached depends on the item, its score and its business alone.
LEMMA FoundStays ==
  ASSUME NEW i, NEW q, NEW d, query' = q, cursor' = d,
         score'[i] = score[i],
         i \in listed' <=> i \in listed, i \in matches' <=> i \in matches,
         i.business \in featured' <=> i.business \in featured
  PROVE  SearchReach(i, query, cursor)' <=> SearchReach(i, q, d)
<1>1. (i.business \in featured') = (i.business \in featured)  OBVIOUS
<1>2. ResultOf(i, query)' = ResultOf(i, q)  BY <1>1, Zenon DEF ResultOf, Search!EntryOf
<1>3. IsResult(i, query)' <=> IsResult(i, q)  BY DEF IsResult
<1>5. \A e, y : UpTo(e, y)' <=> UpTo(e, y)  BY DEF UpTo, Keys!Before, Keys!ByTime
<1> HIDE DEF ResultOf, IsResult, UpTo
<1> QED  BY <1>2, <1>3, <1>5 DEF SearchReach

\* A change of some items, none of which is steady any more.
LEMMA SearchEdited ==
  ASSUME Search!Assumptions, SearchInv, NEW touched, Search!Edit(touched),
         listed' \subseteq Searching.Item, matches' \subseteq Searching.Item,
         featured' \subseteq Searching.Business, score' \in [Searching.Item -> Searching.Score],
         \A i \in Searching.Item \ touched :
           /\ i \in listed' <=> i \in listed
           /\ i \in matches' <=> i \in matches
           /\ i.business \in featured' <=> i.business \in featured
           /\ score'[i] = score[i]
  PROVE  SearchInv'
<1>1. /\ steady' = steady \ touched /\ UNCHANGED <<query, cursor, served, twice>>
      /\ feedEdits < Searching.MaxEdits /\ feedEdits' = feedEdits + 1
  BY DEF Search!Edit
<1>2. feedEdits' \in 0..Searching.MaxEdits
  <2>1. feedEdits \in 0..Searching.MaxEdits /\ Searching.MaxEdits \in Nat
    BY DEF SearchInv, Search!TypeOK, Search!Assumptions
  <2> QED  BY <1>1, <2>1
<1>3. Search!TypeOK'
  <2>1. Search!Entry' = Search!Entry /\ Search!Query' = Search!Query
    BY DEF Search!Entry, Search!Kind, Search!Query
  <2> QED  BY <1>1, <1>2, <2>1 DEF SearchInv, Search!TypeOK
<1>4. ASSUME query' # None, NEW i \in steady' PROVE (i \in served <=> SearchReach(i, query, cursor))'
  <2>1. i \in Searching.Item \ touched /\ i \in steady /\ query # None
    BY <1>1, <1>4 DEF SearchInv, Search!TypeOK
  <2>2. SearchReach(i, query, cursor)' <=> SearchReach(i, query, cursor)  BY <1>1, <2>1, FoundStays
  <2> QED  BY <1>1, <2>1, <2>2 DEF SearchInv
<1> QED  BY <1>1, <1>3, <1>4 DEF SearchInv

LEMMA SearchStep == ASSUME Search!Assumptions, SearchInv, Search!Next PROVE SearchInv'
<1>0. Search!TypeOK /\ (query # None => \A i \in steady : i \in served <=> SearchReach(i, query, cursor))
      /\ twice \cap steady = {}
  BY DEF SearchInv
<1>e. Search!Entry = Keys!Entry /\ Search!Entry' = Search!Entry /\ Search!Query' = Search!Query
  BY SearchKeys DEF Search!Entry, Search!Kind, Search!Query
<1>1. ASSUME NEW q \in Search!Query, Search!Begin(q) PROVE SearchInv'
  <2> DEFINE page == Search!Page(q, None)
             d == SearchNext(q, page)
  <2>1. /\ query' = q /\ steady' = Searching.Item /\ Search!Serve(q, None, {})
        /\ UNCHANGED <<listed, score, matches, featured, feedEdits>>
    BY <1>1 DEF Search!Begin, Search!world
  <2>2. SearchCursor(q, None)  BY DEF SearchCursor
  <2>3. served' = Found(page) /\ cursor' = d /\ twice' = {}
    BY <2>1, SearchKeys DEF Search!Serve, Found, SearchNext, Search!ModeOf, Search!Position
  <2>4. /\ SearchCursor(q, d) /\ Found(page) \subseteq Searching.Item
        /\ \A i \in Searching.Item : i \in Found(page) <=> SearchReach(i, q, d)
    BY <1>0, <2>2, SearchServes
  <2> HIDE DEF page, d
  <2>5. Search!TypeOK'
    BY <1>0, <1>e, <2>1, <2>3, <2>4 DEF Search!TypeOK, SearchCursor
  <2>6. ASSUME NEW i \in Searching.Item PROVE SearchReach(i, query, cursor)' <=> SearchReach(i, q, d)
    BY <2>1, <2>3, FoundStays
  <2> QED  BY <2>1, <2>3, <2>4, <2>5, <2>6 DEF SearchInv
<1>2. ASSUME NEW q \in Search!Query, Search!More(q) PROVE SearchInv'
  <2> DEFINE page == Search!Page(query, cursor)
             d == SearchNext(query, page)
  <2>1. query \in Search!Query /\ q = query
    BY <1>0, <1>2 DEF Search!More, Search!SameMode, Search!Query, Search!TypeOK
  <2>2. /\ query # None /\ cursor # None /\ Search!Serve(query, cursor, served)
        /\ UNCHANGED <<query, steady, listed, score, matches, featured, feedEdits>>
    BY <1>2, <2>1 DEF Search!More, Search!world
  <2>3. SearchCursor(query, cursor) /\ served \subseteq Searching.Item /\ twice \subseteq served
        /\ steady \subseteq Searching.Item
    BY <1>0, <1>e, <2>2 DEF SearchCursor, Search!TypeOK
  <2>4. served' = served \cup Found(page) /\ cursor' = d /\ twice' = twice \cup (served \cap Found(page))
    BY <2>2, SearchKeys DEF Search!Serve, Found, SearchNext, Search!ModeOf, Search!Position
  <2>5. /\ SearchCursor(query, d) /\ Found(page) \subseteq Searching.Item
        /\ \A i \in Searching.Item :
             /\ i \in Found(page) <=> SearchReach(i, query, d) /\ ~SearchReach(i, query, cursor)
             /\ SearchReach(i, query, cursor) => SearchReach(i, query, d)
    BY <1>0, <2>1, <2>2, <2>3, SearchServes
  <2> HIDE DEF page, d
  <2>6. Search!TypeOK'
    BY <1>0, <1>e, <2>1, <2>2, <2>3, <2>4, <2>5 DEF Search!TypeOK, SearchCursor
  <2>7. ASSUME NEW i \in steady
        PROVE  (i \in served' <=> SearchReach(i, query, d)) /\ (i \in Found(page) => i \notin served)
    BY <1>0, <2>2, <2>3, <2>4, <2>5
  <2>8. ASSUME NEW i \in steady PROVE SearchReach(i, query, cursor)' <=> SearchReach(i, query, d)
    BY <2>2, <2>4, FoundStays
  <2>9. twice' \cap steady' = {}  BY <1>0, <2>2, <2>4, <2>7
  <2> QED  BY <2>2, <2>6, <2>7, <2>8, <2>9 DEF SearchInv
<1>3. ASSUME Search!Leave PROVE SearchInv'
  BY <1>0, <1>e, <1>3 DEF SearchInv, Search!Leave, Search!world, Search!TypeOK
<1>t. /\ listed \subseteq Searching.Item /\ matches \subseteq Searching.Item
      /\ featured \subseteq Searching.Business /\ score \in [Searching.Item -> Searching.Score]
  BY <1>0 DEF Search!TypeOK
<1>4. ASSUME NEW i \in Searching.Item, Search!Switch(i) PROVE SearchInv'
  <2>1. /\ listed' = listed \ {i} \/ listed' = listed \cup {i}
        /\ Search!Edit({i}) /\ UNCHANGED <<score, matches, featured>>
    BY <1>4 DEF Search!Switch
  <2>2. \A j \in Searching.Item \ {i} : j \in listed' <=> j \in listed  BY <2>1
  <2>3. listed' \subseteq Searching.Item  BY <1>t, <2>1
  <2> QED  BY <1>t, <2>1, <2>2, <2>3, SearchEdited
<1>5. ASSUME NEW i \in Searching.Item, NEW s \in Searching.Score, NEW found \in BOOLEAN, Search!SaveItem(i, s, found)
      PROVE  SearchInv'
  <2>1. /\ matches' = matches \ {i} \/ matches' = matches \cup {i}
        /\ score' = [score EXCEPT ![i] = s]
        /\ Search!Edit({i}) /\ UNCHANGED <<listed, featured>>
    BY <1>5 DEF Search!SaveItem
  <2>2. \A j \in Searching.Item \ {i} : (j \in matches' <=> j \in matches) /\ score'[j] = score[j]
    BY <1>t, <2>1
  <2>3. matches' \subseteq Searching.Item /\ score' \in [Searching.Item -> Searching.Score]  BY <1>t, <2>1
  <2> QED  BY <1>t, <2>1, <2>2, <2>3, SearchEdited
<1>6. ASSUME NEW b \in Searching.Business, Search!Feature(b) PROVE SearchInv'
  <2>1. /\ featured' = featured \ {b} \/ featured' = featured \cup {b}
        /\ Search!Edit(Search!Of(b)) /\ UNCHANGED <<listed, score, matches>>
    BY <1>6 DEF Search!Feature
  <2>2. \A j \in Searching.Item \ Search!Of(b) : j.business \in featured' <=> j.business \in featured
    BY <2>1 DEF Search!Of
  <2>3. featured' \subseteq Searching.Business  BY <1>t, <2>1
  <2> QED  BY <1>t, <2>1, <2>2, <2>3, SearchEdited
<1> QED  BY <1>1, <1>2, <1>3, <1>4, <1>5, <1>6 DEF Search!Next

LEMMA SearchStutter == ASSUME SearchInv, UNCHANGED Search!vars PROVE SearchInv'
<1>1. Search!Entry' = Search!Entry /\ Search!Query' = Search!Query
  BY DEF Search!Entry, Search!Kind, Search!Query
<1>2. UNCHANGED <<listed, score, matches, featured, query, cursor, served, twice, steady, feedEdits>>
  BY DEF Search!vars
<1>3. Search!TypeOK'  BY <1>1, <1>2 DEF SearchInv, Search!TypeOK
<1>4. ASSUME NEW i PROVE SearchReach(i, query, cursor)' <=> SearchReach(i, query, cursor)
  BY <1>2, FoundStays
<1> QED  BY <1>2, <1>3, <1>4 DEF SearchInv

\* What nobody touched is found once and not left out, and is featured where that was asked.
LEMMA SearchShows ==
  ASSUME Search!Assumptions, SearchInv
  PROVE  Search!TypeOK /\ Search!NoRepeat /\ Search!NoSkip /\ Search!OnlyFeatured
<1>1. Search!TypeOK /\ Search!NoRepeat  BY DEF SearchInv, Search!NoRepeat
<1>2. Search!NoSkip
  <2>1. ASSUME query # None, cursor = None, NEW i \in {Search!ItemOf(e) : e \in Search!Results(query)}, i \in steady
        PROVE  i \in served
    <3>1. query \in Search!Query /\ i \in Searching.Item  BY <1>1, <2>1 DEF Search!TypeOK
    <3>2. IsResult(i, query)  BY <1>1, <2>1, <3>1, SearchResults
    <3> QED  BY <2>1, <3>2 DEF SearchInv, SearchReach
  <2> QED  BY <2>1 DEF Search!NoSkip
<1>3. Search!OnlyFeatured
  BY DEF SearchInv, SearchReach, IsResult, Search!OnlyFeatured
<1> QED  BY <1>1, <1>2, <1>3

-----------------------------------------------------------------------------
(* Notifications                                                           *)

\* Notifications as they are here, with what is proved about them.
MutedP == INSTANCE NotificationsProofs WITH
  User <- Muting.User, Language <- Muting.Language, Token <- Muting.Token, Type <- Muting.Type,
  Web <- Muting.Web, Celery <- Muting.Celery, MaxEvent <- Muting.MaxEvent
PushedP == INSTANCE NotificationsProofs WITH
  User <- Pushing.User, Language <- Pushing.Language, Token <- Pushing.Token, Type <- Pushing.Type,
  Web <- Pushing.Web, Celery <- Pushing.Celery, MaxEvent <- Pushing.MaxEvent

\* The two instances are one.
LEMMA MutedAreProved ==
  /\ MutedNotices!Assumptions => MutedP!Assumptions
  /\ MutedNotices!Init => MutedP!Init
  /\ [MutedNotices!Next]_notificationVars => [MutedP!Next]_MutedP!vars
<1>1. MutedNotices!Assumptions => MutedP!Assumptions
  BY
  DEF MutedNotices!Assumptions, MutedP!Assumptions, MutedNotices!Tongue, MutedP!Tongue,
      MutedNotices!Category, MutedP!Category, MutedNotices!AllTypes, MutedP!AllTypes
<1>2. MutedNotices!Init => MutedP!Init
  BY
  DEF MutedNotices!Init, MutedP!Init, MutedNotices!AllOn, MutedP!AllOn, MutedNotices!Idle,
      MutedP!Idle, MutedNotices!Unowned, MutedP!Unowned, MutedNotices!Unsent, MutedP!Unsent,
      MutedNotices!Event, MutedP!Event, MutedNotices!Category, MutedP!Category
<1>3. MutedNotices!Next => MutedP!Next
  BY
  DEF MutedNotices!Tongue, MutedP!Tongue, MutedNotices!Category, MutedP!Category,
      MutedNotices!Event, MutedP!Event, MutedNotices!userVars, MutedP!userVars,
      MutedNotices!eventVars, MutedP!eventVars, MutedNotices!taskVars, MutedP!taskVars,
      MutedNotices!Idle, MutedP!Idle, MutedNotices!AllOn, MutedP!AllOn,
      MutedNotices!Unowned, MutedP!Unowned, MutedNotices!Unsent, MutedP!Unsent,
      MutedNotices!Known, MutedP!Known, MutedNotices!Field, MutedP!Field,
      MutedNotices!Enabled, MutedP!Enabled, MutedNotices!Patched, MutedP!Patched,
      MutedNotices!LoadPreferences, MutedP!LoadPreferences, MutedNotices!SavePreferences,
      MutedP!SavePreferences, MutedNotices!NewLocale, MutedP!NewLocale,
      MutedNotices!Register, MutedP!Register, MutedNotices!DeleteUser, MutedP!DeleteUser,
      MutedNotices!Enqueue, MutedP!Enqueue, MutedNotices!Receive, MutedP!Receive,
      MutedNotices!Goto, MutedP!Goto, MutedNotices!Done, MutedP!Done, MutedNotices!Check,
      MutedP!Check, MutedNotices!Render, MutedP!Render, MutedNotices!CreateRow,
      MutedP!CreateRow, MutedNotices!ListTokens, MutedP!ListTokens, MutedNotices!Send,
      MutedP!Send, MutedNotices!AfterCrash, MutedP!AfterCrash, MutedNotices!Crash,
      MutedP!Crash, MutedNotices!Work, MutedP!Work, MutedNotices!SettingsNext,
      MutedP!SettingsNext, MutedNotices!DeviceNext, MutedP!DeviceNext,
      MutedNotices!EventNext, MutedP!EventNext, MutedNotices!PushNext, MutedP!PushNext,
      MutedNotices!Next, MutedP!Next
<1>4. UNCHANGED notificationVars => UNCHANGED MutedP!vars
  BY DEF notificationVars, MutedP!vars, MutedP!userVars, MutedP!eventVars, MutedP!taskVars
<1> QED  BY <1>1, <1>2, <1>3, <1>4 DEF MutedP!Next

LEMMA MutedShows ==
  /\ MutedP!TypeOK => MutedNotices!TypeOK
  /\ MutedP!MutedIsSilent => MutedNotices!MutedIsSilent
  /\ MutedP!ToldOnce => MutedNotices!ToldOnce
  /\ MutedP!OwnLanguage => MutedNotices!OwnLanguage
  BY
  DEF MutedNotices!TypeOK, MutedP!TypeOK, MutedNotices!MutedIsSilent, MutedP!MutedIsSilent,
      MutedNotices!ToldOnce, MutedP!ToldOnce, MutedNotices!OwnLanguage, MutedP!OwnLanguage,
      MutedNotices!Tongue, MutedP!Tongue, MutedNotices!Category, MutedP!Category,
      MutedNotices!Event, MutedP!Event, MutedNotices!Known, MutedP!Known, MutedNotices!Idle,
      MutedP!Idle, MutedNotices!Render, MutedP!Render

\* The two instances are one.
LEMMA PushedAreProved ==
  /\ PushedNotices!Assumptions => PushedP!Assumptions
  /\ PushedNotices!Init => PushedP!Init
  /\ [PushedNotices!PushNext]_notificationVars => [PushedP!Next]_PushedP!vars
<1>1. PushedNotices!Assumptions => PushedP!Assumptions
  BY
  DEF PushedNotices!Assumptions, PushedP!Assumptions, PushedNotices!Tongue, PushedP!Tongue,
      PushedNotices!Category, PushedP!Category, PushedNotices!AllTypes, PushedP!AllTypes
<1>2. PushedNotices!Init => PushedP!Init
  BY
  DEF PushedNotices!Init, PushedP!Init, PushedNotices!AllOn, PushedP!AllOn,
      PushedNotices!Idle, PushedP!Idle, PushedNotices!Unowned, PushedP!Unowned,
      PushedNotices!Unsent, PushedP!Unsent, PushedNotices!Event, PushedP!Event,
      PushedNotices!Category, PushedP!Category
<1>3. PushedNotices!PushNext => PushedP!PushNext
  BY
  DEF PushedNotices!Tongue, PushedP!Tongue, PushedNotices!Category, PushedP!Category,
      PushedNotices!Event, PushedP!Event, PushedNotices!userVars, PushedP!userVars,
      PushedNotices!eventVars, PushedP!eventVars, PushedNotices!taskVars, PushedP!taskVars,
      PushedNotices!Idle, PushedP!Idle, PushedNotices!AllOn, PushedP!AllOn,
      PushedNotices!Unowned, PushedP!Unowned, PushedNotices!Unsent, PushedP!Unsent,
      PushedNotices!Known, PushedP!Known, PushedNotices!Field, PushedP!Field,
      PushedNotices!Enabled, PushedP!Enabled, PushedNotices!Patched, PushedP!Patched,
      PushedNotices!LoadPreferences, PushedP!LoadPreferences, PushedNotices!SavePreferences,
      PushedP!SavePreferences, PushedNotices!NewLocale, PushedP!NewLocale,
      PushedNotices!Register, PushedP!Register, PushedNotices!DeleteUser,
      PushedP!DeleteUser, PushedNotices!Enqueue, PushedP!Enqueue, PushedNotices!Receive,
      PushedP!Receive, PushedNotices!Goto, PushedP!Goto, PushedNotices!Done, PushedP!Done,
      PushedNotices!Check, PushedP!Check, PushedNotices!Render, PushedP!Render,
      PushedNotices!CreateRow, PushedP!CreateRow, PushedNotices!ListTokens,
      PushedP!ListTokens, PushedNotices!Send, PushedP!Send, PushedNotices!AfterCrash,
      PushedP!AfterCrash, PushedNotices!Crash, PushedP!Crash, PushedNotices!Work,
      PushedP!Work, PushedNotices!SettingsNext, PushedP!SettingsNext,
      PushedNotices!DeviceNext, PushedP!DeviceNext, PushedNotices!EventNext,
      PushedP!EventNext, PushedNotices!PushNext, PushedP!PushNext
<1>4. UNCHANGED notificationVars => UNCHANGED PushedP!vars
  BY DEF notificationVars, PushedP!vars, PushedP!userVars, PushedP!eventVars, PushedP!taskVars
<1> QED  BY <1>1, <1>2, <1>3, <1>4 DEF PushedP!Next

LEMMA PushedShows ==
  /\ PushedP!TypeOK => PushedNotices!TypeOK
  /\ PushedP!MutedIsSilent => PushedNotices!MutedIsSilent
  /\ PushedP!ToldOnce => PushedNotices!ToldOnce
  /\ PushedP!OwnLanguage => PushedNotices!OwnLanguage
  BY
  DEF PushedNotices!TypeOK, PushedP!TypeOK, PushedNotices!MutedIsSilent,
      PushedP!MutedIsSilent, PushedNotices!ToldOnce, PushedP!ToldOnce,
      PushedNotices!OwnLanguage, PushedP!OwnLanguage, PushedNotices!Tongue, PushedP!Tongue,
      PushedNotices!Category, PushedP!Category, PushedNotices!Event, PushedP!Event,
      PushedNotices!Known, PushedP!Known, PushedNotices!Idle, PushedP!Idle,
      PushedNotices!Render, PushedP!Render

\* What the proofs of a component maintain, and what they show of it.
LEMMA MutedHold ==
  /\ MutedP!Init => MutedP!IInv /\ MutedP!Types
  /\ MutedP!Assumptions /\ MutedP!IInv /\ MutedP!Types /\ [MutedP!Next]_MutedP!vars =>
       MutedP!IInv' /\ MutedP!Types'
  /\ MutedP!IInv /\ MutedP!Types => MutedP!TypeOK /\ MutedP!MutedIsSilent
<1>1. MutedP!IInv => MutedP!Shape /\ MutedP!MutedIsSilent  BY DEF MutedP!IInv
<1> QED  BY <1>1, MutedP!InitInv, MutedP!SpeechInit, MutedP!Inductive, MutedP!TypesStep, MutedP!TypesShow

LEMMA PushedHold ==
  /\ PushedP!Init => PushedP!IInv /\ PushedP!Types /\ PushedP!Tongues
  /\ PushedP!Assumptions /\ PushedP!IInv /\ PushedP!Types /\ PushedP!Tongues /\ [PushedP!Next]_PushedP!vars =>
       PushedP!IInv' /\ PushedP!Types' /\ PushedP!Tongues'
  /\ PushedP!IInv /\ PushedP!Types /\ PushedP!Tongues =>
       PushedP!TypeOK /\ PushedP!ToldOnce /\ PushedP!OwnLanguage
<1>1. PushedP!IInv => PushedP!Shape /\ PushedP!ToldOnce  BY DEF PushedP!IInv
<1> QED  BY <1>1, PushedP!InitInv, PushedP!SpeechInit, PushedP!Inductive, PushedP!TypesStep, PushedP!TonguesStep,
            PushedP!TypesShow, PushedP!TonguesShow

-----------------------------------------------------------------------------
(* The turns                                                               *)

\* A turn lasts.
LEMMA TurnLasts == [AllNext]_allVars => turn' = turn
BY DEF AllNext, allVars, AccountTurn, ChatTurn, ConversationTurn, NotificationTurn, FeedTurn, SearchTurn

\* In each turn of theirs the accounts take the step of that turn.
LEMMA AccountsMove ==
  ASSUME [AllNext]_allVars
  PROVE  /\ turn = "entry" => [Accounts(Joining)!Next]_(Accounts(Joining)!vars)
         /\ turn = "sessions" => [Accounts(Sessions)!Next]_(Accounts(Sessions)!vars)
         /\ turn = "tokens" => [Accounts(Tokens)!Next]_(Accounts(Tokens)!vars)
BY DEF AllNext, allVars, accountVars, Accounts!vars, Accounts!tokenVars, Accounts!Next, AccountTurn, ChatTurn,
       ConversationTurn, NotificationTurn, FeedTurn, SearchTurn

\* Chat takes a step of its own or none.
LEMMA ChatMoves == [AllNext]_allVars => [Next]_vars
BY DEF AllNext, allVars, chatVars, Next, SpacedNext, AccountTurn, ChatTurn, ConversationTurn, NotificationTurn,
       FeedTurn, SearchTurn

LEMMA ConversationsMove ==
  ASSUME [AllNext]_allVars
  PROVE  /\ turn = "starting" => [Conversations(Starting)!Next]_(Conversations(Starting)!vars)
         /\ turn = "sending" => [Conversations(Sending)!Next]_(Conversations(Sending)!vars)
BY DEF AllNext, allVars, conversationVars, Conversations!vars, Conversations!Next, AccountTurn, ChatTurn,
       ConversationTurn, NotificationTurn, FeedTurn, SearchTurn

LEMMA NoticesMove ==
  ASSUME [AllNext]_allVars
  PROVE  /\ turn = "muting" => [MutedNotices!Next]_notificationVars
         /\ turn = "pushing" => [PushedNotices!PushNext]_notificationVars
BY DEF AllNext, allVars, AccountTurn, ChatTurn, ConversationTurn, NotificationTurn, FeedTurn, SearchTurn

LEMMA PagesMove ==
  ASSUME [AllNext]_allVars
  PROVE  /\ turn = "feeds" => [Feeds!Next]_Feeds!vars
         /\ turn = "search" => [Search!Next]_Search!vars
BY DEF AllNext, allVars, pageVars, Feeds!vars, Feeds!page, Search!vars, AccountTurn, ChatTurn,
       ConversationTurn, NotificationTurn, FeedTurn, SearchTurn

-----------------------------------------------------------------------------
(* The invariants of the turns                                             *)

AccountInv ==
  /\ turn = "entry" => BooksInv(Joining) /\ NamesInv(Joining)
  /\ turn = "sessions" => BooksInv(Sessions)
  /\ turn = "tokens" => BooksInv(Tokens)
ChatInv == Placed /\ GapInv
ConversationInv ==
  /\ turn = "starting" => TalkInv(Starting) /\ AskedInv(Starting) /\ TwinsInv(Starting)
  /\ turn = "sending" => TalkInv(Sending) /\ AskedInv(Sending)
NoticeInv ==
  /\ turn = "muting" => MutedP!IInv /\ MutedP!Types
  /\ turn = "pushing" => PushedP!IInv /\ PushedP!Types /\ PushedP!Tongues
PageInv ==
  /\ turn = "feeds" => FeedInv
  /\ turn = "search" => SearchInv

LEMMA AccountInvHolds ==
  (AllInit => AccountInv) /\ (AccountInv /\ [AllNext]_allVars => AccountInv')
<1>1. AllInit => AccountInv
  BY SizesFit, BooksInit, NamesInit DEF AllInit, AccountInv
<1>2. ASSUME AccountInv, [AllNext]_allVars PROVE AccountInv'
  <2>1. turn = "entry" => BooksInv(Joining)' /\ NamesInv(Joining)'
    BY <1>2, SizesFit, AccountsMove, BooksStep, BooksStutter, NamesStep, NamesStutter DEF AccountInv
  <2>2. turn = "sessions" => BooksInv(Sessions)'
    BY <1>2, SizesFit, AccountsMove, BooksStep, BooksStutter DEF AccountInv
  <2>3. turn = "tokens" => BooksInv(Tokens)'
    BY <1>2, SizesFit, AccountsMove, BooksStep, BooksStutter DEF AccountInv
  <2> QED  BY <1>2, <2>1, <2>2, <2>3, TurnLasts DEF AccountInv
<1> QED  BY <1>1, <1>2

LEMMA ChatInvHolds ==
  (AllInit => ChatInv) /\ (ChatInv /\ [AllNext]_allVars => ChatInv')
<1>1. AllInit => ChatInv
  BY SizesFit, PlacedInit, GapInit DEF AllInit, ChatInv
<1>2. ASSUME ChatInv, [AllNext]_allVars PROVE ChatInv'
  BY <1>2, SizesFit, ChatMoves, PlacedStep, GapStep DEF ChatInv
<1> QED  BY <1>1, <1>2

LEMMA ConversationInvHolds ==
  (AllInit => ConversationInv) /\ (ConversationInv /\ [AllNext]_allVars => ConversationInv')
<1>1. AllInit => ConversationInv
  BY SizesFit, TalkInit DEF AllInit, ConversationInv
<1>2. ASSUME ConversationInv, [AllNext]_allVars PROVE ConversationInv'
  <2>1. turn = "starting" => TalkInv(Starting)' /\ AskedInv(Starting)' /\ TwinsInv(Starting)'
    BY <1>2, SizesFit, ConversationsMove, TalkStep, AskedStep, TwinsStep, TalkStutter DEF ConversationInv
  <2>2. turn = "sending" => TalkInv(Sending)' /\ AskedInv(Sending)'
    BY <1>2, SizesFit, ConversationsMove, TalkStep, AskedStep, TalkStutter DEF ConversationInv
  <2> QED  BY <1>2, <2>1, <2>2, TurnLasts DEF ConversationInv
<1> QED  BY <1>1, <1>2

LEMMA NoticeInvHolds ==
  (AllInit => NoticeInv) /\ (NoticeInv /\ [AllNext]_allVars => NoticeInv')
<1>1. AllInit => NoticeInv
  BY MutedAreProved, PushedAreProved, MutedHold, PushedHold DEF AllInit, NoticeInv
<1>2. ASSUME NoticeInv, [AllNext]_allVars PROVE NoticeInv'
  <2>1. turn = "muting" => MutedP!IInv' /\ MutedP!Types'
    BY <1>2, SizesFit, NoticesMove, MutedAreProved, MutedHold DEF NoticeInv
  <2>2. turn = "pushing" => PushedP!IInv' /\ PushedP!Types' /\ PushedP!Tongues'
    BY <1>2, SizesFit, NoticesMove, PushedAreProved, PushedHold DEF NoticeInv
  <2> QED  BY <1>2, <2>1, <2>2, TurnLasts DEF NoticeInv
<1> QED  BY <1>1, <1>2

LEMMA PageInvHolds ==
  (AllInit => PageInv) /\ (PageInv /\ [AllNext]_allVars => PageInv')
<1>1. AllInit => PageInv
  BY SizesFit, FeedInit, SearchInit DEF AllInit, PageInv
<1>2. ASSUME PageInv, [AllNext]_allVars PROVE PageInv'
  BY <1>2, SizesFit, PagesMove, FeedStep, FeedStutter, SearchStep, SearchStutter, TurnLasts DEF PageInv
<1> QED  BY <1>1, <1>2

-----------------------------------------------------------------------------
(* The theorems                                                            *)

\* Whatever the number of processes: no more accounts to an address than processes; a session
\* is split, begins again after its end, or survives its logout only where a request overtook
\* another; no successor of a token that is not retired.
THEOREM AccountsAreTrue == AllSpec => AccountsHold
<1>1. ASSUME AccountInv
      PROVE  /\ turn = "entry" => Accounts(Joining)!TwinsOnlyTogether
             /\ turn = "tokens" => Accounts(Tokens)!RetiredFirst
  BY <1>1, SizesFit, NamesShow DEF AccountInv, BooksInv
<1>2. ASSUME AccountInv, [AllNext]_allVars
      PROVE  [turn = "sessions" => Accounts(Sessions)!SessionsForkByOverlap]_accountVars
  BY <1>2, SizesFit, AccountsMove, SessionsStep DEF AccountInv
<1> QED  BY <1>1, <1>2, AccountInvHolds, PTL DEF AllSpec, AccountsHold

\* No interleaving of acknowledgements, disconnects and crashes moves a status back.
THEOREM StatusesGoForward == AllSpec => StatusForward
<1>1. ChatInv /\ [AllNext]_allVars => [\A i \in Id : Rank(status'[i]) >= Rank(status[i])]_vars
  BY SizesFit, ChatMoves, NeverBack DEF ChatInv, Placed
<1> QED  BY <1>1, ChatInvHolds, PTL DEF AllSpec, StatusForward

\* Each client has, or is about to get, every message of the other account that was announced
\* and that none with a greater id overtook.
THEOREM NothingIsMissed == AllSpec => []NothingMissed
<1>1. ChatInv => NothingMissed  BY SizesFit, GapNone DEF ChatInv
<1> QED  BY <1>1, ChatInvHolds, PTL DEF AllSpec

\* No more conversations to two accounts than processes, and the one that was asked for; a
\* notification always has something to say; a stored file is an image or a video within its
\* limit.
THEOREM ConversationsAreTrue == AllSpec => []ConversationsHold
<1>1. ConversationInv => ConversationsHold
  BY SizesFit, TalkShows, TwinsShow DEF ConversationInv, ConversationsHold, AskedInv
<1> QED  BY <1>1, ConversationInvHolds, PTL DEF AllSpec

\* A muted category is silent; an event is told once; a push speaks its recipient's language.
THEOREM NoticesAreTrue == AllSpec => []NoticesHold
<1>1. NoticeInv => NoticesHold
  BY MutedHold, MutedShows, PushedHold, PushedShows DEF NoticeInv, NoticesHold
<1> QED  BY <1>1, NoticeInvHolds, PTL DEF AllSpec

\* What nobody touched is served once, and nothing is left out, in feeds and search.
THEOREM PagesAreTrue == AllSpec => []ServedOnce
<1>1. PageInv => ServedOnce
  BY SizesFit, FeedShows, SearchShows DEF PageInv, ServedOnce
<1> QED  BY <1>1, PageInvHolds, PTL DEF AllSpec

\* Every variable has its type in every turn.
THEOREM AllTyped == AllSpec => []ComponentTypes
<1> DEFINE Inv == AccountInv /\ ChatInv /\ ConversationInv /\ NoticeInv /\ PageInv
<1>1. AllInit => Inv
  BY AccountInvHolds, ChatInvHolds, ConversationInvHolds, NoticeInvHolds, PageInvHolds
<1>2. Inv /\ [AllNext]_allVars => Inv'
  BY AccountInvHolds, ChatInvHolds, ConversationInvHolds, NoticeInvHolds, PageInvHolds
<1>3. Inv => ComponentTypes
  <2> SUFFICES ASSUME Inv PROVE ComponentTypes  OBVIOUS
  <2>1. /\ turn = "entry" => Accounts(Joining)!TypeOK
        /\ turn = "sessions" => Accounts(Sessions)!TypeOK
        /\ turn = "tokens" => Accounts(Tokens)!TypeOK
    BY BooksShow DEF AccountInv
  <2>2. TypeOK  BY SizesFit, TypesShow DEF ChatInv
  <2>3. /\ turn = "starting" => Conversations(Starting)!TypeOK
        /\ turn = "sending" => Conversations(Sending)!TypeOK
    BY SizesFit, TalkShows DEF ConversationInv
  <2>4. /\ turn = "muting" => MutedNotices!TypeOK
        /\ turn = "pushing" => PushedNotices!TypeOK
    BY MutedHold, MutedShows, PushedHold, PushedShows DEF NoticeInv
  <2>5. /\ turn = "feeds" => Feeds!TypeOK
        /\ turn = "search" => Search!TypeOK
    BY SizesFit, FeedShows, SearchShows DEF PageInv
  <2> QED  BY <2>1, <2>2, <2>3, <2>4, <2>5 DEF ComponentTypes
<1> QED  BY <1>1, <1>2, <1>3, PTL DEF AllSpec

==============================================================================
