------------------------------ MODULE Accounts ------------------------------
(***************************************************************************)
(* Accounts and their tokens (accounts/): registration, login, rotation of *)
(* refresh tokens, logout, the preferences of /auth/me/ and the Admin's    *)
(* form.  Rotation and the blacklist are those of simplejwt 5.5 with       *)
(* ROTATE_REFRESH_TOKENS and BLACKLIST_AFTER_ROTATION.                     *)
(*                                                                         *)
(* An address is compared without case by a check of its own; only the     *)
(* user name, the address as it was typed, is unique in the table.         *)
(***************************************************************************)
EXTENDS Integers, FiniteSets

CONSTANTS
  Address,     \* addresses, written without case
  Spelling,    \* ways to write an address in upper and lower case
  Language,    \* "ar", "en"
  Web,         \* processes that serve HTTP requests
  MaxAccounts, MaxTokens, MaxEdits,   \* bounds
  None

Assumptions ==
  /\ "ar" \in Language /\ IsFiniteSet(Web)
  /\ MaxAccounts \in Nat /\ MaxTokens \in Nat /\ MaxEdits \in Nat

VARIABLES
  account,     \* the rows, numbered
  token,       \* refresh tokens issued, numbered
  black,       \* refresh tokens on the blacklist
  expired,     \* refresh tokens whose time is over
  access,      \* accounts that hold an access token that is still good
  request,     \* what each web process works on
  ended,       \* sessions whose logout was answered with 200
  edits        \* changes made to accounts

vars == <<account, token, black, expired, access, request, ended, edits>>
tokenVars == <<token, black, expired, access, ended>>

Idle == [at |-> "idle"]
Account == DOMAIN account
Token == DOMAIN token
Email == [address : Address, spelling : Spelling]
DefaultBlank == None  \* Faulty: a field without a default
Default == CHOOSE l \in Language : l = "ar"

Becomes(p, r) == request' = [request EXCEPT ![p] = r]

TypeOK ==
  /\ \E n \in 0..MaxAccounts : Account = 1..n
  /\ \A u \in Account : account[u] \in
       [email : Email, active : BOOLEAN, moderator : BOOLEAN, language : Language]
  /\ \E n \in 0..MaxTokens : Token = 1..n
  /\ \A t \in Token : /\ token[t].owner \in Account /\ token[t].session \in 1..t
                      /\ token[t].parent \in 0..(t - 1)
  /\ black \subseteq Token /\ expired \subseteq Token
  /\ access \subseteq Account /\ ended \subseteq Token
  /\ \A p \in Web : request[p].at \in {"idle", "insert", "retire", "issue", "revoke", "save"}

Init ==
  /\ account = << >> /\ token = << >>
  /\ black = {} /\ expired = {} /\ access = {} /\ ended = {}
  /\ request = [p \in Web |-> Idle]
  /\ edits = 0

-----------------------------------------------------------------------------
(* Registration                                                            *)

WithSpelling(e) == {u \in Account : account[u].email = e}
WithAddress(e) == {u \in Account : account[u].email.address = e.address}

TakenAsTyped(e) == WithSpelling(e) # {}  \* Faulty: an exact comparison

\* validate_email: email__iexact
Taken(e) == WithAddress(e) # {}

Register(p, e) ==
  /\ request[p] = Idle /\ ~Taken(e)
  /\ Becomes(p, [at |-> "insert", email |-> e])
  /\ UNCHANGED <<account, edits, tokenVars>>

\* The user name is the address as typed, and unique; no token is issued.
Insert(p) ==
  LET e == request[p].email
      n == Cardinality(Account) + 1
      new == [email |-> e, active |-> TRUE, moderator |-> FALSE, language |-> Default]
  IN
  /\ request[p].at = "insert" /\ n <= MaxAccounts
  /\ IF WithSpelling(e) = {}
     THEN account' = [u \in 1..n |-> IF u = n THEN new ELSE account[u]]
     ELSE UNCHANGED account
  /\ Becomes(p, Idle)
  /\ UNCHANGED <<edits, tokenVars>>

-----------------------------------------------------------------------------
(* Tokens                                                                  *)

\* The next refresh token, and the tokens with it.
Fresh == Cardinality(Token) + 1
Add(t) == token' = [i \in 1..Fresh |-> IF i = Fresh THEN t ELSE token[i]]

\* The one account of an address, however it is typed: get() raises on two.
Candidates(e) == WithAddress(e)

Login(p, e) ==
  /\ request[p] = Idle /\ Fresh <= MaxTokens
  /\ Cardinality(Candidates(e)) = 1
  /\ \E u \in Candidates(e) :
       /\ account[u].active
       /\ Add([owner |-> u, session |-> Fresh, parent |-> 0])
       /\ access' = access \cup {u}
  /\ UNCHANGED <<account, black, expired, request, ended, edits>>

UsableAlways(t) == t \notin expired  \* Faulty: without the blacklist app
Usable(t) == t \notin black /\ t \notin expired

\* The token is read and checked, then the account.
Refresh(p, t) ==
  /\ request[p] = Idle
  /\ t \in Token /\ Usable(t) /\ account[token[t].owner].active
  /\ Becomes(p, [at |-> "retire", token |-> t])
  /\ UNCHANGED <<account, token, black, expired, access, ended, edits>>

RetiredNone(t) == {}  \* Faulty: BLACKLIST_AFTER_ROTATION is off
Retired(t) == {t}

\* blacklist() is a get_or_create: it succeeds on a token that is there already.
Retire(p) ==
  LET t == request[p].token IN
  /\ request[p].at = "retire"
  /\ black' = black \cup Retired(t)
  /\ Becomes(p, [at |-> "issue", token |-> t])
  /\ UNCHANGED <<account, token, expired, access, ended, edits>>

Issue(p) ==
  LET t == request[p].token IN
  /\ request[p].at = "issue" /\ Fresh <= MaxTokens
  /\ Add([owner |-> token[t].owner, session |-> token[t].session, parent |-> t])
  /\ access' = access \cup {token[t].owner}
  /\ Becomes(p, Idle)
  /\ UNCHANGED <<account, black, expired, ended, edits>>

\* Logout needs an access token that is good, anyone's, and a usable refresh token.
Logout(p, u, t) ==
  /\ request[p] = Idle
  /\ u \in access /\ account[u].active
  /\ t \in Token /\ Usable(t)
  /\ Becomes(p, [at |-> "revoke", token |-> t])
  /\ UNCHANGED <<account, token, black, expired, access, ended, edits>>

Revoke(p) ==
  LET t == request[p].token IN
  /\ request[p].at = "revoke"
  /\ black' = black \cup {t}
  /\ ended' = ended \cup {token[t].session}
  /\ Becomes(p, Idle)
  /\ UNCHANGED <<account, token, expired, access, edits>>

ExpireRefresh(t) ==
  /\ t \in Token \ expired
  /\ expired' = expired \cup {t}
  /\ UNCHANGED <<account, token, black, access, request, ended, edits>>

ExpireAccess(u) ==
  /\ u \in access
  /\ access' = access \ {u}
  /\ UNCHANGED <<account, token, black, expired, request, ended, edits>>

-----------------------------------------------------------------------------
(* The row of an account                                                   *)

\* PATCH /auth/me/: the account was loaded when the access token was checked.
Prefer(p, u, l) ==
  /\ request[p] = Idle /\ edits < MaxEdits /\ edits' = edits + 1
  /\ u \in access /\ account[u].active
  /\ Becomes(p, [at |-> "save", account |-> u, row |-> [account[u] EXCEPT !.language = l]])
  /\ UNCHANGED <<account, tokenVars>>

Saved(r) == [account[r.account] EXCEPT !.language = r.row.language]

SavePreference(p) ==
  LET r == request[p] IN
  /\ r.at = "save"
  /\ account' = [account EXCEPT ![r.account] = Saved(r)]
  /\ Becomes(p, Idle)
  /\ UNCHANGED <<edits, tokenVars>>

\* The Admin's form, as one step.
AdminSet(u, active, moderator) ==
  /\ u \in Account /\ edits < MaxEdits /\ edits' = edits + 1
  /\ account' = [account EXCEPT ![u].active = active, ![u].moderator = moderator]
  /\ UNCHANGED <<request, tokenVars>>

\* The process dies.
Abort(p) ==
  /\ request[p] # Idle
  /\ Becomes(p, Idle)
  /\ UNCHANGED <<account, edits, tokenVars>>

-----------------------------------------------------------------------------
EntryNext ==
  \E p \in Web : \/ Insert(p)
                 \/ \E e \in Email : Register(p, e) \/ Login(p, e)
                 \/ Abort(p)
SessionNext ==
  \/ \E p \in Web :
       \/ Retire(p) \/ Issue(p) \/ Revoke(p)
       \/ \E t \in 1..MaxTokens :
            Refresh(p, t) \/ \E u \in 1..MaxAccounts : Logout(p, u, t)
  \/ \E t \in 1..MaxTokens : ExpireRefresh(t)
RowNext ==
  \/ \E p \in Web : SavePreference(p) \/
       \E u \in 1..MaxAccounts, l \in Language : Prefer(p, u, l)
  \/ \E u \in 1..MaxAccounts : \/ ExpireAccess(u)
                               \/ \E a, m \in BOOLEAN : AdminSet(u, a, m)
Next == EntryNext \/ SessionNext \/ RowNext

Spec == Init /\ [][Next]_vars

-----------------------------------------------------------------------------
(* Properties                                                              *)

\* As many accounts have an address, in different spellings, as registrations can be
\* between the check and the INSERT at the same time: a registration that begins when
\* one is there is refused (accounts/serializers.py:49).
TwinsOnlyTogether == \A e \in Email : Cardinality(WithAddress(e)) <= Cardinality(Web)

\* Two spellings of an address are one account, as that line means.  Refuted by two
\* processes.
OneAccount ==
  \A u, v \in Account : account[u].email.address = account[v].email.address => u = v

\* A token gives a successor only after it was retired: a process that dies between
\* the two leaves the session without a token, never with two
\* (config/settings/base.py:317).
RetiredFirst == \A t \in Token : token[t].parent # 0 => token[t].parent \in black

\* The tokens of a session that are not retired, and what can go on with it: these,
\* and the rotations that have retired a token and issue the next.
Live(s) == {t \in Token \ black : token[t].session = s}
Rotating(s) == {p \in Web : request[p].at = "issue" /\ token[request[p].token].session = s}
Hands(s) == {<<t, None>> : t \in Live(s)} \cup {<<request[p].token, p>> : p \in Rotating(s)}
AtMostOne(S) == \A x, y \in S : x = y

\* The token that a request checked has been retired since.
Overtaken(p) == request[p].at \in {"retire", "revoke"} /\ request[p].token \in black

\* A session that goes on in one place is split in two, and one that is over begins
\* again, only by a rotation whose token another request retired after it was checked;
\* a logout ends a session that goes on in one place unless that happened to it too
\* (config/settings/base.py:318, accounts/services.py:126).
SessionsForkByOverlap ==
  /\ \A s \in Token : (AtMostOne(Hands(s)) /\ ~AtMostOne(Hands(s)')) \/ (Hands(s) = {} /\ Hands(s)' # {})
       => \E p \in Web : Overtaken(p) /\ request[p].at = "retire" /\ request'[p].at = "issue"
  /\ \A p \in Web, s \in Token :
       Revoke(p) /\ ~Overtaken(p) /\ token[request[p].token].session = s /\ AtMostOne(Hands(s))
         => Hands(s)' = {}
  /\ \A p \in Web : ~Overtaken(p) /\ Overtaken(p)' =>
       \E q \in Web \ {p} : /\ request[q].at \in {"retire", "revoke"} /\ request'[q] # request[q]
                           /\ request[q].token = request[p].token

\* A session has at most one refresh token that is not retired, and after a logout none
\* (the same lines).  Refuted by two processes that check the same token.
OneLive == \A s \in Token : Cardinality(Live(s)) <= 1
LogoutEnds == \A s \in ended : Live(s) = {}
=============================================================================
