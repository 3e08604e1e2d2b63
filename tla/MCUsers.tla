------------------------------- MODULE MCUsers -------------------------------
(* The components of Users for TLC: the sizes of each turn.                *)
EXTENDS Users, TLC

CONSTANTS
  w1, w2, w,              \* processes; w is alone where the web has one event to send
  alice, bob, carol,      \* accounts
  e1, e2,                 \* e-mail addresses
  a1, a2, t1, c1,         \* connections of alice, an app installation, a worker
  b, shared,              \* a business of bob, content that is shared
  shopA, shopB, mine      \* businesses of the feeds

\* alice has two tabs; bob sends from the app.
Alices == [c \in {a1, a2} |-> alice]

Signing(addresses, spellings, accounts, tokens, max) ==
  [Address |-> addresses, Spelling |-> spellings, Language |-> {"ar", "en"}, Web |-> {w1, w2},
   MaxAccounts |-> accounts, MaxTokens |-> tokens, MaxEdits |-> max]
\* Three spellings, so that an address could have more accounts than there are processes.
ThreeAccounts == Signing({e1, e2}, {"lower", "mixed", "upper"}, 3, 1, 0)
OneSession == Signing({e1}, {"lower"}, 1, 3, 0)
TwoTokens == Signing({e1}, {"lower", "mixed"}, 2, 2, 1)

Talking(users, spellings, conversations, messages) ==
  [User |-> users, Business |-> {b}, Owner |-> [x \in {b} |-> bob], Spelling |-> spellings,
   Content |-> {shared}, Web |-> {w1, w2}, MaxConversations |-> conversations, MaxMessages |-> messages]
ThreeConversations == Talking({alice, bob, carol}, {"plain", "padded"}, 3, 0)
OneMessage == Talking({alice, bob}, {"plain"}, 1, 1)

\* alice reads Arabic, bob English.
Telling(users, types) ==
  [User |-> users, Language |-> [u \in users |-> IF u = alice THEN "ar" ELSE "en"], Token |-> {t1},
   Type |-> types, Web |-> {w}, Celery |-> {c1}, MaxEvent |-> 1]
OneSwitch == Telling({alice}, {"chat_message", "system_announcement"})
OnePush == Telling({alice, bob}, {"chat_message"})

\* Ties of both kinds and of one kind.
I(kind, id, at, business) == [kind |-> kind, id |-> id, at |-> at, business |-> business]
SixItems ==
  [Item |-> {I(0, 1, 1, shopA), I(0, 2, 1, shopB), I(1, 1, 1, shopA), I(1, 2, 1, shopB),
             I(0, 3, 2, shopB), I(1, 3, 1, mine)},
   Business |-> {shopA, shopB, mine}, Own |-> mine, PageSize |-> 2, MaxEdits |-> 1]
FiveResults ==
  [Item |-> {I(0, 1, 1, shopA), I(0, 2, 1, shopB), I(1, 1, 1, shopA), I(1, 2, 1, shopB), I(1, 3, 2, shopA)},
   Business |-> {shopA, shopB}, Score |-> {1, 2}, PageSize |-> 2, MaxEdits |-> 1]

\* The two web processes are alike, and the two tabs.
Alike == Permutations({w1, w2}) \cup Permutations({a1, a2})
=============================================================================
