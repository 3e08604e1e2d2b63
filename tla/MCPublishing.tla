---------------------------- MODULE MCPublishing ----------------------------
(* The components of Publishing for TLC: the sizes of each turn.           *)
EXTENDS Publishing, TLC

CONSTANTS
  p1, r1,         \* a post, a reel
  t1, t2, t3,     \* workers: one of content, two of the rollup
  w1, w2,         \* processes
  u1, u2, bob,    \* accounts
  b1, b2, x1, m1, s1,               \* businesses, content, a comment, a story
  k1, k2, k3, n1, n2, d1, kind  \* categories, names, forms, a category of the forms

OneStory ==
  [Story |-> {s1}, Viewer |-> {u1}, Web |-> {w1, w2}, Ttl |-> 3, Sla |-> 1, MaxTime |-> 5]

\* One business and one piece of content, both of u1.
Reacting(kinds, max) ==
  [User |-> {u1, u2}, Business |-> {b1}, Content |-> {x1}, CommentId |-> {m1}, Web |-> {w1, w2},
   OwnerOf |-> [x \in {b1, x1} |-> u1], Kinds |-> kinds, Threshold |-> 2, MaxCount |-> max, MaxShares |-> 1]
FollowsAndLikes == Reacting({"follow", "like"}, 2)
SavesAndShares == Reacting({"save", "share"}, 2)
CommentsAndReports == Reacting({"comment", "report"}, 2)
FollowsNextToSaves == Reacting({"follow"}, 1)
SharesNextToSaves == Reacting({"share"}, 1)

AtTheSameTime ==
  [Customer |-> {u1, u2}, Business |-> {b1, b2}, Web |-> {w1, w2}, Celery |-> {t1}, MaxScore |-> 2, MaxDay |-> 0]
ThreeDays ==
  [Customer |-> {u1}, Business |-> {b1}, Web |-> {w1, w2}, Celery |-> {t2, t3}, MaxScore |-> 1, MaxDay |-> 2]

FourPhotos ==
  [User |-> {u1, bob}, Business |-> {bob}, Detail |-> {d1}, Category |-> {}, Web |-> {w1, w2},
   MaxFiles |-> 4, MaxEdits |-> 6]
TwoAccounts ==
  [User |-> {u1, bob}, Business |-> {bob}, Detail |-> {d1}, Category |-> {kind}, Web |-> {w1, w2},
   MaxFiles |-> 0, MaxEdits |-> 5]
ThreeCategories ==
  [Category |-> {k1, k2, k3}, English |-> {n1, n2}, Arabic |-> {}, Language |-> {"en", "ar"},
   Web |-> {w1, w2}, MaxEdits |-> 3]
TwoCategories ==
  [Category |-> {k1, k2}, English |-> {n1}, Arabic |-> {n2}, Language |-> {"en", "ar"},
   Web |-> {w1, w2}, MaxEdits |-> 3]

OneShop ==
  [User |-> {u1, bob}, Owner |-> {bob}, Web |-> {w1, w2}, MaxProducts |-> 2, MaxVariants |-> 1, MaxEdits |-> 5]

\* The two web processes are alike, and the two workers of the rollup.
Alike == Permutations({w1, w2}) \cup Permutations({t2, t3})
=============================================================================
