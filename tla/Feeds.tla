------------------------------- MODULE Feeds --------------------------------
(***************************************************************************)
(* The Home and Discover feeds (feed/): one user reads page after page     *)
(* while content is published and taken down, businesses are followed and  *)
(* unfollowed, and subscriptions begin and end.                            *)
(*                                                                         *)
(* Home serves what the followed businesses published, and fills its pages *)
(* with the rest once that is exhausted; Discover has only the rest.  A    *)
(* page is made of three reads, the list of the followed businesses and    *)
(* the two tiers, and the rest of the system moves between them.  The      *)
(* cache of the first page is in Engagement.                               *)
(***************************************************************************)
EXTENDS Keyset

CONSTANTS
  Item,       \* [id, kind, at, business] : posts (0) and reels (1)
  Business,   \* businesses
  Own,        \* the reader's own business, or Nobody
  PageSize,   \* items of a page
  MaxEdits    \* bound on the changes while the feed is read

Assumptions ==
  /\ Item \subseteq [id : Nat, kind : Kind, at : Nat, business : Business]
  /\ IsFiniteSet(Item) /\ KeysUnique(Item)
  /\ PageSize \in Nat \ {0} /\ MaxEdits \in Nat
  /\ Nobody \notin Entry \cup [phase : {"following", "backfill"}, last : Entry]

VARIABLES
  published,  \* items that published_objects shows
  followed,   \* businesses the reader follows
  featured,   \* other businesses with is_featured; the own one is in no tier
  view,       \* "home", "discover", or "none" before the first page
  stage,      \* "idle", or the tier a page still has to read
  follows,    \* what that page read as the followed businesses
  part,       \* the entries it read of the following tier
  cursor,     \* [phase, last] after the last page, Nobody at the end of the feed
  served,     \* items served since the first page
  twice,      \* items served twice
  steady,     \* items untouched since the first page
  edits

page == <<stage, follows, part>>
vars == <<published, followed, featured, view, page, cursor, served, twice, steady, edits>>
world == <<published, followed, featured, edits>>

Of(b) == {i \in Item : i.business = b}

\* The entries of a tier for a list of followed businesses; only the backfill looks at
\* is_featured.
EntryOf(i, f) == [featured |-> f, at |-> i.at, kind |-> i.kind, id |-> i.id]
Following(list) == {EntryOf(i, FALSE) : i \in {j \in published : j.business \in list}}
Backfill(list) ==
  {EntryOf(i, i.business \in featured) : i \in {j \in published : j.business \notin list \cup {Own}}}
ItemOf(e) == CHOOSE i \in Item : i.kind = e.kind /\ i.id = e.id

TypeOK ==
  /\ published \subseteq Item /\ followed \subseteq Business \ {Own} /\ featured \subseteq Business \ {Own}
  /\ view \in {"none", "home", "discover"} /\ stage \in {"idle", "following", "backfill"}
  /\ follows \subseteq Business \ {Own} /\ part \subseteq Entry
  /\ cursor = Nobody \/ (cursor.phase \in {"following", "backfill"} /\ cursor.last \in Entry)
  /\ twice \subseteq served /\ served \subseteq Item /\ steady \subseteq Item
  /\ view = "discover" /\ cursor # Nobody => cursor.phase = "backfill"
  /\ edits \in 0..MaxEdits

Init ==
  /\ published \in SUBSET Item
  /\ followed \in SUBSET (Business \ {Own}) /\ featured \in SUBSET (Business \ {Own})
  /\ view = "none" /\ stage = "idle" /\ follows = {} /\ part = {} /\ cursor = Nobody
  /\ served = {} /\ twice = {} /\ steady = {}
  /\ edits = 0

-----------------------------------------------------------------------------
(* A page                                                                  *)

\* The tier a page begins in.
Begun(v, c) == IF v = "home" /\ (c = Nobody \/ c.phase = "following") THEN "following" ELSE "backfill"

\* The first query of a request.
Ask(v, c) ==
  /\ stage = "idle" /\ stage' = Begun(v, c)
  /\ follows' = followed /\ part' = {}
  /\ UNCHANGED <<cursor, served, twice, world>>

After == IF cursor = Nobody THEN Nobody ELSE cursor.last

\* The phase is the tier of the last item served; a short page is the end.
NextOfFollowing(first, rest) ==  \* Faulty: the phase in which the page was begun
  IF first # {} THEN [phase |-> "following", last |-> Last(first)]
  ELSE [phase |-> "backfill", last |-> Last(rest)]
NextOf(first, rest) ==
  IF rest # {} THEN [phase |-> "backfill", last |-> Last(rest)]
  ELSE [phase |-> "following", last |-> Last(first)]

\* The first page, without a cursor.
Open(v) ==
  /\ view = "none" /\ view' = v
  /\ Ask(v, Nobody)
  /\ steady' = Item

More ==
  /\ view # "none" /\ cursor # Nobody
  /\ Ask(view, cursor)
  /\ UNCHANGED <<view, steady>>

\* fetch_following_tier.
FollowingLeft == Resumed(Following(follows), After)
ReadFollowing ==
  /\ stage = "following" /\ stage' = "backfill"
  /\ part' = Merged(FollowingLeft, PageSize)
  /\ UNCHANGED <<view, follows, cursor, served, twice, steady, world>>

\* fetch_backfill_tier, from its top if the page began with the followed; it is not asked
\* for the rest of a page that is full.  The page is served.
BackfillLeft == Resumed(Backfill(follows), IF Begun(view, cursor) = "following" THEN Nobody ELSE After)
Remaining == PageSize - Cardinality(part)
ReadBackfill ==
  LET rest == Merged(BackfillLeft, Remaining)
      items == {ItemOf(e) : e \in part \cup rest}
  IN
  /\ stage = "backfill" /\ stage' = "idle"
  /\ served' = served \cup items
  /\ twice' = twice \cup (served \cap items)
  /\ cursor' = IF Cardinality(rest) < Remaining THEN Nobody ELSE NextOf(part, rest)
  /\ follows' = {} /\ part' = {}
  /\ UNCHANGED <<view, steady, world>>

Close ==
  /\ view # "none" /\ view' = "none" /\ stage' = "idle" /\ cursor' = Nobody
  /\ follows' = {} /\ part' = {}
  /\ served' = {} /\ twice' = {} /\ steady' = {}
  /\ UNCHANGED world

-----------------------------------------------------------------------------
(* The rest of the system, between any two queries                         *)

Edit(touched) ==
  /\ edits < MaxEdits /\ edits' = edits + 1
  /\ steady' = steady \ touched
  /\ UNCHANGED <<view, page, cursor, served, twice>>

\* An approval, and a take-down or a deletion.
Publish(i) ==
  /\ i \notin published /\ published' = published \cup {i}
  /\ Edit({i}) /\ UNCHANGED <<followed, featured>>
TakeDown(i) ==
  /\ i \in published /\ published' = published \ {i}
  /\ Edit({i}) /\ UNCHANGED <<followed, featured>>

\* FollowToggleView.
Follow(b) ==
  /\ b # Own
  /\ followed' = IF b \in followed THEN followed \ {b} ELSE followed \cup {b}
  /\ Edit(Of(b)) /\ UNCHANGED <<published, featured>>

\* A subscription that begins or ends.
Feature(b) ==
  /\ b # Own
  /\ featured' = IF b \in featured THEN featured \ {b} ELSE featured \cup {b}
  /\ Edit(Of(b)) /\ UNCHANGED <<published, followed>>

Next ==
  \/ \E v \in {"home", "discover"} : Open(v)
  \/ More \/ ReadFollowing \/ ReadBackfill \/ Close
  \/ \E i \in Item : Publish(i) \/ TakeDown(i)
  \/ \E b \in Business : Follow(b) \/ Feature(b)

FollowNext == Open("home") \/ More \/ ReadFollowing \/ ReadBackfill \/ \E b \in Business : Follow(b)

FollowSpec == Init /\ [][FollowNext]_vars
Spec == Init /\ [][Next]_vars

-----------------------------------------------------------------------------
(* Properties                                                              *)

\* Whatever changes around it, what nobody touched is served at most once
\* (feed/services.py:24).
NoRepeat == twice \cap steady = {}

\* At the end of the feed, everything that was there all the time was served: the
\* short page means that both tiers are exhausted (feed/services.py:50).
Eligible(v) ==
  {i \in published : i.business # Own /\ (v = "discover" => i.business \notin followed)}
NoSkip == view # "none" /\ stage = "idle" /\ cursor = Nobody => Eligible(view) \cap steady \subseteq served

\* The page that ends Home finds all that the followed published served: the
\* backfill is begun only when the following tier is exhausted, so it is not looked
\* at again (feed/services.py:41).  Refuted, with nothing but a Follow between two
\* pages: the business is left out of the backfill from then on.
EndIsExhausted ==
  [][view = "home" /\ ReadBackfill /\ cursor' = Nobody =>
       {i \in published : i.business \in followed} \subseteq served']_vars

\* Cutting each table to a page before the merge loses nothing (feed/services.py:16).
MergeIsExact ==
  /\ stage = "following" => Merged(FollowingLeft, PageSize) = First(FollowingLeft, PageSize)
  /\ stage = "backfill" => Merged(BackfillLeft, Remaining) = First(BackfillLeft, Remaining)
=============================================================================
