------------------------------- MODULE Search -------------------------------
(***************************************************************************)
(* Search (search/): one client reads the results page by page, businesses *)
(* (0) and products (1) in one order, while rows are edited, hidden and    *)
(* deleted and subscriptions begin and end.                                *)
(*                                                                         *)
(* With a text the second key is the relevance, a float the database       *)
(* computes; without one it is the time of creation.                       *)
(***************************************************************************)
EXTENDS Keyset

CONSTANTS
  Item,       \* [id, kind, at, business]
  Business,   \* businesses
  Score,      \* values of the relevance
  PageSize, MaxEdits   \* results of a page; bound on the changes

Assumptions ==
  /\ Item \subseteq [id : Nat, kind : Kind, at : Nat, business : Business]
  /\ IsFiniteSet(Item) /\ KeysUnique(Item)
  /\ PageSize \in Nat \ {0} /\ MaxEdits \in Nat /\ Score \subseteq Nat
  /\ Nobody \notin [mode : {"relevance", "recency"}, featuredOnly : BOOLEAN]
  /\ Nobody \notin Entry \cup [mode : {"relevance", "recency"}, last : Entry]

VARIABLES
  visible,    \* businesses that are not deleted, products that are active too
  score,      \* the relevance of each item for the text that is searched
  matches,    \* items that pass the filters of the form
  featured,   \* businesses with is_featured
  query,      \* [mode, featuredOnly] of the search, Nobody before it
  cursor,     \* [mode, last] after the last page, Nobody at the end
  served, twice, steady, edits  \* as in Feeds

vars == <<visible, score, matches, featured, query, cursor, served, twice, steady, edits>>
world == <<visible, score, matches, featured, edits>>

Of(b) == {i \in Item : i.business = b}
Query == [mode : {"relevance", "recency"}, featuredOnly : BOOLEAN]
EntryOf(i, q) ==
  [featured |-> i.business \in featured, kind |-> i.kind, id |-> i.id,
   at |-> IF q.mode = "relevance" THEN score[i] ELSE i.at]
ItemOf(e) == CHOOSE i \in Item : i.kind = e.kind /\ i.id = e.id

TypeOK ==
  /\ visible \subseteq Item /\ matches \subseteq Item /\ featured \subseteq Business
  /\ score \in [Item -> Score]
  /\ query \in Query \cup {Nobody}
  /\ cursor = Nobody \/ (cursor.mode = query.mode /\ cursor.last \in Entry)
  /\ twice \subseteq served /\ served \subseteq Item /\ steady \subseteq Item
  /\ edits \in 0..MaxEdits

Init ==
  /\ visible = Item /\ matches = Item
  /\ score \in [Item -> Score] /\ featured \in SUBSET Business
  /\ query = Nobody /\ cursor = Nobody
  /\ served = {} /\ twice = {} /\ steady = {}
  /\ edits = 0

-----------------------------------------------------------------------------
(* A page                                                                  *)

\* The two querysets; the text is among the filters.
ResultsAll(q) == {EntryOf(i, q) : i \in visible \cap matches}  \* Faulty: featured_only is forgotten
Results(q) ==
  {EntryOf(i, q) : i \in {j \in visible \cap matches : q.featuredOnly => j.business \in featured}}

Page(q, c) == Merged(Resumed(Results(q), IF c = Nobody THEN Nobody ELSE c.last), PageSize)

\* ts_rank is cast to a float8, which the cursor carries exactly.
PositionFloat4(e) == [e EXCEPT !.at = @ - 1]  \* Faulty: a float4 is never what the cursor says
Position(e) == e

SameMode(q) == {r \in Query : r.mode = q.mode}

ModeOf(q) == q.mode

Serve(q, c, seen) ==
  LET page == Page(q, c)
      items == {ItemOf(e) : e \in page}
  IN
  /\ served' = seen \cup items
  /\ twice' = (IF c = Nobody THEN {} ELSE twice) \cup (seen \cap items)
  /\ cursor' = IF Cardinality(page) < PageSize THEN Nobody
               ELSE [mode |-> ModeOf(q), last |-> Position(Last(page))]

Begin(q) ==
  /\ query = Nobody /\ query' = q
  /\ Serve(q, Nobody, {})
  /\ steady' = Item
  /\ UNCHANGED world

\* The client sends its query again with the cursor; a cursor of the other mode is a 400.
More(q) ==
  /\ query # Nobody /\ cursor # Nobody
  /\ q \in SameMode(query) /\ q.featuredOnly = query.featuredOnly
  /\ query' = q
  /\ Serve(q, cursor, served)
  /\ UNCHANGED <<steady, world>>

Leave ==
  /\ query # Nobody /\ query' = Nobody /\ cursor' = Nobody
  /\ served' = {} /\ twice' = {} /\ steady' = {}
  /\ UNCHANGED world

-----------------------------------------------------------------------------
(* The rest of the system, between two pages                               *)

Edit(touched) ==
  /\ edits < MaxEdits /\ edits' = edits + 1
  /\ steady' = steady \ touched
  /\ UNCHANGED <<query, cursor, served, twice>>

\* A soft deletion, an is_active that is switched.
Switch(i) ==
  /\ visible' = IF i \in visible THEN visible \ {i} ELSE visible \cup {i}
  /\ Edit({i}) /\ UNCHANGED <<score, matches, featured>>

\* A save: its text and its search_vector, its price or its city change.
SaveItem(i, s, found) ==
  /\ score' = [score EXCEPT ![i] = s]
  /\ matches' = IF found THEN matches \cup {i} ELSE matches \ {i}
  /\ Edit({i}) /\ UNCHANGED <<visible, featured>>

Feature(b) ==
  /\ featured' = IF b \in featured THEN featured \ {b} ELSE featured \cup {b}
  /\ Edit(Of(b)) /\ UNCHANGED <<visible, score, matches>>

Next ==
  \/ \E q \in Query : Begin(q) \/ More(q)
  \/ Leave
  \/ \E i \in Item : \/ Switch(i)
                     \/ \E s \in Score, found \in BOOLEAN : SaveItem(i, s, found)
  \/ \E b \in Business : Feature(b)

Spec == Init /\ [][Next]_vars

-----------------------------------------------------------------------------
(* Properties                                                              *)

\* What nobody touched since the first page is served at most once, whatever is
\* edited, hidden or promoted around it (search/services.py:44).
NoRepeat == twice \cap steady = {}

\* At the end every such result was served (search/services.py:39 and 127).
NoSkip ==
  query # Nobody /\ cursor = Nobody => {ItemOf(e) : e \in Results(query)} \cap steady \subseteq served

\* A search for featured businesses serves nothing of a business that stayed without
\* a subscription (search/services.py:255).
OnlyFeatured ==
  query # Nobody /\ query.featuredOnly =>
    \A i \in served \cap steady : i.business \in featured
=============================================================================
