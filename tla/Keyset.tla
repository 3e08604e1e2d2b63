------------------------------- MODULE Keyset -------------------------------
(***************************************************************************)
(* Pages over two tables in one order, without an offset (feed/services.py,*)
(* search/services.py).  A page is the first entries strictly after the    *)
(* cursor, and the cursor is the last entry of the page before.            *)
(*                                                                         *)
(* The order is (featured, at, kind, id), all descending: the featured     *)
(* businesses first, then the newest or the most relevant.  Each table     *)
(* gives at most a page of its own rows, and the two are merged.           *)
(***************************************************************************)
EXTENDS Integers, FiniteSets, FiniteSetsExt

CONSTANT Nobody  \* no cursor

Kind == {0, 1}
Entry == [featured : BOOLEAN, at : Int, kind : Kind, id : Int]

\* The primary key of each table.
KeysUnique(S) == \A x, y \in S : x.kind = y.kind /\ x.id = y.id => x = y

\* CONTENT_TYPE_RANK breaks the tie of two tables, the id that of two rows.
ByTime(x, y) ==
  \/ x.at > y.at
  \/ x.at = y.at /\ x.kind > y.kind
  \/ x.at = y.at /\ x.kind = y.kind /\ x.id > y.id

\* The sort key of the merged list: x comes before y.
Before(x, y) ==
  \/ x.featured /\ ~y.featured
  \/ x.featured = y.featured /\ ByTime(x, y)

-----------------------------------------------------------------------------
(* What the queries ask for                                                *)

\* A comparison for each case of the kind of the row and of the cursor.
RowsAfterStrict(x, c) ==  \* Faulty: the same instant is never compared by kind
  \/ x.at < c.at
  \/ x.kind = c.kind /\ x.at = c.at /\ x.id < c.id
RowsAfter(x, c) ==
  \/ x.kind < c.kind /\ x.at <= c.at
  \/ x.kind > c.kind /\ x.at < c.at
  \/ x.kind = c.kind /\ (x.at < c.at \/ (x.at = c.at /\ x.id < c.id))

FeaturedRowsAfter(x, c) ==
  IF c.featured THEN ~x.featured \/ (x.featured /\ RowsAfter(x, c))
  ELSE ~x.featured /\ RowsAfter(x, c)

\* The first n of S: ORDER BY and LIMIT, or the sort and the slice of the merge.
First(S, n) == {x \in S : Cardinality({y \in S : Before(y, x)}) < n}

\* At most n rows of each table, merged and cut to n.
MergedHalves(S, n) ==  \* Faulty: half a page of each table
  First(UNION {First({x \in S : x.kind = k}, n \div 2) : k \in Kind}, n)
Merged(S, n) == First(UNION {First({x \in S : x.kind = k}, n) : k \in Kind}, n)

Last(S) == CHOOSE x \in S : \A y \in S : y = x \/ Before(y, x)

Resumed(S, c) == IF c = Nobody THEN S ELSE {x \in S : FeaturedRowsAfter(x, c)}
=============================================================================
