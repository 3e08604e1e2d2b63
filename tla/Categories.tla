----------------------------- MODULE Categories -----------------------------
(***************************************************************************)
(* The category tree (categories/): the Admin's edits, the references of   *)
(* products, and the public tree with one cached copy for each language.   *)
(*                                                                         *)
(* The receiver drops the copies when a category is saved or deleted, that *)
(* is, inside the transaction of the Admin's request.                      *)
(***************************************************************************)
EXTENDS Integers, FiniteSets

CONSTANTS
  Category,    \* ids
  English, Arabic,   \* names
  Language,    \* "en", "ar"
  Web,         \* processes that serve HTTP requests
  MaxEdits,    \* bound on what is begun by the Admin and by businesses
  None         \* no name, no parent, no copy

Assumptions == MaxEdits \in Nat /\ IsFiniteSet(Category)

VARIABLES
  table,       \* the rows by id
  used,        \* categories of products, deleted ones included
  cache,       \* the copy of the tree for each language
  request,     \* what each web process works on
  edits

vars == <<table, used, cache, request, edits>>

Idle == [at |-> "idle"]
Row == [en : English, ar : Arabic \cup {None}, parent : Category \cup {None}, active : BOOLEAN]
Form == [en : English \cup {None}, ar : Arabic \cup {None}, parent : Category \cup {None}, active : BOOLEAN]
Existing == DOMAIN table
Active == {c \in Existing : table[c].active}
Becomes(p, r) == request' = [request EXCEPT ![p] = r]
Begin(p, r) == request[p] = Idle /\ edits < MaxEdits /\ edits' = edits + 1 /\ Becomes(p, r)

TypeOK ==
  /\ Existing \subseteq Category /\ \A c \in Existing : table[c] \in Row
  /\ used \subseteq Category
  /\ DOMAIN cache = Language
  /\ \A p \in Web : request[p].at \in {"idle", "save", "delete", "product", "put"}
  /\ edits \in 0..MaxEdits

Init ==
  /\ table = << >> /\ used = {}
  /\ cache = [l \in Language |-> None]
  /\ request = [p \in Web |-> Idle]
  /\ edits = 0

-----------------------------------------------------------------------------
(* The tree                                                                *)

\* Arabic falls back to English.
localized_category_name(row, l) == IF l = "ar" /\ row.ar # None THEN row.ar ELSE row.en

\* A category whose parent is not active is at the top.
RootsOnly == {c \in Active : table[c].parent = None}  \* Faulty: orphans are dropped
Roots == {c \in Active : table[c].parent \notin Active}

Served ==
  LET within[n \in Nat] ==
        IF n = 0 THEN Roots
        ELSE within[n - 1] \cup {c \in Active : table[c].parent \in within[n - 1]}
  IN within[Cardinality(Category)]

build_category_tree(l) ==
  [language |-> l,
   node |-> [c \in Served |->
              [name |-> localized_category_name(table[c], l),
               parent |-> IF c \in Roots THEN None ELSE table[c].parent]]]

-----------------------------------------------------------------------------
(* The Admin                                                               *)

\* unique_together: no constraint at the top, where the parent is NULL.
Free(c, row) ==
  row.parent = None \/
    \A d \in Existing \ {c} : table[d].parent = row.parent => table[d].en # row.en

DroppedEnglish == {"en"}  \* Faulty: the receiver knows one key
Dropped == Language

DropCopies == cache' = [l \in Language |-> IF l \in Dropped THEN None ELSE cache[l]]

\* clean: the English name, in either of its two fields.
Named(form) == form.en # None

\* The form offers every category as a parent, itself and its descendants included.
AdminSave(p, c, row) ==
  /\ row.parent # None => row.parent \in Existing
  /\ Named(row) /\ Free(c, row)
  /\ Begin(p, [at |-> "save", id |-> c, row |-> row])
  /\ DropCopies
  /\ UNCHANGED <<table, used>>

CommitSave(p) ==
  LET r == request[p] IN
  /\ r.at = "save"
  /\ IF (r.row.parent # None => r.row.parent \in Existing) /\ Free(r.id, r.row)
     THEN table' = [c \in Existing \cup {r.id} |-> IF c = r.id THEN r.row ELSE table[c]]
     ELSE UNCHANGED table
  /\ Becomes(p, Idle)
  /\ UNCHANGED <<used, cache, edits>>

\* PROTECT: neither a child nor a product, not even a deleted one.
Removable(c) == c \notin used /\ \A d \in Existing : table[d].parent # c

AdminDelete(p, c) ==
  /\ c \in Existing /\ Removable(c)
  /\ Begin(p, [at |-> "delete", id |-> c])
  /\ DropCopies
  /\ UNCHANGED <<table, used>>

\* The database looks at the references again when the transaction commits.
RemovableAlways(c) == TRUE  \* Faulty: only the collector looks
StillRemovable(c) == c \in Existing /\ Removable(c)

CommitDelete(p) ==
  LET c == request[p].id IN
  /\ request[p].at = "delete"
  /\ IF StillRemovable(c) THEN table' = [d \in Existing \ {c} |-> table[d]] ELSE UNCHANGED table
  /\ Becomes(p, Idle)
  /\ UNCHANGED <<used, cache, edits>>

-----------------------------------------------------------------------------
(* Products and the public tree                                            *)

\* A new product: its category is validated, then the row is inserted.
ValidateProduct(p, c) ==
  /\ c \in Existing
  /\ Begin(p, [at |-> "product", id |-> c])
  /\ UNCHANGED <<table, used, cache>>

InsertProduct(p) ==
  LET c == request[p].id IN
  /\ request[p].at = "product"
  /\ used' = IF c \in Existing THEN used \cup {c} ELSE used
  /\ Becomes(p, Idle)
  /\ UNCHANGED <<table, cache, edits>>

\* A miss: the tree is built.  A hit changes nothing.
BuildTree(p, l) ==
  /\ request[p] = Idle /\ cache[l] = None
  /\ Becomes(p, [at |-> "put", language |-> l, tree |-> build_category_tree(l)])
  /\ UNCHANGED <<table, used, cache, edits>>

category_tree_cache_key(l) == l

PutTree(p) ==
  LET r == request[p] IN
  /\ r.at = "put"
  /\ cache' = [cache EXCEPT ![category_tree_cache_key(r.language)] = r.tree]
  /\ Becomes(p, Idle)
  /\ UNCHANGED <<table, used, edits>>

\* An hour after it was put.
Expire(l) ==
  /\ cache[l] # None /\ cache' = [cache EXCEPT ![l] = None]
  /\ UNCHANGED <<table, used, request, edits>>

\* The process dies, or its transaction fails.
Abort(p) ==
  /\ request[p] # Idle /\ Becomes(p, Idle)
  /\ UNCHANGED <<table, used, cache, edits>>

AdminNext ==
  \E p \in Web :
    \/ CommitSave(p) \/ CommitDelete(p) \/ InsertProduct(p) \/ Abort(p)
    \/ \E c \in Category : \/ AdminDelete(p, c) \/ ValidateProduct(p, c)
                           \/ \E form \in Form : AdminSave(p, c, form)
TreeNext ==
  \/ \E p \in Web : PutTree(p) \/ \E l \in Language : BuildTree(p, l)
  \/ \E l \in Language : Expire(l)
Next == AdminNext \/ TreeNext

Spec == Init /\ [][Next]_vars

\* A request that is not killed takes its next step; a copy expires.
Step(p) == CommitSave(p) \/ CommitDelete(p) \/ InsertProduct(p) \/ PutTree(p)
Fairness ==
  /\ \A p \in Web : WF_vars(Step(p))
  /\ \A l \in Language : WF_vars(Expire(l))

-----------------------------------------------------------------------------
(* Properties                                                              *)

\* What a category or a product refers to is there, whatever is deleted meanwhile
\* (categories/models.py:44, products/models.py:82).
RefsExist ==
  /\ used \subseteq Existing
  /\ \A c \in Existing : table[c].parent \in Existing \cup {None}

\* An active category is missing from the tree only if its ancestors, all active,
\* never end: whatever is switched off above it, it is served (categories/services.py:56).
Endless == UNION {S \in SUBSET Active : \A c \in S : table[c].parent \in S}
OnlyEndlessVanish == Served = Active \ Endless

\* No active category vanishes from the tree (categories/services.py:57).  Refuted by
\* a category that is its own parent, or its child's child.
NothingVanishes == Active \subseteq Served

Stale(l) == cache[l] \notin {None, build_category_tree(l)}
\* The tree that a reader has built is not that of the table any more.
Outdated(p) == request[p].at = "put" /\ request[p].tree # build_category_tree(request[p].language)

\* A transaction of the Admin begins without a copy of either language
\* (categories/signals.py:12); a copy becomes wrong only by the COMMIT of one, for it was put
\* while that was open, or by a reader that puts what another process has changed since it
\* was built.
StaleTreeByOverlap ==
  /\ \A p \in Web, l \in Language :
       request[p] = Idle /\ request'[p].at \in {"save", "delete"} => cache'[l] = None
  /\ \A l \in Language : ~Stale(l) /\ Stale(l)' =>
       \E p \in Web : CommitSave(p) \/ CommitDelete(p) \/ (PutTree(p) /\ Outdated(p))
  /\ \A p \in Web : ~Outdated(p) /\ Outdated(p)' =>
       \E q \in Web \ {p} : CommitSave(q) \/ CommitDelete(q)

\* When nothing is at work, the copies are the tree (categories/signals.py:12).  Refuted by
\* two processes: one builds before the COMMIT of the other.
TreeShows ==
  (\A p \in Web : request[p] = Idle) =>
    \A l \in Language : cache[l] \in {None, build_category_tree(l)}

\* Whatever was put while the Admin's transactions were open, in the end the copies are
\* the tree: a copy lives an hour (categories/views.py:10).
TreeComesRight == \A l \in Language : <>[](cache[l] \in {None, build_category_tree(l)})
=============================================================================
