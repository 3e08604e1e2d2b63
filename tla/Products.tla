------------------------------ MODULE Products ------------------------------
(***************************************************************************)
(* Products and their variants (products/): created, edited, hidden and    *)
(* deleted by the owning business, and listed for the public.              *)
(*                                                                         *)
(* A PATCH and a soft deletion save all columns of a row they have loaded. *)
(***************************************************************************)
EXTENDS Integers, FiniteSets

CONSTANTS
  User,        \* accounts
  Owner,       \* accounts with a business profile
  Web,         \* processes that serve HTTP requests
  MaxProducts, MaxVariants, MaxEdits,  \* bounds
  None         \* a field that is absent

Assumptions ==
  /\ Owner \subseteq User /\ None \notin BOOLEAN /\ None \notin {"shown", "hidden", "deleted"}
  /\ MaxProducts \in Nat /\ MaxVariants \in Nat /\ MaxEdits \in Nat

VARIABLES
  product,     \* the rows, numbered
  variant,     \* the product of each variant, None once it is deleted
  wish,        \* what the owner was last told of a product: shown, hidden, deleted
  request,     \* what each web process works on
  edits

vars == <<product, variant, wish, request, edits>>

Idle == [at |-> "idle"]
Id == 1..MaxProducts
Row == [owner : Owner, active : BOOLEAN, deleted : BOOLEAN]
Product == DOMAIN product
Becomes(p, r) == request' = [request EXCEPT ![p] = r]
Begin(p, r) == request[p] = Idle /\ edits < MaxEdits /\ edits' = edits + 1 /\ Becomes(p, r)

\* Product.objects: what is not deleted.
Alive == {x \in Product : ~product[x].deleted}
\* ProductPublicListView.
PublicList == {x \in Alive : product[x].active}
\* ProductVariantDetailView: by the id of the product in the URL.
ReadableVariants == {v \in DOMAIN variant : variant[v] # None}

TypeOK ==
  /\ \E n \in 0..MaxProducts : Product = 1..n
  /\ \A x \in Product : product[x] \in Row
  /\ \A v \in DOMAIN variant : variant[v] \in Product \cup {None}
  /\ DOMAIN wish = Product /\ \A x \in Product : wish[x] \in {"shown", "hidden", "deleted"}
  /\ \A p \in Web : request[p].at \in {"idle", "insert", "save", "variant"}

Init ==
  /\ product = << >> /\ variant = << >> /\ wish = << >>
  /\ request = [p \in Web |-> Idle]
  /\ edits = 0

\* is_active as the form or the JSON has it; an absent field is no answer at all.
BooleanField(value, before) ==  \* Faulty: absent from a form is FALSE
  IF value = None THEN FALSE ELSE value
FormSafeBooleanField(value, before) == IF value = None THEN before ELSE value

MayOwn(u) == u \in Owner

Create(p, u, active) ==
  /\ MayOwn(u)
  /\ Begin(p, [at |-> "insert", row |-> [owner |-> u, active |-> FormSafeBooleanField(active, TRUE),
                                         deleted |-> FALSE], asked |-> active])
  /\ UNCHANGED <<product, variant, wish>>

Insert(p) ==
  LET n == Cardinality(Product) + 1
      asked == request[p].asked
  IN
  /\ request[p].at = "insert" /\ n \in Id
  /\ product' = [x \in 1..n |-> IF x = n THEN request[p].row ELSE product[x]]
  /\ wish' = [x \in 1..n |-> IF x = n THEN (IF asked = FALSE THEN "hidden" ELSE "shown") ELSE wish[x]]
  /\ Becomes(p, Idle)
  /\ UNCHANGED <<variant, edits>>

\* PATCH: get_object, _check_owner, and a save of the whole row.
Patch(p, u, x, active) ==
  /\ x \in Alive /\ product[x].owner = u
  /\ Begin(p, [at |-> "save", id |-> x,
               row |-> [product[x] EXCEPT !.active = FormSafeBooleanField(active, @)],
               loaded |-> product[x],
               told |-> IF active = None THEN None ELSE IF active THEN "shown" ELSE "hidden"])
  /\ UNCHANGED <<product, variant, wish>>

\* DELETE: SoftDeleteModel.delete, a save of the whole row too.
Destroy(p, u, x) ==
  /\ x \in Alive /\ product[x].owner = u
  /\ Begin(p, [at |-> "save", id |-> x, row |-> [product[x] EXCEPT !.deleted = TRUE],
               loaded |-> product[x], told |-> "deleted"])
  /\ UNCHANGED <<product, variant, wish>>

\* A deletion that was answered is not taken back by a later answer.
Save(p) ==
  LET r == request[p] IN
  /\ r.at = "save"
  /\ product' = [product EXCEPT ![r.id] = r.row]
  /\ wish' = [wish EXCEPT ![r.id] = IF @ = "deleted" \/ r.told = None THEN @ ELSE r.told]
  /\ Becomes(p, Idle)
  /\ UNCHANGED <<variant, edits>>

AddVariant(p, u, x) ==
  /\ x \in Alive /\ product[x].owner = u
  /\ Begin(p, [at |-> "variant", id |-> x])
  /\ UNCHANGED <<product, variant, wish>>

InsertVariant(p) ==
  LET n == Cardinality(DOMAIN variant) + 1 IN
  /\ request[p].at = "variant" /\ n <= MaxVariants
  /\ variant' = [v \in 1..n |-> IF v = n THEN request[p].id ELSE variant[v]]
  /\ Becomes(p, Idle)
  /\ UNCHANGED <<product, wish, edits>>

\* A real deletion of the row.
DestroyVariant(u, v) ==
  /\ v \in ReadableVariants /\ product[variant[v]].owner = u
  /\ edits < MaxEdits /\ edits' = edits + 1
  /\ variant' = [variant EXCEPT ![v] = None]
  /\ UNCHANGED <<product, wish, request>>

\* The process dies.
Abort(p) ==
  /\ request[p] # Idle /\ Becomes(p, Idle)
  /\ UNCHANGED <<product, variant, wish, edits>>

Next ==
  \/ \E p \in Web :
       \/ Insert(p) \/ Save(p) \/ InsertVariant(p) \/ Abort(p)
       \/ \E u \in User :
            \/ \E active \in BOOLEAN \cup {None} :
                 Create(p, u, active) \/ \E x \in Id : Patch(p, u, x, active)
            \/ \E x \in Id : Destroy(p, u, x) \/ AddVariant(p, u, x)
  \/ \E u \in User, v \in 1..MaxVariants : DestroyVariant(u, v)

Spec == Init /\ [][Next]_vars

-----------------------------------------------------------------------------
(* Properties                                                              *)

\* The row is what its owner was last told of it.
AsTold(x) ==
  wish[x] = IF product[x].deleted THEN "deleted" ELSE IF product[x].active THEN "shown" ELSE "hidden"

\* The row was changed after the request had loaded it.
Stale(p) == request[p].at = "save" /\ request[p].loaded # product[request[p].id]

\* A new product is what its owner is told of it; a product stops being so only by the save
\* of a row that another request has changed since it was loaded, and no save is stale but
\* for another one's (products/serializers.py:45, products/views.py:126).
DriftsByStaleSaves ==
  /\ \A x \in Product : AsTold(x) /\ ~AsTold(x)' => \E p \in Web : Stale(p) /\ Save(p) /\ request[p].id = x
  /\ \A x \in DOMAIN product' \ Product : AsTold(x)'
  /\ \A p \in Web : ~Stale(p) /\ Stale(p)' => \E q \in Web \ {p} : Save(q) /\ request[q].id = request[p].id

\* The public list has a product if and only if its owner, as far as was answered, has
\* it shown (products/views.py:169).  Refuted by two processes.
PublicAsWished == \A x \in Product : x \in PublicList <=> wish[x] = "shown"

\* A product whose deletion was answered is gone from every read path
\* (products/views.py:126).  Refuted by a PATCH that loaded the row before: it saves
\* is_deleted = FALSE again.
DeletedIsGone == \A x \in Product : wish[x] = "deleted" => x \notin Alive

\* A variant of a deleted product is on no read path (products/models.py:181).
\* Refuted: its own address filters by the id of the product only.
VariantsOfAlive == \A v \in ReadableVariants : variant[v] \in Alive
=============================================================================
