--------------------------- MODULE PublishingProofs ---------------------------
(***************************************************************************)
(* Proofs about what businesses publish: stories, ratings, profiles,       *)
(* categories and products keep what they promise and every table keeps    *)
(* its type, for every size.                                               *)
(*                                                                         *)
(* For each component: its types, its inductive invariant, and a lemma for *)
(* its initial states, its steps and the steps of others.  The theorems    *)
(* state the properties first of a component on its own, for every record  *)
(* c of its constants, and then of the composition.  Where the code reads,  *)
(* computes and writes without a lock, they say which step alone breaks    *)
(* what is promised, for any number of processes.                          *)
(***************************************************************************)
EXTENDS Publishing, ReviewProofs, EngagementProofs, FiniteSetTheorems, WellFoundedInduction, FunctionTheorems

-----------------------------------------------------------------------------
(* Induction, stated of sets.                                              *)

\* A set of numbers that is not empty has a least one.
LEMMA Least ==
  ASSUME NEW T \in SUBSET Nat, T # {}
  PROVE  \E x \in T : \A y \in T : x <= y
<1> DEFINE R == {ss \in Nat \X Nat : ss[1] < ss[2]}
<1>1. IsWellFoundedOn(R, Nat)  BY NatLessThanWellFounded DEF OpToRel
<1>2. PICK x \in T : \A y \in T : ~(<<y, x>> \in R)  BY <1>1, WFMin
<1>3. \A y \in T : ~(y < x)  BY <1>2
<1> QED  BY <1>3

\* A set of numbers with 0 and with the successor of each of its members is Nat.
LEMMA Induct ==
  ASSUME NEW S \in SUBSET Nat, 0 \in S, \A n \in S : n + 1 \in S
  PROVE  S = Nat
<1> DEFINE T == Nat \ S
<1>1. SUFFICES ASSUME T # {} PROVE FALSE  OBVIOUS
<1> T \in SUBSET Nat  OBVIOUS
<1> HIDE DEF T
<1>2. PICK x \in T : \A y \in T : x <= y  BY <1>1, Least
<1> USE DEF T
<1>3. x # 0 /\ x - 1 \in Nat  OBVIOUS
<1>4. x - 1 \notin T  BY <1>2, <1>3
<1> QED  BY <1>3, <1>4

\* What a step makes of a beginning, any number of times.
Repeats(W, base, g, n) == W[0] = base /\ \A i \in 0..(n - 1) : W[i + 1] = g[W[i]]

\* Two beginnings of the same repetition agree as far as both go.
LEMMA StepsAgree ==
  ASSUME NEW base, NEW g, NEW n \in Nat, NEW m \in Nat, NEW f, NEW h,
         Repeats(f, base, g, n), Repeats(h, base, g, m), n <= m
  PROVE  \A i \in 0..n : f[i] = h[i]
<1> DEFINE S == {i \in Nat : i <= n => f[i] = h[i]}
<1>1. 0 \in S  BY DEF Repeats
<1>2. ASSUME NEW i \in S PROVE i + 1 \in S
  <2>1. CASE i + 1 <= n
    <3>1. i \in 0..(n - 1) /\ i \in 0..(m - 1) /\ f[i] = h[i]  BY <2>1
    <3> QED  BY <3>1 DEF Repeats
  <2> QED  BY <2>1
<1> HIDE DEF S
<1>3. S = Nat
  <2> S \in SUBSET Nat  BY DEF S
  <2> QED  BY <1>1, <1>2, Induct
<1> QED  BY <1>3 DEF S

\* The definition by recursion of a sequence of values of S.
LEMMA Iterate ==
  ASSUME NEW S, NEW base \in S, NEW g \in [S -> S]
  PROVE  \E W \in [Nat -> S] : W[0] = base /\ \A n \in Nat : W[n + 1] = g[W[n]]
<1> DEFINE Ok(n) == {f \in [0..n -> S] : Repeats(f, base, g, n)}
           Good == {n \in Nat : Ok(n) # {}}
<1>1. 0 \in Good
  <2>1. [i \in 0..0 |-> base] \in Ok(0)  BY DEF Repeats
  <2> QED  BY <2>1
<1>2. ASSUME NEW n \in Good PROVE n + 1 \in Good
  <2>1. PICK f \in [0..n -> S] : Repeats(f, base, g, n)  OBVIOUS
  <2> DEFINE h == [i \in 0..(n + 1) |-> IF i <= n THEN f[i] ELSE g[f[n]]]
  <2>2. h \in [0..(n + 1) -> S]  OBVIOUS
  <2>3. Repeats(h, base, g, n + 1)  BY <2>1 DEF Repeats
  <2> QED  BY <2>2, <2>3
<1>3. Good = Nat
  <2> Good \in SUBSET Nat  OBVIOUS
  <2> HIDE DEF Good
  <2> QED  BY <1>1, <1>2, Induct
<1> DEFINE F(n) == CHOOSE f : f \in Ok(n)
           W == [n \in Nat |-> F(n)[n]]
<1>4. \A n \in Nat : F(n) \in [0..n -> S] /\ Repeats(F(n), base, g, n)
  <2> SUFFICES ASSUME NEW n \in Nat PROVE F(n) \in Ok(n)  OBVIOUS
  <2> HIDE DEF Ok
  <2> QED  BY <1>3
<1> HIDE DEF F
<1>5. W \in [Nat -> S]  BY <1>4
<1>6. W[0] = base  BY <1>4 DEF Repeats
<1>7. ASSUME NEW n \in Nat PROVE W[n + 1] = g[W[n]]
  <2>1. F(n)[n] = F(n + 1)[n]  BY <1>4, StepsAgree
  <2>2. F(n + 1)[n + 1] = g[F(n + 1)[n]]  BY <1>4 DEF Repeats
  <2> QED  BY <2>1, <2>2
<1> QED  BY <1>5, <1>6, <1>7

-----------------------------------------------------------------------------
(* Sums of numbers are numbers                                             *)

\* The sum over the subsets of S, each without a member of its own first.
Adds(S, f, g) ==
  g = [s \in SUBSET S |-> IF s = {} THEN 0 ELSE f[CHOOSE x \in s : TRUE] + g[s \ {CHOOSE x \in s : TRUE}]]

\* The sum of a function is that of its recursive definition.
LEMMA SumIs ==
  ASSUME NEW c, NEW f
  PROVE  Ratings(c)!SumFunction(f) = (CHOOSE g : Adds(DOMAIN f, f, g))[DOMAIN f]
  BY DEF Ratings!SumFunction, Ratings!SumFunctionOnSet, Ratings!FoldFunctionOnSet, Ratings!MapThenFoldSet, Adds

\* What is left of a finite set without the member that is added first.
LEMMA LessOne ==
  ASSUME NEW s, IsFiniteSet(s), s # {}
  PROVE  LET x == CHOOSE x \in s : TRUE IN
         x \in s /\ IsFiniteSet(s \ {x}) /\ Cardinality(s \ {x}) = Cardinality(s) - 1
<1> DEFINE x == CHOOSE x \in s : TRUE
<1>1. x \in s  OBVIOUS
<1> HIDE DEF x
<1>2. IsFiniteSet(s \ {x}) /\ Cardinality(s \ {x}) = Cardinality(s) - 1  BY <1>1, FS_RemoveElement
<1> QED  BY <1>1, <1>2 DEF x

\* There is such a sum over every finite set.
LEMMA SumExists ==
  ASSUME NEW S, IsFiniteSet(S), NEW f PROVE \E g : Adds(S, f, g)
<1> DEFINE ch(s) == CHOOSE x \in s : TRUE
           Value(g, s) == IF s = {} THEN 0 ELSE f[ch(s)] + g[s \ {ch(s)}]
           Upto(n, g) == \A s \in SUBSET S : Cardinality(s) <= n => g[s] = Value(g, s)
           Good == {n \in Nat : \E g : DOMAIN g = SUBSET S /\ Upto(n, g)}
<1>s. \A s \in SUBSET S : IsFiniteSet(s) /\ Cardinality(s) \in Nat
  BY FS_Subset, FS_CardinalityType
<1>e. \A s \in SUBSET S : s # {} =>
        /\ s \ {ch(s)} \in SUBSET S /\ Cardinality(s \ {ch(s)}) = Cardinality(s) - 1 /\ Cardinality(s) > 0
  BY <1>s, LessOne, FS_CardinalityType
<1> HIDE DEF ch
<1>1. 0 \in Good
  <2> DEFINE g == [s \in SUBSET S |-> 0]
  <2>1. ASSUME NEW s \in SUBSET S, Cardinality(s) <= 0, s # {} PROVE FALSE
    <3>1. Cardinality(s) > 0 /\ Cardinality(s) \in Nat  BY <2>1, <1>s, <1>e
    <3> QED  BY <2>1, <3>1
  <2>2. Upto(0, g)  BY <2>1
  <2> QED  BY <2>2
<1>2. ASSUME NEW n \in Good PROVE n + 1 \in Good
  <2>1. PICK g : DOMAIN g = SUBSET S /\ Upto(n, g)  OBVIOUS
  <2> DEFINE h == [s \in SUBSET S |-> IF Cardinality(s) <= n THEN g[s] ELSE Value(g, s)]
  <2>2. ASSUME NEW s \in SUBSET S, Cardinality(s) <= n + 1 PROVE h[s] = Value(h, s)
    <3>1. h[s] = Value(g, s)  BY <2>1
    <3>2. s # {} => h[s \ {ch(s)}] = g[s \ {ch(s)}]
      BY <2>2, <1>s, <1>e
    <3> QED  BY <3>1, <3>2
  <2>3. DOMAIN h = SUBSET S /\ Upto(n + 1, h)  BY <2>2
  <2>4. n \in Nat  OBVIOUS
  <2> HIDE DEF h, Upto
  <2> QED  BY <2>3, <2>4
<1>3. Good = Nat
  <2> Good \in SUBSET Nat  OBVIOUS
  <2> HIDE DEF Good
  <2> QED  BY <1>1, <1>2, Induct
<1>4. PICK g : DOMAIN g = SUBSET S /\ Upto(Cardinality(S), g)  BY <1>3, <1>s
<1> DEFINE h == [s \in SUBSET S |-> Value(g, s)]
<1>5. ASSUME NEW s \in SUBSET S PROVE Cardinality(s) <= Cardinality(S)
  BY FS_Subset
<1>6. ASSUME NEW s \in SUBSET S PROVE g[s] = h[s]
  BY <1>4, <1>5
<1>7. h = [s \in SUBSET S |-> Value(h, s)]
  BY <1>6, <1>e
<1>8. Adds(S, f, h)  BY <1>7 DEF Adds, ch
<1> QED  BY <1>8

\* A sum of numbers is a number.
LEMMA SumNat ==
  ASSUME NEW c, NEW S, IsFiniteSet(S), NEW f \in [S -> Nat] PROVE Ratings(c)!SumFunction(f) \in Nat
<1> DEFINE g == CHOOSE g : Adds(S, f, g)
           ch(s) == CHOOSE x \in s : TRUE
           Good == {n \in Nat : \A s \in SUBSET S : Cardinality(s) <= n => g[s] \in Nat}
<1>1. Adds(S, f, g)  BY SumExists
<1>2. Ratings(c)!SumFunction(f) = g[S]  BY SumIs
<1>3. \A s \in SUBSET S : g[s] = IF s = {} THEN 0 ELSE f[ch(s)] + g[s \ {ch(s)}]  BY <1>1 DEF Adds
<1>4. \A s \in SUBSET S : IsFiniteSet(s) /\ Cardinality(s) \in Nat
  BY FS_Subset, FS_CardinalityType
<1>5. \A s \in SUBSET S : s # {} =>
        /\ ch(s) \in s /\ s \ {ch(s)} \in SUBSET S
        /\ Cardinality(s \ {ch(s)}) = Cardinality(s) - 1 /\ Cardinality(s) > 0
  BY <1>4, LessOne, FS_CardinalityType
<1>a. g[{}] = 0  BY <1>3, Zenon
<1> HIDE DEF ch, g
<1>6. 0 \in Good
  <2>1. ASSUME NEW s \in SUBSET S, Cardinality(s) <= 0 PROVE g[s] \in Nat
    <3>1. s # {} => Cardinality(s) > 0 /\ Cardinality(s) \in Nat  BY <1>4, <1>5
    <3>2. s = {}  BY <2>1, <3>1
    <3> QED  BY <3>2, <1>a
  <2> QED  BY <2>1
<1>7. ASSUME NEW n \in Good PROVE n + 1 \in Good
  <2>1. ASSUME NEW s \in SUBSET S, Cardinality(s) <= n + 1 PROVE g[s] \in Nat
    <3>1. CASE s = {}
      <4>1. g[s] = 0  BY <3>1, <1>a, Zenon
      <4> QED  BY <4>1
    <3>2. CASE s # {}
      <4> DEFINE r == s \ {ch(s)}
      <4>0. r \in SUBSET S /\ Cardinality(r) = Cardinality(s) - 1 /\ Cardinality(s) \in Nat
        BY <3>2, <1>4, <1>5
      <4> HIDE DEF r
      <4>3. Cardinality(r) <= n  BY <2>1, <4>0
      <4>4. g[r] \in Nat  BY <4>0, <4>3
      <4> USE DEF r
      <4>1. g[s \ {ch(s)}] \in Nat  BY <4>4
      <4>2. f[ch(s)] \in Nat  BY <3>2, <1>5
      <4>5. g[s] = f[ch(s)] + g[s \ {ch(s)}]  BY <3>2, <1>3, Zenon
      <4> QED  BY <4>1, <4>2, <4>5
    <3> QED  BY <3>1, <3>2
  <2> QED  BY <2>1
<1>8. Good = Nat
  <2> Good \in SUBSET Nat  OBVIOUS
  <2> HIDE DEF Good
  <2> QED  BY <1>6, <1>7, Induct
<1>9. g[S] \in Nat  BY <1>8, <1>4
<1> QED  BY <1>2, <1>9

-----------------------------------------------------------------------------
(* Products                                                                *)

\* Products are numbered, and each has the wish of its owner.
ShopTypes(c) ==
  /\ \E n \in Nat : DOMAIN product = 1..n
  /\ DOMAIN wish = DOMAIN product
  /\ \A x \in DOMAIN product : product[x] \in Products(c)!Row

\* What a request is about to save: a row it has loaded, and what it will answer of it.
Saves(c, r) ==
  /\ r.id \in DOMAIN product /\ r.loaded \in Products(c)!Row /\ ~r.loaded.deleted
  /\ \/ r.told = "deleted" /\ r.row = [r.loaded EXCEPT !.deleted = TRUE]
     \/ r.told = None /\ r.row = r.loaded
     \/ r.told = "shown" /\ r.row = [r.loaded EXCEPT !.active = TRUE]
     \/ r.told = "hidden" /\ r.row = [r.loaded EXCEPT !.active = FALSE]

\* What a request is about to insert.
Inserts(c, r) ==
  /\ r.row \in Products(c)!Row /\ ~r.row.deleted
  /\ r.row.active <=> r.asked # FALSE

\* Every request holds what it may write.
ShopRequests(c) ==
  /\ DOMAIN productRequest = c.Web
  /\ \A p \in c.Web :
    /\ productRequest[p].at = "insert" => Inserts(c, productRequest[p])
    /\ productRequest[p].at = "save" => Saves(c, productRequest[p])

ShopInv(c) == ShopTypes(c) /\ ShopRequests(c)

\* The instance's Cardinality is that of FiniteSets.
LEMMA ShopCardinality == ASSUME NEW c, NEW S PROVE Products(c)!Cardinality(S) = Cardinality(S)
  BY DEF Products!Cardinality, Cardinality

\* There is no product yet.
LEMMA ShopInit ==
  ASSUME NEW c, Products(c)!Init PROVE ShopInv(c)
<1>1. DOMAIN product = {} /\ DOMAIN wish = {}  BY DEF Products!Init
<1>2. DOMAIN product = 1..0  BY <1>1
<1>3. ShopTypes(c)  BY <1>1, <1>2 DEF ShopTypes
<1>4. ShopRequests(c)  BY DEF ShopRequests, Products!Init, Products!Idle
<1> QED  BY <1>3, <1>4 DEF ShopInv

\* Every request keeps what it may write.
LEMMA ShopStep ==
  ASSUME NEW c, Products(c)!Assumptions, ShopInv(c), Products(c)!Next
  PROVE  ShopInv(c)'
<1> USE DEF ShopTypes, ShopRequests, Products!Becomes, Products!Idle
<1>inv. ShopTypes(c) /\ ShopRequests(c)  BY DEF ShopInv
<1>none. None \notin BOOLEAN  BY DEF Products!Assumptions
<1>text. None \notin {"shown", "hidden", "deleted"}  BY DEF Products!Assumptions
<1>idle. ASSUME NEW p \in c.Web, Products(c)!Becomes(p, Products(c)!Idle), UNCHANGED <<product, wish>>
         PROVE  ShopInv(c)'
  BY <1>inv, <1>idle DEF ShopInv, Saves, Inserts
<1>keep. ASSUME NEW p \in c.Web, NEW r, productRequest' = [productRequest EXCEPT ![p] = r],
                r.at = "insert" => Inserts(c, r), r.at = "save" => Saves(c, r), UNCHANGED <<product, wish>>
         PROVE  ShopInv(c)'
  BY <1>inv, <1>keep DEF ShopInv, Saves, Inserts
<1>1. ASSUME NEW p \in c.Web, NEW u \in c.User, NEW a \in BOOLEAN \cup {None}, Products(c)!Create(p, u, a)
      PROVE  ShopInv(c)'
  <2>1. /\ productRequest' = [productRequest EXCEPT ![p] = productRequest'[p]]
        /\ productRequest'[p].at = "insert" /\ Inserts(c, productRequest'[p])
        /\ UNCHANGED <<product, wish>>
    BY <1>1, <1>inv, <1>none
    DEF Products!Create, Products!Begin, Products!MayOwn, Products!FormSafeBooleanField, Products!Row, Inserts
  <2> QED  BY <2>1, <1>keep
<1>2. ASSUME NEW p \in c.Web, Products(c)!Insert(p) PROVE ShopInv(c)'
  <2> DEFINE r == productRequest[p]
             n == Cardinality(DOMAIN product) + 1
  <2>1. PICK k \in Nat : DOMAIN product = 1..k  BY <1>inv
  <2>2. n = k + 1  BY <2>1, FS_Interval
  <2>3. n \notin DOMAIN product /\ 1..n = DOMAIN product \cup {n}  BY <2>1, <2>2
  <2>4. /\ r.at = "insert" /\ Inserts(c, r)
        /\ product' = [x \in 1..n |-> IF x = n THEN r.row ELSE product[x]]
        /\ wish' = [x \in 1..n |-> IF x = n THEN (IF r.asked = FALSE THEN "hidden" ELSE "shown") ELSE wish[x]]
    <3>1. r.at = "insert"  BY <1>2 DEF Products!Insert
    <3>2. Inserts(c, r)  BY <3>1, <1>inv
    <3>3. product' = [x \in 1..n |-> IF x = n THEN r.row ELSE product[x]]
      BY <1>2, ShopCardinality DEF Products!Insert, Products!Product
    <3>4. wish' = [x \in 1..n |-> IF x = n THEN (IF r.asked = FALSE THEN "hidden" ELSE "shown") ELSE wish[x]]
      BY <1>2, ShopCardinality DEF Products!Insert, Products!Product
    <3> HIDE DEF n, r
    <3> QED  BY <3>1, <3>2, <3>3, <3>4
  <2>5. ShopTypes(c)'  BY <2>4, <2>3, <2>2, <2>1, <1>inv DEF Inserts
  <2>6. DOMAIN product \subseteq DOMAIN product'  BY <2>3, <2>4
  <2>7. ShopRequests(c)'
    <3>1. productRequest' = [productRequest EXCEPT ![p] = [at |-> "idle"]]  BY <1>2 DEF Products!Insert
    <3> HIDE DEF n, r
    <3> QED  BY <3>1, <2>6, <1>inv DEF Inserts, Saves
  <2> QED  BY <2>5, <2>7 DEF ShopInv
<1>3. ASSUME NEW p \in c.Web, NEW u \in c.User, NEW x \in Products(c)!Id, NEW a \in BOOLEAN \cup {None},
             Products(c)!Patch(p, u, x, a)
      PROVE  ShopInv(c)'
  <2>1. /\ productRequest' = [productRequest EXCEPT ![p] = productRequest'[p]]
        /\ productRequest'[p].at = "save" /\ Saves(c, productRequest'[p])
        /\ UNCHANGED <<product, wish>>
    <3>1. x \in DOMAIN product /\ ~product[x].deleted /\ product[x] \in Products(c)!Row
      BY <1>3, <1>inv DEF Products!Patch, Products!Alive, Products!Product
    <3>2. a = None => product[x] = [product[x] EXCEPT !.active = product[x].active]
      BY <3>1 DEF Products!Row
    <3>3. /\ productRequest' = [productRequest EXCEPT ![p] = productRequest'[p]]
          /\ productRequest'[p] =
               [at |-> "save", id |-> x,
                row |-> [product[x] EXCEPT !.active = IF a = None THEN product[x].active ELSE a],
                loaded |-> product[x],
                told |-> IF a = None THEN None ELSE IF a THEN "shown" ELSE "hidden"]
          /\ UNCHANGED <<product, wish>>
      BY <1>3, <1>inv DEF Products!Patch, Products!Begin, Products!FormSafeBooleanField
    <3>4. CASE a = None  BY <3>1, <3>2, <3>3, <3>4 DEF Saves
    <3>5. CASE a # None
      <4>1. productRequest'[p] =
               [at |-> "save", id |-> x, row |-> [product[x] EXCEPT !.active = a], loaded |-> product[x],
                told |-> IF a THEN "shown" ELSE "hidden"]
        BY <3>3, <3>5
      <4>2. CASE a = TRUE
        <5>1. productRequest'[p] =
                [at |-> "save", id |-> x, row |-> [product[x] EXCEPT !.active = TRUE],
                 loaded |-> product[x], told |-> "shown"]
          BY <4>1, <4>2
        <5>2. Saves(c, productRequest'[p])  BY <3>1, <5>1 DEF Saves
        <5> QED  BY <3>3, <5>1, <5>2
      <4>3. CASE a = FALSE
        <5>1. productRequest'[p] =
                [at |-> "save", id |-> x, row |-> [product[x] EXCEPT !.active = FALSE],
                 loaded |-> product[x], told |-> "hidden"]
          BY <4>1, <4>3
        <5>2. Saves(c, productRequest'[p])  BY <3>1, <5>1 DEF Saves
        <5> QED  BY <3>3, <5>1, <5>2
      <4> QED  BY <4>2, <4>3, <3>5
    <3> QED  BY <3>4, <3>5
  <2> QED  BY <2>1, <1>keep
<1>4. ASSUME NEW p \in c.Web, NEW u \in c.User, NEW x \in Products(c)!Id, Products(c)!Destroy(p, u, x)
      PROVE  ShopInv(c)'
  <2>1. /\ productRequest' = [productRequest EXCEPT ![p] = productRequest'[p]]
        /\ productRequest'[p].at = "save" /\ Saves(c, productRequest'[p])
        /\ UNCHANGED <<product, wish>>
    BY <1>4, <1>inv DEF Products!Destroy, Products!Begin, Products!Alive, Products!Product, Saves
  <2> QED  BY <2>1, <1>keep
<1>5. ASSUME NEW p \in c.Web, Products(c)!Save(p) PROVE ShopInv(c)'
  <2> DEFINE r == productRequest[p]
  <2>1. /\ r.at = "save" /\ Saves(c, r)
        /\ product' = [product EXCEPT ![r.id] = r.row]
        /\ wish' = [wish EXCEPT ![r.id] = IF @ = "deleted" \/ r.told = None THEN @ ELSE r.told]
    BY <1>5, <1>inv DEF Products!Save
  <2>2. r.row \in Products(c)!Row  BY <2>1 DEF Saves, Products!Row
  <2>3. ShopTypes(c)'  BY <2>1, <2>2, <1>inv DEF Saves
  <2>4. ShopRequests(c)'  BY <1>5, <1>inv DEF Products!Save, Inserts, Saves
  <2> QED  BY <2>3, <2>4 DEF ShopInv
<1>6. ASSUME NEW p \in c.Web, NEW u \in c.User, NEW x \in Products(c)!Id, Products(c)!AddVariant(p, u, x)
      PROVE  ShopInv(c)'
  BY <1>6, <1>inv DEF Products!AddVariant, Products!Begin, ShopInv, Saves, Inserts
<1>7. ASSUME NEW p \in c.Web, Products(c)!InsertVariant(p) \/ Products(c)!Abort(p) PROVE ShopInv(c)'
  BY <1>7, <1>idle DEF Products!InsertVariant, Products!Abort
<1>8. ASSUME NEW u \in c.User, NEW v \in 1..c.MaxVariants, Products(c)!DestroyVariant(u, v)
      PROVE  ShopInv(c)'
  BY <1>8, <1>inv DEF Products!DestroyVariant, ShopInv, Saves, Inserts
<1> QED  BY <1>1, <1>2, <1>3, <1>4, <1>5, <1>6, <1>7, <1>8 DEF Products!Next

\* A step of another component leaves the shop's invariant alone.
LEMMA ShopStutter ==
  ASSUME NEW c, ShopInv(c), UNCHANGED Products(c)!vars PROVE ShopInv(c)'
  BY DEF ShopInv, ShopTypes, ShopRequests, Saves, Inserts, Products!vars

\* A product stops being what its owner was told only by a save that has come to be stale.
LEMMA ShopDrifts ==
  ASSUME NEW c, Products(c)!Assumptions, ShopInv(c), Products(c)!Next
  PROVE  Products(c)!DriftsByStaleSaves
<1> USE DEF Products!Product, Products!AsTold, Products!Stale
<1>inv. ShopTypes(c) /\ ShopRequests(c)  BY DEF ShopInv
<1>w. None \notin BOOLEAN /\ None \notin {"shown", "hidden", "deleted"}  BY DEF Products!Assumptions
<1>k. PICK k \in Nat : DOMAIN product = 1..k  BY <1>inv DEF ShopTypes
<1>c. Cardinality(DOMAIN product) = k  BY <1>k, FS_Interval
<1>1. CASE UNCHANGED <<product, wish>>
  <2>1. ASSUME NEW p \in c.Web, ~Products(c)!Stale(p), Products(c)!Stale(p)' PROVE FALSE
    <3>1. productRequest'[p] # productRequest[p] /\ productRequest'[p].at = "save"
      BY <1>1, <2>1
    <3> DEFINE r == productRequest'[p]
    <3>2. \E u \in c.User, x \in Products(c)!Id :
            (\E a \in BOOLEAN \cup {None} : Products(c)!Patch(p, u, x, a)) \/ Products(c)!Destroy(p, u, x)
      <4> USE DEF Products!Begin, Products!Becomes, Products!Idle, ShopRequests
      <4>1. ASSUME NEW q \in c.Web, \/ Products(c)!Insert(q) \/ Products(c)!Save(q)
                                    \/ Products(c)!InsertVariant(q) \/ Products(c)!Abort(q)
            PROVE  FALSE
        <5>1. productRequest' = [productRequest EXCEPT ![q] = [at |-> "idle"]]
          BY <4>1 DEF Products!Insert, Products!Save, Products!InsertVariant, Products!Abort
        <5> QED  BY <5>1, <3>1, <1>inv
      <4>2. ASSUME NEW q \in c.Web, NEW u \in c.User, NEW a \in BOOLEAN \cup {None}, Products(c)!Create(q, u, a)
            PROVE  FALSE
        BY <4>2, <3>1, <1>inv DEF Products!Create
      <4>3. ASSUME NEW q \in c.Web, NEW u \in c.User, NEW x \in Products(c)!Id, Products(c)!AddVariant(q, u, x)
            PROVE  FALSE
        BY <4>3, <3>1, <1>inv DEF Products!AddVariant
      <4>4. ASSUME NEW u \in c.User, NEW v \in 1..c.MaxVariants, Products(c)!DestroyVariant(u, v) PROVE FALSE
        BY <4>4, <3>1 DEF Products!DestroyVariant
      <4>5. ASSUME NEW q \in c.Web, NEW u \in c.User, NEW x \in Products(c)!Id,
                   (\E a \in BOOLEAN \cup {None} : Products(c)!Patch(q, u, x, a)) \/ Products(c)!Destroy(q, u, x)
            PROVE  q = p
        BY <4>5, <3>1, <1>inv DEF Products!Patch, Products!Destroy
      <4> QED  BY <4>1, <4>2, <4>3, <4>4, <4>5 DEF Products!Next
    <3>3. PICK x \in Products(c)!Id : r.id = x /\ r.loaded = product[x]
      BY <3>2, <1>inv
      DEF Products!Patch, Products!Destroy, Products!Begin, Products!Becomes, ShopRequests
    <3>4. r.loaded = product[r.id]  BY <3>3
    <3> QED  BY <3>4, <2>1, <1>1
  <2> QED  BY <1>1, <2>1 DEF Products!DriftsByStaleSaves
<1>2. ASSUME NEW p \in c.Web, Products(c)!Insert(p) PROVE Products(c)!DriftsByStaleSaves
  <2> DEFINE r == productRequest[p]
             n == Cardinality(DOMAIN product) + 1
  <2>1. /\ n = k + 1 /\ Inserts(c, r)
        /\ product' = [x \in 1..n |-> IF x = n THEN r.row ELSE product[x]]
        /\ wish' = [x \in 1..n |-> IF x = n THEN (IF r.asked = FALSE THEN "hidden" ELSE "shown") ELSE wish[x]]
        /\ productRequest' = [productRequest EXCEPT ![p] = [at |-> "idle"]]
    <3>1. r.at = "insert" /\ n = k + 1  BY <1>2, <1>c DEF Products!Insert
    <3>2. Inserts(c, r)  BY <3>1, <1>inv DEF ShopRequests
    <3>3. product' = [x \in 1..n |-> IF x = n THEN r.row ELSE product[x]]
      BY <1>2, ShopCardinality DEF Products!Insert
    <3>4. wish' = [x \in 1..n |-> IF x = n THEN (IF r.asked = FALSE THEN "hidden" ELSE "shown") ELSE wish[x]]
      BY <1>2, ShopCardinality DEF Products!Insert
    <3>5. productRequest' = [productRequest EXCEPT ![p] = [at |-> "idle"]]
      BY <1>2 DEF Products!Insert, Products!Becomes, Products!Idle
    <3> HIDE DEF n, r
    <3> QED  BY <3>1, <3>2, <3>3, <3>4, <3>5
  <2> HIDE DEF n, r
  <2>2. \A x \in DOMAIN product : product'[x] = product[x] /\ wish'[x] = wish[x]  BY <2>1, <1>k
  <2>3. \A x \in DOMAIN product' \ DOMAIN product : x = n  BY <2>1, <1>k
  <2>4. product'[n] = r.row /\ wish'[n] = IF r.row.active THEN "shown" ELSE "hidden"
    <3>1. n \in 1..n /\ r.row.active \in BOOLEAN  BY <2>1, <1>k DEF Inserts, Products!Row
    <3>2. product'[n] = r.row /\ wish'[n] = IF r.asked = FALSE THEN "hidden" ELSE "shown"  BY <2>1, <3>1
    <3> QED  BY <2>1, <3>1, <3>2 DEF Inserts
  <2>5. ~r.row.deleted  BY <2>1 DEF Inserts
  <2>6. ASSUME NEW x \in DOMAIN product, Products(c)!AsTold(x), ~Products(c)!AsTold(x)' PROVE FALSE
    BY <2>2, <2>6
  <2>7. ASSUME NEW x \in DOMAIN product' \ DOMAIN product PROVE Products(c)!AsTold(x)'
    BY <2>3, <2>4, <2>5
  <2>8. ASSUME NEW q \in c.Web, ~Products(c)!Stale(q), Products(c)!Stale(q)' PROVE FALSE
    <3>1. q # p /\ productRequest'[q] = productRequest[q]  BY <2>1, <2>8, <1>inv DEF ShopRequests
    <3>2. productRequest[q].id \in DOMAIN product  BY <3>1, <2>8, <1>inv DEF ShopRequests, Saves
    <3> QED  BY <3>1, <3>2, <2>2, <2>8
  <2> QED  BY <2>6, <2>7, <2>8 DEF Products!DriftsByStaleSaves
<1>3. ASSUME NEW p \in c.Web, Products(c)!Save(p) PROVE Products(c)!DriftsByStaleSaves
  <2> DEFINE r == productRequest[p]
  <2>1. /\ r.at = "save" /\ Saves(c, r)
        /\ product' = [product EXCEPT ![r.id] = r.row]
        /\ wish' = [wish EXCEPT ![r.id] = IF @ = "deleted" \/ r.told = None THEN @ ELSE r.told]
        /\ productRequest' = [productRequest EXCEPT ![p] = [at |-> "idle"]]
    BY <1>3, <1>inv DEF Products!Save, Products!Becomes, Products!Idle, ShopRequests
  <2>2. r.id \in DOMAIN product /\ r.id \in DOMAIN wish /\ DOMAIN product' = DOMAIN product
    BY <2>1, <1>inv DEF Saves, ShopTypes
  <2>3. ASSUME NEW x \in DOMAIN product, Products(c)!AsTold(x), ~Products(c)!AsTold(x)'
        PROVE  Products(c)!Stale(p) /\ r.id = x
    <3>1. r.id = x  BY <2>1, <2>3
    <3>2. product'[x] = r.row /\ wish'[x] = IF wish[x] = "deleted" \/ r.told = None THEN wish[x] ELSE r.told
      BY <3>1, <2>1, <2>2
    <3>3. ASSUME r.loaded = product[x] PROVE FALSE
      <4>1. wish[x] = IF product[x].active THEN "shown" ELSE "hidden"  BY <2>3, <3>3, <2>1 DEF Saves
      <4>2. CASE r.told = None  BY <4>1, <4>2, <3>2, <3>3, <2>1, <2>3, <1>w DEF Saves
      <4>3. CASE r.told # None
        <5>1. wish'[x] = r.told  BY <4>1, <4>3, <3>2
        <5> QED  BY <5>1, <4>3, <3>2, <3>3, <2>1, <2>3 DEF Saves, Products!Row
      <4> QED  BY <4>2, <4>3
    <3> QED  BY <3>1, <3>3, <2>1
  <2>4. ASSUME NEW q \in c.Web, ~Products(c)!Stale(q), Products(c)!Stale(q)'
        PROVE  p \in c.Web \ {q} /\ r.id = productRequest[q].id
    <3>1. q # p /\ productRequest'[q] = productRequest[q]  BY <2>1, <2>4, <1>inv DEF ShopRequests
    <3> QED  BY <3>1, <2>1, <2>4
  <2> HIDE DEF Products!AsTold, Products!Stale
  <2>5. Products(c)!Save(p)  BY <1>3
  <2> QED  BY <2>2, <2>3, <2>4, <2>5 DEF Products!DriftsByStaleSaves
<1>4. CASE ~UNCHANGED <<product, wish>>
  <2>1. \E p \in c.Web : Products(c)!Insert(p) \/ Products(c)!Save(p)
    BY <1>4
    DEF Products!Next, Products!InsertVariant, Products!Abort, Products!Create,
        Products!Patch, Products!Destroy, Products!AddVariant, Products!DestroyVariant
  <2> QED  BY <2>1, <1>2, <1>3
<1> QED  BY <1>1, <1>4

\* A step of another component is no step of the shop.
LEMMA ShopNoDrift ==
  ASSUME NEW c, ShopInv(c), UNCHANGED Products(c)!vars PROVE Products(c)!DriftsByStaleSaves
  BY DEF Products!DriftsByStaleSaves, Products!AsTold, Products!Stale, Products!Product, Products!vars

-----------------------------------------------------------------------------
(* The types of the shop                                                   *)

\* The types of the shop; variants are numbered, and a new one is of a product that exists.
ShopTyped(c) ==
  /\ Products(c)!TypeOK
  /\ \E n \in Nat : DOMAIN variant = 1..n
  /\ \A p \in c.Web : productRequest[p].at = "variant" => productRequest[p].id \in DOMAIN product

\* There is no product yet.
LEMMA ShopTypedInit ==
  ASSUME NEW c, Products(c)!Assumptions, Products(c)!Init PROVE ShopTyped(c)
<1>1. DOMAIN product = {} /\ DOMAIN variant = {} /\ DOMAIN wish = {}  BY DEF Products!Init
<1>2. DOMAIN product = 1..0 /\ DOMAIN variant = 1..0  BY <1>1
<1>3. \A p \in c.Web : productRequest[p].at = "idle"  BY DEF Products!Init, Products!Idle
<1> QED  BY <1>1, <1>2, <1>3 DEF Products!Assumptions, ShopTyped, Products!TypeOK, Products!Product

\* Every request keeps them.
LEMMA ShopTypedStep ==
  ASSUME NEW c, Products(c)!Assumptions, ShopInv(c), ShopInv(c)', ShopTyped(c), Products(c)!Next
  PROVE  ShopTyped(c)'
<1> USE DEF Products!Becomes, Products!Idle, Products!Begin, ShopTyped, Products!TypeOK, Products!Product
<1>d. DOMAIN productRequest = c.Web  BY DEF ShopInv, ShopRequests
<1>0. c.MaxProducts \in Nat /\ \A x \in DOMAIN product' : product'[x] \in Products(c)!Row
  BY DEF Products!Assumptions, ShopInv, ShopTypes, Products!Row
<1>1. ASSUME NEW p \in c.Web, NEW u \in c.User, NEW a \in BOOLEAN \cup {None}, Products(c)!Create(p, u, a)
      PROVE  ShopTyped(c)'
  BY <1>1, <1>0, <1>d DEF Products!Create
<1>2. ASSUME NEW p \in c.Web, Products(c)!Insert(p) PROVE ShopTyped(c)'
  <2> DEFINE n == Cardinality(DOMAIN product) + 1
  <2>1. PICK k \in Nat : DOMAIN product = 1..k  OBVIOUS
  <2>2. n = k + 1  BY <2>1, FS_Interval
  <2>3. n \in Products(c)!Id  BY <1>2, ShopCardinality DEF Products!Insert
  <2>4. DOMAIN product' = 1..n /\ DOMAIN wish' = 1..n
    BY <1>2, ShopCardinality DEF Products!Insert
  <2>5. \A x \in 1..n : wish'[x] \in {"shown", "hidden", "deleted"}
    <3>1. \A x \in 1..n : x = n \/ x \in DOMAIN product  BY <2>1, <2>2
    <3> QED  BY <1>2, <3>1, ShopCardinality DEF Products!Insert
  <2>6. n \in 0..c.MaxProducts  BY <2>1, <2>2, <2>3, <1>0 DEF Products!Id
  <2>7. DOMAIN product \subseteq DOMAIN product'  BY <2>1, <2>2, <2>4
  <2>8. \A v \in DOMAIN variant' : variant'[v] \in DOMAIN product' \cup {None}
    BY <1>2, <2>7 DEF Products!Insert
  <2>9. productRequest' = [productRequest EXCEPT ![p] = [at |-> "idle"]] /\ variant' = variant
    BY <1>2 DEF Products!Insert
  <2> HIDE DEF n
  <2> QED  BY <1>0, <1>d, <2>4, <2>5, <2>6, <2>7, <2>8, <2>9
<1>3. ASSUME NEW p \in c.Web, NEW u \in c.User, NEW x \in Products(c)!Id, NEW a \in BOOLEAN \cup {None},
             Products(c)!Patch(p, u, x, a)
      PROVE  ShopTyped(c)'
  BY <1>3, <1>0, <1>d DEF Products!Patch
<1>4. ASSUME NEW p \in c.Web, NEW u \in c.User, NEW x \in Products(c)!Id, Products(c)!Destroy(p, u, x)
      PROVE  ShopTyped(c)'
  BY <1>4, <1>0, <1>d DEF Products!Destroy
<1>5. ASSUME NEW p \in c.Web, Products(c)!Save(p) PROVE ShopTyped(c)'
  <2>1. Saves(c, productRequest[p])
    BY <1>5 DEF Products!Save, ShopInv, ShopRequests
  <2> QED  BY <1>5, <1>0, <1>d, <2>1 DEF Products!Save, Saves
<1>6. ASSUME NEW p \in c.Web, NEW u \in c.User, NEW x \in Products(c)!Id, Products(c)!AddVariant(p, u, x)
      PROVE  ShopTyped(c)'
  BY <1>6, <1>0, <1>d DEF Products!AddVariant, Products!Alive
<1>7. ASSUME NEW p \in c.Web, Products(c)!InsertVariant(p) PROVE ShopTyped(c)'
  <2> DEFINE n == Cardinality(DOMAIN variant) + 1
  <2>1. PICK k \in Nat : DOMAIN variant = 1..k  OBVIOUS
  <2>0. Cardinality(1..k) = k  BY FS_Interval
  <2>2. n = k + 1  BY <2>0, <2>1
  <2>3. /\ DOMAIN variant' = 1..n /\ productRequest[p].id \in DOMAIN product
        /\ \A v \in 1..n : variant'[v] = IF v = n THEN productRequest[p].id ELSE variant[v]
    BY <1>7, ShopCardinality DEF Products!InsertVariant
  <2>4. \A v \in 1..n : v = n \/ v \in DOMAIN variant  BY <2>1, <2>2
  <2>5. \A v \in DOMAIN variant' : variant'[v] \in DOMAIN product \cup {None}  BY <2>3, <2>4
  <2>6. n \in Nat  BY <2>1, <2>2
  <2>7. productRequest' = [productRequest EXCEPT ![p] = [at |-> "idle"]] /\ UNCHANGED <<product, wish>>
    BY <1>7 DEF Products!InsertVariant
  <2> HIDE DEF n
  <2> QED  BY <1>0, <1>d, <2>3, <2>5, <2>6, <2>7
<1>8. ASSUME NEW p \in c.Web, Products(c)!Abort(p) PROVE ShopTyped(c)'
  BY <1>8, <1>0, <1>d DEF Products!Abort
<1>9. ASSUME NEW u \in c.User, NEW v \in 1..c.MaxVariants, Products(c)!DestroyVariant(u, v)
      PROVE  ShopTyped(c)'
  BY <1>9, <1>0, <1>d DEF Products!DestroyVariant
<1> QED  BY <1>1, <1>2, <1>3, <1>4, <1>5, <1>6, <1>7, <1>8, <1>9 DEF Products!Next

\* A step of another component leaves the types of the shop alone.
LEMMA ShopTypedStutter ==
  ASSUME NEW c, ShopTyped(c), UNCHANGED Products(c)!vars PROVE ShopTyped(c)'
  BY DEF ShopTyped, Products!TypeOK, Products!Product, Products!vars

-----------------------------------------------------------------------------
(* Categories                                                              *)

\* The instance's IsFiniteSet is that of FiniteSets.
LEMMA TreeFinite ==
  ASSUME NEW c, Categories(c)!Assumptions
  PROVE  IsFiniteSet(c.Category)
  BY DEF Categories!Assumptions, Categories!IsFiniteSet, IsFiniteSet

\* The instance's Cardinality is that of FiniteSets.
LEMMA TreeCardinality == ASSUME NEW c, NEW S PROVE Categories(c)!Cardinality(S) = Cardinality(S)
  BY DEF Categories!Cardinality, Cardinality

\* The categories that the layer below those of X adds.
Below(c, X) == X \cup {d \in Categories(c)!Active : categories[d].parent \in X}

\* The recursion of build_category_tree is well defined: layer by layer, from the roots.
LEMMA TreeLayers ==
  ASSUME NEW c
  PROVE  \E W : /\ W[0] = Categories(c)!Roots
                /\ \A n \in Nat : W[n + 1] = Below(c, W[n]) /\ W[n] \in SUBSET Categories(c)!Active
                /\ Categories(c)!Served = W[Cardinality(c.Category)]
<1> DEFINE A == Categories(c)!Active
           Rec(W) == W = [n \in Nat |->
                           IF n = 0 THEN Categories(c)!Roots
                           ELSE W[n - 1] \cup {d \in A : categories[d].parent \in W[n - 1]}]
<1>1. Categories(c)!Roots \in SUBSET A  BY DEF Categories!Roots
<1>2. \E W : Rec(W)
  <2> DEFINE g == [X \in SUBSET A |-> Below(c, X)]
  <2>1. g \in [SUBSET A -> SUBSET A]  BY DEF Below
  <2>2. PICK W \in [Nat -> SUBSET A] : W[0] = Categories(c)!Roots /\ \A n \in Nat : W[n + 1] = g[W[n]]
    <3> DEFINE D == SUBSET A
               r == Categories(c)!Roots
    <3>1. r \in D /\ g \in [D -> D]  BY <1>1, <2>1
    <3> HIDE DEF g, D, r
    <3>2. \E W \in [Nat -> D] : W[0] = r /\ \A n \in Nat : W[n + 1] = g[W[n]]  BY <3>1, Iterate
    <3> QED  BY <3>2 DEF D, r
  <2>3. ASSUME NEW n \in Nat, n # 0
        PROVE  W[n] = W[n - 1] \cup {d \in A : categories[d].parent \in W[n - 1]}
    <3>1. n - 1 \in Nat /\ (n - 1) + 1 = n  BY <2>3
    <3>2. W[(n - 1) + 1] = g[W[n - 1]]  BY <3>1, <2>2
    <3>3. W[n - 1] \in SUBSET A  BY <3>1
    <3>4. g[W[n - 1]] = Below(c, W[n - 1])  BY <3>3
    <3> QED  BY <3>1, <3>2, <3>4 DEF Below
  <2>4. Rec(W)
    <3> DEFINE V == [n \in Nat |-> IF n = 0 THEN Categories(c)!Roots
                                   ELSE W[n - 1] \cup {d \in A : categories[d].parent \in W[n - 1]}]
    <3>1. \A n \in Nat : W[n] = V[n]  BY <2>2, <2>3
    <3>2. W = V  BY <3>1
    <3> QED  BY <3>2
  <2> QED  BY <2>4
<1> DEFINE Z == CHOOSE W : Rec(W)
<1>3. Rec(Z)
  <2> HIDE DEF Rec
  <2> QED  BY <1>2
<1>4. Categories(c)!Served = Z[Cardinality(c.Category)]
  BY TreeCardinality DEF Categories!Served
<1> HIDE DEF Z
<1>5. Z[0] = Categories(c)!Roots  BY <1>3
<1>6. \A n \in Nat : Z[n + 1] = Below(c, Z[n])
  <2> TAKE n \in Nat
  <2>1. n + 1 \in Nat /\ n + 1 # 0 /\ (n + 1) - 1 = n  OBVIOUS
  <2> QED  BY <1>3, <2>1 DEF Below
<1>7. \A n \in Nat : Z[n] \in SUBSET A
  <2> DEFINE S == {n \in Nat : Z[n] \in SUBSET A}
  <2>1. 0 \in S  BY <1>5, <1>1
  <2>2. \A n \in S : n + 1 \in S  BY <1>6 DEF Below
  <2> HIDE DEF S
  <2>3. S = Nat
    <3> S \in SUBSET Nat  BY DEF S
    <3> QED  BY <2>1, <2>2, Induct
  <2> QED  BY <2>3 DEF S
<1> QED  BY <1>4, <1>5, <1>6, <1>7

\* Sets that only grow within a finite one have stopped growing after as many steps as it has members.
LEMMA GrowthEnds ==
  ASSUME NEW A, IsFiniteSet(A), NEW W, NEW g,
         \A n \in Nat : W[n] \in SUBSET A /\ W[n] \subseteq W[n + 1] /\ W[n + 1] = g[W[n]]
  PROVE  W[Cardinality(A) + 1] = W[Cardinality(A)]
<1> DEFINE S == {n \in Nat : W[n + 1] = W[n] \/ Cardinality(W[n + 1]) >= n + 1}
<1>0. \A n \in Nat : IsFiniteSet(W[n]) /\ Cardinality(W[n]) \in Nat /\ Cardinality(W[n]) <= Cardinality(A)
  BY FS_Subset, FS_CardinalityType
<1>g. ASSUME NEW n \in Nat, W[n + 1] # W[n] PROVE Cardinality(W[n + 1]) >= Cardinality(W[n]) + 1
  <2>1. n + 1 \in Nat  OBVIOUS
  <2>2. IsFiniteSet(W[n + 1]) /\ W[n] \in SUBSET W[n + 1]  BY <2>1, <1>0
  <2>3. Cardinality(W[n]) <= Cardinality(W[n + 1]) /\ Cardinality(W[n]) # Cardinality(W[n + 1])
    BY <2>2, <1>g, FS_Subset
  <2> QED  BY <2>1, <2>3, <1>0
<1>1. 0 \in S
  <2> SUFFICES ASSUME W[0 + 1] # W[0] PROVE Cardinality(W[0 + 1]) >= 0 + 1  OBVIOUS
  <2>1. Cardinality(W[0 + 1]) >= Cardinality(W[0]) + 1  BY <1>g
  <2>2. Cardinality(W[0]) \in Nat /\ Cardinality(W[0 + 1]) \in Nat  BY <1>0
  <2> QED  BY <2>1, <2>2
<1>2. ASSUME NEW n \in S PROVE n + 1 \in S
  <2> SUFFICES ASSUME W[(n + 1) + 1] # W[n + 1] PROVE Cardinality(W[(n + 1) + 1]) >= (n + 1) + 1
    OBVIOUS
  <2>1. W[n + 1] # W[n]  OBVIOUS
  <2>2. Cardinality(W[n + 1]) >= n + 1  BY <2>1
  <2>3. Cardinality(W[(n + 1) + 1]) >= Cardinality(W[n + 1]) + 1  BY <1>g
  <2>4. Cardinality(W[n + 1]) \in Nat /\ Cardinality(W[(n + 1) + 1]) \in Nat  BY <1>0
  <2> QED  BY <2>2, <2>3, <2>4
<1> HIDE DEF S
<1>3. S = Nat
  <2> S \in SUBSET Nat  BY DEF S
  <2> QED  BY <1>1, <1>2, Induct
<1>4. Cardinality(A) \in Nat /\ Cardinality(A) + 1 \in Nat  BY FS_CardinalityType
<1>5. W[Cardinality(A) + 1] = W[Cardinality(A)] \/ Cardinality(W[Cardinality(A) + 1]) >= Cardinality(A) + 1
  BY <1>3, <1>4 DEF S
<1> QED  BY <1>0, <1>4, <1>5

\* The tree serves all active categories but those whose active ancestors never end.
LEMMA TreeServes ==
  ASSUME NEW c, Categories(c)!Assumptions, Categories(c)!Existing \subseteq c.Category
  PROVE  Categories(c)!OnlyEndlessVanish
<1> DEFINE A == Categories(c)!Active
           E == Categories(c)!Endless
           N == Cardinality(c.Category)
<1>1. PICK W : /\ W[0] = Categories(c)!Roots
               /\ \A n \in Nat : W[n + 1] = Below(c, W[n]) /\ W[n] \in SUBSET A
               /\ Categories(c)!Served = W[N]
  BY TreeLayers
<1>2. N \in Nat  BY TreeFinite, FS_CardinalityType
<1>3. A \subseteq c.Category  BY DEF Categories!Active
<1>4. W[N + 1] = W[N]
  <2> DEFINE g == [X \in SUBSET A |-> Below(c, X)]
  <2>1. \A n \in Nat : W[n] \in SUBSET c.Category /\ W[n] \subseteq W[n + 1] /\ W[n + 1] = g[W[n]]
    BY <1>1, <1>3 DEF Below
  <2> HIDE DEF g
  <2> QED  BY <2>1, GrowthEnds, TreeFinite
<1>5. W[N] \subseteq A  BY <1>1, <1>2
<1>6. \A d \in A : categories[d].parent \in W[N] => d \in W[N]
  BY <1>1, <1>2, <1>4 DEF Below
<1>7. Categories(c)!Roots \subseteq W[N]
  <2> DEFINE S == {n \in Nat : Categories(c)!Roots \subseteq W[n]}
  <2>1. 0 \in S  BY <1>1
  <2>2. \A n \in S : n + 1 \in S  BY <1>1 DEF Below
  <2> HIDE DEF S
  <2>3. S = Nat
    <3> S \in SUBSET Nat  BY DEF S
    <3> QED  BY <2>1, <2>2, Induct
  <2> QED  BY <2>3, <1>2 DEF S
<1>8. A \ W[N] \subseteq E
  <2>1. \A d \in A \ W[N] : categories[d].parent \in A \ W[N]
    BY <1>6, <1>7 DEF Categories!Roots
  <2>2. A \ W[N] \in SUBSET A  OBVIOUS
  <2> QED  BY <2>1, <2>2 DEF Categories!Endless
<1>9. E \cap W[N] = {}
  <2> SUFFICES ASSUME NEW X \in SUBSET A, \A d \in X : categories[d].parent \in X
               PROVE  X \cap W[N] = {}
    BY DEF Categories!Endless
  <2> DEFINE S == {n \in Nat : X \cap W[n] = {}}
  <2>1. 0 \in S  BY <1>1 DEF Categories!Roots
  <2>2. \A n \in S : n + 1 \in S  BY <1>1 DEF Below
  <2> HIDE DEF S
  <2>3. S = Nat
    <3> S \in SUBSET Nat  BY DEF S
    <3> QED  BY <2>1, <2>2, Induct
  <2> QED  BY <2>3, <1>2 DEF S
<1> QED  BY <1>1, <1>5, <1>8, <1>9 DEF Categories!OnlyEndlessVanish

-----------------------------------------------------------------------------
(* The references and the served tree                                      *)

\* Categories in the table, and those that are being saved, are categories.
TreeTypes(c) ==
  /\ DOMAIN categories \subseteq c.Category
  /\ DOMAIN treeRequest = c.Web
  /\ DOMAIN treeCache = c.Language
  /\ \A p \in c.Web : treeRequest[p].at = "save" => treeRequest[p].id \in c.Category

\* Types, and no reference to a category that is gone.
TreeInv(c) == TreeTypes(c) /\ Categories(c)!RefsExist

\* There is no category yet.
LEMMA TreeInit ==
  ASSUME NEW c, Categories(c)!Init PROVE TreeInv(c)
<1>1. DOMAIN categories = {}  BY DEF Categories!Init
<1> QED
  BY <1>1 DEF Categories!Init, TreeInv, TreeTypes, Categories!RefsExist, Categories!Existing, Categories!Idle

\* References are looked at again when a transaction commits: no step breaks one.
LEMMA TreeStep ==
  ASSUME NEW c, TreeInv(c), Categories(c)!Next PROVE TreeInv(c)'
<1> USE DEF TreeInv, TreeTypes, Categories!Idle, Categories!Becomes
<1>same. ASSUME UNCHANGED <<categories, used>> PROVE Categories(c)!RefsExist'
  BY <1>same DEF Categories!RefsExist, Categories!Existing
<1>1. ASSUME NEW p \in c.Web, NEW k \in c.Category, NEW form \in Categories(c)!Form,
             Categories(c)!AdminSave(p, k, form)
      PROVE  TreeInv(c)'
  BY <1>1, <1>same DEF Categories!AdminSave, Categories!Begin, Categories!DropCopies
<1>2. ASSUME NEW p \in c.Web, Categories(c)!CommitSave(p) PROVE TreeInv(c)'
  <2>1. Categories(c)!RefsExist'
    BY <1>2 DEF Categories!CommitSave, Categories!RefsExist, Categories!Existing
  <2> QED  BY <1>2, <2>1 DEF Categories!CommitSave, Categories!Existing
<1>3. ASSUME NEW p \in c.Web, NEW k \in c.Category, Categories(c)!AdminDelete(p, k) PROVE TreeInv(c)'
  BY <1>3, <1>same DEF Categories!AdminDelete, Categories!Begin, Categories!DropCopies
<1>4. ASSUME NEW p \in c.Web, Categories(c)!CommitDelete(p) PROVE TreeInv(c)'
  <2>1. Categories(c)!RefsExist'
    BY <1>4 DEF Categories!CommitDelete, Categories!StillRemovable, Categories!Removable,
                Categories!RefsExist, Categories!Existing
  <2> QED  BY <1>4, <2>1 DEF Categories!CommitDelete, Categories!Existing
<1>5. ASSUME NEW p \in c.Web, NEW k \in c.Category, Categories(c)!ValidateProduct(p, k) PROVE TreeInv(c)'
  BY <1>5, <1>same DEF Categories!ValidateProduct, Categories!Begin
<1>6. ASSUME NEW p \in c.Web, Categories(c)!InsertProduct(p) PROVE TreeInv(c)'
  BY <1>6 DEF Categories!InsertProduct, Categories!RefsExist, Categories!Existing
<1>7. ASSUME NEW p \in c.Web, NEW l \in c.Language, Categories(c)!BuildTree(p, l) PROVE TreeInv(c)'
  BY <1>7, <1>same DEF Categories!BuildTree
<1>8. ASSUME NEW p \in c.Web, Categories(c)!PutTree(p) PROVE TreeInv(c)'
  BY <1>8, <1>same DEF Categories!PutTree
<1>9. ASSUME NEW l \in c.Language, Categories(c)!Expire(l) PROVE TreeInv(c)'
  BY <1>9, <1>same DEF Categories!Expire
<1>10. ASSUME NEW p \in c.Web, Categories(c)!Abort(p) PROVE TreeInv(c)'
  BY <1>10, <1>same DEF Categories!Abort
<1> QED  BY <1>1, <1>2, <1>3, <1>4, <1>5, <1>6, <1>7, <1>8, <1>9, <1>10
  DEF Categories!Next, Categories!AdminNext, Categories!TreeNext

\* A step of another component leaves the references alone.
LEMMA TreeStutter ==
  ASSUME NEW c, TreeInv(c), UNCHANGED Categories(c)!vars PROVE TreeInv(c)'
  BY DEF TreeInv, TreeTypes, Categories!vars, Categories!RefsExist, Categories!Existing

\* The tree serves every active category whose ancestors end.
LEMMA TreeServesAll ==
  ASSUME NEW c, Categories(c)!Assumptions, TreeInv(c) PROVE Categories(c)!OnlyEndlessVanish
  BY TreeServes DEF TreeInv, TreeTypes, Categories!Existing

-----------------------------------------------------------------------------
(* The cached trees                                                        *)

\* The tree is computed from the table alone.
LEMMA TreeSame ==
  ASSUME NEW c, NEW l, UNCHANGED categories
  PROVE  Categories(c)!build_category_tree(l)' = Categories(c)!build_category_tree(l)
  BY DEF Categories!build_category_tree, Categories!Served, Categories!Roots, Categories!Active,
         Categories!Existing, Categories!localized_category_name

\* A reader's tree ages only with the table or with what the reader does.
LEMMA ReaderSame ==
  ASSUME NEW c, NEW p, UNCHANGED categories, treeRequest'[p] = treeRequest[p]
  PROVE  Categories(c)!Outdated(p)' <=> Categories(c)!Outdated(p)
  BY DEF Categories!Outdated, Categories!build_category_tree, Categories!Served, Categories!Roots,
         Categories!Active, Categories!Existing, Categories!localized_category_name

\* What a reader has just built is the tree.
LEMMA ReaderFresh ==
  ASSUME NEW c, NEW p, NEW l, UNCHANGED categories,
         treeRequest'[p] = [at |-> "put", language |-> l, tree |-> Categories(c)!build_category_tree(l)]
  PROVE  ~Categories(c)!Outdated(p)'
  BY DEF Categories!Outdated, Categories!build_category_tree, Categories!Served, Categories!Roots,
         Categories!Active, Categories!Existing, Categories!localized_category_name

\* Only the COMMIT of an Admin's transaction changes the table.
LEMMA CommitsChange ==
  ASSUME NEW c, Categories(c)!Next, categories' # categories
  PROVE  \E p \in c.Web : Categories(c)!CommitSave(p) \/ Categories(c)!CommitDelete(p)
  BY DEF Categories!Next, Categories!AdminNext, Categories!TreeNext, Categories!AdminSave, Categories!AdminDelete,
         Categories!ValidateProduct, Categories!InsertProduct, Categories!BuildTree, Categories!PutTree,
         Categories!Expire, Categories!Abort

\* A COMMIT is a step of one process: the other readers' trees are as they were built.
LEMMA CommitOfOne ==
  ASSUME NEW c, NEW p, NEW q, DOMAIN treeRequest = c.Web, p \in c.Web,
         Categories(c)!CommitSave(q) \/ Categories(c)!CommitDelete(q), Categories(c)!Outdated(p)'
  PROVE  p # q
  BY DEF Categories!CommitSave, Categories!CommitDelete, Categories!Becomes, Categories!Idle, Categories!Outdated

\* A copy, and a tree that is about to be put, become wrong only where transactions overlap.
LEMMA TreeStales ==
  ASSUME NEW c, TreeInv(c), Categories(c)!Next PROVE Categories(c)!StaleTreeByOverlap
<1> DEFINE Now(l) == Categories(c)!build_category_tree(l)
<1> USE DEF Categories!Idle, Categories!Becomes, Categories!Begin
<1>t. DOMAIN treeRequest = c.Web /\ DOMAIN treeCache = c.Language  BY DEF TreeInv, TreeTypes
<1>1. ASSUME NEW p \in c.Web, NEW l \in c.Language,
             treeRequest[p] = Categories(c)!Idle, treeRequest'[p].at \in {"save", "delete"}
      PROVE  treeCache'[l] = None
  <2>1. (\E k \in c.Category, form \in Categories(c)!Form : Categories(c)!AdminSave(p, k, form))
          \/ (\E k \in c.Category : Categories(c)!AdminDelete(p, k))
    <3>1. ASSUME NEW q \in c.Web, \/ Categories(c)!CommitSave(q) \/ Categories(c)!CommitDelete(q)
                                  \/ Categories(c)!InsertProduct(q) \/ Categories(c)!PutTree(q)
                                  \/ Categories(c)!Abort(q)
          PROVE  FALSE
      <4>1. treeRequest' = [treeRequest EXCEPT ![q] = [at |-> "idle"]]
        BY <3>1 DEF Categories!CommitSave, Categories!CommitDelete, Categories!InsertProduct, Categories!PutTree,
                    Categories!Abort
      <4> QED  BY <4>1, <1>1, <1>t
    <3>2. ASSUME NEW q \in c.Web, NEW k \in c.Category, Categories(c)!ValidateProduct(q, k) PROVE FALSE
      BY <3>2, <1>1, <1>t DEF Categories!ValidateProduct
    <3>3. ASSUME NEW q \in c.Web, NEW d \in c.Language, Categories(c)!BuildTree(q, d) PROVE FALSE
      BY <3>3, <1>1, <1>t DEF Categories!BuildTree
    <3>4. ASSUME NEW d \in c.Language, Categories(c)!Expire(d) PROVE FALSE
      BY <3>4, <1>1 DEF Categories!Expire
    <3>5. ASSUME NEW q \in c.Web, NEW k \in c.Category,
                 (\E form \in Categories(c)!Form : Categories(c)!AdminSave(q, k, form))
                    \/ Categories(c)!AdminDelete(q, k)
          PROVE  q = p
      BY <3>5, <1>1, <1>t DEF Categories!AdminSave, Categories!AdminDelete
    <3> QED  BY <3>1, <3>2, <3>3, <3>4, <3>5
      DEF Categories!Next, Categories!AdminNext, Categories!TreeNext
  <2> QED  BY <2>1, <1>1
    DEF Categories!AdminSave, Categories!AdminDelete, Categories!DropCopies, Categories!Dropped
<1>2. ASSUME NEW l \in c.Language, ~Categories(c)!Stale(l), Categories(c)!Stale(l)'
      PROVE  \E p \in c.Web : \/ Categories(c)!CommitSave(p) \/ Categories(c)!CommitDelete(p)
                              \/ Categories(c)!PutTree(p) /\ Categories(c)!Outdated(p)
  <2>1. CASE categories' # categories  BY <2>1, CommitsChange
  <2>2. CASE UNCHANGED categories
    <3>1. Now(l)' = Now(l)  BY <2>2, TreeSame
    <3>2. treeCache'[l] # treeCache[l] /\ treeCache'[l] # None
      BY <1>2, <3>1 DEF Categories!Stale
    <3>3. PICK p \in c.Web : Categories(c)!PutTree(p)
      BY <3>2, <2>2, <1>t
      DEF Categories!Next, Categories!AdminNext, Categories!TreeNext, Categories!AdminSave, Categories!AdminDelete,
          Categories!CommitSave, Categories!CommitDelete, Categories!ValidateProduct, Categories!InsertProduct,
          Categories!BuildTree, Categories!Expire, Categories!Abort, Categories!DropCopies
    <3>4. treeRequest[p].at = "put" /\ treeRequest[p].language = l /\ treeCache'[l] = treeRequest[p].tree
      BY <3>2, <3>3, <1>t DEF Categories!PutTree, Categories!category_tree_cache_key
    <3>5. treeRequest[p].tree # Now(l)  BY <3>1, <3>4, <1>2 DEF Categories!Stale
    <3>6. Categories(c)!Outdated(p)  BY <3>4, <3>5 DEF Categories!Outdated
    <3> QED  BY <3>3, <3>6
  <2> QED  BY <2>1, <2>2
<1>3. ASSUME NEW p \in c.Web, ~Categories(c)!Outdated(p), Categories(c)!Outdated(p)'
      PROVE  \E q \in c.Web \ {p} : Categories(c)!CommitSave(q) \/ Categories(c)!CommitDelete(q)
  <2>1. CASE categories' # categories
    <3>1. PICK q \in c.Web : Categories(c)!CommitSave(q) \/ Categories(c)!CommitDelete(q)
      BY <2>1, CommitsChange
    <3>2. p # q  BY <3>1, <1>3, <1>t, CommitOfOne
    <3> QED  BY <3>1, <3>2
  <2>2. CASE UNCHANGED categories
    <3>1. treeRequest'[p] # treeRequest[p]  BY <2>2, <1>3, ReaderSame
    <3>2. treeRequest'[p].at = "put"  BY <1>3 DEF Categories!Outdated
    <3>3. PICK l \in c.Language : Categories(c)!BuildTree(p, l)
      <4>1. ASSUME NEW q \in c.Web, \/ Categories(c)!CommitSave(q) \/ Categories(c)!CommitDelete(q)
                                    \/ Categories(c)!InsertProduct(q) \/ Categories(c)!PutTree(q)
                                    \/ Categories(c)!Abort(q)
            PROVE  FALSE
        <5>1. treeRequest' = [treeRequest EXCEPT ![q] = [at |-> "idle"]]
          BY <4>1 DEF Categories!CommitSave, Categories!CommitDelete, Categories!InsertProduct,
                      Categories!PutTree, Categories!Abort
        <5> QED  BY <5>1, <3>1, <3>2, <1>t
      <4>2. ASSUME NEW q \in c.Web, NEW k \in c.Category, Categories(c)!ValidateProduct(q, k) PROVE FALSE
        BY <4>2, <3>1, <3>2, <1>t DEF Categories!ValidateProduct
      <4>3. ASSUME NEW q \in c.Web, NEW k \in c.Category, NEW form \in Categories(c)!Form,
                   Categories(c)!AdminSave(q, k, form)
            PROVE  FALSE
        BY <4>3, <3>1, <3>2, <1>t DEF Categories!AdminSave
      <4>4. ASSUME NEW q \in c.Web, NEW k \in c.Category, Categories(c)!AdminDelete(q, k) PROVE FALSE
        BY <4>4, <3>1, <3>2, <1>t DEF Categories!AdminDelete
      <4>5. ASSUME NEW d \in c.Language, Categories(c)!Expire(d) PROVE FALSE
        BY <4>5, <3>1 DEF Categories!Expire
      <4>6. ASSUME NEW q \in c.Web, NEW d \in c.Language, Categories(c)!BuildTree(q, d) PROVE q = p
        BY <4>6, <3>1, <1>t DEF Categories!BuildTree
      <4> QED  BY <4>1, <4>2, <4>3, <4>4, <4>5, <4>6
        DEF Categories!Next, Categories!AdminNext, Categories!TreeNext
    <3>4. treeRequest'[p] = [at |-> "put", language |-> l, tree |-> Now(l)]
      BY <3>3, <1>t DEF Categories!BuildTree
    <3> HIDE DEF Now
    <3> QED  BY <2>2, <3>4, <1>3, ReaderFresh DEF Now
  <2> QED  BY <2>1, <2>2
<1> HIDE DEF Categories!Idle, Categories!Becomes, Categories!Begin
<1> QED  BY <1>1, <1>2, <1>3 DEF Categories!StaleTreeByOverlap

\* A step of another component leaves the copies and the readers alone.
LEMMA TreeNoStale ==
  ASSUME NEW c, UNCHANGED Categories(c)!vars PROVE Categories(c)!StaleTreeByOverlap
<1>0. UNCHANGED <<categories, treeCache, treeRequest>>  BY DEF Categories!vars
<1>1. \A l : Categories(c)!build_category_tree(l)' = Categories(c)!build_category_tree(l)
  BY <1>0, TreeSame
<1>2. \A l : Categories(c)!Stale(l)' <=> Categories(c)!Stale(l)  BY <1>0, <1>1 DEF Categories!Stale
<1>3. ASSUME NEW p PROVE Categories(c)!Outdated(p)' <=> Categories(c)!Outdated(p)
  BY <1>0, ReaderSame
<1>4. \A p : treeRequest[p] = Categories(c)!Idle => treeRequest'[p].at = "idle"
  BY <1>0 DEF Categories!Idle
<1> QED  BY <1>2, <1>3, <1>4 DEF Categories!StaleTreeByOverlap

-----------------------------------------------------------------------------
(* The types of the categories                                             *)

\* The types of the categories; a form that is being saved has a name, and a product that is
\* being added a category.
TreeTyped(c) ==
  /\ Categories(c)!TypeOK
  /\ DOMAIN treeRequest = c.Web
  /\ \A p \in c.Web :
       /\ treeRequest[p].at = "save" =>
            treeRequest[p].id \in c.Category /\ treeRequest[p].row \in Categories(c)!Row
       /\ treeRequest[p].at = "product" => treeRequest[p].id \in c.Category

\* There is no category yet.
LEMMA TreeTypedInit ==
  ASSUME NEW c, Categories(c)!Assumptions, Categories(c)!Init PROVE TreeTyped(c)
<1>1. DOMAIN categories = {}  BY DEF Categories!Init
<1> QED
  BY <1>1 DEF Categories!Assumptions, Categories!Init, TreeTyped, Categories!TypeOK, Categories!Existing,
    Categories!Idle

\* Every request keeps them.
LEMMA TreeTypedStep ==
  ASSUME NEW c, Categories(c)!Assumptions, TreeTyped(c), Categories(c)!Next PROVE TreeTyped(c)'
<1> USE DEF TreeTyped, Categories!TypeOK, Categories!Existing, Categories!Idle, Categories!Becomes,
            Categories!Begin, Categories!DropCopies
<1>0. c.MaxEdits \in Nat  BY DEF Categories!Assumptions
<1>1. ASSUME NEW p \in c.Web, NEW k \in c.Category, NEW form \in Categories(c)!Form,
             Categories(c)!AdminSave(p, k, form)
      PROVE  TreeTyped(c)'
  <2>1. form \in Categories(c)!Row
    BY <1>1 DEF Categories!AdminSave, Categories!Form, Categories!Row, Categories!Named
  <2> QED  BY <1>0, <1>1, <2>1 DEF Categories!AdminSave
<1>2. ASSUME NEW p \in c.Web, Categories(c)!CommitSave(p) PROVE TreeTyped(c)'
  BY <1>2 DEF Categories!CommitSave
<1>3. ASSUME NEW p \in c.Web, NEW k \in c.Category, Categories(c)!AdminDelete(p, k) PROVE TreeTyped(c)'
  BY <1>0, <1>3 DEF Categories!AdminDelete
<1>4. ASSUME NEW p \in c.Web, Categories(c)!CommitDelete(p) PROVE TreeTyped(c)'
  BY <1>4 DEF Categories!CommitDelete
<1>5. ASSUME NEW p \in c.Web, NEW k \in c.Category, Categories(c)!ValidateProduct(p, k) PROVE TreeTyped(c)'
  BY <1>0, <1>5 DEF Categories!ValidateProduct
<1>6. ASSUME NEW p \in c.Web, Categories(c)!InsertProduct(p) PROVE TreeTyped(c)'
  BY <1>6 DEF Categories!InsertProduct
<1>7. ASSUME NEW p \in c.Web, NEW l \in c.Language, Categories(c)!BuildTree(p, l) PROVE TreeTyped(c)'
  BY <1>7 DEF Categories!BuildTree
<1>8. ASSUME NEW p \in c.Web, Categories(c)!PutTree(p) PROVE TreeTyped(c)'
  BY <1>8 DEF Categories!PutTree
<1>9. ASSUME NEW l \in c.Language, Categories(c)!Expire(l) PROVE TreeTyped(c)'
  BY <1>9 DEF Categories!Expire
<1>10. ASSUME NEW p \in c.Web, Categories(c)!Abort(p) PROVE TreeTyped(c)'
  BY <1>10 DEF Categories!Abort
<1> QED  BY <1>1, <1>2, <1>3, <1>4, <1>5, <1>6, <1>7, <1>8, <1>9, <1>10
  DEF Categories!Next, Categories!AdminNext, Categories!TreeNext

\* A step of another component leaves the types of the categories alone.
LEMMA TreeTypedStutter ==
  ASSUME NEW c, TreeTyped(c), UNCHANGED Categories(c)!vars PROVE TreeTyped(c)'
  BY DEF TreeTyped, Categories!TypeOK, Categories!Existing, Categories!vars

-----------------------------------------------------------------------------
(* Profiles: the photo, the one profile of an account, the cached page     *)

\* The instance's Cardinality is that of FiniteSets.
LEMMA ProfileCardinality == ASSUME NEW c, NEW S PROVE Profiles(c)!Cardinality(S) = Cardinality(S)
  BY DEF Profiles!Cardinality, Cardinality

Fields == {"owner", "details", "category", "avatar", "deleted"}

\* The rows are numbered, and a request that has loaded one names it.
RowsInv(c) ==
  /\ \E n \in Nat : DOMAIN profile = 1..n
  /\ DOMAIN profile \subseteq Profiles(c)!Id
  /\ \A i \in DOMAIN profile : DOMAIN profile[i] = Fields
  /\ DOMAIN profileRequest = c.Web
  /\ DOMAIN pageCache = Profiles(c)!Id
  /\ \A p \in c.Web : LET r == profileRequest[p] IN
       /\ r.at \in {"category", "save", "photo", "remove", "drop"} => r.id \in DOMAIN profile
       /\ r.at = "save" => DOMAIN r.row = Fields /\ r.row.owner = profile[r.id].owner
  /\ Profiles(c)!OneProfile

\* There is no profile yet.
LEMMA RowsInit ==
  ASSUME NEW c, Profiles(c)!Init PROVE RowsInv(c)
<1>1. DOMAIN profile = {} /\ DOMAIN profile = 1..0  BY DEF Profiles!Init
<1> QED
  BY <1>1 DEF Profiles!Init, RowsInv, Profiles!OneProfile, Profiles!Row, Profiles!Idle

\* The number of the next row.
LEMMA RowsNumber ==
  ASSUME NEW c, NEW n \in Nat, DOMAIN profile = 1..n
  PROVE  Profiles(c)!Cardinality(DOMAIN profile) + 1 = n + 1
<1>1. Profiles(c)!Cardinality(DOMAIN profile) = Cardinality(1..n)  BY ProfileCardinality
<1>2. Cardinality(1..n) = n  BY FS_Interval
<1> QED  BY <1>1, <1>2

\* What the INSERT of a profile that is not refused makes: row i, at the end.
RowAdded(c, p, i) ==
  /\ i \notin DOMAIN profile /\ DOMAIN profile' = DOMAIN profile \cup {i}
  /\ \E n \in Nat : DOMAIN profile' = 1..n
  /\ \A j \in DOMAIN profile : profile'[j] = profile[j]
  /\ profile'[i] = [owner |-> profileRequest[p].owner, details |-> profileRequest[p].details,
                    category |-> None, avatar |-> None, deleted |-> FALSE]
  /\ Profiles(c)!Own(profileRequest[p].owner) = {}
  /\ profileRequest'[p] = Profiles(c)!Idle \/
       profileRequest'[p] = [at |-> "category", id |-> i, category |-> profileRequest[p].category]

\* An INSERT that is not refused adds a row at the end, for an account that has none.
LEMMA InsertRow ==
  ASSUME NEW c, RowsInv(c), NEW p \in c.Web, Profiles(c)!Insert(p), UNCHANGED profile => FALSE
  PROVE  \E i \in Profiles(c)!Id : RowAdded(c, p, i)
<1>1. PICK n \in Nat : DOMAIN profile = 1..n  BY DEF RowsInv
<1>2. Profiles(c)!Cardinality(DOMAIN profile) + 1 = n + 1  BY <1>1, RowsNumber
<1> DEFINE i == n + 1
<1>3. /\ Profiles(c)!UniqueOwner(profileRequest[p].owner) /\ i \in Profiles(c)!Id
      /\ profile' = [j \in 1..i |-> IF j = i THEN
                      [owner |-> profileRequest[p].owner, details |-> profileRequest[p].details,
                       category |-> None, avatar |-> None, deleted |-> FALSE] ELSE profile[j]]
  BY <1>2 DEF Profiles!Insert, Profiles!Row
<1>4. profileRequest'[p] = Profiles(c)!Idle \/
        profileRequest'[p] = [at |-> "category", id |-> i, category |-> profileRequest[p].category]
  BY <1>2, <1>3 DEF Profiles!Insert, Profiles!Row, Profiles!Becomes, RowsInv
<1>5. 1..i = DOMAIN profile \cup {i} /\ i \notin DOMAIN profile  BY <1>1
<1> QED  BY <1>1, <1>3, <1>4, <1>5 DEF RowAdded, Profiles!UniqueOwner

\* An INSERT that is refused only ends its request.
LEMMA InsertRefused ==
  ASSUME NEW c, RowsInv(c), NEW p \in c.Web, Profiles(c)!Insert(p), UNCHANGED profile
  PROVE  profileRequest' = [profileRequest EXCEPT ![p] = Profiles(c)!Idle]
<1>1. PICK n \in Nat : DOMAIN profile = 1..n  BY DEF RowsInv
<1>2. Profiles(c)!Cardinality(DOMAIN profile) + 1 = n + 1  BY <1>1, RowsNumber
<1>3. DOMAIN profile # 1..(n + 1)  BY <1>1
<1> QED  BY <1>2, <1>3 DEF Profiles!Insert, Profiles!Row, Profiles!Becomes

\* The request that begins or goes on is the only one that changes.
LEMMA RowsOthers ==
  ASSUME NEW c, RowsInv(c), NEW p \in c.Web,
         DOMAIN profileRequest' = c.Web, \A q \in c.Web \ {p} : profileRequest'[q] = profileRequest[q],
         DOMAIN profile' = DOMAIN profile, 
         \A i \in DOMAIN profile : profile'[i].owner = profile[i].owner /\ DOMAIN profile'[i] = Fields,
         DOMAIN pageCache' = DOMAIN pageCache,
         profileRequest'[p].at \in {"category", "save", "photo", "remove", "drop"} =>
           profileRequest'[p].id \in DOMAIN profile,
         profileRequest'[p].at = "save" =>
           DOMAIN profileRequest'[p].row = Fields /\
           profileRequest'[p].row.owner = profile[profileRequest'[p].id].owner
  PROVE  RowsInv(c)'
  BY DEF RowsInv, Profiles!OneProfile, Profiles!Row

\* Every step keeps the rows numbered, their owners, and one profile for an account.
LEMMA RowsStep ==
  ASSUME NEW c, RowsInv(c), Profiles(c)!Next PROVE RowsInv(c)'
<1> USE DEF Profiles!Becomes, Profiles!Begin, Profiles!Idle
<1> DOMAIN profileRequest = c.Web /\ \A i \in DOMAIN profile : DOMAIN profile[i] = Fields  BY DEF RowsInv
<1>1. ASSUME NEW p \in c.Web, NEW u \in c.User, NEW d \in c.Detail, NEW k \in c.Category \cup {None},
             Profiles(c)!Create(p, u, d, k)
      PROVE  RowsInv(c)'
  BY <1>1, RowsOthers DEF Profiles!Create
<1>2. ASSUME NEW p \in c.Web, Profiles(c)!Insert(p) PROVE RowsInv(c)'
  <2>1. CASE UNCHANGED profile
    BY <1>2, <2>1, InsertRefused, RowsOthers DEF Profiles!Insert
  <2>2. CASE ~UNCHANGED profile
    <3>1. PICK i \in Profiles(c)!Id : RowAdded(c, p, i)
      BY <1>2, <2>2, InsertRow
    <3>2. profileRequest' = [profileRequest EXCEPT ![p] = profileRequest'[p]] /\ UNCHANGED pageCache
      BY <1>2 DEF Profiles!Insert, RowsInv
    <3>3. Profiles(c)!OneProfile'
      <4>1. \A j \in DOMAIN profile : profile[j].owner # profileRequest[p].owner
        BY <3>1 DEF RowAdded, Profiles!Own, Profiles!Row
      <4>2. \A j \in DOMAIN profile' : j = i \/ (j \in DOMAIN profile /\ profile'[j].owner = profile[j].owner)
        BY <3>1 DEF RowAdded
      <4>3. profile'[i].owner = profileRequest[p].owner  BY <3>1 DEF RowAdded
      <4> QED  BY <4>1, <4>2, <4>3 DEF RowsInv, Profiles!OneProfile, Profiles!Row
    <3>4. ASSUME NEW q \in c.Web
          PROVE  LET r == profileRequest'[q] IN
                  /\ r.at \in {"category", "save", "photo", "remove", "drop"} => r.id \in DOMAIN profile'
                  /\ r.at = "save" => DOMAIN r.row = Fields /\ r.row.owner = profile'[r.id].owner
      <4>1. CASE q = p
        <5>1. \/ profileRequest'[p].at = "idle"
              \/ profileRequest'[p].at = "category" /\ profileRequest'[p].id = i
          BY <3>1 DEF RowAdded
        <5> QED  BY <3>1, <4>1, <5>1 DEF RowAdded
      <4>2. CASE q # p
        <5>1. profileRequest'[q] = profileRequest[q]  BY <3>2, <4>2 DEF RowsInv
        <5> DEFINE r == profileRequest[q]
        <5>2. /\ r.at \in {"category", "save", "photo", "remove", "drop"} => r.id \in DOMAIN profile
              /\ r.at = "save" => DOMAIN r.row = Fields /\ r.row.owner = profile[r.id].owner
          BY DEF RowsInv
        <5> QED  BY <3>1, <5>1, <5>2 DEF RowAdded
      <4> QED  BY <4>1, <4>2
    <3>5. \A j \in DOMAIN profile' : DOMAIN profile'[j] = Fields
      <4>1. DOMAIN profile'[i] = Fields  BY <3>1 DEF RowAdded, Fields
      <4>2. \A j \in DOMAIN profile : DOMAIN profile'[j] = Fields  BY <3>1 DEF RowAdded
      <4> QED  BY <3>1, <4>1, <4>2 DEF RowAdded
    <3> QED  BY <3>1, <3>2, <3>3, <3>4, <3>5 DEF RowAdded, RowsInv
  <2> QED  BY <2>1, <2>2
<1>3. ASSUME NEW p \in c.Web, Profiles(c)!SaveCategory(p) PROVE RowsInv(c)'
  <2>1. profileRequest[p].id \in DOMAIN profile  BY <1>3 DEF Profiles!SaveCategory, RowsInv
  <2> QED  BY <1>3, <2>1, RowsOthers DEF Profiles!SaveCategory
<1>4. ASSUME NEW p \in c.Web, NEW i \in Profiles(c)!Id, NEW form \in Profiles(c)!Edit,
             Profiles(c)!Patch(p, i, form) \/ Profiles(c)!AdminEdit(p, i, form)
      PROVE  RowsInv(c)'
  <2>1. /\ Profiles(c)!Edited(profile[i], form).owner = profile[i].owner
        /\ DOMAIN Profiles(c)!Edited(profile[i], form) = DOMAIN profile[i]
    BY DEF Profiles!Edited
  <2>2. CASE Profiles(c)!Patch(p, i, form)
    BY <2>1, <2>2, RowsOthers DEF Profiles!Patch, Profiles!Row
  <2>3. CASE Profiles(c)!AdminEdit(p, i, form)
    BY <2>1, <2>3, RowsOthers DEF Profiles!AdminEdit, Profiles!Row
  <2> QED  BY <1>4, <2>2, <2>3
<1>5. ASSUME NEW p \in c.Web, NEW i \in Profiles(c)!Id, Profiles(c)!AdminDelete(p, i) PROVE RowsInv(c)'
  BY <1>5, RowsOthers DEF Profiles!AdminDelete, Profiles!Row
<1>6. ASSUME NEW p \in c.Web, Profiles(c)!Save(p) PROVE RowsInv(c)'
  <2>1. /\ profileRequest[p].id \in DOMAIN profile
        /\ profileRequest[p].row.owner = profile[profileRequest[p].id].owner
        /\ DOMAIN profileRequest[p].row = Fields
    BY <1>6 DEF Profiles!Save, RowsInv
  <2> QED  BY <1>6, <2>1, RowsOthers DEF Profiles!Save, Profiles!After
<1>7. ASSUME NEW p \in c.Web, Profiles(c)!Drop(p) PROVE RowsInv(c)'
  BY <1>7, RowsOthers DEF Profiles!Drop
<1>8. ASSUME NEW p \in c.Web, NEW i \in Profiles(c)!Id, NEW clear \in BOOLEAN,
             Profiles(c)!LoadPhoto(p, i, clear)
      PROVE  RowsInv(c)'
  BY <1>8, RowsOthers DEF Profiles!LoadPhoto, Profiles!Row
<1>9. ASSUME NEW p \in c.Web, Profiles(c)!SavePhoto(p) PROVE RowsInv(c)'
  <2>1. profileRequest[p].id \in DOMAIN profile  BY <1>9 DEF Profiles!SavePhoto, RowsInv
  <2>2. /\ DOMAIN profile' = DOMAIN profile
        /\ \A i \in DOMAIN profile : profile'[i].owner = profile[i].owner /\ DOMAIN profile'[i] = Fields
    <3>1. \E a : profile' = [profile EXCEPT ![profileRequest[p].id].avatar = a]
      BY <1>9 DEF Profiles!SavePhoto
    <3> QED  BY <2>1, <3>1
  <2>3. profileRequest' = [profileRequest EXCEPT ![p] =
          [at |-> "remove", id |-> profileRequest[p].id, old |-> profileRequest[p].old]]
    BY <1>9 DEF Profiles!SavePhoto
  <2> QED  BY <1>9, <2>1, <2>2, <2>3, RowsOthers DEF Profiles!SavePhoto
<1>10. ASSUME NEW p \in c.Web, Profiles(c)!RemoveOld(p) PROVE RowsInv(c)'
  <2>1. profileRequest[p].id \in DOMAIN profile  BY <1>10 DEF Profiles!RemoveOld, RowsInv
  <2> QED  BY <1>10, <2>1, RowsOthers DEF Profiles!RemoveOld
<1>11. ASSUME NEW p \in c.Web, NEW u \in c.Business, Profiles(c)!Verify(p, u) PROVE RowsInv(c)'
  BY <1>11, RowsOthers DEF Profiles!Verify, RowsInv
<1>12. ASSUME NEW p \in c.Web, Profiles(c)!Commit(p) \/ Profiles(c)!Put(p) \/ Profiles(c)!Abort(p)
       PROVE  RowsInv(c)'
  BY <1>12, RowsOthers DEF Profiles!Commit, Profiles!Put, Profiles!Abort
<1>13. ASSUME NEW p \in c.Web, NEW i \in Profiles(c)!Id, Profiles(c)!Compute(p, i) PROVE RowsInv(c)'
  BY <1>13, RowsOthers DEF Profiles!Compute
<1>14. ASSUME NEW i \in Profiles(c)!Id, Profiles(c)!Expire(i) PROVE RowsInv(c)'
  BY <1>14 DEF Profiles!Expire, RowsInv, Profiles!OneProfile, Profiles!Row
<1> QED
  BY <1>1, <1>2, <1>3, <1>4, <1>5, <1>6, <1>7, <1>8, <1>9, <1>10, <1>11, <1>12, <1>13, <1>14
  DEF Profiles!Next, Profiles!PageNext, Profiles!Onboard, Profiles!Photo, Profiles!Edition,
      Profiles!Verification, Profiles!Reading

\* A step of another component leaves the profiles alone.
LEMMA RowsStutter ==
  ASSUME NEW c, RowsInv(c), UNCHANGED Profiles(c)!vars PROVE RowsInv(c)'
  BY DEF RowsInv, Profiles!vars, Profiles!OneProfile, Profiles!Row

-----------------------------------------------------------------------------
(* The photo                                                               *)

\* File a is named by row i, by what a request is about to save as row i, or by what a photo
\* request of row i has replaced or is about to replace.
Names(c, i, a) ==
  /\ a # None
  /\ \/ i \in DOMAIN profile /\ profile[i].avatar = a
     \/ \E p \in c.Web : LET r == profileRequest[p] IN
          /\ r.at \in {"save", "photo", "remove"} /\ r.id = i
          /\ IF r.at = "save" THEN r.row.avatar = a ELSE r.old = a

\* A file has been uploaded, and is named for one row only: names never change rows.
FilesInv(c) ==
  /\ RowsInv(c)
  /\ uploads \in Nat
  /\ \A i, a : Names(c, i, a) => a \in 1..uploads /\ \A j : Names(c, j, a) => i = j

\* No photo is named yet.
LEMMA FilesInit ==
  ASSUME NEW c, Profiles(c)!Init PROVE FilesInv(c)
<1>1. DOMAIN profile = {} /\ uploads = 0 /\ \A p \in c.Web : profileRequest[p].at = "idle"
  BY DEF Profiles!Init, Profiles!Idle
<1>2. \A i, a : ~Names(c, i, a)  BY <1>1 DEF Names
<1> QED  BY <1>1, <1>2, RowsInit DEF FilesInv

\* What the rows and the requests name comes from what they named, but for a new photo.
LEMMA FilesStep ==
  ASSUME NEW c, FilesInv(c), Profiles(c)!PhotoNext PROVE FilesInv(c)'
<1> USE DEF Profiles!Becomes, Profiles!Begin, Profiles!Idle
<1>d. DOMAIN profileRequest = c.Web /\ RowsInv(c) /\ uploads \in Nat  BY DEF FilesInv, RowsInv
<1>f. \A i \in DOMAIN profile : DOMAIN profile[i] = Fields  BY DEF FilesInv, RowsInv
<1>r. RowsInv(c)'
  BY <1>d, RowsStep DEF Profiles!Next, Profiles!PageNext, Profiles!PhotoNext
<1>keep. ASSUME UNCHANGED uploads, \A i, a : Names(c, i, a)' => Names(c, i, a) PROVE FilesInv(c)'
  BY <1>keep, <1>r DEF FilesInv
\* One request changes, and names afterwards what it or its row has named.
<1>one. ASSUME NEW p \in c.Web, UNCHANGED uploads, DOMAIN profileRequest' = c.Web,
               \A q \in c.Web \ {p} : profileRequest'[q] = profileRequest[q],
               \A i \in DOMAIN profile' : profile'[i].avatar # None => Names(c, i, profile'[i].avatar),
               LET s == profileRequest'[p] IN
                 /\ s.at = "save" => s.row.avatar = None \/ Names(c, s.id, s.row.avatar)
                 /\ s.at \in {"photo", "remove"} => s.old = None \/ Names(c, s.id, s.old)
        PROVE  FilesInv(c)'
  <2>1. ASSUME NEW i, NEW a, Names(c, i, a)' PROVE Names(c, i, a)
    <3>1. CASE i \in DOMAIN profile' /\ profile'[i].avatar = a  BY <3>1, <2>1, <1>one DEF Names
    <3>2. ASSUME NEW q \in c.Web, profileRequest'[q].at \in {"save", "photo", "remove"}, profileRequest'[q].id = i,
                 IF profileRequest'[q].at = "save" THEN profileRequest'[q].row.avatar = a
                                                   ELSE profileRequest'[q].old = a
          PROVE  Names(c, i, a)
      <4>0. a # None  BY <2>1 DEF Names
      <4>1. CASE q = p  BY <4>0, <4>1, <3>2, <1>one
      <4>2. CASE q # p
        <5>1. profileRequest'[q] = profileRequest[q]  BY <4>2, <1>one
        <5> QED  BY <4>0, <5>1, <3>2 DEF Names
      <4> QED  BY <4>1, <4>2
    <3> QED  BY <2>1, <3>1, <3>2 DEF Names
  <2> QED  BY <2>1, <1>one, <1>keep
<1>rows. UNCHANGED profile =>
           \A i \in DOMAIN profile' : profile'[i].avatar # None => Names(c, i, profile'[i].avatar)
  BY DEF Names
<1>1. ASSUME NEW p \in c.Web, NEW u \in c.User, NEW d \in c.Detail, NEW k \in c.Category \cup {None},
             Profiles(c)!Create(p, u, d, k)
      PROVE  FilesInv(c)'
  BY <1>1, <1>d, <1>one, <1>rows DEF Profiles!Create
<1>2. ASSUME NEW p \in c.Web, Profiles(c)!Insert(p) PROVE FilesInv(c)'
  <2>0. /\ DOMAIN profileRequest' = c.Web /\ \A q \in c.Web \ {p} : profileRequest'[q] = profileRequest[q]
        /\ profileRequest'[p].at \notin {"save", "photo", "remove"} /\ UNCHANGED uploads
    BY <1>2, <1>d DEF Profiles!Insert
  <2>1. CASE UNCHANGED profile
    BY <2>1, <2>0, <1>one, <1>rows
  <2>2. CASE ~UNCHANGED profile
    <3>0. PICK i \in Profiles(c)!Id : RowAdded(c, p, i)  BY <1>2, <2>2, <1>d, InsertRow
    <3>a. /\ DOMAIN profile' = DOMAIN profile \cup {i} /\ profile'[i].avatar = None
          /\ \A j \in DOMAIN profile : profile'[j] = profile[j]
      BY <3>0 DEF RowAdded
    <3>1. \A j \in DOMAIN profile' : profile'[j].avatar # None =>
            j \in DOMAIN profile /\ profile'[j].avatar = profile[j].avatar
      BY <3>a
    <3>2. \A j \in DOMAIN profile' : profile'[j].avatar # None => Names(c, j, profile'[j].avatar)
      BY <3>1 DEF Names
    <3> QED  BY <2>0, <3>2, <1>one
  <2> QED  BY <2>1, <2>2
<1>3. ASSUME NEW p \in c.Web, Profiles(c)!SaveCategory(p) PROVE FilesInv(c)'
  <2>1. DOMAIN profile' = DOMAIN profile /\ \A j \in DOMAIN profile : profile'[j].avatar = profile[j].avatar
    BY <1>3 DEF Profiles!SaveCategory
  <2>2. \A j \in DOMAIN profile' : profile'[j].avatar # None => Names(c, j, profile'[j].avatar)
    BY <2>1 DEF Names
  <2> QED  BY <1>3, <1>d, <2>2, <1>one DEF Profiles!SaveCategory
<1>4. ASSUME NEW p \in c.Web, NEW i \in Profiles(c)!Id, NEW clear \in BOOLEAN,
             Profiles(c)!LoadPhoto(p, i, clear)
      PROVE  FilesInv(c)'
  <2>1. /\ i \in DOMAIN profile /\ UNCHANGED <<profile, uploads>>
        /\ profileRequest' = [profileRequest EXCEPT ![p] =
             [at |-> "photo", id |-> i, clear |-> clear, old |-> profile[i].avatar]]
    BY <1>4 DEF Profiles!LoadPhoto, Profiles!Row
  <2>2. /\ profileRequest'[p].at = "photo" /\ profileRequest'[p].id = i
        /\ profileRequest'[p].old = profile[i].avatar /\ DOMAIN profileRequest' = c.Web
        /\ \A q \in c.Web \ {p} : profileRequest'[q] = profileRequest[q]
    BY <2>1, <1>d
  <2>3. profile[i].avatar = None \/ Names(c, i, profile[i].avatar)  BY <2>1 DEF Names
  <2> QED  BY <2>1, <2>2, <2>3, <1>one, <1>rows
<1>5. ASSUME NEW p \in c.Web, Profiles(c)!SavePhoto(p) PROVE FilesInv(c)'
  <2> DEFINE r == profileRequest[p]
  <2>0. r.at = "photo" /\ r.id \in DOMAIN profile /\ DOMAIN profile[r.id] = Fields
    BY <1>5, <1>d, <1>f DEF Profiles!SavePhoto, RowsInv
  <2>1. /\ profileRequest' = [profileRequest EXCEPT ![p] = [at |-> "remove", id |-> r.id, old |-> r.old]]
        /\ DOMAIN profile' = DOMAIN profile
        /\ \A j \in DOMAIN profile : j # r.id => profile'[j].avatar = profile[j].avatar
    BY <1>5, <2>0 DEF Profiles!SavePhoto
  <2>2. /\ DOMAIN profileRequest' = c.Web /\ \A q \in c.Web \ {p} : profileRequest'[q] = profileRequest[q]
        /\ profileRequest'[p].at = "remove" /\ profileRequest'[p].id = r.id /\ profileRequest'[p].old = r.old
    BY <2>1, <1>d
  <2>3. r.old = None \/ Names(c, r.id, r.old)  BY <2>0 DEF Names
  <2>4. \A j \in DOMAIN profile : j # r.id /\ profile'[j].avatar # None => Names(c, j, profile'[j].avatar)
    BY <2>1 DEF Names
  <2>5. CASE r.clear
    <3>1. UNCHANGED uploads /\ profile' = [profile EXCEPT ![r.id].avatar = None]
      BY <1>5, <2>5 DEF Profiles!SavePhoto
    <3>2. profile'[r.id] = [profile[r.id] EXCEPT !.avatar = None]  BY <3>1, <2>0
    <3>3. profile'[r.id].avatar = None  BY <3>2, <2>0 DEF Fields
    <3>4. \A j \in DOMAIN profile' : profile'[j].avatar # None => Names(c, j, profile'[j].avatar)
      BY <2>1, <2>4, <3>3
    <3> QED  BY <2>2, <2>3, <3>1, <3>4, <1>one
  <2>6. CASE ~r.clear
    <3>1. uploads' = uploads + 1 /\ profile' = [profile EXCEPT ![r.id].avatar = uploads']
      BY <1>5, <2>6 DEF Profiles!SavePhoto
    <3>2. profile'[r.id] = [profile[r.id] EXCEPT !.avatar = uploads']  BY <3>1, <2>0
    <3>3. profile'[r.id].avatar = uploads'  BY <3>2, <2>0 DEF Fields
    <3>4. ASSUME NEW i, NEW a, Names(c, i, a)' PROVE Names(c, i, a) \/ (i = r.id /\ a = uploads')
      <4>0. a # None  BY <3>4 DEF Names
      <4>1. CASE i \in DOMAIN profile' /\ profile'[i].avatar = a  BY <4>0, <4>1, <2>1, <2>4, <3>3
      <4>2. ASSUME NEW q \in c.Web, profileRequest'[q].at \in {"save", "photo", "remove"},
                   profileRequest'[q].id = i,
                   IF profileRequest'[q].at = "save" THEN profileRequest'[q].row.avatar = a
                                                     ELSE profileRequest'[q].old = a
            PROVE  Names(c, i, a)
        <5>1. CASE q = p  BY <4>0, <5>1, <4>2, <2>2, <2>3
        <5>2. CASE q # p
          <6>1. profileRequest'[q] = profileRequest[q]  BY <5>2, <2>2
          <6> QED  BY <4>0, <6>1, <4>2 DEF Names
        <5> QED  BY <5>1, <5>2
      <4> QED  BY <3>4, <4>1, <4>2 DEF Names
    <3>5. uploads' \in Nat /\ uploads' \in 1..uploads' /\ 1..uploads \subseteq 1..uploads' /\ uploads' \notin 1..uploads
      BY <3>1, <1>d
    <3>6. \A i, a : Names(c, i, a) => a \in 1..uploads /\ \A j : Names(c, j, a) => i = j  BY DEF FilesInv
    <3>7. ASSUME NEW i, NEW a, Names(c, i, a)'
          PROVE  a \in 1..uploads' /\ \A j : Names(c, j, a)' => i = j
      BY <3>4, <3>5, <3>6, <3>7
    <3> QED  BY <1>r, <3>5, <3>7 DEF FilesInv
  <2> QED  BY <2>5, <2>6
<1>6. ASSUME NEW p \in c.Web, Profiles(c)!RemoveOld(p) PROVE FilesInv(c)'
  BY <1>6, <1>d, <1>one, <1>rows DEF Profiles!RemoveOld
<1>7. ASSUME NEW p \in c.Web, Profiles(c)!Drop(p) \/ Profiles(c)!Abort(p) PROVE FilesInv(c)'
  BY <1>7, <1>d, <1>one, <1>rows DEF Profiles!Drop, Profiles!Abort
\* What a request has loaded to save has the name of the row.
<1>load. ASSUME NEW p \in c.Web, NEW i \in DOMAIN profile, NEW s, s.at = "save", s.id = i,
                s.row.avatar = profile[i].avatar, Profiles(c)!Begin(p, s), UNCHANGED <<profile, uploads>>
         PROVE  FilesInv(c)'
  <2>1. /\ profileRequest'[p] = s /\ DOMAIN profileRequest' = c.Web
        /\ \A q \in c.Web \ {p} : profileRequest'[q] = profileRequest[q]
    BY <1>load, <1>d
  <2>2. profile[i].avatar = None \/ Names(c, i, profile[i].avatar)  BY DEF Names
  <2> QED  BY <1>load, <2>1, <2>2, <1>one, <1>rows
<1>8. ASSUME NEW p \in c.Web, NEW i \in Profiles(c)!Id, NEW form \in Profiles(c)!Edit,
             Profiles(c)!Patch(p, i, form)
      PROVE  FilesInv(c)'
  <2> DEFINE s == [at |-> "save", id |-> i, row |-> Profiles(c)!Edited(profile[i], form), by |-> "owner",
                   then |-> IF profile[i].owner \in c.Business THEN "drop" ELSE "idle"]
  <2>1. i \in DOMAIN profile /\ Profiles(c)!Begin(p, s) /\ UNCHANGED <<profile, uploads>>
    BY <1>8 DEF Profiles!Patch, Profiles!Row
  <2>2. s.at = "save" /\ s.id = i /\ s.row.avatar = profile[i].avatar  BY <2>1, <1>f DEF Profiles!Edited, Fields
  <2> HIDE DEF s
  <2> QED  BY <2>1, <2>2, <1>load
<1>9. ASSUME NEW p \in c.Web, NEW i \in Profiles(c)!Id, NEW form \in Profiles(c)!Edit,
             Profiles(c)!AdminEdit(p, i, form)
      PROVE  FilesInv(c)'
  <2> DEFINE s == [at |-> "save", id |-> i, row |-> Profiles(c)!Edited(profile[i], form), by |-> "admin",
                   then |-> "idle"]
  <2>1. i \in DOMAIN profile /\ Profiles(c)!Begin(p, s) /\ UNCHANGED <<profile, uploads>>
    BY <1>9 DEF Profiles!AdminEdit, Profiles!Row
  <2>2. s.at = "save" /\ s.id = i /\ s.row.avatar = profile[i].avatar  BY <2>1, <1>f DEF Profiles!Edited, Fields
  <2> HIDE DEF s
  <2> QED  BY <2>1, <2>2, <1>load
<1>10. ASSUME NEW p \in c.Web, NEW i \in Profiles(c)!Id, Profiles(c)!AdminDelete(p, i) PROVE FilesInv(c)'
  <2> DEFINE s == [at |-> "save", id |-> i, row |-> [profile[i] EXCEPT !.deleted = TRUE], by |-> "admin",
                   then |-> "idle"]
  <2>1. i \in DOMAIN profile /\ Profiles(c)!Begin(p, s) /\ UNCHANGED <<profile, uploads>>
    BY <1>10 DEF Profiles!AdminDelete, Profiles!Row
  <2>2. s.at = "save" /\ s.id = i /\ s.row.avatar = profile[i].avatar  BY <2>1, <1>f DEF Fields
  <2> HIDE DEF s
  <2> QED  BY <2>1, <2>2, <1>load
<1>11. ASSUME NEW p \in c.Web, Profiles(c)!Save(p) PROVE FilesInv(c)'
  <2> DEFINE r == profileRequest[p]
  <2>1. r.at = "save" /\ r.id \in DOMAIN profile /\ profile' = [profile EXCEPT ![r.id] = r.row] /\ UNCHANGED uploads
    BY <1>11, <1>d DEF Profiles!Save, RowsInv
  <2>2. /\ DOMAIN profileRequest' = c.Web /\ \A q \in c.Web \ {p} : profileRequest'[q] = profileRequest[q]
        /\ profileRequest'[p].at \in {"idle", "drop"}
    BY <1>11, <1>d DEF Profiles!Save, Profiles!After
  <2>3. r.row.avatar = None \/ Names(c, r.id, r.row.avatar)  BY <2>1 DEF Names
  <2>4. \A i \in DOMAIN profile : i # r.id /\ profile[i].avatar # None => Names(c, i, profile[i].avatar)
    BY DEF Names
  <2>5. \A i \in DOMAIN profile' : profile'[i].avatar # None => Names(c, i, profile'[i].avatar)
    BY <2>1, <2>3, <2>4
  <2> QED  BY <2>1, <2>2, <2>5, <1>one
<1> HIDE DEF Profiles!Becomes, Profiles!Begin, Profiles!Idle
<1> QED
  BY <1>1, <1>2, <1>3, <1>4, <1>5, <1>6, <1>7, <1>8, <1>9, <1>10, <1>11
  DEF Profiles!PhotoNext, Profiles!Onboard, Profiles!Photo, Profiles!Edition

\* A step of another component leaves the photos alone.
LEMMA FilesStutter ==
  ASSUME NEW c, FilesInv(c), UNCHANGED Profiles(c)!vars PROVE FilesInv(c)'
<1>1. \A i, a : Names(c, i, a)' <=> Names(c, i, a)  BY DEF Names, Profiles!vars
<1> QED  BY <1>1, RowsStutter DEF FilesInv, Profiles!vars

\* Photo requests take no row's photo away: only a whole-row save brings an old name back.
LEMMA PhotosLost ==
  ASSUME NEW c, FilesInv(c), Profiles(c)!PhotoNext PROVE Profiles(c)!PhotoLostOnlyBySaves
<1> USE DEF Profiles!Becomes, Profiles!Begin, Profiles!Idle, Profiles!PhotoSafe
<1>d. DOMAIN profileRequest = c.Web /\ RowsInv(c)  BY DEF FilesInv, RowsInv
<1> SUFFICES ASSUME NEW i \in DOMAIN profile, Profiles(c)!PhotoSafe(i), ~Profiles(c)!PhotoSafe(i)'
             PROVE  \E p \in c.Web : /\ Profiles(c)!Save(p) /\ profileRequest[p].id = i
                                     /\ profileRequest[p].row.avatar # profile[i].avatar
  BY DEF Profiles!PhotoLostOnlyBySaves, Profiles!Row
\* The row and the storage are as before, and no file is doomed that was not.
<1>same. ASSUME NEW p \in c.Web, profile'[i].avatar = profile[i].avatar, stored \subseteq stored',
                \A q \in c.Web \ {p} : profileRequest'[q] = profileRequest[q],
                profileRequest'[p].at # "remove"
         PROVE  FALSE
  <2>1. profile[i].avatar # None /\ profile[i].avatar \in stored'  BY <1>same
  <2>2. ASSUME NEW q \in c.Web, profileRequest'[q].at = "remove" PROVE profileRequest'[q].old # profile[i].avatar
    <3>1. q # p  BY <2>2, <1>same
    <3>2. profileRequest'[q] = profileRequest[q]  BY <3>1, <1>same
    <3> QED  BY <3>2, <2>1, <2>2
  <2> QED  BY <2>1, <2>2, <1>same
<1>1. ASSUME NEW p \in c.Web, NEW u \in c.User, NEW d \in c.Detail, NEW k \in c.Category \cup {None},
             Profiles(c)!Create(p, u, d, k)
      PROVE  FALSE
  BY <1>1, <1>d, <1>same DEF Profiles!Create
<1>2. ASSUME NEW p \in c.Web, Profiles(c)!Insert(p) PROVE FALSE
  <2>0. /\ \A q \in c.Web \ {p} : profileRequest'[q] = profileRequest[q]
        /\ profileRequest'[p].at # "remove" /\ UNCHANGED stored
    BY <1>2, <1>d DEF Profiles!Insert
  <2>1. profile'[i] = profile[i]
    <3>1. CASE ~UNCHANGED profile
      <4>1. PICK j \in Profiles(c)!Id : RowAdded(c, p, j)  BY <1>2, <3>1, <1>d, InsertRow
      <4> QED  BY <4>1 DEF RowAdded
    <3> QED  BY <3>1
  <2> QED  BY <2>0, <2>1, <1>same
<1>3. ASSUME NEW p \in c.Web, Profiles(c)!SaveCategory(p) PROVE FALSE
  <2>1. profile'[i].avatar = profile[i].avatar  BY <1>3 DEF Profiles!SaveCategory
  <2> QED  BY <1>3, <1>d, <2>1, <1>same DEF Profiles!SaveCategory
<1>4. ASSUME NEW p \in c.Web, NEW j \in Profiles(c)!Id, NEW clear \in BOOLEAN, Profiles(c)!LoadPhoto(p, j, clear)
      PROVE  FALSE
  BY <1>4, <1>d, <1>same DEF Profiles!LoadPhoto
<1>5. ASSUME NEW p \in c.Web, NEW j \in Profiles(c)!Id, NEW form \in Profiles(c)!Edit,
             Profiles(c)!Patch(p, j, form) \/ Profiles(c)!AdminEdit(p, j, form)
      PROVE  FALSE
  <2>1. CASE Profiles(c)!Patch(p, j, form)  BY <2>1, <1>d, <1>same DEF Profiles!Patch
  <2>2. CASE Profiles(c)!AdminEdit(p, j, form)  BY <2>2, <1>d, <1>same DEF Profiles!AdminEdit
  <2> QED  BY <1>5, <2>1, <2>2
<1>10. ASSUME NEW p \in c.Web, NEW j \in Profiles(c)!Id, Profiles(c)!AdminDelete(p, j) PROVE FALSE
  BY <1>10, <1>d, <1>same DEF Profiles!AdminDelete
<1>6. ASSUME NEW p \in c.Web, Profiles(c)!Drop(p) \/ Profiles(c)!Abort(p) PROVE FALSE
  BY <1>6, <1>d, <1>same DEF Profiles!Drop, Profiles!Abort
<1>7. ASSUME NEW p \in c.Web, Profiles(c)!RemoveOld(p) PROVE FALSE
  <2> DEFINE r == profileRequest[p]
  <2>1. /\ r.at = "remove" /\ stored' \in {stored, stored \ {r.old}} /\ UNCHANGED profile
        /\ profileRequest' = [profileRequest EXCEPT ![p] = [at |-> "drop", id |-> r.id]]
    BY <1>7 DEF Profiles!RemoveOld, Profiles!Removed
  <2>2. \A q \in c.Web : profileRequest'[q].at = "remove" => profileRequest'[q] = profileRequest[q]
    BY <2>1, <1>d
  <2>3. profile[i].avatar # None => r.old # profile[i].avatar /\ profile[i].avatar \in stored'  BY <2>1
  <2> QED  BY <2>1, <2>2, <2>3
<1>8. ASSUME NEW p \in c.Web, Profiles(c)!SavePhoto(p) PROVE FALSE
  <2> DEFINE r == profileRequest[p]
  <2>0. r.at = "photo" /\ r.id \in DOMAIN profile /\ DOMAIN profile[r.id] = Fields
    BY <1>8, <1>d DEF Profiles!SavePhoto, RowsInv
  <2>1. /\ profileRequest' = [profileRequest EXCEPT ![p] = [at |-> "remove", id |-> r.id, old |-> r.old]]
        /\ i # r.id => profile'[i].avatar = profile[i].avatar
        /\ stored \subseteq stored'
    BY <1>8, <2>0 DEF Profiles!SavePhoto
  <2>2. \A q \in c.Web \ {p} : profileRequest'[q] = profileRequest[q]  BY <2>1, <1>d
  <2>3. profileRequest'[p].old = r.old  BY <2>1, <1>d
  <2>4. \A j, a : Names(c, j, a) => a \in 1..uploads /\ \A k : Names(c, k, a) => j = k  BY DEF FilesInv
  <2>5. r.old # None => Names(c, r.id, r.old)  BY <2>0 DEF Names
  <2>6. CASE i # r.id
    <3>1. profile[i].avatar # None => Names(c, i, profile[i].avatar)  BY DEF Names
    <3>2. profile[i].avatar # None => r.old # profile[i].avatar  BY <2>4, <2>5, <2>6, <3>1
    <3>3. \A q \in c.Web : profileRequest'[q].at = "remove" =>
            \/ q = p
            \/ profileRequest[q].at = "remove" /\ profileRequest'[q].old = profileRequest[q].old
      BY <2>2
    <3> QED  BY <2>1, <2>3, <2>6, <3>2, <3>3
  <2>7. CASE i = r.id
    <3>1. CASE r.clear
      <4>1. profile' = [profile EXCEPT ![r.id].avatar = None]  BY <1>8, <3>1 DEF Profiles!SavePhoto
      <4>2. profile'[r.id] = [profile[r.id] EXCEPT !.avatar = None]  BY <4>1, <2>0
      <4>3. profile'[r.id].avatar = None  BY <4>2, <2>0 DEF Fields
      <4> QED  BY <2>7, <4>3
    <3>2. CASE ~r.clear
      <4>1. /\ uploads' = uploads + 1 /\ stored' = stored \cup {uploads'}
            /\ profile' = [profile EXCEPT ![r.id].avatar = uploads']
        BY <1>8, <3>2 DEF Profiles!SavePhoto
      <4>2. profile'[r.id] = [profile[r.id] EXCEPT !.avatar = uploads']  BY <4>1, <2>0
      <4>3. profile'[r.id].avatar = uploads'  BY <4>2, <2>0 DEF Fields
      <4>4. uploads' \notin 1..uploads /\ uploads' \in stored'  BY <4>1 DEF FilesInv
      <4>5. ASSUME NEW q \in c.Web, profileRequest'[q].at = "remove", profileRequest'[q].old = uploads',
                   uploads' # None
            PROVE  FALSE
        <5>1. CASE q = p  BY <5>1, <4>4, <4>5, <2>3, <2>4, <2>5
        <5>2. CASE q # p
          <6>1. profileRequest'[q] = profileRequest[q]  BY <5>2, <2>2
          <6>2. Names(c, profileRequest[q].id, profileRequest[q].old)  BY <6>1, <4>5 DEF Names
          <6> QED  BY <6>1, <6>2, <4>4, <4>5, <2>4
        <5> QED  BY <5>1, <5>2
      <4> QED  BY <2>7, <4>3, <4>4, <4>5
    <3> QED  BY <3>1, <3>2
  <2> QED  BY <2>6, <2>7
<1>9. ASSUME NEW p \in c.Web, Profiles(c)!Save(p)
      PROVE  profileRequest[p].id = i /\ profileRequest[p].row.avatar # profile[i].avatar
  <2> DEFINE r == profileRequest[p]
  <2>1. r.id \in DOMAIN profile /\ profile' = [profile EXCEPT ![r.id] = r.row] /\ UNCHANGED stored
    BY <1>9, <1>d DEF Profiles!Save, RowsInv
  <2>2. /\ \A q \in c.Web \ {p} : profileRequest'[q] = profileRequest[q]
        /\ profileRequest'[p].at \in {"idle", "drop"}
    BY <1>9, <1>d DEF Profiles!Save, Profiles!After
  <2>3. profile'[i].avatar # profile[i].avatar  BY <2>1, <2>2, <1>same
  <2> QED  BY <2>1, <2>3
<1> HIDE DEF Profiles!Becomes, Profiles!Begin, Profiles!Idle, Profiles!PhotoSafe
<1> QED
  BY <1>1, <1>2, <1>3, <1>4, <1>5, <1>6, <1>7, <1>8, <1>9, <1>10
  DEF Profiles!PhotoNext, Profiles!Onboard, Profiles!Photo, Profiles!Edition

\* A step of another component leaves the photos alone.
LEMMA PhotosKept ==
  ASSUME NEW c, UNCHANGED Profiles(c)!vars PROVE Profiles(c)!PhotoLostOnlyBySaves
  BY DEF Profiles!PhotoLostOnlyBySaves, Profiles!PhotoSafe, Profiles!vars

-----------------------------------------------------------------------------
(* The page                                                                *)

\* A page that is about to be put is of a row, and the owner of a business drops the page.
PagesInv(c) ==
  /\ RowsInv(c)
  /\ \A p \in c.Web : LET r == profileRequest[p] IN
       /\ r.at = "put" => r.id \in DOMAIN profile
       /\ r.at = "save" /\ r.by = "owner" => (r.then = "idle" <=> r.row.owner \notin c.Business)

\* Nothing is at work.
LEMMA PagesInit ==
  ASSUME NEW c, Profiles(c)!Init PROVE PagesInv(c)
  BY RowsInit DEF Profiles!Init, PagesInv, Profiles!Idle

\* The steps that change what the page of row i says.
Touches(c, q, i) ==
  \/ (Profiles(c)!Save(q) \/ Profiles(c)!SaveCategory(q)) /\ profileRequest[q].id = i
  \/ Profiles(c)!Commit(q) /\ profile[i].owner = profileRequest[q].owner

\* What the page of row i says is as before.
SameRow(i) ==
  i \in DOMAIN profile' /\ profile'[i] = profile[i] /\
    (profile[i].owner \in verified' <=> profile[i].owner \in verified)

\* Every step touches the pages it is said to touch, and no other.
LEMMA RowTouched ==
  ASSUME NEW c, RowsInv(c), Profiles(c)!PageNext, NEW i \in DOMAIN profile, ~SameRow(i)
  PROVE  \E q \in c.Web : Touches(c, q, i)
<1>same. ~UNCHANGED <<profile, verified>>  BY DEF SameRow
<1>1. ASSUME NEW q \in c.Web, Profiles(c)!Insert(q) PROVE FALSE
  <2>1. CASE UNCHANGED profile  BY <1>1, <2>1, <1>same DEF Profiles!Insert
  <2>2. CASE ~UNCHANGED profile
    <3>1. PICK j \in Profiles(c)!Id : RowAdded(c, q, j)  BY <1>1, <2>2, InsertRow
    <3>2. UNCHANGED verified  BY <1>1 DEF Profiles!Insert
    <3> QED  BY <3>1, <3>2 DEF RowAdded, SameRow
  <2> QED  BY <2>1, <2>2
<1>2. ASSUME NEW q \in c.Web, Profiles(c)!SaveCategory(q) \/ Profiles(c)!Save(q) PROVE Touches(c, q, i)
  <2>1. profileRequest[q].id # i => SameRow(i)
    BY <1>2 DEF Profiles!SaveCategory, Profiles!Save, SameRow
  <2> QED  BY <1>2, <2>1 DEF Touches
<1>3. ASSUME NEW q \in c.Web, Profiles(c)!Commit(q) PROVE Touches(c, q, i)
  <2>1. profile[i].owner # profileRequest[q].owner => SameRow(i)
    BY <1>3 DEF Profiles!Commit, SameRow
  <2> QED  BY <1>3, <2>1 DEF Touches
<1>4. (\E q \in c.Web : \/ Profiles(c)!Insert(q) \/ Profiles(c)!SaveCategory(q) \/ Profiles(c)!Save(q)
                        \/ Profiles(c)!Commit(q))
  BY <1>same
  DEF Profiles!PageNext, Profiles!Onboard, Profiles!Edition, Profiles!Verification, Profiles!Reading,
      Profiles!Create, Profiles!Patch, Profiles!AdminEdit, Profiles!AdminDelete, Profiles!Drop, Profiles!Verify,
      Profiles!Compute, Profiles!Put, Profiles!Abort, Profiles!Expire
<1> QED  BY <1>1, <1>2, <1>3, <1>4

\* The page is computed from the row and the badge alone.
LEMMA PageSame ==
  ASSUME NEW c, NEW i \in DOMAIN profile, SameRow(i)
  PROVE  Profiles(c)!Page(i)' = Profiles(c)!Page(i)
  BY DEF SameRow, Profiles!Page, Profiles!Row

\* A reader's page ages only with the row and the badge, or with what the reader does.
LEMMA PageOfReader ==
  ASSUME NEW c, NEW p, NEW i \in DOMAIN profile, SameRow(i), profileRequest[p].id = i,
         profileRequest'[p] = profileRequest[p]
  PROVE  Profiles(c)!Outdated(p)' <=> Profiles(c)!Outdated(p)
  BY DEF SameRow, Profiles!Outdated, Profiles!Page, Profiles!Row

\* What a reader has just computed is the page.
LEMMA PageFresh ==
  ASSUME NEW c, NEW p, NEW i, UNCHANGED <<profile, verified>>,
         profileRequest'[p] = [at |-> "put", id |-> i, page |-> Profiles(c)!Page(i)]
  PROVE  ~Profiles(c)!Outdated(p)'
  BY DEF Profiles!Outdated, Profiles!Page, Profiles!Row

\* What a step makes of p's request: the step is p's own or leaves it alone.
LEMMA PageRequests ==
  ASSUME NEW c, RowsInv(c), Profiles(c)!PageNext, NEW p \in c.Web, profileRequest'[p] # profileRequest[p]
  PROVE  \/ profileRequest'[p].at \notin {"put", "commit", "save"}
         \/ \E i \in Profiles(c)!Id : Profiles(c)!Compute(p, i)
         \/ \E u \in c.Business : Profiles(c)!Verify(p, u)
         \/ \E i \in Profiles(c)!Id :
              \/ \E form \in Profiles(c)!Edit : Profiles(c)!Patch(p, i, form) \/ Profiles(c)!AdminEdit(p, i, form)
              \/ Profiles(c)!AdminDelete(p, i)
<1> USE DEF Profiles!Becomes, Profiles!Begin, Profiles!Idle
<1>d. DOMAIN profileRequest = c.Web  BY DEF RowsInv
<1>o. ASSUME NEW q \in c.Web, NEW s, profileRequest' = [profileRequest EXCEPT ![q] = s]
      PROVE  q = p /\ profileRequest'[p] = s
  BY <1>o, <1>d
<1>1. ASSUME NEW q \in c.Web, NEW u \in c.User, NEW d \in c.Detail, NEW k \in c.Category \cup {None},
             Profiles(c)!Create(q, u, d, k)
      PROVE  profileRequest'[p].at \notin {"put", "commit", "save"}
  BY <1>1, <1>o DEF Profiles!Create
<1>2. ASSUME NEW q \in c.Web, Profiles(c)!Insert(q) PROVE profileRequest'[p].at \notin {"put", "commit", "save"}
  BY <1>2, <1>d DEF Profiles!Insert
<1>3. ASSUME NEW q \in c.Web, \/ Profiles(c)!SaveCategory(q) \/ Profiles(c)!Drop(q) \/ Profiles(c)!Commit(q)
                              \/ Profiles(c)!Put(q) \/ Profiles(c)!Abort(q)
      PROVE  profileRequest'[p].at \notin {"put", "commit", "save"}
  BY <1>3, <1>o DEF Profiles!SaveCategory, Profiles!Drop, Profiles!Commit, Profiles!Put, Profiles!Abort
<1>4. ASSUME NEW q \in c.Web, Profiles(c)!Save(q) PROVE profileRequest'[p].at \notin {"put", "commit", "save"}
  BY <1>4, <1>d DEF Profiles!Save, Profiles!After
<1>5. ASSUME NEW q \in c.Web, NEW i \in Profiles(c)!Id, NEW form \in Profiles(c)!Edit,
             Profiles(c)!Patch(q, i, form) \/ Profiles(c)!AdminEdit(q, i, form)
      PROVE  q = p
  BY <1>5, <1>d DEF Profiles!Patch, Profiles!AdminEdit
<1>6. ASSUME NEW q \in c.Web, NEW i \in Profiles(c)!Id, Profiles(c)!AdminDelete(q, i) PROVE q = p
  BY <1>6, <1>d DEF Profiles!AdminDelete
<1>7. ASSUME NEW q \in c.Web, NEW u \in c.Business, Profiles(c)!Verify(q, u) PROVE q = p
  BY <1>7, <1>d DEF Profiles!Verify
<1>8. ASSUME NEW q \in c.Web, NEW i \in Profiles(c)!Id, Profiles(c)!Compute(q, i) PROVE q = p
  BY <1>8, <1>d DEF Profiles!Compute
<1>9. ASSUME NEW i \in Profiles(c)!Id, Profiles(c)!Expire(i) PROVE FALSE
  BY <1>9 DEF Profiles!Expire
<1> HIDE DEF Profiles!Becomes, Profiles!Begin, Profiles!Idle
<1> QED
  BY <1>1, <1>2, <1>3, <1>4, <1>5, <1>6, <1>7, <1>8, <1>9
  DEF Profiles!PageNext, Profiles!Onboard, Profiles!Edition, Profiles!Verification, Profiles!Reading

\* Every step keeps what a request is about to do with a page.
LEMMA PagesStep ==
  ASSUME NEW c, PagesInv(c), Profiles(c)!PageNext PROVE PagesInv(c)'
<1>d. DOMAIN profileRequest = c.Web /\ RowsInv(c) /\ \A i \in DOMAIN profile : DOMAIN profile[i] = Fields
  BY DEF PagesInv, RowsInv
<1>r. RowsInv(c)'  BY <1>d, RowsStep DEF Profiles!Next
<1>g. DOMAIN profile \subseteq DOMAIN profile'
  <2>1. ASSUME NEW i \in DOMAIN profile, i \notin DOMAIN profile' PROVE FALSE
    <3>1. PICK q \in c.Web : Touches(c, q, i)  BY <2>1, <1>d, RowTouched DEF SameRow
    <3> QED  BY <3>1, <2>1 DEF Touches, Profiles!Save, Profiles!SaveCategory, Profiles!Commit
  <2> QED  BY <2>1
<1>1. ASSUME NEW p \in c.Web
      PROVE  LET r == profileRequest'[p] IN
             /\ r.at = "put" => r.id \in DOMAIN profile'
             /\ r.at = "save" /\ r.by = "owner" => (r.then = "idle" <=> r.row.owner \notin c.Business)
  <2> DEFINE r == profileRequest'[p]
  <2> USE DEF Profiles!Begin, Profiles!Becomes
  <2>1. CASE r = profileRequest[p]  BY <2>1, <1>g DEF PagesInv
  <2>3. ASSUME NEW i \in Profiles(c)!Id, Profiles(c)!Compute(p, i) PROVE r.at = "put" /\ r.id \in DOMAIN profile'
    <3>1. i \in DOMAIN profile  BY <2>3 DEF Profiles!Compute, Profiles!Page, Profiles!Row
    <3>2. r = [at |-> "put", id |-> i, page |-> Profiles(c)!Page(i)]  BY <2>3, <1>d DEF Profiles!Compute
    <3> QED  BY <3>1, <3>2, <1>g
  <2>4. ASSUME NEW u \in c.Business, Profiles(c)!Verify(p, u) PROVE r.at = "commit"
    BY <2>4, <1>d DEF Profiles!Verify
  <2>5. ASSUME NEW i \in Profiles(c)!Id, NEW form \in Profiles(c)!Edit, Profiles(c)!Patch(p, i, form)
        PROVE  r.at = "save" /\ (r.then = "idle" <=> r.row.owner \notin c.Business)
    <3>1. r = [at |-> "save", id |-> i, row |-> Profiles(c)!Edited(profile[i], form), by |-> "owner",
               then |-> IF profile[i].owner \in c.Business THEN "drop" ELSE "idle"]
      BY <2>5, <1>d DEF Profiles!Patch
    <3>2. Profiles(c)!Edited(profile[i], form).owner = profile[i].owner  BY DEF Profiles!Edited
    <3> QED  BY <3>1, <3>2
  <2>6. ASSUME NEW i \in Profiles(c)!Id, NEW form \in Profiles(c)!Edit, Profiles(c)!AdminEdit(p, i, form)
        PROVE  r.at = "save" /\ r.by = "admin"
    BY <2>6, <1>d DEF Profiles!AdminEdit
  <2>7. ASSUME NEW i \in Profiles(c)!Id, Profiles(c)!AdminDelete(p, i) PROVE r.at = "save" /\ r.by = "admin"
    BY <2>7, <1>d DEF Profiles!AdminDelete
  <2> HIDE DEF r, Profiles!Begin, Profiles!Becomes
  <2>8. CASE r # profileRequest[p]
    <3>1. \/ r.at \notin {"put", "commit", "save"}
          \/ \E i \in Profiles(c)!Id : Profiles(c)!Compute(p, i)
          \/ \E u \in c.Business : Profiles(c)!Verify(p, u)
          \/ \E i \in Profiles(c)!Id :
               \/ \E form \in Profiles(c)!Edit : Profiles(c)!Patch(p, i, form) \/ Profiles(c)!AdminEdit(p, i, form)
               \/ Profiles(c)!AdminDelete(p, i)
      BY <2>8, <1>d, PageRequests DEF r
    <3>2. /\ r.at = "put" => r.id \in DOMAIN profile'
          /\ r.at = "save" /\ r.by = "owner" => (r.then = "idle" <=> r.row.owner \notin c.Business)
      BY <3>1, <2>3, <2>4, <2>5, <2>6, <2>7
    <3> QED  BY <3>2 DEF r
  <2> QED  BY <2>1, <2>8 DEF r
<1> QED  BY <1>r, <1>1 DEF PagesInv

\* A step of another component leaves the pages alone.
LEMMA PagesStutter ==
  ASSUME NEW c, PagesInv(c), UNCHANGED Profiles(c)!vars PROVE PagesInv(c)'
  BY RowsStutter DEF PagesInv, Profiles!vars

\* Where the cache holds another page of row i than before, a reader has put it.
LEMMA PagePut ==
  ASSUME NEW c, RowsInv(c), Profiles(c)!PageNext, NEW i \in Profiles(c)!Id,
         pageCache'[i] # None, pageCache'[i] # pageCache[i]
  PROVE  \E p \in c.Web : /\ Profiles(c)!Put(p) /\ profileRequest[p].id = i
                          /\ pageCache'[i] = profileRequest[p].page /\ UNCHANGED <<profile, verified>>
<1>d. DOMAIN pageCache = Profiles(c)!Id  BY DEF RowsInv
<1>1. ASSUME NEW p \in c.Web, Profiles(c)!Drop(p) PROVE FALSE
  BY <1>1, <1>d DEF Profiles!Drop
<1>2. ASSUME NEW p \in c.Web, NEW u \in c.Business, Profiles(c)!Verify(p, u) PROVE FALSE
  <2>1. pageCache'[i] = IF i \in Profiles(c)!PagesOf(u) THEN None ELSE pageCache[i]
    BY <1>2 DEF Profiles!Verify
  <2> QED  BY <2>1
<1>3. ASSUME NEW j \in Profiles(c)!Id, Profiles(c)!Expire(j) PROVE FALSE
  BY <1>3, <1>d DEF Profiles!Expire
<1>4. ASSUME NEW p \in c.Web, Profiles(c)!Put(p)
      PROVE  /\ profileRequest[p].id = i /\ pageCache'[i] = profileRequest[p].page
             /\ UNCHANGED <<profile, verified>>
  BY <1>4, <1>d DEF Profiles!Put
<1>5. \/ \E p \in c.Web : Profiles(c)!Drop(p) \/ Profiles(c)!Put(p) \/ \E u \in c.Business : Profiles(c)!Verify(p, u)
      \/ \E j \in Profiles(c)!Id : Profiles(c)!Expire(j)
  BY DEF Profiles!PageNext, Profiles!Onboard, Profiles!Edition, Profiles!Verification, Profiles!Reading,
      Profiles!Create, Profiles!Insert, Profiles!SaveCategory, Profiles!Patch, Profiles!AdminEdit,
      Profiles!AdminDelete, Profiles!Save, Profiles!Commit, Profiles!Compute, Profiles!Abort
<1> QED  BY <1>1, <1>2, <1>3, <1>4, <1>5

\* A cached page becomes wrong only by the steps that are named.
LEMMA PagesOwed ==
  ASSUME NEW c, PagesInv(c), Profiles(c)!PageNext PROVE Profiles(c)!StalePageIsOwed
<1>d. /\ RowsInv(c) /\ DOMAIN profileRequest = c.Web /\ DOMAIN profile \subseteq Profiles(c)!Id
  BY DEF PagesInv, RowsInv
<1>1. ASSUME NEW i \in Profiles(c)!Id, ~Profiles(c)!Differs(i), Profiles(c)!Differs(i)'
      PROVE  \E p \in c.Web :
         \/ /\ Profiles(c)!Save(p) /\ profileRequest[p].id = i
            /\ profileRequest[p].by = "owner" => profileRequest'[p].at = "drop"
         \/ Profiles(c)!SaveCategory(p) /\ profileRequest[p].id = i
         \/ Profiles(c)!Commit(p) /\ profile[i].owner = profileRequest[p].owner
         \/ Profiles(c)!Put(p) /\ profileRequest[p].id = i /\ Profiles(c)!Outdated(p)
  <2>1. pageCache'[i] # None /\ pageCache'[i] # Profiles(c)!Page(i)'  BY <1>1 DEF Profiles!Differs
  <2>2. pageCache[i] = None \/ pageCache[i] = Profiles(c)!Page(i)  BY <1>1 DEF Profiles!Differs
  <2>3. CASE i \notin DOMAIN profile
    <3>1. pageCache[i] = None  BY <2>2, <2>3 DEF Profiles!Page, Profiles!Row
    <3>2. PICK p \in c.Web : Profiles(c)!Put(p) /\ profileRequest[p].id = i  BY <2>1, <3>1, <1>d, PagePut
    <3> QED  BY <3>2, <2>3 DEF Profiles!Put, PagesInv
  <2>4. CASE i \in DOMAIN profile /\ SameRow(i)
    <3>1. Profiles(c)!Page(i)' = Profiles(c)!Page(i)  BY <2>4, PageSame
    <3>2. PICK p \in c.Web : /\ Profiles(c)!Put(p) /\ profileRequest[p].id = i
                             /\ pageCache'[i] = profileRequest[p].page
      BY <2>1, <2>2, <3>1, <1>d, PagePut
    <3>3. Profiles(c)!Outdated(p)  BY <2>1, <3>1, <3>2 DEF Profiles!Outdated, Profiles!Put
    <3> QED  BY <3>2, <3>3
  <2>5. CASE i \in DOMAIN profile /\ ~SameRow(i)
    <3>1. PICK q \in c.Web : Touches(c, q, i)  BY <2>5, <1>d, RowTouched
    <3>2. CASE Profiles(c)!Save(q) /\ profileRequest[q].id = i
      <4> DEFINE r == profileRequest[q]
      <4>1. /\ r.at = "save" /\ profile' = [profile EXCEPT ![i] = r.row] /\ UNCHANGED <<verified, pageCache>>
            /\ profileRequest'[q] = IF r.then = "idle" THEN [at |-> "idle"] ELSE [at |-> "drop", id |-> r.id]
        BY <3>2, <1>d DEF Profiles!Save, Profiles!After, Profiles!Becomes, Profiles!Idle
      <4>2. r.row.owner = profile[i].owner  BY <4>1, <3>2 DEF PagesInv, RowsInv
      <4>3. CASE profile[i].owner \notin c.Business
        <5>1. Profiles(c)!Page(i) = None  BY <4>3 DEF Profiles!Page
        <5> QED  BY <5>1, <4>1, <2>1, <2>2
      <4>4. CASE profile[i].owner \in c.Business
        <5>1. r.by = "owner" => profileRequest'[q].at = "drop"  BY <4>1, <4>2, <4>4 DEF PagesInv
        <5> QED  BY <5>1, <3>2
      <4> QED  BY <4>3, <4>4
    <3> QED  BY <3>1, <3>2 DEF Touches
  <2> QED  BY <2>3, <2>4, <2>5
<1>2. ASSUME NEW p \in c.Web, NEW i \in DOMAIN profile, profileRequest[p] = Profiles(c)!Idle,
             profileRequest'[p].at = "commit", profile[i].owner = profileRequest'[p].owner
      PROVE  pageCache'[i] = None \/ profile[i].deleted
  <2> USE DEF Profiles!Begin, Profiles!Becomes
  <2>1. profileRequest'[p] # profileRequest[p]  BY <1>2 DEF Profiles!Idle
  <2>2. \A j \in Profiles(c)!Id : ~Profiles(c)!Compute(p, j)  BY <1>2, <1>d DEF Profiles!Compute
  <2>3. \A j \in Profiles(c)!Id : ~Profiles(c)!AdminDelete(p, j)  BY <1>2, <1>d DEF Profiles!AdminDelete
  <2>4. \A j \in Profiles(c)!Id, form \in Profiles(c)!Edit :
          ~Profiles(c)!Patch(p, j, form) /\ ~Profiles(c)!AdminEdit(p, j, form)
    BY <1>2, <1>d DEF Profiles!Patch, Profiles!AdminEdit
  <2> HIDE DEF Profiles!Begin, Profiles!Becomes
  <2>5. PICK u \in c.Business : Profiles(c)!Verify(p, u)
    BY <2>1, <2>2, <2>3, <2>4, <1>2, <1>d, PageRequests
  <2>6. /\ profileRequest'[p] = [at |-> "commit", owner |-> u]
        /\ pageCache' = [j \in Profiles(c)!Id |-> IF j \in Profiles(c)!PagesOf(u) THEN None ELSE pageCache[j]]
    BY <2>5, <1>d DEF Profiles!Verify, Profiles!Begin, Profiles!Becomes
  <2>7. ~profile[i].deleted => i \in Profiles(c)!PagesOf(u)
    BY <2>6, <1>2 DEF Profiles!PagesOf, Profiles!Own, Profiles!Row
  <2> QED  BY <2>6, <2>7, <1>d
<1>3. ASSUME NEW p \in c.Web, ~Profiles(c)!Outdated(p), Profiles(c)!Outdated(p)'
      PROVE  \E q \in c.Web \ {p} :
         \/ (Profiles(c)!Save(q) \/ Profiles(c)!SaveCategory(q)) /\ profileRequest[q].id = profileRequest[p].id
         \/ Profiles(c)!Commit(q) /\ profile[profileRequest[p].id].owner = profileRequest[q].owner
  <2>0. profileRequest'[p].at = "put"  BY <1>3 DEF Profiles!Outdated
  <2>1. CASE profileRequest'[p] # profileRequest[p]
    <3> USE DEF Profiles!Begin, Profiles!Becomes
    <3>1. \A u \in c.Business : ~Profiles(c)!Verify(p, u)  BY <2>0, <1>d DEF Profiles!Verify
    <3>2. \A j \in Profiles(c)!Id : ~Profiles(c)!AdminDelete(p, j)  BY <2>0, <1>d DEF Profiles!AdminDelete
    <3>3. \A j \in Profiles(c)!Id, form \in Profiles(c)!Edit :
            ~Profiles(c)!Patch(p, j, form) /\ ~Profiles(c)!AdminEdit(p, j, form)
      BY <2>0, <1>d DEF Profiles!Patch, Profiles!AdminEdit
    <3> HIDE DEF Profiles!Begin, Profiles!Becomes
    <3>4. PICK i \in Profiles(c)!Id : Profiles(c)!Compute(p, i)
      BY <2>0, <2>1, <3>1, <3>2, <3>3, <1>d, PageRequests
    <3>5. /\ profileRequest'[p] = [at |-> "put", id |-> i, page |-> Profiles(c)!Page(i)]
          /\ UNCHANGED <<profile, verified>>
      BY <3>4, <1>d DEF Profiles!Compute, Profiles!Becomes
    <3> QED  BY <3>5, <1>3, PageFresh
  <2>2. CASE profileRequest'[p] = profileRequest[p]
    <3>1. PICK i \in DOMAIN profile : profileRequest[p].id = i  BY <2>0, <2>2 DEF PagesInv
    <3>2. ~SameRow(i)  BY <3>1, <2>2, <1>3, PageOfReader
    <3>3. PICK q \in c.Web : Touches(c, q, i)  BY <3>2, <1>d, RowTouched
    <3>4. q # p  BY <3>3, <2>0, <2>2 DEF Touches, Profiles!Save, Profiles!SaveCategory, Profiles!Commit
    <3> QED  BY <3>1, <3>3, <3>4 DEF Touches
  <2> QED  BY <2>1, <2>2
<1> QED  BY <1>1, <1>2, <1>3 DEF Profiles!StalePageIsOwed, Profiles!Row

\* A step of another component leaves the pages and the readers alone.
LEMMA PagesKept ==
  ASSUME NEW c, PagesInv(c), UNCHANGED Profiles(c)!vars PROVE Profiles(c)!StalePageIsOwed
<1>0. UNCHANGED <<profile, verified, pageCache, profileRequest>>  BY DEF Profiles!vars
<1>1. \A i : Profiles(c)!Page(i)' = Profiles(c)!Page(i)  BY <1>0 DEF Profiles!Page, Profiles!Row
<1>2. \A i : Profiles(c)!Differs(i)' <=> Profiles(c)!Differs(i)  BY <1>0, <1>1 DEF Profiles!Differs
<1>3. ASSUME NEW p \in c.Web PROVE Profiles(c)!Outdated(p)' <=> Profiles(c)!Outdated(p)
  BY <1>0 DEF Profiles!Outdated, Profiles!Page, Profiles!Row
<1>4. \A p : profileRequest[p] = Profiles(c)!Idle => profileRequest'[p].at = "idle"
  BY <1>0 DEF Profiles!Idle
<1> QED  BY <1>2, <1>3, <1>4 DEF Profiles!StalePageIsOwed

-----------------------------------------------------------------------------
(* The types of the profiles                                               *)

\* A row of the table of profiles.
AProfile(c) ==
  [owner : c.User, details : c.Detail, category : c.Category \cup {None},
   avatar : Profiles(c)!File \cup {None}, deleted : BOOLEAN]

\* What a request works on: a row that is being saved is a profile, a photo is of a business.
RequestTyped(c, p) ==
  LET r == profileRequest[p] IN
  /\ r.at \in {"idle", "insert", "category", "save", "photo", "remove", "drop", "commit", "put"}
  /\ r.at = "insert" =>
       r.owner \in c.User /\ r.details \in c.Detail /\ r.category \in c.Category \cup {None}
  /\ r.at = "category" => r.category \in c.Category \cup {None}
  /\ r.at = "save" => r.row \in AProfile(c) /\ (r.row.owner \notin c.Business => r.row.avatar = None)
  /\ r.at = "photo" => profile[r.id].owner \in c.Business
  /\ r.at = "commit" => r.owner \in c.User

\* The types of the profiles.
ProfileTyped(c) == Profiles(c)!TypeOK /\ \A p \in c.Web : RequestTyped(c, p)

\* There is no profile yet.
LEMMA ProfileTypedInit ==
  ASSUME NEW c, Profiles(c)!Assumptions, Profiles(c)!Init PROVE ProfileTyped(c)
<1>1. DOMAIN profile = {}  BY DEF Profiles!Init
<1>2. DOMAIN profile = 1..0  BY <1>1
<1>3. 0 \in 0..Cardinality(Profiles(c)!Id)
  <2>1. IsFiniteSet(c.User)  BY DEF Profiles!Assumptions, Profiles!IsFiniteSet, IsFiniteSet
  <2>2. Cardinality(c.User) \in Nat  BY <2>1, FS_CardinalityType
  <2>3. Profiles(c)!Id = 1..Cardinality(c.User)  BY ProfileCardinality DEF Profiles!Id
  <2>4. Cardinality(Profiles(c)!Id) = Cardinality(c.User)  BY <2>2, <2>3, FS_Interval
  <2> QED  BY <2>2, <2>4
<1>4. 0 \in 0..Profiles(c)!Cardinality(Profiles(c)!Id)  BY <1>3, ProfileCardinality
<1>5. uploads = 0 /\ stored = {} /\ verified = {} /\ profileEdits = 0
  BY DEF Profiles!Init
<1>6. \A p \in c.Web : profileRequest[p].at = "idle"  BY DEF Profiles!Init, Profiles!Idle
<1> QED
  BY <1>1, <1>2, <1>4, <1>5, <1>6
  DEF Profiles!Assumptions, ProfileTyped, RequestTyped, Profiles!TypeOK, Profiles!Row

\* Rows that are numbered and have ids are at most as many as there are accounts.
LEMMA RowsFew ==
  ASSUME NEW c, Profiles(c)!Assumptions, NEW D \in SUBSET Profiles(c)!Id, NEW n \in Nat, D = 1..n
  PROVE  n \in 0..Profiles(c)!Cardinality(Profiles(c)!Id)
<1>1. IsFiniteSet(c.User)  BY DEF Profiles!Assumptions, Profiles!IsFiniteSet, IsFiniteSet
<1>2. Cardinality(c.User) \in Nat  BY <1>1, FS_CardinalityType
<1>3. Profiles(c)!Id = 1..Cardinality(c.User)  BY ProfileCardinality DEF Profiles!Id
<1>4. Profiles(c)!Cardinality(Profiles(c)!Id) = Cardinality(c.User)
  BY <1>2, <1>3, FS_Interval, ProfileCardinality
<1>5. 1..n \subseteq 1..Cardinality(c.User)  BY <1>3
<1>6. n <= Cardinality(c.User)  BY <1>2, <1>5
<1> QED  BY <1>4, <1>6, <1>2

\* A row in the table.
RowTyped(c, r) == r \in AProfile(c) /\ (r.owner \notin c.Business => r.avatar = None)

\* After a step of p, the others' requests keep their types if no row changes its owner.
LEMMA ProfilesAfter ==
  ASSUME NEW c, Profiles(c)!Assumptions, RowsInv(c), RowsInv(c)', ProfileTyped(c), NEW p \in c.Web,
         \A q \in c.Web \ {p} : profileRequest'[q] = profileRequest[q],
         RequestTyped(c, p)',
         \A i \in DOMAIN profile : profile'[i].owner = profile[i].owner,
         \A i \in DOMAIN profile' : RowTyped(c, profile'[i]),
         stored' \subseteq 1..uploads', uploads' \in 0..c.MaxFiles,
         verified' \subseteq c.User, profileEdits' \in 0..c.MaxEdits
  PROVE  ProfileTyped(c)'
<1>1. ASSUME NEW q \in c.Web \ {p} PROVE RequestTyped(c, q)'
  BY DEF RowsInv, ProfileTyped, RequestTyped, AProfile, Profiles!File
<1>2. \A q \in c.Web : RequestTyped(c, q)'  BY <1>1
<1>3. \E n \in 0..Profiles(c)!Cardinality(Profiles(c)!Id) : DOMAIN profile' = 1..n
  <2>1. DOMAIN profile' \subseteq Profiles(c)!Id  BY DEF RowsInv, Profiles!Id
  <2>2. PICK n \in Nat : DOMAIN profile' = 1..n  BY DEF RowsInv
  <2> QED  BY <2>1, <2>2, RowsFew
<1>4. \A q \in c.Web : profileRequest'[q].at \in
        {"idle", "insert", "category", "save", "photo", "remove", "drop", "commit", "put"}
  BY <1>2 DEF RequestTyped
<1>5. Profiles(c)!TypeOK'
  BY <1>3, <1>4 DEF Profiles!TypeOK, Profiles!Row, RowTyped, AProfile, Profiles!Id, Profiles!File
<1> QED  BY <1>2, <1>5 DEF ProfileTyped

\* A step that only changes p's request.
LEMMA ProfilesQuiet ==
  ASSUME NEW c, Profiles(c)!Assumptions, RowsInv(c), RowsInv(c)', ProfileTyped(c), NEW p \in c.Web,
         NEW r, profileRequest' = [profileRequest EXCEPT ![p] = r], RequestTyped(c, p)',
         UNCHANGED <<profile, stored, uploads, verified>>,
         profileEdits' \in 0..c.MaxEdits
  PROVE  ProfileTyped(c)'
<1>1. \A i \in DOMAIN profile' : RowTyped(c, profile'[i])
  BY DEF ProfileTyped, Profiles!TypeOK, Profiles!Row, RowTyped, AProfile
<1>2. /\ stored' \subseteq 1..uploads' /\ uploads' \in 0..c.MaxFiles /\ verified' \subseteq c.User
      /\ \A i \in DOMAIN profile : profile'[i].owner = profile[i].owner
      /\ \A q \in c.Web \ {p} : profileRequest'[q] = profileRequest[q]
  BY DEF ProfileTyped, Profiles!TypeOK, RowsInv
<1> QED  BY <1>1, <1>2, ProfilesAfter

\* Every step keeps the types.
LEMMA ProfileTypedStep ==
  ASSUME NEW c, Profiles(c)!Assumptions, RowsInv(c), ProfileTyped(c), Profiles(c)!Next
  PROVE  ProfileTyped(c)'
<1> USE DEF Profiles!Becomes, Profiles!Begin, Profiles!Idle
<1>r. RowsInv(c)'  BY RowsStep
<1>d. DOMAIN profileRequest = c.Web /\ c.MaxEdits \in Nat /\ c.MaxFiles \in Nat
  BY DEF RowsInv, Profiles!Assumptions
<1>t. /\ \A i \in DOMAIN profile : RowTyped(c, profile[i])
      /\ stored \subseteq 1..uploads /\ uploads \in 0..c.MaxFiles /\ verified \subseteq c.User
      /\ profileEdits \in 0..c.MaxEdits
      /\ \A p \in c.Web : RequestTyped(c, p)
  BY DEF ProfileTyped, Profiles!TypeOK, Profiles!Row, RowTyped, AProfile
<1>e. profileEdits < c.MaxEdits => profileEdits + 1 \in 0..c.MaxEdits  BY <1>t, <1>d
<1>form. ASSUME NEW r, RowTyped(c, r), NEW form \in Profiles(c)!Edit
         PROVE  RowTyped(c, Profiles(c)!Edited(r, form))
  BY <1>form DEF RowTyped, AProfile, Profiles!Edit, Profiles!Edited
<1>saving. ASSUME NEW p \in c.Web, NEW r, r.at = "save", RowTyped(c, r.row), UNCHANGED <<stored, uploads, verified>>,
                  Profiles(c)!Begin(p, r), UNCHANGED profile
           PROVE  ProfileTyped(c)'
  <2>1. profileRequest' = [profileRequest EXCEPT ![p] = r] /\ profileEdits' \in 0..c.MaxEdits
    BY <1>saving, <1>e
  <2>2. profileRequest'[p] = r  BY <2>1, <1>d
  <2>3. RequestTyped(c, p)'  BY <2>2, <1>saving DEF RequestTyped, RowTyped
  <2> QED  BY <2>1, <2>3, <1>saving, <1>r, ProfilesQuiet
<1>1. ASSUME NEW p \in c.Web, NEW u \in c.User, NEW d \in c.Detail, NEW k \in c.Category \cup {None},
             Profiles(c)!Create(p, u, d, k)
      PROVE  ProfileTyped(c)'
  <2> DEFINE r == [at |-> "insert", owner |-> u, details |-> d, category |-> IF u \in c.Business THEN k ELSE None]
  <2>1. /\ profileRequest' = [profileRequest EXCEPT ![p] = r] /\ profileEdits' \in 0..c.MaxEdits
        /\ UNCHANGED <<profile, stored, uploads, verified>>
    BY <1>1, <1>e DEF Profiles!Create
  <2>2. profileRequest'[p] = r  BY <2>1, <1>d
  <2>3. RequestTyped(c, p)'  BY <2>2 DEF RequestTyped
  <2> HIDE DEF r
  <2> QED  BY <2>1, <2>3, <1>r, ProfilesQuiet
<1>2. ASSUME NEW p \in c.Web, Profiles(c)!Insert(p) PROVE ProfileTyped(c)'
  <2> DEFINE r == profileRequest[p]
  <2>1. r.at = "insert" /\ r.owner \in c.User /\ r.details \in c.Detail /\ r.category \in c.Category \cup {None}
    BY <1>2, <1>t DEF Profiles!Insert, RequestTyped
  <2>2. CASE UNCHANGED profile
    <3>1. profileRequest' = [profileRequest EXCEPT ![p] = [at |-> "idle"]]
      BY <1>2, <2>2, InsertRefused
    <3>2. RequestTyped(c, p)'  BY <3>1, <1>d DEF RequestTyped
    <3>3. UNCHANGED <<stored, uploads, verified, profileEdits>>  BY <1>2 DEF Profiles!Insert
    <3> QED  BY <2>2, <3>1, <3>2, <3>3, <1>r, <1>t, ProfilesQuiet
  <2>3. CASE ~UNCHANGED profile
    <3>1. PICK i \in Profiles(c)!Id : RowAdded(c, p, i)  BY <1>2, <2>3, InsertRow
    <3>2. /\ \A j \in DOMAIN profile : profile'[j] = profile[j]
          /\ DOMAIN profile' = DOMAIN profile \cup {i}
          /\ profile'[i] = [owner |-> r.owner, details |-> r.details, category |-> None,
                            avatar |-> None, deleted |-> FALSE]
          /\ profileRequest'[p] = [at |-> "idle"] \/
               profileRequest'[p] = [at |-> "category", id |-> i, category |-> r.category]
      BY <3>1 DEF RowAdded
    <3>3. RowTyped(c, profile'[i])  BY <3>2, <2>1 DEF RowTyped, AProfile
    <3>4. \A j \in DOMAIN profile' : RowTyped(c, profile'[j])  BY <3>2, <3>3, <1>t
    <3>5. RequestTyped(c, p)'  BY <3>2, <2>1 DEF RequestTyped
    <3>6. /\ \A q \in c.Web \ {p} : profileRequest'[q] = profileRequest[q]
          /\ UNCHANGED <<stored, uploads, verified, profileEdits>>
      BY <1>2, <1>d DEF Profiles!Insert
    <3>7. \A j \in DOMAIN profile : profile'[j].owner = profile[j].owner  BY <3>2
    <3> QED  BY <3>4, <3>5, <3>6, <3>7, <1>r, <1>t, ProfilesAfter
  <2> QED  BY <2>2, <2>3
<1>3. ASSUME NEW p \in c.Web, Profiles(c)!SaveCategory(p) PROVE ProfileTyped(c)'
  <2> DEFINE r == profileRequest[p]
  <2>1. r.at = "category" /\ r.category \in c.Category \cup {None} /\ r.id \in DOMAIN profile
    BY <1>3, <1>t DEF Profiles!SaveCategory, RequestTyped, RowsInv
  <2>2. /\ profile' = [profile EXCEPT ![r.id].category = r.category]
        /\ profileRequest' = [profileRequest EXCEPT ![p] = [at |-> "idle"]]
        /\ UNCHANGED <<stored, uploads, verified, profileEdits>>
    BY <1>3 DEF Profiles!SaveCategory
  <2>3. /\ \A q \in c.Web \ {p} : profileRequest'[q] = profileRequest[q]
        /\ RequestTyped(c, p)'
    BY <2>2, <1>d DEF RequestTyped
  <2>4. RowTyped(c, [profile[r.id] EXCEPT !.category = r.category]) /\
        [profile[r.id] EXCEPT !.category = r.category].owner = profile[r.id].owner
    BY <2>1, <1>t DEF RowTyped, AProfile
  <2>5. \A i \in DOMAIN profile' : RowTyped(c, profile'[i])  BY <2>1, <2>2, <2>4, <1>t
  <2>6. \A i \in DOMAIN profile : profile'[i].owner = profile[i].owner  BY <2>1, <2>2, <2>4
  <2> QED  BY <2>2, <2>3, <2>5, <2>6, <1>r, <1>t, ProfilesAfter
<1>4. ASSUME NEW p \in c.Web, NEW i \in Profiles(c)!Id, NEW form \in Profiles(c)!Edit,
             Profiles(c)!Patch(p, i, form)
      PROVE  ProfileTyped(c)'
  <2> DEFINE r == [at |-> "save", id |-> i, row |-> Profiles(c)!Edited(profile[i], form), by |-> "owner",
                   then |-> IF profile[i].owner \in c.Business THEN "drop" ELSE "idle"]
  <2>1. i \in DOMAIN profile /\ Profiles(c)!Begin(p, r) /\ UNCHANGED <<profile, stored, uploads, verified>>
    BY <1>4 DEF Profiles!Patch, Profiles!Row
  <2>2. r.at = "save" /\ RowTyped(c, r.row)  BY <2>1, <1>t, <1>form
  <2> HIDE DEF r
  <2> QED  BY <2>1, <2>2, <1>saving
<1>5. ASSUME NEW p \in c.Web, NEW i \in Profiles(c)!Id, NEW form \in Profiles(c)!Edit,
             Profiles(c)!AdminEdit(p, i, form)
      PROVE  ProfileTyped(c)'
  <2> DEFINE r == [at |-> "save", id |-> i, row |-> Profiles(c)!Edited(profile[i], form), by |-> "admin",
                   then |-> "idle"]
  <2>1. i \in DOMAIN profile /\ Profiles(c)!Begin(p, r) /\ UNCHANGED <<profile, stored, uploads, verified>>
    BY <1>5 DEF Profiles!AdminEdit, Profiles!Row
  <2>2. r.at = "save" /\ RowTyped(c, r.row)  BY <2>1, <1>t, <1>form
  <2> HIDE DEF r
  <2> QED  BY <2>1, <2>2, <1>saving
<1>6. ASSUME NEW p \in c.Web, NEW i \in Profiles(c)!Id, Profiles(c)!AdminDelete(p, i) PROVE ProfileTyped(c)'
  <2> DEFINE r == [at |-> "save", id |-> i, row |-> [profile[i] EXCEPT !.deleted = TRUE], by |-> "admin",
                   then |-> "idle"]
  <2>1. i \in DOMAIN profile /\ Profiles(c)!Begin(p, r) /\ UNCHANGED <<profile, stored, uploads, verified>>
    BY <1>6 DEF Profiles!AdminDelete, Profiles!Row
  <2>2. r.at = "save" /\ RowTyped(c, r.row)  BY <2>1, <1>t DEF RowTyped, AProfile
  <2> HIDE DEF r
  <2> QED  BY <2>1, <2>2, <1>saving
<1>7. ASSUME NEW p \in c.Web, Profiles(c)!Save(p) PROVE ProfileTyped(c)'
  <2> DEFINE r == profileRequest[p]
  <2>1. r.at = "save" /\ r.id \in DOMAIN profile /\ r.row.owner = profile[r.id].owner /\ RowTyped(c, r.row)
    BY <1>7, <1>t DEF Profiles!Save, RequestTyped, RowsInv, RowTyped
  <2>2. /\ profile' = [profile EXCEPT ![r.id] = r.row]
        /\ profileRequest' = [profileRequest EXCEPT ![p] = Profiles(c)!After(r)]
        /\ UNCHANGED <<stored, uploads, verified, profileEdits>>
    BY <1>7 DEF Profiles!Save
  <2>3. Profiles(c)!After(r).at \in {"idle", "drop"}  BY DEF Profiles!After
  <2>4. /\ \A q \in c.Web \ {p} : profileRequest'[q] = profileRequest[q]
        /\ profileRequest'[p] = Profiles(c)!After(r)
    BY <2>2, <1>d
  <2>5. RequestTyped(c, p)'  BY <2>3, <2>4 DEF RequestTyped
  <2>6. \A i \in DOMAIN profile' : RowTyped(c, profile'[i])  BY <2>1, <2>2, <1>t
  <2>7. \A i \in DOMAIN profile : profile'[i].owner = profile[i].owner  BY <2>1, <2>2
  <2> QED  BY <2>2, <2>4, <2>5, <2>6, <2>7, <1>r, <1>t, ProfilesAfter
<1>8. ASSUME NEW p \in c.Web, Profiles(c)!Drop(p) \/ Profiles(c)!Put(p) \/ Profiles(c)!Abort(p)
      PROVE  ProfileTyped(c)'
  <2>1. /\ profileRequest' = [profileRequest EXCEPT ![p] = [at |-> "idle"]]
        /\ UNCHANGED <<profile, stored, uploads, verified, profileEdits>>
    BY <1>8 DEF Profiles!Drop, Profiles!Put, Profiles!Abort
  <2>2. RequestTyped(c, p)'  BY <2>1, <1>d DEF RequestTyped
  <2> QED  BY <2>1, <2>2, <1>r, <1>t, ProfilesQuiet
<1>9. ASSUME NEW p \in c.Web, NEW i \in Profiles(c)!Id, NEW clear \in BOOLEAN,
             Profiles(c)!LoadPhoto(p, i, clear)
      PROVE  ProfileTyped(c)'
  <2> DEFINE r == [at |-> "photo", id |-> i, clear |-> clear, old |-> profile[i].avatar]
  <2>1. /\ profile[i].owner \in c.Business
        /\ profileRequest' = [profileRequest EXCEPT ![p] = r] /\ profileEdits' \in 0..c.MaxEdits
        /\ UNCHANGED <<profile, stored, uploads, verified>>
    BY <1>9, <1>e DEF Profiles!LoadPhoto, Profiles!MayHavePhoto
  <2>2. profileRequest'[p] = r  BY <2>1, <1>d
  <2>3. RequestTyped(c, p)'  BY <2>1, <2>2 DEF RequestTyped
  <2> HIDE DEF r
  <2> QED  BY <2>1, <2>3, <1>r, ProfilesQuiet
<1>10. ASSUME NEW p \in c.Web, Profiles(c)!SavePhoto(p) PROVE ProfileTyped(c)'
  <2> DEFINE r == profileRequest[p]
  <2>1. r.at = "photo" /\ r.id \in DOMAIN profile /\ profile[r.id].owner \in c.Business
    BY <1>10, <1>t DEF Profiles!SavePhoto, RequestTyped, RowsInv
  <2>2. \E a \in Profiles(c)!File \cup {None} : profile' = [profile EXCEPT ![r.id].avatar = a]
    <3>1. CASE r.clear  BY <1>10, <3>1 DEF Profiles!SavePhoto
    <3>2. CASE ~r.clear
      <4>1. /\ profile' = [profile EXCEPT ![r.id].avatar = uploads'] /\ uploads' = uploads + 1
            /\ uploads < c.MaxFiles
        BY <1>10, <3>2 DEF Profiles!SavePhoto
      <4>2. uploads' \in Profiles(c)!File  BY <4>1, <1>t, <1>d DEF Profiles!File
      <4> QED  BY <4>1, <4>2
    <3> QED  BY <3>1, <3>2
  <2>3. PICK a \in Profiles(c)!File \cup {None} : profile' = [profile EXCEPT ![r.id].avatar = a]  BY <2>2
  <2>4. stored' \subseteq 1..uploads' /\ uploads' \in 0..c.MaxFiles
    <3>1. CASE r.clear  BY <1>10, <3>1, <1>t DEF Profiles!SavePhoto
    <3>2. CASE ~r.clear
      <4>1. uploads' = uploads + 1 /\ uploads < c.MaxFiles /\ stored' = stored \cup {uploads'}
        BY <1>10, <3>2 DEF Profiles!SavePhoto
      <4>2. uploads \in Nat /\ stored \subseteq 1..uploads /\ c.MaxFiles \in Nat  BY <1>t, <1>d
      <4>3. uploads' \in 0..c.MaxFiles /\ 1..uploads \subseteq 1..uploads' /\ uploads' \in 1..uploads'
        BY <4>1, <4>2
      <4> QED  BY <4>1, <4>2, <4>3
    <3> QED  BY <3>1, <3>2
  <2>5. /\ profileRequest' = [profileRequest EXCEPT ![p] = [at |-> "remove", id |-> r.id, old |-> r.old]]
        /\ UNCHANGED <<verified, profileEdits>>
    BY <1>10 DEF Profiles!SavePhoto
  <2>6. /\ \A q \in c.Web \ {p} : profileRequest'[q] = profileRequest[q]
        /\ RequestTyped(c, p)'
    BY <2>5, <1>d DEF RequestTyped
  <2>7. RowTyped(c, [profile[r.id] EXCEPT !.avatar = a]) /\
        [profile[r.id] EXCEPT !.avatar = a].owner = profile[r.id].owner
    BY <2>1, <1>t DEF RowTyped, AProfile
  <2>8. \A i \in DOMAIN profile' : RowTyped(c, profile'[i])  BY <2>1, <2>3, <2>7, <1>t
  <2>9. \A i \in DOMAIN profile : profile'[i].owner = profile[i].owner  BY <2>1, <2>3, <2>7
  <2> QED  BY <2>4, <2>5, <2>6, <2>8, <2>9, <1>r, <1>t, ProfilesAfter
<1>11. ASSUME NEW p \in c.Web, Profiles(c)!RemoveOld(p) PROVE ProfileTyped(c)'
  <2>1. /\ profileRequest' = [profileRequest EXCEPT ![p] = [at |-> "drop", id |-> profileRequest[p].id]]
        /\ UNCHANGED <<profile, uploads, verified, profileEdits>> /\ stored' \subseteq stored
    BY <1>11 DEF Profiles!RemoveOld
  <2>2. /\ \A q \in c.Web \ {p} : profileRequest'[q] = profileRequest[q]
        /\ RequestTyped(c, p)'
    BY <2>1, <1>d DEF RequestTyped
  <2>3. /\ stored' \subseteq 1..uploads' /\ uploads' \in 0..c.MaxFiles /\ verified' \subseteq c.User
        /\ profileEdits' \in 0..c.MaxEdits
        /\ \A i \in DOMAIN profile' : RowTyped(c, profile'[i])
        /\ \A i \in DOMAIN profile : profile'[i].owner = profile[i].owner
    BY <2>1, <1>t
  <2> QED  BY <2>2, <2>3, <1>r, ProfilesAfter
<1>12. ASSUME NEW p \in c.Web, NEW u \in c.Business, Profiles(c)!Verify(p, u) PROVE ProfileTyped(c)'
  <2>1. u \in c.User  BY DEF Profiles!Assumptions
  <2>2. /\ profileRequest' = [profileRequest EXCEPT ![p] = [at |-> "commit", owner |-> u]]
        /\ profileEdits' \in 0..c.MaxEdits /\ UNCHANGED <<profile, stored, uploads, verified>>
    BY <1>12, <1>e DEF Profiles!Verify
  <2>3. RequestTyped(c, p)'  BY <2>1, <2>2, <1>d DEF RequestTyped
  <2> QED  BY <2>2, <2>3, <1>r, ProfilesQuiet
<1>13. ASSUME NEW p \in c.Web, Profiles(c)!Commit(p) PROVE ProfileTyped(c)'
  <2>1. profileRequest[p].owner \in c.User  BY <1>13, <1>t DEF Profiles!Commit, RequestTyped
  <2>2. /\ profileRequest' = [profileRequest EXCEPT ![p] = [at |-> "idle"]]
        /\ verified' = verified \cup {profileRequest[p].owner}
        /\ UNCHANGED <<profile, stored, uploads, profileEdits>>
    BY <1>13 DEF Profiles!Commit
  <2>3. /\ \A q \in c.Web \ {p} : profileRequest'[q] = profileRequest[q]
        /\ RequestTyped(c, p)'
    BY <2>2, <1>d DEF RequestTyped
  <2>4. /\ stored' \subseteq 1..uploads' /\ uploads' \in 0..c.MaxFiles /\ verified' \subseteq c.User
        /\ profileEdits' \in 0..c.MaxEdits
        /\ \A i \in DOMAIN profile' : RowTyped(c, profile'[i])
        /\ \A i \in DOMAIN profile : profile'[i].owner = profile[i].owner
    BY <2>1, <2>2, <1>t
  <2> QED  BY <2>3, <2>4, <1>r, ProfilesAfter
<1>14. ASSUME NEW p \in c.Web, NEW i \in Profiles(c)!Id, Profiles(c)!Compute(p, i) PROVE ProfileTyped(c)'
  <2> DEFINE r == [at |-> "put", id |-> i, page |-> Profiles(c)!Page(i)]
  <2>1. /\ profileRequest' = [profileRequest EXCEPT ![p] = r]
        /\ UNCHANGED <<profile, stored, uploads, verified, profileEdits>>
    BY <1>14 DEF Profiles!Compute
  <2>2. profileRequest'[p] = r  BY <2>1, <1>d
  <2>3. RequestTyped(c, p)'  BY <2>2 DEF RequestTyped
  <2> HIDE DEF r
  <2> QED  BY <2>1, <2>3, <1>r, <1>t, ProfilesQuiet
<1>15. ASSUME NEW i \in Profiles(c)!Id, Profiles(c)!Expire(i) PROVE ProfileTyped(c)'
  BY <1>15 DEF Profiles!Expire, ProfileTyped, Profiles!TypeOK, Profiles!Row, RequestTyped
<1> HIDE DEF Profiles!Becomes, Profiles!Begin, Profiles!Idle
<1> QED
  BY <1>1, <1>2, <1>3, <1>4, <1>5, <1>6, <1>7, <1>8, <1>9, <1>10, <1>11, <1>12, <1>13, <1>14, <1>15
  DEF Profiles!Next, Profiles!PageNext, Profiles!Onboard, Profiles!Photo, Profiles!Edition,
      Profiles!Verification, Profiles!Reading

\* A step of another component leaves the types of the profiles alone.
LEMMA ProfileTypedStutter ==
  ASSUME NEW c, ProfileTyped(c), UNCHANGED Profiles(c)!vars PROVE ProfileTyped(c)'
  BY DEF ProfileTyped, Profiles!TypeOK, Profiles!Row, RequestTyped, Profiles!vars

-----------------------------------------------------------------------------
(* Ratings                                                                 *)

\* The instance's IsFiniteSet is that of FiniteSets.
LEMMA RatersFinite ==
  ASSUME NEW c, Ratings(c)!Assumptions PROVE IsFiniteSet(c.Customer)
  BY DEF Ratings!Assumptions, Ratings!IsFiniteSet, IsFiniteSet

\* The instance's Cardinality is that of FiniteSets.
LEMMA RatersCardinality == ASSUME NEW c, NEW S PROVE Ratings(c)!Cardinality(S) = Cardinality(S)
  BY DEF Ratings!Cardinality, Cardinality

\* Who has rated business b, as the table has it.
RatedBy(c, b) == {x \in c.Customer : score[<<x, b>>] > 0}

\* A request in its transaction: the row it upserts, the score it gives, the day it began.
RatingTypes(c) ==
  /\ today \in 0..c.MaxDay
  /\ DOMAIN score = Ratings(c)!Pair /\ DOMAIN born = Ratings(c)!Pair
  /\ \A k \in Ratings(c)!Pair : score[k] \in 0..c.MaxScore
  /\ DOMAIN average = c.Business
  /\ DOMAIN rating = c.Web
  /\ \A p \in c.Web :
       \/ rating[p] = Ratings(c)!Idle
       \/ /\ rating[p].at \in {"upserted", "aggregated"} /\ rating[p].key \in Ratings(c)!Pair
          /\ rating[p].score \in 1..c.MaxScore /\ rating[p].on \in 0..today

\* There is no rating yet.
LEMMA RatingTypesInit ==
  ASSUME NEW c, Ratings(c)!Assumptions, Ratings(c)!Init PROVE RatingTypes(c)
  BY DEF Ratings!Assumptions, Ratings!Init, RatingTypes

\* Every step keeps the types.
LEMMA RatingTypesStep ==
  ASSUME NEW c, Ratings(c)!Assumptions, RatingTypes(c), Ratings(c)!Next PROVE RatingTypes(c)'
<1> USE DEF Ratings!Idle
<1>d. c.MaxScore \in Nat \ {0} /\ c.MaxDay \in Nat  BY DEF Ratings!Assumptions
<1>1. ASSUME NEW p \in c.Web, NEW k \in Ratings(c)!Pair, NEW n \in 1..c.MaxScore, Ratings(c)!Upsert(p, k, n)
      PROVE  RatingTypes(c)'
  BY <1>1 DEF Ratings!Upsert, RatingTypes
<1>2. ASSUME NEW p \in c.Web, Ratings(c)!ReadRows(p) PROVE RatingTypes(c)'
  BY <1>2 DEF Ratings!ReadRows, RatingTypes
<1>3. ASSUME NEW p \in c.Web, Ratings(c)!WriteProfile(p) PROVE RatingTypes(c)'
  <2>1. rating[p].key \in Ratings(c)!Pair /\ rating[p].score \in 1..c.MaxScore
    BY <1>3 DEF Ratings!WriteProfile, RatingTypes
  <2>2. \A k \in Ratings(c)!Pair : score'[k] \in 0..c.MaxScore
    BY <1>3, <1>d, <2>1 DEF Ratings!WriteProfile, RatingTypes
  <2>3. DOMAIN score' = DOMAIN score /\ DOMAIN born' = DOMAIN born /\ DOMAIN average' = DOMAIN average
    BY <1>3 DEF Ratings!WriteProfile
  <2>4. rating' = [rating EXCEPT ![p] = [at |-> "idle"]] /\ today' = today
    BY <1>3 DEF Ratings!WriteProfile
  <2> QED  BY <2>2, <2>3, <2>4 DEF RatingTypes
<1>4. ASSUME NEW p \in c.Web, Ratings(c)!Crash(p) PROVE RatingTypes(c)'
  BY <1>4 DEF Ratings!Crash, RatingTypes
<1>5. CASE Ratings(c)!Midnight
  BY <1>5, <1>d DEF Ratings!Midnight, Ratings!ratingVars, RatingTypes
<1>6. ASSUME UNCHANGED <<today, Ratings(c)!ratingVars>> PROVE RatingTypes(c)'
  BY <1>6 DEF Ratings!ratingVars, RatingTypes
<1> QED
  BY <1>1, <1>2, <1>3, <1>4, <1>5, <1>6
  DEF Ratings!Next, Ratings!RateNext, Ratings!Start, Ratings!Count, Ratings!Store, Ratings!End

\* A step of another component leaves the ratings alone.
LEMMA RatingTypesStutter ==
  ASSUME NEW c, RatingTypes(c), UNCHANGED Ratings(c)!vars PROVE RatingTypes(c)'
  BY DEF RatingTypes, Ratings!vars

\* What a request commits: its row, and its result on the profile.
LEMMA RatingCommit ==
  ASSUME NEW c, Ratings(c)!Assumptions, RatingTypes(c), NEW p \in c.Web, Ratings(c)!WriteProfile(p)
  PROVE  LET r == rating[p] IN
         /\ r.at = "aggregated" /\ r.key \in c.Customer \X c.Business /\ r.key = <<r.key[1], r.key[2]>>
         /\ score' = Ratings(c)!Seen(r)
         /\ score'[r.key] = r.score /\ \A k \in Ratings(c)!Pair : k # r.key => score'[k] = score[k]
         /\ average'[r.key[2]] = r.result /\ \A b \in c.Business : b # r.key[2] => average'[b] = average[b]
         /\ \A b \in c.Business :
              RatedBy(c, b)' = IF b = r.key[2] THEN RatedBy(c, b) \cup {r.key[1]} ELSE RatedBy(c, b)
<1> DEFINE r == rating[p]
<1>1. r.at = "aggregated" /\ r.key \in c.Customer \X c.Business /\ r.score \in 1..c.MaxScore
  BY DEF RatingTypes, Ratings!WriteProfile, Ratings!Idle, Ratings!Pair
<1>2. r.key = <<r.key[1], r.key[2]>> /\ r.key[1] \in c.Customer /\ r.key[2] \in c.Business  BY <1>1
<1>3. score' = [score EXCEPT ![r.key] = r.score] /\ average' = [average EXCEPT ![r.key[2]] = r.result]
  BY DEF Ratings!WriteProfile
<1>4. score'[r.key] = r.score /\ \A k \in Ratings(c)!Pair : k # r.key => score'[k] = score[k]
  BY <1>1, <1>3 DEF RatingTypes, Ratings!Pair
<1>5. average'[r.key[2]] = r.result /\ \A b \in c.Business : b # r.key[2] => average'[b] = average[b]
  BY <1>2, <1>3 DEF RatingTypes
<1>6. r.score > 0  BY <1>1 DEF Ratings!Assumptions
<1> HIDE DEF r
<1>7. \A x \in c.Customer, b \in c.Business :
        score'[<<x, b>>] > 0 <=> (score[<<x, b>>] > 0 \/ (x = r.key[1] /\ b = r.key[2]))
  <2> TAKE x \in c.Customer, b \in c.Business
  <2>1. <<x, b>> \in Ratings(c)!Pair  BY DEF Ratings!Pair
  <2>2. CASE x = r.key[1] /\ b = r.key[2]  BY <1>2, <1>4, <1>6, <2>2
  <2>3. CASE ~(x = r.key[1] /\ b = r.key[2])
    <3>1. <<x, b>> # r.key  BY <1>2, <2>3
    <3> QED  BY <1>4, <2>1, <2>3, <3>1
  <2> QED  BY <2>2, <2>3
<1>8. \A b \in c.Business :
        RatedBy(c, b)' = IF b = r.key[2] THEN RatedBy(c, b) \cup {r.key[1]} ELSE RatedBy(c, b)
  BY <1>2, <1>7 DEF RatedBy
<1>10. score' = Ratings(c)!Seen(r)  BY <1>3 DEF Ratings!Seen
<1> QED  BY <1>1, <1>2, <1>4, <1>5, <1>8, <1>10 DEF r

-----------------------------------------------------------------------------
(* Nobody is counted twice                                                 *)

\* What a request has aggregated counts at most the raters there are and its own.
CountsInv(c) ==
  /\ RatingTypes(c)
  /\ \A b \in c.Business : average[b].count \in Nat /\ average[b].count <= Cardinality(RatedBy(c, b))
  /\ \A p \in c.Web : LET r == rating[p] IN
       r.at = "aggregated" =>
         /\ r.result.count \in Nat
         /\ r.result.count <= Cardinality(RatedBy(c, r.key[2]) \cup {r.key[1]})

\* A commit adds raters and takes none away.
LEMMA RatersGrow ==
  ASSUME NEW c, Ratings(c)!Assumptions, 
         NEW S \in SUBSET c.Customer, NEW T \in SUBSET c.Customer, S \subseteq T
  PROVE  /\ Cardinality(S) \in Nat /\ Cardinality(T) \in Nat
         /\ Cardinality(S) <= Cardinality(T)
  BY RatersFinite, FS_Subset, FS_CardinalityType

\* No profile counts a rating yet.
LEMMA CountsInit ==
  ASSUME NEW c, Ratings(c)!Assumptions, Ratings(c)!Init PROVE CountsInv(c)
<1>1. \A b \in c.Business : average[b].count = 0  BY DEF Ratings!Init, Ratings!Unrated
<1>2. \A b \in c.Business : Cardinality(RatedBy(c, b)) \in Nat  BY RatersGrow DEF RatedBy
<1> QED  BY <1>1, <1>2, RatingTypesInit DEF Ratings!Init, Ratings!Idle, CountsInv

\* No request writes a count above the number of the raters there are when it commits.
LEMMA CountsStep ==
  ASSUME NEW c, Ratings(c)!Assumptions, CountsInv(c), Ratings(c)!Next PROVE CountsInv(c)'
<1>t. RatingTypes(c) /\ RatingTypes(c)'  BY RatingTypesStep DEF CountsInv
<1> DEFINE Ok(b) == average[b].count \in Nat /\ average[b].count <= Cardinality(RatedBy(c, b))
           Fine(r) == r.at = "aggregated" =>
                        /\ r.result.count \in Nat
                        /\ r.result.count <= Cardinality(RatedBy(c, r.key[2]) \cup {r.key[1]})
<1>i. (\A b \in c.Business : Ok(b)) /\ \A p \in c.Web : Fine(rating[p])  BY DEF CountsInv
<1>s. ASSUME UNCHANGED <<score, average>>, NEW p \in c.Web,
             \A q \in c.Web \ {p} : rating'[q] = rating[q], Fine(rating'[p])
      PROVE  CountsInv(c)'
  BY <1>s, <1>i, <1>t DEF CountsInv, RatedBy
<1>1. ASSUME NEW p \in c.Web, NEW k \in Ratings(c)!Pair, NEW n \in 1..c.MaxScore, Ratings(c)!Upsert(p, k, n)
      PROVE  CountsInv(c)'
  BY <1>1, <1>s, <1>t DEF Ratings!Upsert, RatingTypes
<1>2. ASSUME NEW p \in c.Web, Ratings(c)!ReadRows(p) PROVE CountsInv(c)'
  <2> DEFINE r == rating[p]
             t == Ratings(c)!Seen(r)
  <2>1. r.at = "upserted" /\ r.key \in c.Customer \X c.Business /\ r.score \in 1..c.MaxScore
    BY <1>2, <1>t DEF Ratings!ReadRows, RatingTypes, Ratings!Idle, Ratings!Pair
  <2>2. r.score > 0 /\ DOMAIN score = c.Customer \X c.Business
    BY <1>t, <2>1 DEF Ratings!Assumptions, RatingTypes, Ratings!Pair
  <2>3. {x \in c.Customer : t[<<x, r.key[2]>>] > 0} = RatedBy(c, r.key[2]) \cup {r.key[1]}
    <3>1. ASSUME NEW x \in c.Customer
          PROVE  t[<<x, r.key[2]>>] > 0 <=> (score[<<x, r.key[2]>>] > 0 \/ x = r.key[1])
      <4>1. r.key = <<r.key[1], r.key[2]>> /\ <<x, r.key[2]>> \in DOMAIN score  BY <2>1, <2>2
      <4>2. CASE x = r.key[1]  BY <2>1, <2>2, <4>1, <4>2 DEF Ratings!Seen
      <4>3. CASE x # r.key[1]
        <5>1. <<x, r.key[2]>> # r.key  BY <4>1, <4>3
        <5> QED  BY <4>1, <4>3, <5>1 DEF Ratings!Seen
      <4> QED  BY <4>2, <4>3
    <3>2. r.key[1] \in c.Customer  BY <2>1
    <3> QED  BY <3>1, <3>2 DEF RatedBy
  <2>4. Ratings(c)!AggregateOf(t, r.key[2]).count = Cardinality(RatedBy(c, r.key[2]) \cup {r.key[1]})
    BY <2>3, RatersCardinality DEF Ratings!AggregateOf
  <2>5. Cardinality(RatedBy(c, r.key[2]) \cup {r.key[1]}) \in Nat
    <3>1. RatedBy(c, r.key[2]) \cup {r.key[1]} \in SUBSET c.Customer  BY <2>1 DEF RatedBy
    <3> QED  BY <3>1, RatersGrow
  <2>6. /\ rating' = [rating EXCEPT ![p] = [at |-> "aggregated", key |-> r.key, score |-> r.score,
                                           on |-> r.on, result |-> Ratings(c)!AggregateOf(t, r.key[2])]]
        /\ UNCHANGED <<score, average>>
    BY <1>2 DEF Ratings!ReadRows
  <2> HIDE DEF t
  <2>7. /\ rating'[p].result.count = Cardinality(RatedBy(c, r.key[2]) \cup {r.key[1]})
        /\ rating'[p].key = r.key
    BY <1>t, <2>4, <2>6 DEF RatingTypes
  <2>8. Fine(rating'[p])  BY <2>5, <2>7
  <2>9. \A q \in c.Web \ {p} : rating'[q] = rating[q]  BY <2>6
  <2> QED  BY <1>s, <2>6, <2>8, <2>9
<1>3. ASSUME NEW p \in c.Web, Ratings(c)!WriteProfile(p) PROVE CountsInv(c)'
  <2> DEFINE r == rating[p]
  <2>1. /\ r.at = "aggregated" /\ r.key \in c.Customer \X c.Business
        /\ average'[r.key[2]] = r.result /\ \A b \in c.Business : b # r.key[2] => average'[b] = average[b]
        /\ \A b \in c.Business :
             RatedBy(c, b)' = IF b = r.key[2] THEN RatedBy(c, b) \cup {r.key[1]} ELSE RatedBy(c, b)
    BY <1>3, <1>t, RatingCommit
  <2>2. rating' = [rating EXCEPT ![p] = [at |-> "idle"]]  BY <1>3 DEF Ratings!WriteProfile, Ratings!Idle
  <2>3. Fine(r)  BY <1>i
  <2> HIDE DEF r
  <2>4. \A b \in c.Business : Ok(b)'
    <3> TAKE b \in c.Business
    <3>1. CASE b = r.key[2]  BY <2>1, <2>3, <3>1
    <3>2. CASE b # r.key[2]  BY <1>i, <2>1, <3>2
    <3> QED  BY <3>1, <3>2
  <2>5. \A b \in c.Business : RatedBy(c, b) \subseteq RatedBy(c, b)'  BY <2>1
  <2>6. ASSUME NEW q \in c.Web PROVE Fine(rating[q])'
    <3> DEFINE o == rating[q]
    <3>1. CASE q = p  BY <2>2, <3>1, <1>t DEF RatingTypes
    <3>2. CASE q # p /\ o.at = "aggregated"
      <4>1. rating'[q] = o  BY <2>2, <3>2
      <4>2. o.key \in c.Customer \X c.Business  BY <1>t, <3>2 DEF RatingTypes, Ratings!Idle, Ratings!Pair
      <4>3. PICK b \in c.Business : b = o.key[2]  BY <4>2
      <4>4. PICK x \in c.Customer : x = o.key[1]  BY <4>2
      <4>5. o.result.count \in Nat /\ o.result.count <= Cardinality(RatedBy(c, b) \cup {x})
        BY <1>i, <3>2, <4>3, <4>4
      <4>6. Cardinality(RatedBy(c, b) \cup {x}) <= Cardinality(RatedBy(c, b)' \cup {x})
        <5>1. RatedBy(c, b) \cup {x} \in SUBSET c.Customer /\ RatedBy(c, b)' \cup {x} \in SUBSET c.Customer
          BY DEF RatedBy
        <5>2. RatedBy(c, b) \cup {x} \subseteq RatedBy(c, b)' \cup {x}  BY <2>5
        <5> QED  BY <5>1, <5>2, RatersGrow
      <4>7. Cardinality(RatedBy(c, b) \cup {x}) \in Nat /\ Cardinality(RatedBy(c, b)' \cup {x}) \in Nat
        <5>1. RatedBy(c, b) \cup {x} \in SUBSET c.Customer /\ RatedBy(c, b)' \cup {x} \in SUBSET c.Customer
          BY DEF RatedBy
        <5> QED  BY <5>1, RatersGrow
      <4>8. o.result.count <= Cardinality(RatedBy(c, b)' \cup {x})  BY <4>5, <4>6, <4>7
      <4> HIDE DEF o
      <4>9. rating'[q].result.count \in Nat /\
            rating'[q].result.count <=
              Cardinality({y \in c.Customer : score'[<<y, rating'[q].key[2]>>] > 0} \cup {rating'[q].key[1]})
        BY <4>1, <4>3, <4>4, <4>5, <4>8 DEF RatedBy
      <4> QED  BY <4>9 DEF RatedBy
    <3>3. CASE q # p /\ o.at # "aggregated"  BY <2>2, <3>3
    <3> QED  BY <3>1, <3>2, <3>3
  <2> QED  BY <1>t, <2>4, <2>6 DEF CountsInv
<1>4. ASSUME NEW p \in c.Web, Ratings(c)!Crash(p) PROVE CountsInv(c)'
  BY <1>4, <1>s, <1>t DEF Ratings!Crash, Ratings!Idle, RatingTypes
<1>5. ASSUME UNCHANGED <<score, average, rating>> PROVE CountsInv(c)'
  BY <1>5, <1>t DEF CountsInv, RatedBy
<1> QED
  BY <1>1, <1>2, <1>3, <1>4, <1>5
  DEF Ratings!Next, Ratings!RateNext, Ratings!Start, Ratings!Count, Ratings!Store, Ratings!End, Ratings!Midnight,
      Ratings!ratingVars

\* A step of another component leaves the counts alone.
LEMMA CountsStutter ==
  ASSUME NEW c, CountsInv(c), UNCHANGED Ratings(c)!vars PROVE CountsInv(c)'
  BY RatingTypesStutter DEF CountsInv, Ratings!vars, RatedBy

\* Nobody is counted twice.
LEMMA CountsOnce == ASSUME NEW c, CountsInv(c) PROVE Ratings(c)!CountsNobodyTwice
  BY RatersCardinality DEF CountsInv, Ratings!CountsNobodyTwice, RatedBy

-----------------------------------------------------------------------------
(* The day that Beat has counted is complete                               *)

\* No request of the day is open, nor will one begin.
Closed(c, d) ==
  /\ d < today
  /\ \A p \in c.Web : rating[p] # Ratings(c)!Idle => rating[p].on > d

\* Nor is there a count of the day to be stored that was made before that.
Sealed(c, d) ==
  /\ Closed(c, d)
  /\ \A w \in c.Celery : rollup[w].at = "store" /\ rollup[w].day = d => rollup[w].final

\* Runs of the task, and what they are about to store.
RollupTypes(c) ==
  /\ DOMAIN stats = c.Business \X (0..c.MaxDay) /\ DOMAIN rollup = c.Celery
  /\ beaten \subseteq c.Business \X (0..c.MaxDay)
  /\ \A w \in c.Celery :
       /\ rollup[w].at \in {"run", "store"} => rollup[w].day \in 0..c.MaxDay /\ rollup[w].todo \subseteq c.Business
       /\ rollup[w].at = "store" => rollup[w].business \in c.Business

\* A stored day is closed and counted; a run of Beat counts a closed day; a count that is
\* final is that of a closed day.
DaysInv(c) ==
  /\ RatingTypes(c) /\ RollupTypes(c)
  /\ \A w \in c.Celery, d \in 0..c.MaxDay :
       rollup[w].at \in {"run", "store"} /\ rollup[w].beat /\ rollup[w].day = d => Sealed(c, d)
  /\ \A w \in c.Celery, b \in c.Business, d \in 0..c.MaxDay :
       rollup[w].at = "store" /\ rollup[w].business = b /\ rollup[w].day = d /\ rollup[w].final =>
         Closed(c, d) /\ rollup[w].metrics.new = Ratings(c)!NewOn(b, d)
  /\ \A b \in c.Business, d \in 0..c.MaxDay : <<b, d>> \in beaten =>
       Sealed(c, d) /\ stats[<<b, d>>].new = Ratings(c)!NewOn(b, d)

\* No day is stored yet.
LEMMA DaysInit ==
  ASSUME NEW c, Ratings(c)!Assumptions, Ratings(c)!Init PROVE DaysInv(c)
<1>1. \A w \in c.Celery : rollup[w].at = "idle"  BY DEF Ratings!Init, Ratings!Idle
<1>2. RollupTypes(c)  BY <1>1 DEF Ratings!Init, Ratings!Day, RollupTypes
<1> QED  BY <1>1, <1>2, RatingTypesInit DEF Ratings!Init, DaysInv

\* A closed day stays closed, and no step creates a row on it.
LEMMA DayClosed ==
  ASSUME NEW c, Ratings(c)!Assumptions, RatingTypes(c), Ratings(c)!Next, NEW d \in 0..c.MaxDay, Closed(c, d)
  PROVE  Closed(c, d)' /\ \A b \in c.Business : Ratings(c)!NewOn(b, d)' = Ratings(c)!NewOn(b, d)
<1> USE DEF Ratings!Idle
<1>d. c.MaxDay \in Nat /\ today \in 0..c.MaxDay  BY DEF Ratings!Assumptions, RatingTypes
<1>same. ASSUME UNCHANGED <<today, rating, born>>
         PROVE  Closed(c, d)' /\ \A b \in c.Business : Ratings(c)!NewOn(b, d)' = Ratings(c)!NewOn(b, d)
  BY <1>same DEF Closed, Ratings!NewOn
<1>one. ASSUME UNCHANGED <<today, born>>, NEW p \in c.Web,
               \A q \in c.Web \ {p} : rating'[q] = rating[q],
               rating'[p] = [at |-> "idle"] \/ rating'[p].on = today \/
                 (rating[p] # [at |-> "idle"] /\ rating'[p].on = rating[p].on)
        PROVE  Closed(c, d)' /\ \A b \in c.Business : Ratings(c)!NewOn(b, d)' = Ratings(c)!NewOn(b, d)
  BY <1>one DEF Closed, Ratings!NewOn
<1>1. ASSUME NEW p \in c.Web, NEW k \in Ratings(c)!Pair, NEW n \in 1..c.MaxScore, Ratings(c)!Upsert(p, k, n)
      PROVE  Closed(c, d)' /\ \A b \in c.Business : Ratings(c)!NewOn(b, d)' = Ratings(c)!NewOn(b, d)
  BY <1>1, <1>one DEF Ratings!Upsert, RatingTypes
<1>2. ASSUME NEW p \in c.Web, Ratings(c)!ReadRows(p)
      PROVE  Closed(c, d)' /\ \A b \in c.Business : Ratings(c)!NewOn(b, d)' = Ratings(c)!NewOn(b, d)
  BY <1>2, <1>one DEF Ratings!ReadRows, RatingTypes
<1>3. ASSUME NEW p \in c.Web, Ratings(c)!WriteProfile(p)
      PROVE  Closed(c, d)' /\ \A b \in c.Business : Ratings(c)!NewOn(b, d)' = Ratings(c)!NewOn(b, d)
  <2> DEFINE r == rating[p]
  <2>1. /\ r # [at |-> "idle"] /\ r.key \in Ratings(c)!Pair /\ r.on \in 0..today
        /\ born' = [born EXCEPT ![r.key] = IF @ = None THEN r.on ELSE @]
        /\ rating' = [rating EXCEPT ![p] = [at |-> "idle"]] /\ today' = today
    BY <1>3 DEF Ratings!WriteProfile, RatingTypes
  <2>2. Closed(c, d)'  BY <2>1 DEF Closed, RatingTypes
  <2>3. r.on # d /\ None # d  BY <1>d, <2>1 DEF Closed, Ratings!Assumptions
  <2>4. \A x \in c.Customer, b \in c.Business : born'[<<x, b>>] = d <=> born[<<x, b>>] = d
    <3> TAKE x \in c.Customer, b \in c.Business
    <3>1. <<x, b>> \in DOMAIN born  BY DEF RatingTypes, Ratings!Pair
    <3>2. CASE <<x, b>> = r.key  BY <2>1, <2>3, <3>1, <3>2
    <3>3. CASE <<x, b>> # r.key  BY <2>1, <3>1, <3>3
    <3> QED  BY <3>2, <3>3
  <2>5. \A b \in c.Business : {x \in c.Customer : born'[<<x, b>>] = d}
                             = {x \in c.Customer : born[<<x, b>>] = d}
    BY <2>4
  <2>6. \A b \in c.Business : Ratings(c)!NewOn(b, d)' = Ratings(c)!NewOn(b, d)
    BY <2>5 DEF Ratings!NewOn
  <2> QED  BY <2>2, <2>6
<1>4. ASSUME NEW p \in c.Web, Ratings(c)!Crash(p)
      PROVE  Closed(c, d)' /\ \A b \in c.Business : Ratings(c)!NewOn(b, d)' = Ratings(c)!NewOn(b, d)
  BY <1>4, <1>one DEF Ratings!Crash, RatingTypes
<1>5. CASE Ratings(c)!Midnight
  BY <1>5, <1>d DEF Ratings!Midnight, Ratings!ratingVars, Closed, Ratings!NewOn
<1> QED
  BY <1>1, <1>2, <1>3, <1>4, <1>5, <1>same
  DEF Ratings!Next, Ratings!RateNext, Ratings!Start, Ratings!Count, Ratings!Store, Ratings!End, Ratings!ratingVars

\* What is stored for a closed day is what every later run would store.
LEMMA DaysStep ==
  ASSUME NEW c, Ratings(c)!Assumptions, DaysInv(c), Ratings(c)!Next PROVE DaysInv(c)'
<1> USE DEF Ratings!Day
<1>t. RatingTypes(c) /\ RatingTypes(c)' /\ RollupTypes(c)  BY RatingTypesStep DEF DaysInv
<1>d. c.MaxDay \in Nat /\ today \in 0..c.MaxDay  BY <1>t DEF Ratings!Assumptions, RatingTypes
<1>idle. Ratings(c)!Idle.at = "idle"  BY DEF Ratings!Idle
<1>same. ASSUME UNCHANGED <<stats, rollup, beaten>> PROVE DaysInv(c)'
  <2>1. ASSUME NEW d \in 0..c.MaxDay, Closed(c, d)
        PROVE  Closed(c, d)' /\ \A b \in c.Business : Ratings(c)!NewOn(b, d)' = Ratings(c)!NewOn(b, d)
    BY <1>t, <2>1, DayClosed
  <2>2. \A d \in 0..c.MaxDay : Sealed(c, d) => Sealed(c, d)'  BY <1>same, <2>1 DEF Sealed
  <2>3. RollupTypes(c)'  BY <1>same, <1>t DEF RollupTypes
  <2>4. \A b \in c.Business, d \in 0..c.MaxDay : Sealed(c, d) => Ratings(c)!NewOn(b, d)' = Ratings(c)!NewOn(b, d)
    BY <2>1 DEF Sealed
  <2> QED  BY <1>same, <1>t, <2>1, <2>2, <2>3, <2>4 DEF DaysInv
\* A step of a worker: the rows and the requests are as they were.
<1>still. ASSUME UNCHANGED <<today, rating, born>>
          PROVE  /\ \A d : Closed(c, d)' <=> Closed(c, d)
                 /\ \A b, d : Ratings(c)!NewOn(b, d)' = Ratings(c)!NewOn(b, d)
  BY <1>still DEF Closed, Ratings!NewOn
<1>1. ASSUME NEW w \in c.Celery, NEW d \in 0..c.MaxDay, NEW beat \in BOOLEAN, Ratings(c)!Start(w, d, beat)
      PROVE  DaysInv(c)'
  <2>1. /\ rollup' = [rollup EXCEPT ![w] = [at |-> "run", day |-> d, beat |-> beat,
                                           loaded |-> average, todo |-> c.Business]]
        /\ UNCHANGED <<today, rating, born, score, stats, beaten>>
    BY <1>1 DEF Ratings!Start, Ratings!ratingVars
  <2>2. beat => Closed(c, d) /\ \A v \in c.Celery : rollup[v].at = "store" => rollup[v].final
    BY <1>1, <1>d DEF Ratings!Start, Ratings!DefaultTarget, Closed
  <2>3. /\ \A e : Closed(c, e)' <=> Closed(c, e)
        /\ \A b, e : Ratings(c)!NewOn(b, e)' = Ratings(c)!NewOn(b, e)
    BY <1>still, <2>1
  <2>4. /\ rollup'[w].at = "run" /\ rollup'[w].day = d /\ rollup'[w].beat = beat /\ rollup'[w].todo = c.Business
        /\ \A v \in c.Celery : v # w => rollup'[v] = rollup[v]
    BY <1>t, <2>1 DEF RollupTypes
  <2>5. \A e \in 0..c.MaxDay : Sealed(c, e) => Sealed(c, e)'  BY <2>3, <2>4 DEF Sealed
  <2>6. beat => Sealed(c, d)'  BY <2>2, <2>3, <2>4 DEF Sealed
  <2>7. RollupTypes(c)'  BY <1>t, <2>1, <2>4 DEF RollupTypes
  <2>8. ASSUME NEW v \in c.Celery, NEW e \in 0..c.MaxDay,
               rollup'[v].at \in {"run", "store"}, rollup'[v].beat, rollup'[v].day = e
        PROVE  Sealed(c, e)'
    <3>1. CASE v = w  BY <2>4, <2>6, <2>8, <3>1
    <3>2. CASE v # w  BY <2>4, <2>5, <2>8, <3>2 DEF DaysInv
    <3> QED  BY <3>1, <3>2
  <2>9. ASSUME NEW v \in c.Celery, NEW b \in c.Business, NEW e \in 0..c.MaxDay,
               rollup'[v].at = "store", rollup'[v].business = b, rollup'[v].day = e, rollup'[v].final
        PROVE  Closed(c, e)' /\ rollup'[v].metrics.new = Ratings(c)!NewOn(b, e)'
    <3>1. v # w  BY <2>4, <2>9
    <3> QED  BY <2>3, <2>4, <2>9, <3>1 DEF DaysInv
  <2>10. \A b \in c.Business, e \in 0..c.MaxDay : <<b, e>> \in beaten' =>
           Sealed(c, e)' /\ stats'[<<b, e>>].new = Ratings(c)!NewOn(b, e)'
    BY <2>1, <2>3, <2>5 DEF DaysInv
  <2> QED  BY <1>t, <2>7, <2>8, <2>9, <2>10 DEF DaysInv
<1>2. ASSUME NEW w \in c.Celery, NEW b \in c.Business, Ratings(c)!Count(w, b) PROVE DaysInv(c)'
  <2> DEFINE r == rollup[w]
             new == [at |-> "store", day |-> r.day, beat |-> r.beat, loaded |-> r.loaded, todo |-> r.todo \ {b},
                     business |-> b, metrics |-> Ratings(c)!Metrics(r, b), final |-> Ratings(c)!Final(r.day)]
  <2>1. /\ r.at = "run" /\ b \in r.todo /\ rollup' = [rollup EXCEPT ![w] = new]
        /\ UNCHANGED <<today, rating, born, score, stats, beaten>>
    BY <1>2 DEF Ratings!Count, Ratings!ratingVars
  <2>2. PICK d \in 0..c.MaxDay : d = r.day  BY <1>t, <2>1 DEF RollupTypes
  <2>3. /\ \A e : Closed(c, e)' <=> Closed(c, e)
        /\ \A x, e : Ratings(c)!NewOn(x, e)' = Ratings(c)!NewOn(x, e)
    BY <1>still, <2>1
  <2>4. Ratings(c)!Metrics(r, b).new = Ratings(c)!NewOn(b, d) /\ (Ratings(c)!Final(r.day) <=> Closed(c, d))
    BY <1>d, <2>2 DEF Ratings!Metrics, Ratings!Final, Closed
  <2>5. /\ new.at = "store" /\ new.day = d /\ new.beat = r.beat /\ new.todo \subseteq r.todo /\ new.business = b
        /\ new.metrics.new = Ratings(c)!NewOn(b, d) /\ (new.final <=> Closed(c, d))
    BY <2>2, <2>4
  <2> HIDE DEF new
  <2>6. rollup'[w] = new /\ \A v \in c.Celery : v # w => rollup'[v] = rollup[v]
    BY <1>t, <2>1 DEF RollupTypes
  <2>7. \A e \in 0..c.MaxDay : Sealed(c, e) => Sealed(c, e)'
    <3> SUFFICES ASSUME NEW e \in 0..c.MaxDay, Sealed(c, e), NEW v \in c.Celery,
                        rollup'[v].at = "store", rollup'[v].day = e
                 PROVE  rollup'[v].final
      BY <2>3 DEF Sealed
    <3>1. CASE v = w  BY <2>5, <2>6, <3>1 DEF Sealed
    <3>2. CASE v # w  BY <2>6, <3>2 DEF Sealed
    <3> QED  BY <3>1, <3>2
  <2>8. RollupTypes(c)'
    <3>1. \A v \in c.Celery :
            /\ rollup'[v].at \in {"run", "store"} =>
                 rollup'[v].day \in 0..c.MaxDay /\ rollup'[v].todo \subseteq c.Business
            /\ rollup'[v].at = "store" => rollup'[v].business \in c.Business
      <4> TAKE v \in c.Celery
      <4>1. CASE v = w  BY <1>t, <2>1, <2>5, <2>6, <4>1 DEF RollupTypes
      <4>2. CASE v # w  BY <1>t, <2>6, <4>2 DEF RollupTypes
      <4> QED  BY <4>1, <4>2
    <3> QED  BY <1>t, <2>1, <3>1 DEF RollupTypes
  <2>9. ASSUME NEW v \in c.Celery, NEW e \in 0..c.MaxDay,
               rollup'[v].at \in {"run", "store"}, rollup'[v].beat, rollup'[v].day = e
        PROVE  Sealed(c, e)'
    <3>1. rollup[v].at \in {"run", "store"} /\ rollup[v].beat /\ rollup[v].day = e
      BY <2>1, <2>2, <2>5, <2>6, <2>9
    <3> QED  BY <2>7, <3>1 DEF DaysInv
  <2>10. ASSUME NEW v \in c.Celery, NEW x \in c.Business, NEW e \in 0..c.MaxDay,
                rollup'[v].at = "store", rollup'[v].business = x, rollup'[v].day = e, rollup'[v].final
         PROVE  Closed(c, e)' /\ rollup'[v].metrics.new = Ratings(c)!NewOn(x, e)'
    <3>1. CASE v = w  BY <2>3, <2>5, <2>6, <2>10, <3>1
    <3>2. CASE v # w  BY <2>3, <2>6, <2>10, <3>2 DEF DaysInv
    <3> QED  BY <3>1, <3>2
  <2>11. \A x \in c.Business, e \in 0..c.MaxDay : <<x, e>> \in beaten' =>
           Sealed(c, e)' /\ stats'[<<x, e>>].new = Ratings(c)!NewOn(x, e)'
    BY <2>1, <2>3, <2>7 DEF DaysInv
  <2> QED  BY <1>t, <2>8, <2>9, <2>10, <2>11 DEF DaysInv
<1>end. ASSUME NEW w \in c.Celery, NEW new, rollup' = [rollup EXCEPT ![w] = new], new.at # "store",
               new.at = "run" => /\ rollup[w].at = "store" /\ new.day = rollup[w].day
                                 /\ new.beat = rollup[w].beat /\ new.todo = rollup[w].todo,
               UNCHANGED <<today, rating, born>>
        PROVE  /\ \A e \in 0..c.MaxDay : Sealed(c, e) => Sealed(c, e)'
               /\ \A v \in c.Celery :
                    rollup'[v].at \in {"run", "store"} =>
                      /\ rollup[v].at \in {"run", "store"} /\ rollup'[v].day = rollup[v].day
                      /\ rollup'[v].beat = rollup[v].beat /\ rollup'[v].todo = rollup[v].todo
               /\ \A v \in c.Celery : rollup'[v].at = "store" => rollup'[v] = rollup[v]
               /\ DOMAIN rollup' = c.Celery
  <2>1. rollup'[w] = new /\ \A v \in c.Celery : v # w => rollup'[v] = rollup[v]
    BY <1>t, <1>end DEF RollupTypes
  <2>2. \A v \in c.Celery : rollup'[v].at = "store" => rollup'[v] = rollup[v]  BY <1>end, <2>1
  <2>3. \A v \in c.Celery :
          rollup'[v].at \in {"run", "store"} =>
            /\ rollup[v].at \in {"run", "store"} /\ rollup'[v].day = rollup[v].day
            /\ rollup'[v].beat = rollup[v].beat /\ rollup'[v].todo = rollup[v].todo
    <3> TAKE v \in c.Celery
    <3>1. CASE v = w  BY <1>end, <2>1, <3>1
    <3>2. CASE v # w  BY <2>1, <3>2
    <3> QED  BY <3>1, <3>2
  <2>4. \A e \in 0..c.MaxDay : Sealed(c, e) => Sealed(c, e)'  BY <1>end, <1>still, <2>2 DEF Sealed
  <2> QED  BY <1>end, <1>t, <2>2, <2>3, <2>4 DEF RollupTypes
<1>3. ASSUME NEW w \in c.Celery, Ratings(c)!Store(w) PROVE DaysInv(c)'
  <2> DEFINE r == rollup[w]
             new == [at |-> "run", day |-> r.day, beat |-> r.beat, loaded |-> r.loaded, todo |-> r.todo]
  <2>1. /\ r.at = "store" /\ rollup' = [rollup EXCEPT ![w] = new]
        /\ UNCHANGED <<today, rating, born, score>>
        /\ \/ /\ stats' = [stats EXCEPT ![<<r.business, r.day>>] = r.metrics]
              /\ beaten' = IF r.beat THEN beaten \cup {<<r.business, r.day>>} ELSE beaten
           \/ UNCHANGED <<stats, beaten>>
    BY <1>3 DEF Ratings!Store, Ratings!ratingVars
  <2>2. PICK d \in 0..c.MaxDay, b \in c.Business : d = r.day /\ b = r.business  BY <1>t, <2>1 DEF RollupTypes
  <2>3. /\ \A e : Closed(c, e)' <=> Closed(c, e)
        /\ \A x, e : Ratings(c)!NewOn(x, e)' = Ratings(c)!NewOn(x, e)
    BY <1>still, <2>1
  <2>4. /\ new.at = "run" /\ new.day = r.day /\ new.beat = r.beat /\ new.todo = r.todo
    OBVIOUS
  <2> HIDE DEF new
  <2>5. /\ \A e \in 0..c.MaxDay : Sealed(c, e) => Sealed(c, e)'
        /\ \A v \in c.Celery :
             rollup'[v].at \in {"run", "store"} =>
               /\ rollup[v].at \in {"run", "store"} /\ rollup'[v].day = rollup[v].day
               /\ rollup'[v].beat = rollup[v].beat /\ rollup'[v].todo = rollup[v].todo
        /\ \A v \in c.Celery : rollup'[v].at = "store" => rollup'[v] = rollup[v]
        /\ DOMAIN rollup' = c.Celery
    BY <1>end, <2>1, <2>4
  <2>6. DOMAIN stats' = DOMAIN stats /\ beaten' \subseteq c.Business \X (0..c.MaxDay)
    BY <1>t, <2>1, <2>2 DEF RollupTypes
  <2>7. RollupTypes(c)'  BY <1>t, <2>5, <2>6 DEF RollupTypes
  <2>8. \A v \in c.Celery, e \in 0..c.MaxDay :
          rollup'[v].at \in {"run", "store"} /\ rollup'[v].beat /\ rollup'[v].day = e => Sealed(c, e)'
    BY <2>5 DEF DaysInv
  <2>9. \A v \in c.Celery, x \in c.Business, e \in 0..c.MaxDay :
          rollup'[v].at = "store" /\ rollup'[v].business = x /\ rollup'[v].day = e /\ rollup'[v].final =>
            Closed(c, e)' /\ rollup'[v].metrics.new = Ratings(c)!NewOn(x, e)'
    BY <2>3, <2>5 DEF DaysInv
  <2>10. ASSUME NEW x \in c.Business, NEW e \in 0..c.MaxDay, <<x, e>> \in beaten'
         PROVE  Sealed(c, e)' /\ stats'[<<x, e>>].new = Ratings(c)!NewOn(x, e)'
    <3>1. CASE x = b /\ e = d /\ ~UNCHANGED <<stats, beaten>>
      <4>1. <<b, d>> \in beaten \/ r.beat  BY <2>1, <2>2, <2>10, <3>1
      <4>2. Sealed(c, d)  BY <2>1, <2>2, <4>1 DEF DaysInv
      <4>3. r.final  BY <2>1, <2>2, <4>2 DEF Sealed
      <4>4. r.metrics.new = Ratings(c)!NewOn(b, d)  BY <2>1, <2>2, <4>3 DEF DaysInv
      <4>5. stats'[<<b, d>>] = r.metrics  BY <1>t, <2>1, <2>2, <3>1 DEF RollupTypes
      <4> QED  BY <2>3, <2>5, <3>1, <4>2, <4>4, <4>5
    <3>2. CASE ~(x = b /\ e = d) \/ UNCHANGED <<stats, beaten>>
      <4>1. <<x, e>> \in beaten  BY <2>1, <2>2, <2>10, <3>2
      <4>2. stats'[<<x, e>>] = stats[<<x, e>>]  BY <1>t, <2>1, <2>2, <3>2 DEF RollupTypes
      <4> QED  BY <2>3, <2>5, <4>1, <4>2 DEF DaysInv
    <3> QED  BY <3>1, <3>2
  <2> QED  BY <1>t, <2>7, <2>8, <2>9, <2>10 DEF DaysInv
<1>4. ASSUME NEW w \in c.Celery, Ratings(c)!End(w) PROVE DaysInv(c)'
  <2>1. rollup' = [rollup EXCEPT ![w] = Ratings(c)!Idle]
        /\ UNCHANGED <<today, rating, born, score, stats, beaten>>
    BY <1>4 DEF Ratings!End, Ratings!ratingVars
  <2>2. /\ \A e : Closed(c, e)' <=> Closed(c, e)
        /\ \A x, e : Ratings(c)!NewOn(x, e)' = Ratings(c)!NewOn(x, e)
    BY <1>still, <2>1
  <2>3. /\ \A e \in 0..c.MaxDay : Sealed(c, e) => Sealed(c, e)'
        /\ \A v \in c.Celery :
             rollup'[v].at \in {"run", "store"} =>
               /\ rollup[v].at \in {"run", "store"} /\ rollup'[v].day = rollup[v].day
               /\ rollup'[v].beat = rollup[v].beat /\ rollup'[v].todo = rollup[v].todo
        /\ \A v \in c.Celery : rollup'[v].at = "store" => rollup'[v] = rollup[v]
        /\ DOMAIN rollup' = c.Celery
    BY <1>end, <1>idle, <2>1
  <2>4. RollupTypes(c)'  BY <1>t, <2>1, <2>3 DEF RollupTypes
  <2>5. \A v \in c.Celery, e \in 0..c.MaxDay :
          rollup'[v].at \in {"run", "store"} /\ rollup'[v].beat /\ rollup'[v].day = e => Sealed(c, e)'
    BY <2>3 DEF DaysInv
  <2>6. \A v \in c.Celery, x \in c.Business, e \in 0..c.MaxDay :
          rollup'[v].at = "store" /\ rollup'[v].business = x /\ rollup'[v].day = e /\ rollup'[v].final =>
            Closed(c, e)' /\ rollup'[v].metrics.new = Ratings(c)!NewOn(x, e)'
    BY <2>2, <2>3 DEF DaysInv
  <2>7. \A x \in c.Business, e \in 0..c.MaxDay : <<x, e>> \in beaten' =>
           Sealed(c, e)' /\ stats'[<<x, e>>].new = Ratings(c)!NewOn(x, e)'
    BY <2>1, <2>2, <2>3 DEF DaysInv
  <2> QED  BY <1>t, <2>4, <2>5, <2>6, <2>7 DEF DaysInv
<1> QED
  BY <1>1, <1>2, <1>3, <1>4, <1>same
  DEF Ratings!Next, Ratings!RateNext, Ratings!Upsert, Ratings!ReadRows, Ratings!WriteProfile, Ratings!Crash,
      Ratings!Midnight, Ratings!statVars

\* A step of another component leaves the stored days alone.
LEMMA DaysStutter ==
  ASSUME NEW c, DaysInv(c), UNCHANGED Ratings(c)!vars PROVE DaysInv(c)'
<1>1. UNCHANGED <<today, rating, born, stats, rollup, beaten>>  BY DEF Ratings!vars
<1>2. /\ \A d : (Closed(c, d)' <=> Closed(c, d)) /\ (Sealed(c, d)' <=> Sealed(c, d))
      /\ \A b, d : Ratings(c)!NewOn(b, d)' = Ratings(c)!NewOn(b, d)
  BY <1>1 DEF Closed, Sealed, Ratings!NewOn
<1>3. RollupTypes(c)' /\ RatingTypes(c)'  BY <1>1, RatingTypesStutter DEF DaysInv, RollupTypes
<1> QED  BY <1>1, <1>2, <1>3 DEF DaysInv

\* A stored day counts its first ratings.
LEMMA DaysComplete == ASSUME NEW c, DaysInv(c) PROVE Ratings(c)!DayComplete
<1>1. ASSUME NEW k \in beaten PROVE stats[k].new = Ratings(c)!NewOn(k[1], k[2])
  <2>1. PICK b \in c.Business, d \in 0..c.MaxDay : k = <<b, d>>  BY DEF DaysInv, RollupTypes
  <2>2. k[1] = b /\ k[2] = d  BY <2>1
  <2> QED  BY <2>1, <2>2 DEF DaysInv
<1> QED  BY <1>1 DEF Ratings!DayComplete

-----------------------------------------------------------------------------
(* An average drifts only where requests overlap                           *)

\* The aggregate of a business depends on the scores that business has.
LEMMA SameScores ==
  ASSUME NEW c, NEW s, NEW t, NEW b, \A x \in c.Customer : s[<<x, b>>] = t[<<x, b>>]
  PROVE  Ratings(c)!AggregateOf(s, b) = Ratings(c)!AggregateOf(t, b)
<1>1. [x \in {y \in c.Customer : s[<<y, b>>] > 0} |-> s[<<x, b>>]]
        = [x \in {y \in c.Customer : t[<<y, b>>] > 0} |-> t[<<x, b>>]]
  OBVIOUS
<1> QED  BY <1>1, Zenon DEF Ratings!AggregateOf

\* With every step the average of a business drifts only where a commit missed another one.
LEMMA AverageStep ==
  ASSUME NEW c, Ratings(c)!Assumptions, RatingTypes(c), [Ratings(c)!Next]_(Ratings(c)!vars)
  PROVE  Ratings(c)!AverageDriftsByOverlap
<1> USE DEF Ratings!Idle
<1> DEFINE Aim(p, b) == rating[p].at = "aggregated" /\ rating[p].key[2] = b
           Wrong(p) == Ratings(c)!Missed(p)
<1>t. /\ DOMAIN rating = c.Web /\ DOMAIN score = Ratings(c)!Pair /\ DOMAIN average = c.Business
      /\ \A p \in c.Web : rating[p].at = "aggregated" =>
           /\ rating[p].key \in Ratings(c)!Pair /\ rating[p].key[2] \in c.Business
           /\ rating[p].key = <<rating[p].key[1], rating[p].key[2]>>
  <2>1. \A p \in c.Web : rating[p].at = "aggregated" => rating[p].key \in Ratings(c)!Pair  BY DEF RatingTypes
  <2>2. \A k \in Ratings(c)!Pair : k[2] \in c.Business /\ k = <<k[1], k[2]>>  BY DEF Ratings!Pair
  <2> QED  BY <2>1, <2>2 DEF RatingTypes
\* What the COMMIT of p makes of the table and of the profiles.
<1>commit. ASSUME NEW p \in c.Web, Ratings(c)!WriteProfile(p)
           PROVE  /\ rating[p].at = "aggregated" /\ rating[p].key \in Ratings(c)!Pair
                  /\ score' = [score EXCEPT ![rating[p].key] = rating[p].score]
                  /\ rating' = [rating EXCEPT ![p] = [at |-> "idle"]]
                  /\ average'[rating[p].key[2]] = rating[p].result
                  /\ \A b \in c.Business : b # rating[p].key[2] =>
                       /\ average'[b] = average[b]
                       /\ Ratings(c)!AggregateOf(score', b) = Ratings(c)!AggregateOf(score, b)
  <2> DEFINE r == rating[p]
  <2>1. /\ r.at = "aggregated" /\ score' = [score EXCEPT ![r.key] = r.score]
        /\ average' = [average EXCEPT ![r.key[2]] = r.result] /\ rating' = [rating EXCEPT ![p] = [at |-> "idle"]]
    BY <1>commit DEF Ratings!WriteProfile
  <2>2. r.key \in Ratings(c)!Pair /\ r.key[2] \in c.Business /\ r.key = <<r.key[1], r.key[2]>>  BY <1>t, <2>1
  <2> HIDE DEF r
  <2>3. ASSUME NEW b \in c.Business, b # r.key[2]
        PROVE  average'[b] = average[b] /\ Ratings(c)!AggregateOf(score', b) = Ratings(c)!AggregateOf(score, b)
    <3>1. \A x \in c.Customer : <<x, b>> # r.key /\ <<x, b>> \in Ratings(c)!Pair
      BY <2>2, <2>3 DEF Ratings!Pair
    <3>2. \A x \in c.Customer : score'[<<x, b>>] = score[<<x, b>>]  BY <1>t, <2>1, <3>1
    <3>3. Ratings(c)!AggregateOf(score', b) = Ratings(c)!AggregateOf(score, b)  BY <3>2, SameScores
    <3>4. average'[b] = average[b]  BY <1>t, <2>1, <2>3
    <3> QED  BY <3>3, <3>4
  <2>4. average'[r.key[2]] = r.result  BY <1>t, <2>1, <2>2
  <2> QED  BY <2>1, <2>2, <2>3, <2>4 DEF r
<1>quiet. ASSUME ~\E p \in c.Web : Ratings(c)!WriteProfile(p) PROVE UNCHANGED <<score, average>>
  BY <1>quiet
  DEF Ratings!Next, Ratings!RateNext, Ratings!Upsert, Ratings!ReadRows, Ratings!Crash, Ratings!Start,
      Ratings!Count, Ratings!Store, Ratings!End, Ratings!Midnight, Ratings!ratingVars, Ratings!vars
<1>1. ASSUME NEW b \in c.Business, average[b] = Ratings(c)!AggregateOf(score, b),
             average'[b] # Ratings(c)!AggregateOf(score', b)
      PROVE  \E p \in c.Web : Ratings(c)!Missed(p) /\ Ratings(c)!WriteProfile(p) /\ rating[p].key[2] = b
  <2>1. PICK p \in c.Web : Ratings(c)!WriteProfile(p)  BY <1>1, <1>quiet
  <2>2. rating[p].key[2] = b  BY <1>1, <1>commit, <2>1
  <2>3. rating[p].result # Ratings(c)!AggregateOf(score', b)  BY <1>1, <1>commit, <2>1, <2>2
  <2>4. Ratings(c)!Missed(p)  BY <1>commit, <2>1, <2>2, <2>3 DEF Ratings!Missed
  <2> QED  BY <2>1, <2>2, <2>4
<1>2. ASSUME NEW p \in c.Web, NEW b \in c.Business, Ratings(c)!WriteProfile(p), ~Ratings(c)!Missed(p),
             rating[p].key[2] = b
      PROVE  average'[b] = Ratings(c)!AggregateOf(score', b)
  BY <1>2, <1>commit DEF Ratings!Missed
<1>3. ASSUME NEW p \in c.Web, ~Ratings(c)!Missed(p), Ratings(c)!Missed(p)'
      PROVE  \E q \in c.Web \ {p} : Ratings(c)!WriteProfile(q) /\ rating[q].key[2] = rating[p].key[2]
  <2> DEFINE own == [score EXCEPT ![rating[p].key] = rating[p].score]
             next == [score' EXCEPT ![rating'[p].key] = rating'[p].score]
  <2>1. /\ rating'[p].at = "aggregated"
        /\ rating'[p].result # Ratings(c)!AggregateOf(next, rating'[p].key[2])
    BY <1>3 DEF Ratings!Missed
  <2>2. rating[p].at = "aggregated" => rating[p].result = Ratings(c)!AggregateOf(own, rating[p].key[2])
    BY <1>3 DEF Ratings!Missed
  <2>3. CASE \E q \in c.Web : Ratings(c)!WriteProfile(q)
    <3>1. PICK q \in c.Web : Ratings(c)!WriteProfile(q)  BY <2>3
    <3>2. q # p  BY <1>commit, <1>t, <2>1, <3>1
    <3>3. rating'[p] = rating[p] /\ rating[p].at = "aggregated"
      <4>1. rating' = [rating EXCEPT ![q] = [at |-> "idle"]]  BY <1>commit, <3>1
      <4>2. rating'[p] = rating[p]  BY <1>t, <3>2, <4>1
      <4>3. rating'[p].at = "aggregated"  BY <2>1
      <4> QED  BY <4>2, <4>3
    <3>4. ASSUME rating[q].key[2] # rating[p].key[2] PROVE FALSE
      <4> DEFINE k == rating[p].key  o == rating[q].key
      <4>1. /\ k \in Ratings(c)!Pair /\ o \in Ratings(c)!Pair /\ k[2] # o[2]
            /\ score' = [score EXCEPT ![o] = rating[q].score]
        BY <1>commit, <1>t, <3>1, <3>3, <3>4
      <4>2. \A x \in c.Customer : <<x, k[2]>> # o /\ <<x, k[2]>> \in Ratings(c)!Pair
        BY <4>1 DEF Ratings!Pair
      <4>3. DOMAIN score' = Ratings(c)!Pair  BY <1>t, <4>1
      <4>4. \A x \in c.Customer : next[<<x, k[2]>>] = own[<<x, k[2]>>]
        BY <1>t, <3>3, <4>1, <4>2, <4>3
      <4> HIDE DEF k, o, own, next
      <4>5. Ratings(c)!AggregateOf(next, k[2]) = Ratings(c)!AggregateOf(own, k[2])  BY <4>4, SameScores
      <4> QED  BY <2>1, <2>2, <3>3, <4>5 DEF k
    <3> QED  BY <3>1, <3>2, <3>4
  <2>4. CASE ~\E q \in c.Web : Ratings(c)!WriteProfile(q)
    <3>1. UNCHANGED <<score, average>>  BY <1>quiet, <2>4
    <3>2. CASE rating'[p] = rating[p]  BY <2>1, <2>2, <3>1, <3>2
    <3>3. CASE Ratings(c)!ReadRows(p)
      <4> DEFINE r == rating[p]
      <4>1. rating'[p] = [at |-> "aggregated", key |-> r.key, score |-> r.score, on |-> r.on,
                          result |-> Ratings(c)!AggregateOf(Ratings(c)!Seen(r), r.key[2])]
        BY <1>t, <3>3 DEF Ratings!ReadRows
      <4>2. Ratings(c)!Seen(r) = own  BY DEF Ratings!Seen
      <4>3. next = own  BY <3>1, <4>1
      <4> HIDE DEF own, next
      <4>4. rating'[p].result = Ratings(c)!AggregateOf(own, r.key[2]) /\ rating'[p].key = r.key  BY <4>1, <4>2
      <4> QED  BY <2>1, <4>3, <4>4
    <3>4. CASE rating'[p] # rating[p] /\ ~Ratings(c)!ReadRows(p)
      <4>1. rating'[p].at # "aggregated"
        <5>1. ASSUME NEW q \in c.Web, NEW k \in Ratings(c)!Pair, NEW n \in 1..c.MaxScore, Ratings(c)!Upsert(q, k, n)
              PROVE  rating'[p] = rating[p] \/ rating'[p].at = "upserted"
          BY <1>t, <5>1 DEF Ratings!Upsert
        <5>2. ASSUME NEW q \in c.Web, Ratings(c)!ReadRows(q) PROVE q = p \/ rating'[p] = rating[p]
          BY <1>t, <5>2 DEF Ratings!ReadRows
        <5>3. ASSUME NEW q \in c.Web, Ratings(c)!Crash(q) PROVE rating'[p] = rating[p] \/ rating'[p].at = "idle"
          BY <1>t, <5>3 DEF Ratings!Crash
        <5>4. CASE UNCHANGED rating  BY <3>4, <5>4
        <5> QED
          BY <2>4, <3>4, <5>1, <5>2, <5>3, <5>4
          DEF Ratings!Next, Ratings!RateNext, Ratings!Start, Ratings!Count, Ratings!Store, Ratings!End,
              Ratings!Midnight, Ratings!ratingVars, Ratings!vars
      <4> QED  BY <2>1, <4>1
    <3> QED  BY <3>2, <3>3, <3>4
  <2> QED  BY <2>3, <2>4
<1> QED  BY <1>1, <1>2, <1>3 DEF Ratings!AverageDriftsByOverlap

-----------------------------------------------------------------------------
(* The types of the ratings                                                *)

\* What a run has loaded, and what it is about to store.
RollupTyped(c, r) ==
  /\ r.at \in {"idle", "run", "store"}
  /\ r.at \in {"run", "store"} =>
       /\ r.day \in Ratings(c)!Day /\ r.todo \subseteq c.Business
       /\ r.loaded \in [c.Business -> Ratings(c)!Aggregate]
  /\ r.at = "store" =>
       r.business \in c.Business /\ r.metrics \in [new : Nat, average : Ratings(c)!Aggregate]

\* The types of the ratings; what a request has aggregated, and what the rollup has loaded.
RatingTyped(c) ==
  /\ Ratings(c)!TypeOK
  /\ DOMAIN stats = c.Business \X Ratings(c)!Day /\ DOMAIN rollup = c.Celery
  /\ \A p \in c.Web : rating[p].at = "aggregated" => rating[p].result \in Ratings(c)!Aggregate
  /\ \A w \in c.Celery : RollupTyped(c, rollup[w])

\* Nobody has rated yet.
LEMMA RatingTypedInit ==
  ASSUME NEW c, Ratings(c)!Assumptions, Ratings(c)!Init PROVE RatingTyped(c)
<1>1. Ratings(c)!Unrated \in Ratings(c)!Aggregate  BY DEF Ratings!Unrated, Ratings!Aggregate
<1>2. today \in Ratings(c)!Day /\ 0 \in 0..c.MaxScore
  BY DEF Ratings!Assumptions, Ratings!Init, Ratings!Day
<1>3. (\A p \in c.Web : rating[p].at = "idle") /\ (\A w \in c.Celery : rollup[w].at = "idle")
  BY DEF Ratings!Init, Ratings!Idle
<1> QED  BY <1>1, <1>2, <1>3 DEF Ratings!Init, RatingTyped, RollupTyped, Ratings!TypeOK

\* An aggregate of ratings is a sum and a count.
LEMMA AggregateTyped ==
  ASSUME NEW c, Ratings(c)!Assumptions, NEW t \in [Ratings(c)!Pair -> 0..c.MaxScore], NEW b \in c.Business
  PROVE  Ratings(c)!AggregateOf(t, b) \in Ratings(c)!Aggregate
<1> DEFINE S == {d \in c.Customer : t[<<d, b>>] > 0}
           f == [x \in S |-> t[<<x, b>>]]
<1>1. IsFiniteSet(S)  BY RatersFinite, FS_Subset
<1>2. f \in [S -> Nat]
  <2>1. \A x \in S : t[<<x, b>>] \in 0..c.MaxScore  BY DEF Ratings!Pair
  <2>2. c.MaxScore \in Nat  BY DEF Ratings!Assumptions
  <2> QED  BY <2>1, <2>2
<1>3. Cardinality(S) \in Nat  BY <1>1, FS_CardinalityType
<1>4. Ratings(c)!AggregateOf(t, b) = [sum |-> Ratings(c)!SumFunction(f), count |-> Ratings(c)!Cardinality(DOMAIN f)]
  BY DEF Ratings!AggregateOf
<1>5. Ratings(c)!Cardinality(DOMAIN f) = Cardinality(S)  BY RatersCardinality
<1> HIDE DEF f, S
<1>6. Ratings(c)!SumFunction(f) \in Nat  BY <1>1, <1>2, SumNat
<1> QED  BY <1>3, <1>4, <1>5, <1>6 DEF Ratings!Aggregate

\* Every step keeps the types.
LEMMA RatingTypedStep ==
  ASSUME NEW c, Ratings(c)!Assumptions, RatingTypes(c), RatingTypes(c)', RatingTyped(c), Ratings(c)!Next
  PROVE  RatingTyped(c)'
<1> USE DEF RatingTyped, Ratings!TypeOK, Ratings!Idle
<1>d. c.MaxScore \in Nat \ {0} /\ c.MaxDay \in Nat /\ DOMAIN rating = c.Web
  BY DEF Ratings!Assumptions, RatingTypes
<1>1. ASSUME NEW p \in c.Web, NEW k \in Ratings(c)!Pair, NEW n \in 1..c.MaxScore, Ratings(c)!Upsert(p, k, n)
      PROVE  RatingTyped(c)'
  BY <1>1, <1>d DEF Ratings!Upsert, Ratings!LockUpsert, Ratings!statVars
<1>2. ASSUME NEW p \in c.Web, Ratings(c)!ReadRows(p) PROVE RatingTyped(c)'
  <2> DEFINE r == rating[p]
  <2>1. r.key \in Ratings(c)!Pair /\ r.score \in 0..c.MaxScore
    BY <1>2, <1>d DEF Ratings!ReadRows, RatingTypes
  <2>2. Ratings(c)!Seen(r) \in [Ratings(c)!Pair -> 0..c.MaxScore]  BY <2>1 DEF Ratings!Seen
  <2>3. r.key[2] \in c.Business  BY <2>1 DEF Ratings!Pair
  <2>4. Ratings(c)!AggregateOf(Ratings(c)!Seen(r), r.key[2]) \in Ratings(c)!Aggregate
    BY <2>2, <2>3, AggregateTyped
  <2>5. /\ rating' = [rating EXCEPT ![p] = [at |-> "aggregated", key |-> r.key, score |-> r.score, on |-> r.on,
                                            result |-> Ratings(c)!AggregateOf(Ratings(c)!Seen(r), r.key[2])]]
        /\ UNCHANGED <<today, score, born, average, ratingLock, stats, rollup, beaten>>
    BY <1>2 DEF Ratings!ReadRows, Ratings!statVars
  <2> HIDE DEF Ratings!AggregateOf, Ratings!Seen
  <2> QED  BY <2>4, <2>5, <1>d
<1>3. ASSUME NEW p \in c.Web, Ratings(c)!WriteProfile(p) PROVE RatingTyped(c)'
  <2> DEFINE r == rating[p]
  <2>1. /\ r.at = "aggregated" /\ r.key \in Ratings(c)!Pair /\ r.score \in 0..c.MaxScore
        /\ r.on \in Ratings(c)!Day /\ r.result \in Ratings(c)!Aggregate
    BY <1>3, <1>d DEF Ratings!WriteProfile, RatingTypes, Ratings!Day
  <2>2. r.key[2] \in c.Business  BY <2>1 DEF Ratings!Pair
  <2> QED  BY <1>3, <1>d, <2>1, <2>2 DEF Ratings!WriteProfile, Ratings!statVars
<1>4. ASSUME NEW p \in c.Web, Ratings(c)!Crash(p) PROVE RatingTyped(c)'
  BY <1>4, <1>d DEF Ratings!Crash, Ratings!statVars
<1>5. CASE Ratings(c)!Midnight
  BY <1>5, <1>d DEF Ratings!Midnight, Ratings!ratingVars, Ratings!statVars, RatingTypes, Ratings!Day
\* A step of the rollup: what w holds is typed, and the others hold what they held.
<1>roll. ASSUME NEW w \in c.Celery, NEW r, rollup' = [rollup EXCEPT ![w] = r], RollupTyped(c, r),
                UNCHANGED <<today, score, born, average, ratingLock, rating>>,
                \A k \in c.Business \X Ratings(c)!Day :
                  stats'[k] = None \/ stats'[k] \in [new : Nat, average : Ratings(c)!Aggregate],
                DOMAIN stats' = DOMAIN stats, beaten' \subseteq c.Business \X Ratings(c)!Day
         PROVE  RatingTyped(c)'
  <2>1. \A v \in c.Celery : rollup'[v] = r \/ rollup'[v] = rollup[v]  BY <1>roll
  <2>2. \A v \in c.Celery : RollupTyped(c, rollup'[v])  BY <2>1, <1>roll
  <2>3. \A v \in c.Celery : rollup'[v].at \in {"idle", "run", "store"}  BY <2>2 DEF RollupTyped
  <2> QED  BY <2>2, <2>3, <1>d, <1>roll
<1>same. UNCHANGED <<stats, beaten>> =>
           /\ \A k \in c.Business \X Ratings(c)!Day :
                stats'[k] = None \/ stats'[k] \in [new : Nat, average : Ratings(c)!Aggregate]
           /\ DOMAIN stats' = DOMAIN stats /\ beaten' \subseteq c.Business \X Ratings(c)!Day
  OBVIOUS
<1>6. ASSUME NEW w \in c.Celery, NEW d \in Ratings(c)!Day, NEW beat \in BOOLEAN, Ratings(c)!Start(w, d, beat)
      PROVE  RatingTyped(c)'
  <2> DEFINE r == [at |-> "run", day |-> d, beat |-> beat, loaded |-> average, todo |-> c.Business]
  <2>1. rollup' = [rollup EXCEPT ![w] = r] /\ UNCHANGED <<today, score, born, average, ratingLock, rating, stats, beaten>>
    BY <1>6 DEF Ratings!Start, Ratings!ratingVars
  <2>2. RollupTyped(c, r)  BY DEF RollupTyped
  <2> HIDE DEF r
  <2> QED  BY <2>1, <2>2, <1>same, <1>roll
<1>7. ASSUME NEW w \in c.Celery, Ratings(c)!End(w) PROVE RatingTyped(c)'
  <2>1. /\ rollup' = [rollup EXCEPT ![w] = [at |-> "idle"]]
        /\ UNCHANGED <<today, score, born, average, ratingLock, rating, stats, beaten>>
    BY <1>7 DEF Ratings!End, Ratings!ratingVars
  <2>2. RollupTyped(c, [at |-> "idle"])  BY DEF RollupTyped
  <2> QED  BY <2>1, <2>2, <1>same, <1>roll
<1>8. ASSUME NEW w \in c.Celery, NEW b \in c.Business, Ratings(c)!Count(w, b) PROVE RatingTyped(c)'
  <2> DEFINE r == rollup[w]
             s == [at |-> "store", day |-> r.day, beat |-> r.beat, loaded |-> r.loaded, todo |-> r.todo \ {b},
                   business |-> b, metrics |-> Ratings(c)!Metrics(r, b), final |-> Ratings(c)!Final(r.day)]
  <2>1. r.at = "run" /\ RollupTyped(c, r)  BY <1>8 DEF Ratings!Count
  <2>2. Ratings(c)!NewOn(b, r.day) \in Nat
    <3> DEFINE S == {x \in c.Customer : born[<<x, b>>] = r.day}
    <3>1. IsFiniteSet(S)  BY RatersFinite, FS_Subset
    <3>2. Cardinality(S) \in Nat  BY <3>1, FS_CardinalityType
    <3> QED  BY <3>2, RatersCardinality DEF Ratings!NewOn
  <2>3. Ratings(c)!Metrics(r, b) \in [new : Nat, average : Ratings(c)!Aggregate]
    BY <2>1, <2>2 DEF Ratings!Metrics, RollupTyped
  <2>4. rollup' = [rollup EXCEPT ![w] = s] /\ UNCHANGED <<today, score, born, average, ratingLock, rating, stats, beaten>>
    BY <1>8 DEF Ratings!Count, Ratings!ratingVars
  <2>5. RollupTyped(c, s)  BY <2>1, <2>3 DEF RollupTyped
  <2> HIDE DEF s, r
  <2> QED  BY <2>4, <2>5, <1>same, <1>roll
<1>9. ASSUME NEW w \in c.Celery, Ratings(c)!Store(w) PROVE RatingTyped(c)'
  <2> DEFINE r == rollup[w]
             s == [at |-> "run", day |-> r.day, beat |-> r.beat, loaded |-> r.loaded, todo |-> r.todo]
  <2>1. r.at = "store" /\ RollupTyped(c, r)  BY <1>9 DEF Ratings!Store
  <2>2. /\ rollup' = [rollup EXCEPT ![w] = s] /\ UNCHANGED <<today, score, born, average, ratingLock, rating>>
        /\ stats' = stats \/ stats' = [stats EXCEPT ![<<r.business, r.day>>] = r.metrics]
        /\ beaten' = beaten \/ beaten' = beaten \cup {<<r.business, r.day>>}
    BY <1>9 DEF Ratings!Store, Ratings!ratingVars
  <2>3. RollupTyped(c, s)  BY <2>1 DEF RollupTyped
  <2>4. r.business \in c.Business /\ r.day \in Ratings(c)!Day /\ r.metrics \in [new : Nat, average : Ratings(c)!Aggregate]
    BY <2>1 DEF RollupTyped
  <2> HIDE DEF s, r
  <2>5. /\ \A k \in c.Business \X Ratings(c)!Day :
             stats'[k] = None \/ stats'[k] \in [new : Nat, average : Ratings(c)!Aggregate]
        /\ DOMAIN stats' = DOMAIN stats /\ beaten' \subseteq c.Business \X Ratings(c)!Day
    BY <2>2, <2>4
  <2> QED  BY <2>2, <2>3, <2>5, <1>roll
<1> HIDE DEF RatingTyped, Ratings!TypeOK, Ratings!Idle
<1> QED
  BY <1>1, <1>2, <1>3, <1>4, <1>5, <1>6, <1>7, <1>8, <1>9 DEF Ratings!Next, Ratings!RateNext

\* A step of another component leaves the types of the ratings alone.
LEMMA RatingTypedStutter ==
  ASSUME NEW c, RatingTyped(c), UNCHANGED Ratings(c)!vars PROVE RatingTyped(c)'
  BY DEF RatingTyped, RollupTyped, Ratings!TypeOK, Ratings!vars

-----------------------------------------------------------------------------
(* Stories                                                                 *)

\* A story that is there.
ARow == [state : {"live"}, status : {"pending_review", "published", "rejected"},
         expires : Nat, archived : BOOLEAN]

\* Tables and requests have their types.
StoryTypes(c) ==
  /\ now \in Nat
  /\ DOMAIN story = c.Story /\ \A s \in c.Story : story[s] \in ARow \/ story[s] = Stories(c)!Absent
  /\ DOMAIN storyQueue = c.Story
  /\ \A s \in c.Story :
       \/ storyQueue[s] = Stories(c)!NotQueued
       \/ storyQueue[s] \in [status : {"pending", "approved", "rejected"}, created : Nat]
  /\ DOMAIN views = c.Viewer \X c.Story
  /\ DOMAIN storyPc = c.Web /\ DOMAIN storyItem = c.Web /\ DOMAIN storyCopy = c.Web /\ DOMAIN who = c.Web
  /\ \A p \in c.Web :
       /\ storyPc[p] # "idle" => storyItem[p] \in c.Story
       /\ storyPc[p] = "insert" => who[p] \in c.Viewer

\* The watch runs in every period: what it has not flagged is younger than Sla when it has
\* run and younger than a period more when it has not.  A copy was read from the row.
StoryInv(c) ==
  /\ StoryTypes(c)
  /\ \A s \in c.Story : storyQueue[s].status = "pending" /\ s \notin flagged =>
       /\ now - storyQueue[s].created <= c.Sla + 1
       /\ watched => now - storyQueue[s].created <= c.Sla
  /\ \A s \in c.Story : storyQueue[s] # Stories(c)!NotQueued => story[s] \in ARow
  /\ \A s \in c.Story : story[s] \in ARow /\ story[s].archived => story[s].expires <= now
  /\ \A p \in c.Web :
       /\ storyPc[p] = "enqueue" => story[storyItem[p]] \in ARow
       /\ storyPc[p] = "open" => storyQueue[storyItem[p]] # Stories(c)!NotQueued
       /\ storyPc[p] \in {"approved", "rejected"} =>
            /\ storyQueue[storyItem[p]] # Stories(c)!NotQueued
            /\ storyCopy[p] \in ARow
            /\ storyCopy[p].archived => storyCopy[p].expires <= now
  /\ \A k \in c.Viewer \X c.Story : views[k] \in {0, 1}

\* There is no story yet.
LEMMA StoryInit ==
  ASSUME NEW c, Stories(c)!Init PROVE StoryInv(c)
<1>1. /\ \A s \in c.Story : storyQueue[s] = Stories(c)!NotQueued /\ story[s] = Stories(c)!Absent
      /\ \A p \in c.Web : storyPc[p] = "idle"
      /\ StoryTypes(c)
  BY DEF Stories!Init, StoryTypes
<1>2. Stories(c)!Absent \notin ARow /\ Stories(c)!NotQueued.status # "pending"
  BY DEF Stories!Absent, Stories!NotQueued, ARow
<1>3. \A k \in c.Viewer \X c.Story : views[k] \in {0, 1}  BY DEF Stories!Init
<1> QED  BY <1>1, <1>2, <1>3 DEF StoryInv

\* Every step keeps the stories flagged, archived and counted as they should be.
LEMMA StoryStep ==
  ASSUME NEW c, Stories(c)!Assumptions, StoryInv(c), Stories(c)!Next PROVE StoryInv(c)'
<1>0. /\ Stories(c)!Absent \notin ARow /\ Stories(c)!NotQueued.status # "pending"
      /\ c.Ttl \in Nat /\ c.Sla \in Nat
  BY DEF Stories!Absent, Stories!NotQueued, ARow, Stories!Assumptions
<1> USE <1>0 DEF StoryInv, StoryTypes
<1>1. CASE Stories(c)!CheckModerationSla
  BY <1>1 DEF Stories!CheckModerationSla, Stories!Breached, Stories!local
<1>2. CASE Stories(c)!ExpireStaleStories
  <2>1. \A s \in c.Story : \/ story'[s] = story[s]
                           \/ /\ story[s] \in ARow /\ story'[s] \in ARow
                              /\ story'[s].expires <= now
    <3>1. ASSUME NEW r \in ARow
          PROVE  [r EXCEPT !.archived = TRUE] \in ARow /\ [r EXCEPT !.archived = TRUE].expires = r.expires
      BY <3>1 DEF ARow
    <3>2. ASSUME NEW s \in c.Story
          PROVE  \/ story'[s] = story[s]
                 \/ /\ story[s] \in ARow /\ story[s].expires <= now
                    /\ story'[s] = [story[s] EXCEPT !.archived = TRUE]
      BY <1>2, <3>2 DEF Stories!ExpireStaleStories, Stories!ToArchive, Stories!Expired, Stories!Exists
    <3> QED
      <4>1. TAKE s \in c.Story
      <4>2. CASE story'[s] = story[s]  BY <4>2
      <4>3. CASE /\ story[s] \in ARow /\ story[s].expires <= now
                 /\ story'[s] = [story[s] EXCEPT !.archived = TRUE]
        <5>1. /\ [story[s] EXCEPT !.archived = TRUE] \in ARow
              /\ [story[s] EXCEPT !.archived = TRUE].expires = story[s].expires
          BY <3>1, <4>3, Zenon
        <5>2. story'[s] \in ARow /\ story'[s].expires = story[s].expires  BY <4>3, <5>1, Zenon
        <5> QED  BY <4>3, <5>2
      <4> QED  BY <3>2, <4>2, <4>3
  <2>2. DOMAIN story' = c.Story  BY <1>2 DEF Stories!ExpireStaleStories
  <2>3. UNCHANGED <<now, storyQueue, flagged, watched, views, storyLock, storyPc, storyItem, storyCopy, who>>
    BY <1>2 DEF Stories!ExpireStaleStories, Stories!local
  <2>4. \A s \in c.Story : story'[s] \in ARow <=> story[s] \in ARow  BY <2>1
  <2>5. StoryTypes(c)'  BY <2>1, <2>2, <2>3
  <2>6. \A s \in c.Story : story'[s] \in ARow /\ story'[s].archived => story'[s].expires <= now
    BY <2>1
  <2> QED  BY <2>3, <2>4, <2>5, <2>6
<1>3. CASE Stories(c)!Tick
  BY <1>3 DEF Stories!Tick, Stories!local, ARow
<1>4. ASSUME NEW p \in c.Web, NEW s \in c.Story, Stories(c)!Create(p, s) PROVE StoryInv(c)'
  BY <1>4 DEF Stories!Create, Stories!Goto, Stories!Exists, ARow
<1>5. ASSUME NEW p \in c.Web, Stories(c)!Enqueue(p) PROVE StoryInv(c)'
  BY <1>5 DEF Stories!Enqueue, Stories!Done, Stories!Goto, Stories!NotQueued
<1>6. ASSUME NEW p \in c.Web, NEW s \in c.Story, Stories(c)!Open(p, s) PROVE StoryInv(c)'
  BY <1>6 DEF Stories!Open, Stories!Goto
<1>7. ASSUME NEW p \in c.Web, Stories(c)!LockAndLoad(p) PROVE StoryInv(c)'
  BY <1>7 DEF Stories!LockAndLoad, Stories!Done, Stories!Goto
<1>8. ASSUME NEW p \in c.Web, Stories(c)!Decide(p) PROVE StoryInv(c)'
  BY <1>8 DEF Stories!Decide, Stories!Done, Stories!Goto, Stories!OnSave, Stories!NotQueued, ARow
<1>9. ASSUME NEW p \in c.Web, NEW s \in c.Story, NEW v \in c.Viewer, Stories(c)!Watch(p, s, v)
      PROVE  StoryInv(c)'
  BY <1>9 DEF Stories!Watch, Stories!Goto
<1>10. ASSUME NEW p \in c.Web, Stories(c)!Insert(p) PROVE StoryInv(c)'
  BY <1>10 DEF Stories!Insert, Stories!Done, Stories!Goto, Stories!AfterInsert
<1>11. ASSUME NEW p \in c.Web, Stories(c)!Crash(p) PROVE StoryInv(c)'
  BY <1>11 DEF Stories!Crash, Stories!Done, Stories!Goto
<1> QED  BY <1>1, <1>2, <1>3, <1>4, <1>5, <1>6, <1>7, <1>8, <1>9, <1>10, <1>11
  DEF Stories!Next, Stories!RequestStep

\* A step of another component leaves the stories alone.
LEMMA StoryStutter ==
  ASSUME NEW c, StoryInv(c), UNCHANGED Stories(c)!vars PROVE StoryInv(c)'
  BY DEF StoryInv, StoryTypes, Stories!vars, Stories!local

\* The invariant is stronger than the three properties.
LEMMA StoriesShow ==
  ASSUME NEW c, Stories(c)!Assumptions, StoryInv(c)
  PROVE  Stories(c)!NoSilentExpiry /\ Stories(c)!ArchivedIsExpired /\ Stories(c)!OneViewPerViewer
<1>1. Stories(c)!NoSilentExpiry
  BY DEF StoryInv, StoryTypes, Stories!NoSilentExpiry, Stories!Assumptions, Stories!NotQueued
<1>2. Stories(c)!ArchivedIsExpired
  BY DEF StoryInv, StoryTypes, Stories!ArchivedIsExpired, Stories!Archived, Stories!Expired, Stories!Exists
<1>3. Stories(c)!OneViewPerViewer
  BY DEF StoryInv, Stories!OneViewPerViewer
<1> QED  BY <1>1, <1>2, <1>3

-----------------------------------------------------------------------------
(* The types of the stories                                                *)

\* There is no story and no request yet.
LEMMA StoryTypesInit ==
  ASSUME NEW c, Stories(c)!Assumptions, Stories(c)!Init PROVE Stories(c)!TypeOK
<1>1. now = 0 /\ watched = FALSE /\ flagged = {}  BY DEF Stories!Init
<1>2. 0 \in Stories(c)!Time  BY DEF Stories!Assumptions, Stories!Time
<1>3. /\ story = [s \in c.Story |-> Stories(c)!Absent]
      /\ storyQueue = [s \in c.Story |-> Stories(c)!NotQueued]
      /\ views = [k \in c.Viewer \X c.Story |-> 0]
      /\ storyLock = [s \in c.Story |-> None]
      /\ storyPc = [p \in c.Web |-> "idle"]
      /\ storyItem = [p \in c.Web |-> None]
      /\ storyCopy = [p \in c.Web |-> Stories(c)!Absent]
      /\ who = [p \in c.Web |-> None]
  BY DEF Stories!Init
<1> HIDE DEF Stories!Absent, Stories!NotQueued
<1> QED  BY <1>1, <1>2, <1>3 DEF Stories!TypeOK

\* What a decision saves is a story, and what it decides is in the queue.
LEMMA StoryTypesStep ==
  ASSUME NEW c, Stories(c)!Assumptions, StoryInv(c), Stories(c)!TypeOK, Stories(c)!Next
  PROVE  Stories(c)!TypeOK'
<1>0. c.Ttl \in Nat /\ c.MaxTime \in Nat  BY DEF Stories!Assumptions
<1> USE <1>0 DEF Stories!TypeOK, Stories!Time
<1>1. CASE Stories(c)!CheckModerationSla
  BY <1>1 DEF Stories!CheckModerationSla, Stories!local
<1>2. CASE Stories(c)!ExpireStaleStories
  <2>1. ASSUME NEW s \in c.Story PROVE story'[s] \in Stories(c)!Row \cup {Stories(c)!Absent}
    <3>1. story[s] \in Stories(c)!Row => [story[s] EXCEPT !.archived = TRUE] \in Stories(c)!Row
      BY DEF Stories!Row
    <3>2. story'[s] \in {story[s], [story[s] EXCEPT !.archived = TRUE]}
      BY <1>2 DEF Stories!ExpireStaleStories
    <3>3. story[s] = Stories(c)!Absent => story'[s] = story[s]
      BY <1>2 DEF Stories!ExpireStaleStories, Stories!ToArchive, Stories!Expired, Stories!Exists
    <3> QED  BY <3>1, <3>2, <3>3
  <2>2. story' = [s \in c.Story |-> story'[s]]  BY <1>2 DEF Stories!ExpireStaleStories
  <2>3. story' \in [c.Story -> Stories(c)!Row \cup {Stories(c)!Absent}]  BY <2>1, <2>2
  <2>4. UNCHANGED <<now, storyQueue, flagged, watched, views, storyLock, storyPc, storyItem, storyCopy, who>>
    BY <1>2 DEF Stories!ExpireStaleStories, Stories!local
  <2> QED  BY <2>3, <2>4
<1>3. CASE Stories(c)!Tick
  <2>1. now' \in 0..c.MaxTime /\ watched' = FALSE  BY <1>3 DEF Stories!Tick
  <2>2. UNCHANGED <<story, storyQueue, flagged, views, storyLock, storyPc, storyItem, storyCopy, who>>
    BY <1>3 DEF Stories!Tick, Stories!local
  <2> QED  BY <2>1, <2>2
<1> USE DEF Stories!Goto, Stories!Done
<1>4. ASSUME NEW p \in c.Web, NEW s \in c.Story, Stories(c)!Create(p, s) PROVE Stories(c)!TypeOK'
  BY <1>4 DEF Stories!Create, Stories!Row
<1>5. ASSUME NEW p \in c.Web, Stories(c)!Enqueue(p) PROVE Stories(c)!TypeOK'
  <2>1. storyItem[p] \in c.Story  BY <1>5 DEF Stories!Enqueue, StoryInv, StoryTypes
  <2> QED  BY <1>5, <2>1 DEF Stories!Enqueue, Stories!QueueRow
<1>6. ASSUME NEW p \in c.Web, NEW s \in c.Story, Stories(c)!Open(p, s) PROVE Stories(c)!TypeOK'
  BY <1>6 DEF Stories!Open
<1>7. ASSUME NEW p \in c.Web, Stories(c)!LockAndLoad(p) PROVE Stories(c)!TypeOK'
  <2>1. storyItem[p] \in c.Story  BY <1>7 DEF Stories!LockAndLoad, StoryInv, StoryTypes
  <2> QED  BY <1>7, <2>1 DEF Stories!LockAndLoad
<1>8. ASSUME NEW p \in c.Web, Stories(c)!Decide(p) PROVE Stories(c)!TypeOK'
  <2>1. storyPc[p] \in {"approved", "rejected"} /\ storyItem[p] \in c.Story
    BY <1>8 DEF Stories!Decide, StoryInv, StoryTypes
  <2>2. storyCopy[p] # Stories(c)!Absent /\ storyQueue[storyItem[p]] # Stories(c)!NotQueued
    BY <2>1 DEF StoryInv, ARow, Stories!Absent
  <2>3. storyCopy[p] \in Stories(c)!Row /\ storyQueue[storyItem[p]] \in Stories(c)!QueueRow  BY <2>1, <2>2
  <2> QED  BY <1>8, <2>1, <2>3 DEF Stories!Decide, Stories!OnSave, Stories!Row, Stories!QueueRow
<1>9. ASSUME NEW p \in c.Web, NEW s \in c.Story, NEW v \in c.Viewer, Stories(c)!Watch(p, s, v)
      PROVE  Stories(c)!TypeOK'
  BY <1>9 DEF Stories!Watch
<1>10. ASSUME NEW p \in c.Web, Stories(c)!Insert(p) PROVE Stories(c)!TypeOK'
  BY <1>10 DEF Stories!Insert, Stories!AfterInsert
<1>11. ASSUME NEW p \in c.Web, Stories(c)!Crash(p) PROVE Stories(c)!TypeOK'
  BY <1>11 DEF Stories!Crash
<1> QED  BY <1>1, <1>2, <1>3, <1>4, <1>5, <1>6, <1>7, <1>8, <1>9, <1>10, <1>11
  DEF Stories!Next, Stories!RequestStep

\* A step of another component leaves the types of the stories alone.
LEMMA StoryTypesStutter ==
  ASSUME NEW c, Stories(c)!TypeOK, UNCHANGED Stories(c)!vars PROVE Stories(c)!TypeOK'
  BY DEF Stories!TypeOK, Stories!vars, Stories!local

-----------------------------------------------------------------------------
(* The components, for every size they can have                            *)

\* A story that waits for a lifetime has been flagged, an archived one has expired, and a
\* viewer is counted once (stories/tasks.py, stories/views.py, moderation/tasks.py).
THEOREM StoriesAreTrue ==
  ASSUME NEW CONSTANT c, Stories(c)!Assumptions
  PROVE  Stories(c)!Spec =>
           [](Stories(c)!NoSilentExpiry /\ Stories(c)!ArchivedIsExpired /\ Stories(c)!OneViewPerViewer)
<1>1. Stories(c)!Init => StoryInv(c)  BY StoryInit
<1>2. StoryInv(c) /\ [Stories(c)!Next]_(Stories(c)!vars) => StoryInv(c)'  BY StoryStep, StoryStutter
<1>3. StoryInv(c) => Stories(c)!NoSilentExpiry /\ Stories(c)!ArchivedIsExpired /\ Stories(c)!OneViewPerViewer
  BY StoriesShow
<1> QED  BY <1>1, <1>2, <1>3, PTL DEF Stories!Spec

\* However many rate at once, an average stops being exact only at the COMMIT of a request
\* that missed what another one committed after it had read the rows
\* (ratings/services.py:14-17).
THEOREM AveragesDriftByOverlap ==
  ASSUME NEW CONSTANT c, Ratings(c)!Assumptions
  PROVE  Ratings(c)!Spec => [][Ratings(c)!AverageDriftsByOverlap]_(Ratings(c)!vars)
<1>1. Ratings(c)!Init => RatingTypes(c)  BY RatingTypesInit
<1>2. RatingTypes(c) /\ [Ratings(c)!Next]_(Ratings(c)!vars) => RatingTypes(c)'
  BY RatingTypesStep, RatingTypesStutter
<1>3. RatingTypes(c) /\ [Ratings(c)!Next]_(Ratings(c)!vars)
        => [Ratings(c)!AverageDriftsByOverlap]_(Ratings(c)!vars)
  BY AverageStep
<1> QED  BY <1>1, <1>2, <1>3, PTL DEF Ratings!Spec

\* However many rate at once, nobody is counted twice, and what Beat stored for a day stays
\* the number of that day's first ratings (ratings/services.py:55, analytics/tasks.py:8-10).
THEOREM RatersCountOnce ==
  ASSUME NEW CONSTANT c, Ratings(c)!Assumptions
  PROVE  Ratings(c)!Spec => [](Ratings(c)!CountsNobodyTwice /\ Ratings(c)!DayComplete)
<1> DEFINE Inv == CountsInv(c) /\ DaysInv(c)
<1>1. Ratings(c)!Init => Inv  BY CountsInit, DaysInit
<1>2. Inv /\ [Ratings(c)!Next]_(Ratings(c)!vars) => Inv'
  BY CountsStep, CountsStutter, DaysStep, DaysStutter
<1>3. Inv => Ratings(c)!CountsNobodyTwice /\ Ratings(c)!DayComplete  BY CountsOnce, DaysComplete
<1> QED  BY <1>1, <1>2, <1>3, PTL DEF Ratings!Spec

\* An account has one profile, whatever requests overlap (businesses/services.py:49).
THEOREM ProfilesAreOne ==
  ASSUME NEW CONSTANT c PROVE Profiles(c)!Spec => []Profiles(c)!OneProfile
<1>1. Profiles(c)!Init => RowsInv(c)  BY RowsInit
<1>2. RowsInv(c) /\ [Profiles(c)!Next]_(Profiles(c)!vars) => RowsInv(c)'  BY RowsStep, RowsStutter
<1>3. RowsInv(c) => Profiles(c)!OneProfile  BY DEF RowsInv
<1> QED  BY <1>1, <1>2, <1>3, PTL DEF Profiles!Spec

\* A row comes to name a photo that is gone, or about to go, only when a whole-row save
\* brings an old name back (businesses/services.py:116, 156).
THEOREM PhotosGoBySaves ==
  ASSUME NEW CONSTANT c
  PROVE  Profiles(c)!Init /\ [][Profiles(c)!PhotoNext]_(Profiles(c)!vars)
           => [][Profiles(c)!PhotoLostOnlyBySaves]_(Profiles(c)!vars)
<1>1. Profiles(c)!Init => FilesInv(c)  BY FilesInit
<1>2. FilesInv(c) /\ [Profiles(c)!PhotoNext]_(Profiles(c)!vars) => FilesInv(c)'  BY FilesStep, FilesStutter
<1>3. FilesInv(c) /\ [Profiles(c)!PhotoNext]_(Profiles(c)!vars)
        => [Profiles(c)!PhotoLostOnlyBySaves]_(Profiles(c)!vars)
  BY PhotosLost
<1> QED  BY <1>1, <1>2, <1>3, PTL

\* A cached page becomes wrong only by a save that owes its delete, by what drops nothing,
\* or by a reader that another process has overtaken (businesses/views.py:160,
\* businesses/signals.py:8).
THEOREM PagesAreOwed ==
  ASSUME NEW CONSTANT c
  PROVE  Profiles(c)!PageSpec => [][Profiles(c)!StalePageIsOwed]_(Profiles(c)!vars)
<1>1. Profiles(c)!Init => PagesInv(c)  BY PagesInit
<1>2. PagesInv(c) /\ [Profiles(c)!PageNext]_(Profiles(c)!vars) => PagesInv(c)'  BY PagesStep, PagesStutter
<1>3. PagesInv(c) /\ [Profiles(c)!PageNext]_(Profiles(c)!vars)
        => [Profiles(c)!StalePageIsOwed]_(Profiles(c)!vars)
  BY PagesOwed
<1> QED  BY <1>1, <1>2, <1>3, PTL DEF Profiles!PageSpec

\* No deletion leaves a reference behind, and an active category is served unless its
\* active ancestors never end (categories/models.py:44, categories/services.py:56).
THEOREM CategoriesAreServed ==
  ASSUME NEW CONSTANT c, Categories(c)!Assumptions
  PROVE  Categories(c)!Spec => [](Categories(c)!RefsExist /\ Categories(c)!OnlyEndlessVanish)
<1>1. Categories(c)!Init => TreeInv(c)  BY TreeInit
<1>2. TreeInv(c) /\ [Categories(c)!Next]_(Categories(c)!vars) => TreeInv(c)'  BY TreeStep, TreeStutter
<1>3. TreeInv(c) => Categories(c)!RefsExist /\ Categories(c)!OnlyEndlessVanish
  BY TreeServesAll DEF TreeInv
<1> QED  BY <1>1, <1>2, <1>3, PTL DEF Categories!Spec

\* A cached tree becomes wrong only by a reader that overlaps an Admin's transaction
\* (categories/signals.py:12).
THEOREM TreesAgeByOverlap ==
  ASSUME NEW CONSTANT c, Categories(c)!Assumptions
  PROVE  Categories(c)!Spec => [][Categories(c)!StaleTreeByOverlap]_(Categories(c)!vars)
<1>1. Categories(c)!Init => TreeInv(c)  BY TreeInit
<1>2. TreeInv(c) /\ [Categories(c)!Next]_(Categories(c)!vars) => TreeInv(c)'  BY TreeStep, TreeStutter
<1>3. TreeInv(c) /\ [Categories(c)!Next]_(Categories(c)!vars)
        => [Categories(c)!StaleTreeByOverlap]_(Categories(c)!vars)
  BY TreeStales
<1> QED  BY <1>1, <1>2, <1>3, PTL DEF Categories!Spec

\* A product stops being what its owner was told only by the save of a row that was changed
\* since it was loaded (products/serializers.py:45).
THEOREM ProductsDriftBySaves ==
  ASSUME NEW CONSTANT c, Products(c)!Assumptions
  PROVE  Products(c)!Spec => [][Products(c)!DriftsByStaleSaves]_(Products(c)!vars)
<1>1. Products(c)!Init => ShopInv(c)  BY ShopInit
<1>2. ShopInv(c) /\ [Products(c)!Next]_(Products(c)!vars) => ShopInv(c)'  BY ShopStep, ShopStutter
<1>3. ShopInv(c) /\ [Products(c)!Next]_(Products(c)!vars)
        => [Products(c)!DriftsByStaleSaves]_(Products(c)!vars)
  BY ShopDrifts
<1> QED  BY <1>1, <1>2, <1>3, PTL DEF Products!Spec

-----------------------------------------------------------------------------
(* The components together: the one that has the turn moves                *)

\* A turn lasts, and it is the component's own step that is taken in it.
LEMMA TurnLasts == [AllNext]_allVars => turn' = turn
BY DEF AllNext, allVars, ReviewTurn, StoryTurn, ReactionTurn, RatingTurn,
       ProfileTurn, CategoryTurn, ProductTurn

\* In the pipeline's turn Review takes a step of the pipeline.
LEMMA ReviewMoves ==
  ASSUME [AllNext]_allVars, turn = "pipeline" PROVE [PipelineNext]_vars
BY DEF AllNext, allVars, reviewVars, ReviewTurn, StoryTurn, ReactionTurn, RatingTurn, ProfileTurn,
       CategoryTurn, ProductTurn

\* Stories take their own step or none.
LEMMA StoriesMove ==
  ASSUME [AllNext]_allVars PROVE [Stories(Shelf)!Next]_(Stories(Shelf)!vars)
BY DEF AllNext, allVars, storyVars, Stories!vars, Stories!local, ReviewTurn, StoryTurn, ReactionTurn,
       RatingTurn, ProfileTurn, CategoryTurn, ProductTurn

\* In each rating turn the ratings take the step of that turn.
LEMMA RatingsMove ==
  ASSUME [AllNext]_allVars
  PROVE  /\ turn = "raters" => [Ratings(Raters)!RateNext]_(Ratings(Raters)!vars)
         /\ turn = "days" => [Ratings(Days)!Next]_(Ratings(Days)!vars)
BY DEF AllNext, allVars, ratingVars, Ratings!vars, ReviewTurn, StoryTurn, ReactionTurn, RatingTurn,
       ProfileTurn, CategoryTurn, ProductTurn

\* In each profile turn the profiles take the step of that turn.
LEMMA ProfilesMove ==
  ASSUME [AllNext]_allVars
  PROVE  /\ turn = "photos" => [Profiles(Photos)!PhotoNext]_(Profiles(Photos)!vars)
         /\ turn = "onboarding" => [Profiles(Onboarding)!PageNext]_(Profiles(Onboarding)!vars)
BY DEF AllNext, allVars, profileVars, Profiles!vars, ReviewTurn, StoryTurn, ReactionTurn, RatingTurn,
       ProfileTurn, CategoryTurn, ProductTurn

\* In each category turn the categories take the step of that turn.
LEMMA CategoriesMove ==
  ASSUME [AllNext]_allVars
  PROVE  /\ turn = "tree" => [Categories(Tree)!AdminNext]_(Categories(Tree)!vars)
         /\ turn = "copies" => [Categories(Copies)!Next]_(Categories(Copies)!vars)
BY DEF AllNext, allVars, categoryVars, Categories!vars, ReviewTurn, StoryTurn, ReactionTurn, RatingTurn,
       ProfileTurn, CategoryTurn, ProductTurn

\* Products take their own step or none.
LEMMA ProductsMove ==
  ASSUME [AllNext]_allVars PROVE [Products(Shop)!Next]_(Products(Shop)!vars)
BY DEF AllNext, allVars, productVars, Products!vars, ReviewTurn, StoryTurn, ReactionTurn, RatingTurn,
       ProfileTurn, CategoryTurn, ProductTurn

\* Decisions show while nobody edits; stories are flagged, archived and counted as the
\* sweeps and the requests promise.
THEOREM ModerationIsTrue == AllSpec => []ModerationHolds
<1> DEFINE Inv == (turn = "pipeline" => IInv /\ PipelineInv) /\ StoryInv(Shelf)
<1>1. AllInit => Inv
  BY InitInv, PipelineInit, StoryInit DEF AllInit
<1>2. Inv /\ [AllNext]_allVars => Inv'
  <2> SUFFICES ASSUME Inv, [AllNext]_allVars PROVE Inv'
    OBVIOUS
  <2>1. StoryInv(Shelf)'
    BY SizesFit, StoriesMove, StoryStep, StoryStutter
  <2>2. turn = "pipeline" => (IInv /\ PipelineInv)'
    BY ReviewMoves, Inductive, PipelineKeeps, PipelineIsNext
  <2> QED  BY <2>1, <2>2, TurnLasts
<1>3. Inv => ModerationHolds
  BY SizesFit, StoriesShow DEF ModerationHolds, PipelineInv
<1> QED  BY <1>1, <1>2, <1>3, PTL DEF AllSpec

\* Whatever rates at once and whenever the rollup runs: nobody is counted twice, a stored day
\* stays complete, and an average drifts only where a request missed another's commit.
THEOREM RatingsAreTrue == AllSpec => RatingsHold
<1> DEFINE Inv == /\ turn = "raters" => CountsInv(Raters)
                  /\ turn = "days" => CountsInv(Days) /\ DaysInv(Days)
<1>1. AllInit => Inv
  BY SizesFit, CountsInit, DaysInit DEF AllInit
<1>m. ASSUME [AllNext]_allVars, turn = "raters" PROVE [Ratings(Raters)!Next]_(Ratings(Raters)!vars)
  BY <1>m, RatingsMove DEF Ratings!Next
<1>2. Inv /\ [AllNext]_allVars => Inv'
  <2> SUFFICES ASSUME Inv, [AllNext]_allVars PROVE Inv'
    OBVIOUS
  <2>1. turn = "raters" => CountsInv(Raters)'
    BY SizesFit, <1>m, CountsStep, CountsStutter
  <2>2. turn = "days" => CountsInv(Days)' /\ DaysInv(Days)'
    BY SizesFit, RatingsMove, CountsStep, CountsStutter, DaysStep, DaysStutter
  <2> QED  BY <2>1, <2>2, TurnLasts
<1>3. Inv => /\ turn = "raters" => Ratings(Raters)!CountsNobodyTwice
             /\ turn = "days" => Ratings(Days)!DayComplete
  BY CountsOnce, DaysComplete
<1>4. Inv /\ [AllNext]_allVars => [turn = "raters" => Ratings(Raters)!AverageDriftsByOverlap]_ratingVars
  BY SizesFit, <1>m, AverageStep DEF CountsInv
<1> HIDE DEF Inv
<1> QED  BY <1>1, <1>2, <1>3, <1>4, PTL DEF AllSpec, RatingsHold

\* Whatever requests overlap: an account has one profile, a row loses its photo only to a
\* whole-row save, and a page that becomes wrong is owed or overtaken.
THEOREM ProfilesAreTrue == AllSpec => ProfilesHold
<1> DEFINE Inv == /\ turn = "photos" => FilesInv(Photos)
                  /\ turn = "onboarding" => PagesInv(Onboarding)
<1>1. AllInit => Inv
  BY FilesInit, PagesInit DEF AllInit
<1>2. Inv /\ [AllNext]_allVars => Inv'
  <2> SUFFICES ASSUME Inv, [AllNext]_allVars PROVE Inv'
    OBVIOUS
  <2>1. turn = "photos" => FilesInv(Photos)'
    BY ProfilesMove, FilesStep, FilesStutter
  <2>2. turn = "onboarding" => PagesInv(Onboarding)'
    BY ProfilesMove, PagesStep, PagesStutter
  <2> QED  BY <2>1, <2>2, TurnLasts
<1>3. Inv => (turn = "onboarding" => Profiles(Onboarding)!OneProfile)
  BY DEF PagesInv, RowsInv
<1>4. Inv /\ [AllNext]_allVars =>
        [/\ turn = "photos" => Profiles(Photos)!PhotoLostOnlyBySaves
         /\ turn = "onboarding" => Profiles(Onboarding)!StalePageIsOwed]_profileVars
  BY ProfilesMove, PhotosLost, PhotosKept, PagesOwed, PagesKept
<1> HIDE DEF Inv
<1> QED  BY <1>1, <1>2, <1>3, <1>4, PTL DEF AllSpec, ProfilesHold

\* Whatever requests overlap: references stay and categories are served; a tree becomes wrong
\* only by an overlap, and a product differs from what was told only by a stale save.
THEOREM CatalogueIsTrue == AllSpec => CatalogueHolds
<1> DEFINE Inv == /\ turn = "tree" => TreeInv(Tree)
                  /\ turn = "copies" => TreeInv(Copies)
                  /\ ShopInv(Shop)
<1>1. AllInit => Inv
  BY TreeInit, ShopInit DEF AllInit
<1>2. Inv /\ [AllNext]_allVars => Inv'
  <2> SUFFICES ASSUME Inv, [AllNext]_allVars PROVE Inv'
    OBVIOUS
  <2>1. turn = "tree" => TreeInv(Tree)'
    BY CategoriesMove, TreeStep, TreeStutter DEF Categories!Next
  <2>2. turn = "copies" => TreeInv(Copies)'
    BY CategoriesMove, TreeStep, TreeStutter
  <2>3. ShopInv(Shop)'
    BY SizesFit, ProductsMove, ShopStep, ShopStutter
  <2> QED  BY <2>1, <2>2, <2>3, TurnLasts
<1>3. Inv => (turn = "tree" => Categories(Tree)!RefsExist /\ Categories(Tree)!OnlyEndlessVanish)
  BY SizesFit, TreeServesAll DEF TreeInv
<1>4. Inv /\ [AllNext]_allVars =>
        [/\ turn = "copies" => Categories(Copies)!StaleTreeByOverlap
         /\ turn = "products" => Products(Shop)!DriftsByStaleSaves]_<<categoryVars, productVars>>
  BY SizesFit, CategoriesMove, ProductsMove, TreeStales, TreeNoStale, ShopDrifts, ShopNoDrift
<1> HIDE DEF Inv
<1> QED  BY <1>1, <1>2, <1>3, <1>4, PTL DEF AllSpec, CatalogueHolds

\* Reviews take their own step or none.
LEMMA ReviewsMove == ASSUME [AllNext]_allVars PROVE [Next]_vars
<1>1. ReviewTurn => Next  BY DEF ReviewTurn, PipelineNext, Next
<1> QED
  BY <1>1 DEF AllNext, allVars, reviewVars, StoryTurn, ReactionTurn, RatingTurn, ProfileTurn,
     CategoryTurn, ProductTurn

\* In each turn of the reactions they take a step of the component.
LEMMA EngagementMoves ==
  ASSUME [AllNext]_allVars
  PROVE  /\ turn = "toggles" => [Engagement(Toggles)!Next]_(Engagement(Toggles)!vars)
         /\ turn = "marks" => [Engagement(Marks)!Next]_(Engagement(Marks)!vars)
         /\ turn = "reports" => [Engagement(Reports)!Next]_(Engagement(Reports)!vars)
         /\ turn = "follows saved" => [Engagement(FollowsSaved)!Next]_(Engagement(FollowsSaved)!vars)
         /\ turn = "shares saved" => [Engagement(SharesSaved)!Next]_(Engagement(SharesSaved)!vars)
<1>1. /\ turn = "toggles" => [Engagement(Toggles)!RequestNext]_(Engagement(Toggles)!vars)
      /\ turn = "marks" => [Engagement(Marks)!RequestNext]_(Engagement(Marks)!vars)
      /\ turn = "reports" => [Engagement(Reports)!RequestNext]_(Engagement(Reports)!vars)
      /\ turn = "follows saved" => [Engagement(FollowsSaved)!Next]_(Engagement(FollowsSaved)!vars)
      /\ turn = "shares saved" => [Engagement(SharesSaved)!Next]_(Engagement(SharesSaved)!vars)
  BY DEF AllNext, allVars, reactionVars, Engagement!vars, ReviewTurn, StoryTurn, ReactionTurn,
     RatingTurn, ProfileTurn, CategoryTurn, ProductTurn
<1> QED  BY <1>1, RequestsAreSteps

\* Reactions with the types of their tables, for a component on its own.
ReactionsTyped(c) == ReactInv(c) /\ EngagementTyped(c)

LEMMA ReactionsTypedInit ==
  ASSUME NEW c, Engagement(c)!Assumptions, Engagement(c)!Init PROVE ReactionsTyped(c)
BY ReactInit, EngagementTypedInit DEF ReactionsTyped

LEMMA ReactionsTypedStep ==
  ASSUME NEW c, Engagement(c)!Assumptions, ReactionsTyped(c), [Engagement(c)!Next]_(Engagement(c)!vars)
  PROVE  ReactionsTyped(c)'
<1>1. ReactInv(c)'  BY ReactStep, ReactStutter DEF ReactionsTyped
<1>2. EngagementTyped(c)'
  BY <1>1, EngagementTypedStep, EngagementTypedStutter DEF ReactionsTyped
<1> QED  BY <1>1, <1>2 DEF ReactionsTyped

\* Every table, lock and request of every component keeps its type in the component's turns.
THEOREM TypesAreKept == AllSpec => []ComponentTypes
<1> DEFINE Shelves == IInv /\ StoryInv(Shelf) /\ Stories(Shelf)!TypeOK /\ ShopInv(Shop) /\ ShopTyped(Shop)
           Reactions == /\ turn = "toggles" => ReactionsTyped(Toggles)
                        /\ turn = "marks" => ReactionsTyped(Marks)
                        /\ turn = "reports" => ReactionsTyped(Reports)
                        /\ turn = "follows saved" => ReactionsTyped(FollowsSaved)
                        /\ turn = "shares saved" => ReactionsTyped(SharesSaved)
           Scores == /\ turn = "raters" => RatingTypes(Raters) /\ RatingTyped(Raters)
                     /\ turn = "days" => RatingTypes(Days) /\ RatingTyped(Days)
           Pages == /\ turn = "photos" => RowsInv(Photos) /\ ProfileTyped(Photos)
                    /\ turn = "onboarding" => RowsInv(Onboarding) /\ ProfileTyped(Onboarding)
           Trees == /\ turn = "tree" => TreeTyped(Tree)
                    /\ turn = "copies" => TreeTyped(Copies)
           Inv == Shelves /\ Reactions /\ Scores /\ Pages /\ Trees
<1>1. AllInit => Inv
  <2> SUFFICES ASSUME AllInit PROVE Inv
    OBVIOUS
  <2>1. Shelves
    BY SizesFit, InitInv, StoryInit, StoryTypesInit, ShopInit, ShopTypedInit DEF AllInit
  <2>2. Reactions
    BY SizesFit, ReactionsTypedInit DEF AllInit
  <2>3. Scores
    BY SizesFit, RatingTypesInit, RatingTypedInit DEF AllInit
  <2>4. Pages
    BY SizesFit, RowsInit, ProfileTypedInit DEF AllInit
  <2>5. Trees
    BY SizesFit, TreeTypedInit DEF AllInit
  <2> QED  BY <2>1, <2>2, <2>3, <2>4, <2>5
<1>2. Inv /\ [AllNext]_allVars => Inv'
  <2> SUFFICES ASSUME Inv, [AllNext]_allVars PROVE Inv'
    OBVIOUS
  <2>1. Shelves'
    <3>1. IInv'  BY ReviewsMove, Inductive
    <3>2. StoryInv(Shelf)'  BY SizesFit, StoriesMove, StoryStep, StoryStutter
    <3>3. Stories(Shelf)!TypeOK'  BY SizesFit, StoriesMove, StoryTypesStep, StoryTypesStutter
    <3>4. ShopInv(Shop)'  BY SizesFit, ProductsMove, ShopStep, ShopStutter
    <3>5. ShopTyped(Shop)'  BY <3>4, SizesFit, ProductsMove, ShopTypedStep, ShopTypedStutter
    <3> QED  BY <3>1, <3>2, <3>3, <3>4, <3>5
  <2>2. Reactions'
    BY SizesFit, TurnLasts, EngagementMoves, ReactionsTypedStep
  <2>3. Scores'
    <3>1. ASSUME turn = "raters" PROVE RatingTypes(Raters)' /\ RatingTyped(Raters)'
      <4>1. [Ratings(Raters)!Next]_(Ratings(Raters)!vars)
        BY <3>1, RatingsMove DEF Ratings!Next
      <4> QED  BY <3>1, <4>1, SizesFit, RatingTypesStep, RatingTypesStutter, RatingTypedStep, RatingTypedStutter
    <3>2. ASSUME turn = "days" PROVE RatingTypes(Days)' /\ RatingTyped(Days)'
      BY <3>2, SizesFit, RatingsMove, RatingTypesStep, RatingTypesStutter, RatingTypedStep, RatingTypedStutter
    <3> QED  BY <3>1, <3>2, TurnLasts
  <2>4. Pages'
    <3>1. ASSUME NEW c, Profiles(c)!Assumptions, RowsInv(c), ProfileTyped(c),
                 [Profiles(c)!Next]_(Profiles(c)!vars)
          PROVE  RowsInv(c)' /\ ProfileTyped(c)'
      BY <3>1, RowsStep, RowsStutter, ProfileTypedStep, ProfileTypedStutter
    <3>2. /\ turn = "photos" => [Profiles(Photos)!Next]_(Profiles(Photos)!vars)
          /\ turn = "onboarding" => [Profiles(Onboarding)!Next]_(Profiles(Onboarding)!vars)
      BY ProfilesMove DEF Profiles!Next, Profiles!PhotoNext, Profiles!PageNext
    <3> QED  BY <3>1, <3>2, SizesFit, TurnLasts
  <2>5. Trees'
    <3>1. /\ turn = "tree" => [Categories(Tree)!Next]_(Categories(Tree)!vars)
          /\ turn = "copies" => [Categories(Copies)!Next]_(Categories(Copies)!vars)
      BY CategoriesMove DEF Categories!Next
    <3> QED  BY <3>1, SizesFit, TurnLasts, TreeTypedStep, TreeTypedStutter
  <2> QED  BY <2>1, <2>2, <2>3, <2>4, <2>5
<1>3. Inv => ComponentTypes
  BY DEF ComponentTypes, IInv, ShopTyped, ReactionsTyped, EngagementTyped, RatingTyped, ProfileTyped, TreeTyped
<1> HIDE DEF Inv
<1> QED  BY <1>1, <1>2, <1>3, PTL DEF AllSpec
===============================================================================
