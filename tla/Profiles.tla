------------------------------ MODULE Profiles ------------------------------
(***************************************************************************)
(* The profiles of accounts (businesses/): onboarding, edits and the photo *)
(* by the owner, edits, deletion and verification by the Admin, and the    *)
(* page of a business that the public read keeps in the cache.             *)
(*                                                                         *)
(* A PATCH loads the row and saves all of it; a photo is a file and a      *)
(* column; the page is put in the cache after it was computed, and dropped *)
(* after the row was saved.                                                *)
(***************************************************************************)
EXTENDS Integers, FiniteSets

CONSTANTS
  User,        \* accounts
  Business,    \* those of type business; the others are customers
  Detail,      \* values of the fields of a form (name, city, phone number, ...)
  Category,    \* categories of the directory
  Web,         \* processes that serve HTTP requests
  MaxFiles,    \* bound on the photos that are uploaded
  MaxEdits,    \* bound on the requests that change something
  None

Assumptions ==
  /\ Business \subseteq User /\ IsFiniteSet(User)
  /\ MaxFiles \in Nat /\ MaxEdits \in Nat

VARIABLES
  profile,     \* the rows, numbered
  stored,      \* files in the storage
  uploads,     \* names given so far: a name is never given twice
  verified,    \* accounts with is_business_verified
  cache,       \* the page of each profile that the cache holds
  request,     \* what each web process works on
  edits        \* requests begun that change something

vars == <<profile, stored, uploads, verified, cache, request, edits>>

Idle == [at |-> "idle"]
Id == 1..Cardinality(User)
Row == DOMAIN profile
File == 1..MaxFiles
Edit == [details : Detail \cup {None}, category : Category \cup {None}]

\* user.business_profile and user.customer_profile, deleted or not.
Own(u) == {i \in Row : profile[i].owner = u}

\* What the public read computes: a 404 for what is deleted, never for customers.
Page(i) ==
  IF i \notin Row \/ profile[i].deleted \/ profile[i].owner \notin Business THEN None
  ELSE [details |-> profile[i].details, category |-> profile[i].category,
        avatar |-> profile[i].avatar, verified |-> profile[i].owner \in verified]

TypeOK ==
  /\ \E n \in 0..Cardinality(Id) : Row = 1..n
  /\ \A i \in Row : profile[i] \in [owner : User, details : Detail, category : Category \cup {None},
                                    avatar : File \cup {None}, deleted : BOOLEAN]
  /\ \A i \in Row : profile[i].owner \notin Business => profile[i].avatar = None
  /\ stored \subseteq 1..uploads /\ uploads \in 0..MaxFiles
  /\ verified \subseteq User /\ edits \in 0..MaxEdits
  /\ \A p \in Web : request[p].at \in
       {"idle", "insert", "category", "save", "photo", "remove", "drop", "commit", "put"}

Init ==
  /\ profile = << >>
  /\ stored = {} /\ uploads = 0
  /\ verified = {}
  /\ cache = [i \in Id |-> None]
  /\ request = [p \in Web |-> Idle]
  /\ edits = 0

Becomes(p, r) == request' = [request EXCEPT ![p] = r]
Begin(p, r) == request[p] = Idle /\ edits < MaxEdits /\ edits' = edits + 1 /\ Becomes(p, r)

-----------------------------------------------------------------------------
(* Onboarding                                                              *)

\* POST: the account has no profile yet, not even a deleted one.
Create(p, u, details, category) ==
  /\ Own(u) = {}
  /\ Begin(p, [at |-> "insert", owner |-> u, details |-> details,
               category |-> IF u \in Business THEN category ELSE None])
  /\ UNCHANGED <<profile, stored, uploads, verified, cache>>

\* The column of the account is unique: the second INSERT of an account fails, a 500.
InsertAlways(u) == TRUE  \* Faulty: nothing makes the column unique
UniqueOwner(u) == Own(u) = {}

Insert(p) ==
  LET r == request[p]
      i == Cardinality(Row) + 1
      new == [owner |-> r.owner, details |-> r.details, category |-> None,
              avatar |-> None, deleted |-> FALSE]
  IN
  /\ r.at = "insert"
  /\ IF UniqueOwner(r.owner) /\ i \in Id
     THEN /\ profile' = [j \in 1..i |-> IF j = i THEN new ELSE profile[j]]
          /\ Becomes(p, IF r.category = None THEN Idle
                        ELSE [at |-> "category", id |-> i, category |-> r.category])
     ELSE Becomes(p, Idle) /\ UNCHANGED profile
  /\ UNCHANGED <<stored, uploads, verified, cache, edits>>

\* The category of a new profile is a save of its own, of that column only.
SaveCategory(p) ==
  LET r == request[p] IN
  /\ r.at = "category"
  /\ profile' = [profile EXCEPT ![r.id].category = r.category]
  /\ Becomes(p, Idle)
  /\ UNCHANGED <<stored, uploads, verified, cache, edits>>

-----------------------------------------------------------------------------
(* Edits: the row is loaded, changed, and saved with all its columns       *)

Edited(row, form) ==
  [row EXCEPT !.details = IF form.details = None THEN @ ELSE form.details,
              !.category = IF form.category = None THEN @ ELSE form.category]

\* PATCH by the owner; only the business has a page to drop afterwards.
Patch(p, i, form) ==
  /\ i \in Row
  /\ LET r == profile[i] IN
     Begin(p, [at |-> "save", id |-> i, row |-> Edited(r, form), by |-> "owner",
               then |-> IF r.owner \in Business THEN "drop" ELSE "idle"])
  /\ UNCHANGED <<profile, stored, uploads, verified, cache>>

\* The Admin's form, and the Admin's soft deletion, leave the cached page alone.
AdminEdit(p, i, form) ==
  /\ i \in Row /\ ~profile[i].deleted
  /\ Begin(p, [at |-> "save", id |-> i, row |-> Edited(profile[i], form), by |-> "admin", then |-> "idle"])
  /\ UNCHANGED <<profile, stored, uploads, verified, cache>>

AdminDelete(p, i) ==
  /\ i \in Row /\ ~profile[i].deleted
  /\ Begin(p, [at |-> "save", id |-> i, row |-> [profile[i] EXCEPT !.deleted = TRUE],
               by |-> "admin", then |-> "idle"])
  /\ UNCHANGED <<profile, stored, uploads, verified, cache>>

AfterSaveOnly(r) == Idle  \* Faulty: the page stays until it expires
After(r) == IF r.then = "idle" THEN Idle ELSE [at |-> "drop", id |-> r.id]

Save(p) ==
  LET r == request[p] IN
  /\ r.at = "save"
  /\ profile' = [profile EXCEPT ![r.id] = r.row]
  /\ Becomes(p, After(r))
  /\ UNCHANGED <<stored, uploads, verified, cache, edits>>

Drop(p) ==
  /\ request[p].at = "drop"
  /\ cache' = [cache EXCEPT ![request[p].id] = None]
  /\ Becomes(p, Idle)
  /\ UNCHANGED <<profile, stored, uploads, verified, edits>>

-----------------------------------------------------------------------------
(* The photo: set or cleared, and the file it replaces removed afterwards  *)

MayHavePhoto(i) == profile[i].owner \in Business

LoadPhoto(p, i, clear) ==
  /\ i \in Row /\ MayHavePhoto(i)
  /\ Begin(p, [at |-> "photo", id |-> i, clear |-> clear, old |-> profile[i].avatar])
  /\ UNCHANGED <<profile, stored, uploads, verified, cache>>

\* The file gets a name of its own, then that column is saved.
SavePhoto(p) ==
  LET r == request[p] IN
  /\ r.at = "photo"
  /\ IF r.clear
     THEN /\ profile' = [profile EXCEPT ![r.id].avatar = None]
          /\ UNCHANGED <<stored, uploads>>
     ELSE /\ uploads < MaxFiles /\ uploads' = uploads + 1
          /\ stored' = stored \cup {uploads'}
          /\ profile' = [profile EXCEPT ![r.id].avatar = uploads']
  /\ Becomes(p, [at |-> "remove", id |-> r.id, old |-> r.old])
  /\ UNCHANGED <<verified, cache, edits>>

RemovedNow(r) == profile[r.id].avatar  \* Faulty: whatever the row names by now
Removed(r) == r.old

\* Best effort: a failure of the storage is logged and nothing else.
RemoveOld(p) ==
  LET r == request[p] IN
  /\ r.at = "remove"
  /\ stored' \in {stored, stored \ {Removed(r)}}
  /\ Becomes(p, [at |-> "drop", id |-> r.id])
  /\ UNCHANGED <<profile, uploads, verified, cache, edits>>

-----------------------------------------------------------------------------
(* Verification: the receiver drops the page inside the Admin's transaction *)

NoPages(u) == {}  \* Faulty: no receiver
PagesOf(u) == {i \in Own(u) : ~profile[i].deleted}

Verify(p, u) ==
  /\ u \notin verified
  /\ Begin(p, [at |-> "commit", owner |-> u])
  /\ cache' = [i \in Id |-> IF i \in PagesOf(u) THEN None ELSE cache[i]]
  /\ UNCHANGED <<profile, stored, uploads, verified>>

Commit(p) ==
  /\ request[p].at = "commit"
  /\ verified' = verified \cup {request[p].owner}
  /\ Becomes(p, Idle)
  /\ UNCHANGED <<profile, stored, uploads, cache, edits>>

-----------------------------------------------------------------------------
(* The public read: cache_get_or_set                                       *)

\* A miss: the page is computed.  A hit changes nothing.
Compute(p, i) ==
  /\ request[p] = Idle /\ cache[i] = None /\ Page(i) # None
  /\ Becomes(p, [at |-> "put", id |-> i, page |-> Page(i)])
  /\ UNCHANGED <<profile, stored, uploads, verified, cache, edits>>

Put(p) ==
  /\ request[p].at = "put"
  /\ cache' = [cache EXCEPT ![request[p].id] = request[p].page]
  /\ Becomes(p, Idle)
  /\ UNCHANGED <<profile, stored, uploads, verified, edits>>

\* Five minutes after it was put.
ExpireNever(i) == FALSE /\ UNCHANGED vars  \* Faulty: a page without a time to live
Expire(i) ==
  /\ cache[i] # None
  /\ cache' = [cache EXCEPT ![i] = None]
  /\ UNCHANGED <<profile, stored, uploads, verified, request, edits>>

\* The process dies, or the transaction or the storage fails.
Abort(p) ==
  /\ request[p] # Idle
  /\ Becomes(p, Idle)
  /\ UNCHANGED <<profile, stored, uploads, verified, cache, edits>>

-----------------------------------------------------------------------------
Onboard(p) ==
  \/ Insert(p) \/ SaveCategory(p)
  \/ \E u \in User, d \in Detail, c \in Category \cup {None} : Create(p, u, d, c)
Photo(p) ==
  \/ SavePhoto(p) \/ RemoveOld(p) \/ Drop(p)
  \/ \E i \in Id, clear \in BOOLEAN : LoadPhoto(p, i, clear)
Edition(p) ==
  \/ Save(p) \/ Drop(p)
  \/ \E i \in Id, form \in Edit : Patch(p, i, form) \/ AdminEdit(p, i, form)
  \/ \E i \in Id : AdminDelete(p, i)
Verification(p) == Commit(p) \/ \E u \in Business : Verify(p, u)
Reading(p) == Put(p) \/ \E i \in Id : Compute(p, i)

PhotoNext == \E p \in Web : Onboard(p) \/ Photo(p) \/ Edition(p) \/ Abort(p)
PageNext ==
  \/ \E p \in Web : Onboard(p) \/ Edition(p) \/ Verification(p) \/ Reading(p) \/ Abort(p)
  \/ \E i \in Id : Expire(i)
Next == PageNext \/ \E p \in Web : Photo(p)

PageSpec == Init /\ [][PageNext]_vars
Spec == Init /\ [][Next]_vars

\* A request that is not killed takes its next step; an entry expires.
Step(p) == Insert(p) \/ SaveCategory(p) \/ Save(p) \/ Drop(p) \/ Commit(p) \/ Put(p)
Fairness ==
  /\ \A p \in Web : WF_vars(Step(p))
  /\ \A i \in Id : WF_vars(Expire(i))
FairSpec == PageSpec /\ Fairness

-----------------------------------------------------------------------------
(* Properties                                                              *)

\* However two onboarding requests of one account overlap, it gets one profile
\* (businesses/services.py:49).
OneProfile == \A i, j \in Row : profile[i].owner = profile[j].owner => i = j

\* The file of a photo is there, and no request is about to remove it.
PhotoSafe(i) ==
  profile[i].avatar # None =>
    /\ profile[i].avatar \in stored
    /\ \A p \in Web : request[p].at = "remove" => request[p].old # profile[i].avatar

\* However photo requests overlap, each removes only what it has replaced itself
\* (businesses/services.py:156): a row comes to name a file that is gone or doomed only
\* when the save of a whole row, loaded before, brings an old name back
\* (businesses/services.py:116).
PhotoLostOnlyBySaves ==
  \A i \in Row : PhotoSafe(i) /\ ~PhotoSafe(i)' =>
    \E p \in Web : Save(p) /\ request[p].id = i /\ request[p].row.avatar # profile[i].avatar

\* The photo a row names is in the storage (the first of these lines).  Refuted by a PATCH
\* that has loaded the row before its photo was replaced.
PhotoExists == \A i \in Row : profile[i].avatar # None => profile[i].avatar \in stored

\* A save of the form leaves the photo to the photo's own requests
\* (businesses/models.py:137).  Refuted by a PATCH that overlaps one of these.
PhotoByItsOwn ==
  [][\A p \in Web :
       request[p].at = "save" /\ request[p].by = "owner" /\ request'[p].at # "save" =>
         \A i \in Row : profile'[i].avatar = profile[i].avatar]_vars

Differs(i) == cache[i] \notin {None, Page(i)}
\* The page that a reader has computed is not that of the row any more.
Outdated(p) == request[p].at = "put" /\ request[p].page # Page(request[p].id)

\* A cached page becomes wrong only by the owner's save, which owes the delete
\* (businesses/views.py:160), by the Admin's save or the category of a new profile, which
\* drop nothing, by the COMMIT of a verification, which began without a page of the
\* account (businesses/signals.py:8), or by a reader that stores what another process has
\* changed since it read.
StalePageIsOwed ==
  /\ \A i \in Id : ~Differs(i) /\ Differs(i)' =>
       \E p \in Web :
         \/ Save(p) /\ request[p].id = i /\ (request[p].by = "owner" => request'[p].at = "drop")
         \/ SaveCategory(p) /\ request[p].id = i
         \/ Commit(p) /\ profile[i].owner = request[p].owner
         \/ Put(p) /\ request[p].id = i /\ Outdated(p)
  /\ \A p \in Web, i \in Row :
       request[p] = Idle /\ request'[p].at = "commit" /\ profile[i].owner = request'[p].owner =>
         cache'[i] = None \/ profile[i].deleted
  /\ \A p \in Web : ~Outdated(p) /\ Outdated(p)' =>
       \E q \in Web \ {p} :
         \/ (Save(q) \/ SaveCategory(q)) /\ request[q].id = request[p].id
         \/ Commit(q) /\ profile[request[p].id].owner = request[q].owner

\* When nothing is at work, the page shows the details and the category of the row
\* (businesses/views.py:233), and whether the account is verified
\* (businesses/signals.py:8).  Refuted by two processes: one computes its page before the
\* edit or the COMMIT of the other, and puts it after the drop.
Quiet == \A p \in Web : request[p] = Idle
OwnEditShows ==
  Quiet => \A i \in Row : cache[i] # None =>
    cache[i].details = profile[i].details /\ cache[i].category = profile[i].category
BadgeShows ==
  Quiet => \A i \in Row : cache[i] # None => cache[i].verified = (profile[i].owner \in verified)

\* Whatever edits, deletions and dead processes left in the cache, in the end it has
\* no page that differs from the row (businesses/views.py:160).
PageComesRight == \A i \in Id : <>[](cache[i] \in {None, Page(i)})
=============================================================================
