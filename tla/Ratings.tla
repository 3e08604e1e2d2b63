------------------------------ MODULE Ratings ------------------------------
(***************************************************************************)
(* Ratings of businesses (ratings/services.py) with the aggregate kept on  *)
(* the profile, and the daily rollup (analytics/tasks.py) that copies it   *)
(* and counts the day's first ratings.                                     *)
(*                                                                         *)
(* rate_business upserts the row under its lock, aggregates the rows its   *)
(* READ COMMITTED transaction sees and writes the result: the rows of      *)
(* other open transactions are not among them.                             *)
(***************************************************************************)
EXTENDS Integers, FiniteSets, Functions

CONSTANTS
  Customer,  \* accounts that rate
  Business,  \* business profiles
  Web,       \* processes that serve HTTP requests
  Celery,    \* worker processes
  MaxScore,  \* scores are 1..MaxScore
  MaxDay,    \* bound of the calendar
  None       \* no process, no day, no row

Assumptions ==
  /\ MaxScore \in Nat \ {0} /\ MaxDay \in Nat /\ IsFiniteSet(Customer)
  /\ None \notin Web /\ None \notin 0..MaxDay

VARIABLES
  today,    \* the UTC date
  score,    \* the Rating table; 0 is no row
  born,     \* the date of created_at of a row
  profile,  \* average_rating and ratings_count, as sum and count
  lock,     \* who holds the lock of a Rating row or of its unique key
  request,  \* what a web process works on
  stats,    \* the BusinessDailyStats table
  rollup,   \* what a worker works on
  beaten    \* businesses and days a Beat run has stored

vars == <<today, score, born, profile, lock, request, stats, rollup, beaten>>
ratingVars == <<score, born, profile, lock, request>>
statVars == <<stats, rollup, beaten>>

Day == 0..MaxDay
Pair == Customer \X Business
Aggregate == [sum : Nat, count : Nat]
Unrated == [sum |-> 0, count |-> 0]
Idle == [at |-> "idle"]

TypeOK ==
  /\ today \in Day
  /\ score \in [Pair -> 0..MaxScore]
  /\ born \in [Pair -> Day \cup {None}]
  /\ profile \in [Business -> Aggregate]
  /\ lock \in [Pair -> Web \cup {None}]
  /\ \A p \in Web : request[p].at \in {"idle", "upserted", "aggregated"}
  /\ \A k \in Business \X Day : stats[k] = None \/ stats[k] \in [new : Nat, average : Aggregate]
  /\ \A w \in Celery : rollup[w].at \in {"idle", "run", "store"}
  /\ beaten \subseteq Business \X Day

Init ==
  /\ today = 0
  /\ score = [k \in Pair |-> 0]
  /\ born = [k \in Pair |-> None]
  /\ profile = [b \in Business |-> Unrated]
  /\ lock = [k \in Pair |-> None]
  /\ request = [p \in Web |-> Idle]
  /\ stats = [k \in Business \X Day |-> None]
  /\ rollup = [w \in Celery |-> Idle]
  /\ beaten = {}

-----------------------------------------------------------------------------
(* rate_business                                                           *)

AggregateIncrement(t, b) ==  \* Faulty: F() + 1 on every call
  [sum |-> profile[b].sum, count |-> profile[b].count + 1]
\* Avg and Count over the rows of b in the table t.
AggregateOf(t, b) ==
  LET scores == [c \in {d \in Customer : t[<<d, b>>] > 0} |-> t[<<c, b>>]] IN
  [sum |-> SumFunction(scores), count |-> Cardinality(DOMAIN scores)]

\* update_or_create: SELECT FOR UPDATE of the row, or the INSERT of its key.
LockUpsert(p, k) == lock[k] = None /\ lock' = [lock EXCEPT ![k] = p]

Upsert(p, k, n) ==
  /\ request[p] = Idle
  /\ LockUpsert(p, k)
  /\ request' = [request EXCEPT ![p] = [at |-> "upserted", key |-> k, score |-> n, on |-> today]]
  /\ UNCHANGED <<today, score, born, profile, statVars>>

\* The aggregate sees the committed rows and the request's own.
SeenBefore(r) == score  \* Faulty: aggregates before it upserts
Seen(r) == [score EXCEPT ![r.key] = r.score]

ReadRows(p) ==
  LET r == request[p] IN
  /\ r.at = "upserted"
  /\ request' = [request EXCEPT ![p] = [at |-> "aggregated", key |-> r.key, score |-> r.score,
                                        on |-> r.on, result |-> AggregateOf(Seen(r), r.key[2])]]
  /\ UNCHANGED <<today, score, born, profile, lock, statVars>>

\* The UPDATE of the profile and the COMMIT.
WriteProfile(p) ==
  LET r == request[p] IN
  /\ r.at = "aggregated"
  /\ score' = [score EXCEPT ![r.key] = r.score]
  /\ born' = [born EXCEPT ![r.key] = IF @ = None THEN r.on ELSE @]
  /\ profile' = [profile EXCEPT ![r.key[2]] = r.result]
  /\ lock' = [lock EXCEPT ![r.key] = None]
  /\ request' = [request EXCEPT ![p] = Idle]
  /\ UNCHANGED <<today, statVars>>

\* The request fails or its process dies; PostgreSQL rolls back.
Crash(p) ==
  /\ request[p] # Idle
  /\ request' = [request EXCEPT ![p] = Idle]
  /\ lock' = [k \in Pair |-> IF lock[k] = p THEN None ELSE lock[k]]
  /\ UNCHANGED <<today, score, born, profile, statVars>>

-----------------------------------------------------------------------------
(* compute_daily_stats                                                     *)

\* _resolve_target_date: Beat gives no date, an operator any date but the future.
DefaultTargetToday == {today}  \* Faulty: off by one day
DefaultTarget == {today - 1} \cap Day
AllowedTarget == 0..today

\* The loop evaluates BusinessProfile.objects once: the averages are those of now.
\* Beat starts 15 minutes into the day: no request of the day before is still open, and
\* no count that such a request could still change is still to be stored.
Start(w, d, beat) ==
  /\ rollup[w] = Idle
  /\ d \in IF beat THEN DefaultTarget ELSE AllowedTarget
  /\ beat => /\ \A p \in Web : request[p] # Idle => request[p].on = today
             /\ \A v \in Celery : rollup[v].at = "store" => rollup[v].final
  /\ rollup' = [rollup EXCEPT ![w] = [at |-> "run", day |-> d, beat |-> beat,
                                      loaded |-> profile, todo |-> Business]]
  /\ UNCHANGED <<today, ratingVars, stats, beaten>>

\* _compute_metrics: the rows created on the day, the average that was loaded.
NewOn(b, d) == Cardinality({c \in Customer : born[<<c, b>>] = d})
Metrics(r, b) == [new |-> NewOn(b, r.day), average |-> r.loaded[b]]

Final(d) == today > d /\ \A p \in Web : request[p] # Idle => request[p].on > d

\* One business: its queries ...
Count(w, b) ==
  LET r == rollup[w] IN
  /\ r.at = "run" /\ b \in r.todo
  /\ rollup' = [rollup EXCEPT ![w] =
       [at |-> "store", day |-> r.day, beat |-> r.beat, loaded |-> r.loaded, todo |-> r.todo \ {b},
        business |-> b, metrics |-> Metrics(r, b), final |-> Final(r.day)]]
  /\ UNCHANGED <<today, ratingVars, stats, beaten>>

\* ... and update_or_create, or an exception that is logged and skipped.
Store(w) ==
  LET r == rollup[w]
      k == <<r.business, r.day>>
  IN
  /\ r.at = "store"
  /\ \/ /\ stats' = [stats EXCEPT ![k] = r.metrics]
        /\ beaten' = IF r.beat THEN beaten \cup {k} ELSE beaten
     \/ UNCHANGED <<stats, beaten>>
  /\ rollup' = [rollup EXCEPT ![w] = [at |-> "run", day |-> r.day, beat |-> r.beat,
                                      loaded |-> r.loaded, todo |-> r.todo]]
  /\ UNCHANGED <<today, ratingVars>>

\* The task returns, or its worker dies: the acknowledged task does not run again.
End(w) ==
  /\ rollup[w] # Idle
  /\ rollup' = [rollup EXCEPT ![w] = Idle]
  /\ UNCHANGED <<today, ratingVars, stats, beaten>>

Midnight ==
  /\ today < MaxDay
  /\ today' = today + 1
  /\ UNCHANGED <<ratingVars, statVars>>

RateNext ==
  \E p \in Web : \/ \E k \in Pair, n \in 1..MaxScore : Upsert(p, k, n)
                 \/ ReadRows(p) \/ WriteProfile(p) \/ Crash(p)
Next ==
  \/ RateNext \/ Midnight
  \/ \E w \in Celery : \/ \E d \in Day, beat \in BOOLEAN : Start(w, d, beat)
                       \/ Store(w) \/ End(w) \/ \E b \in Business : Count(w, b)

RateSpec == Init /\ [][RateNext]_vars
Spec == Init /\ [][Next]_vars

-----------------------------------------------------------------------------
(* Properties                                                              *)

\* The profile shows the average and the number of the ratings in the table
\* (ratings/services.py:61).  Refuted by two requests at a time: neither sees the other's
\* open row, and the last UPDATE wins.
AverageExact == \A b \in Business : profile[b] = AggregateOf(score, b)

\* Another rating was committed after the request had read the rows.
Missed(p) ==
  LET r == request[p] IN
  r.at = "aggregated" /\ r.result # AggregateOf([score EXCEPT ![r.key] = r.score], r.key[2])

\* The average of a business stops being exact only at the COMMIT of a request that missed
\* one; any other COMMIT makes it exact, whatever was wrong before; and a request misses
\* only what another one commits after it has read the rows (ratings/services.py:14-17).
AverageDriftsByOverlap ==
  /\ \A b \in Business :
       profile[b] = AggregateOf(score, b) /\ profile'[b] # AggregateOf(score', b) =>
         \E p \in Web : Missed(p) /\ WriteProfile(p) /\ request[p].key[2] = b
  /\ \A p \in Web, b \in Business :
       WriteProfile(p) /\ ~Missed(p) /\ request[p].key[2] = b => profile'[b] = AggregateOf(score', b)
  /\ \A p \in Web : ~Missed(p) /\ Missed(p)' =>
       \E q \in Web \ {p} : WriteProfile(q) /\ request[q].key[2] = request[p].key[2]

\* What can go wrong is bounded: a profile is never ahead of its ratings by more
\* than it can lose, and it counts nobody twice.
CountsNobodyTwice ==
  \A b \in Business : profile[b].count <= Cardinality({c \in Customer : score[<<c, b>>] > 0})

\* What Beat stored for a day counts every first rating of that day, and no later
\* run or rating changes that (analytics/tasks.py:8-10: re-running refreshes).
DayComplete ==
  \A k \in beaten : stats[k].new = NewOn(k[1], k[2])

\* The snapshot is the average at the moment the task reaches the business.
\* Refuted: the loop has loaded every profile when it starts.
SnapshotOfTheMoment ==
  [][\A k \in Business \X Day :
       stats'[k] # stats[k] => stats'[k].average = profile[k[1]]]_vars
=============================================================================
