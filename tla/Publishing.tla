------------------------------ MODULE Publishing ------------------------------
(***************************************************************************)
(* What businesses publish and what becomes of it: posts and reels,        *)
(* stories, reactions, ratings, profiles, categories and products.         *)
(*                                                                         *)
(* The components share no state here, so their steps commute and their    *)
(* interleavings show nothing: in a behaviour one component moves, the one *)
(* that has the turn, and the others stay as they began.  Each turn has its *)
(* own sizes: a record with a field for each constant of its component.    *)
(***************************************************************************)
EXTENDS Review, Integers, FiniteSets

CONSTANTS
  Shelf,                           \* stories
  Toggles, Marks, Reports, FollowsSaved, SharesSaved,   \* reactions
  Raters, Days,                    \* ratings
  Photos, Onboarding,              \* profiles
  Tree, Copies,                    \* categories
  Shop                             \* products

VARIABLES
  turn,
  now, story, storyQueue, flagged, watched, views, storyLock, storyPc, storyItem, storyCopy, who,
  rel, comment, shares, status, count, rowLock, page, notices, job,
  today, score, born, average, ratingLock, rating, stats, rollup, beaten,
  profile, stored, uploads, verified, pageCache, profileRequest, profileEdits,
  categories, used, treeCache, treeRequest, treeEdits,
  product, variant, wish, productRequest, productEdits

Stories(c) == INSTANCE Stories WITH
  Story <- c.Story, Viewer <- c.Viewer, Web <- c.Web, Ttl <- c.Ttl, Sla <- c.Sla, MaxTime <- c.MaxTime,
  queue <- storyQueue, lock <- storyLock, pc <- storyPc, item <- storyItem, copy <- storyCopy
Engagement(c) == INSTANCE Engagement WITH
  User <- c.User, Business <- c.Business, Content <- c.Content, CommentId <- c.CommentId, Web <- c.Web,
  OwnerOf <- c.OwnerOf, Kinds <- c.Kinds, Threshold <- c.Threshold, MaxCount <- c.MaxCount,
  MaxShares <- c.MaxShares, lock <- rowLock
Ratings(c) == INSTANCE Ratings WITH
  Customer <- c.Customer, Business <- c.Business, Web <- c.Web, Celery <- c.Celery,
  MaxScore <- c.MaxScore, MaxDay <- c.MaxDay, profile <- average, lock <- ratingLock, request <- rating
Profiles(c) == INSTANCE Profiles WITH
  User <- c.User, Business <- c.Business, Detail <- c.Detail, Category <- c.Category, Web <- c.Web,
  MaxFiles <- c.MaxFiles, MaxEdits <- c.MaxEdits,
  cache <- pageCache, request <- profileRequest, edits <- profileEdits
Categories(c) == INSTANCE Categories WITH
  Category <- c.Category, English <- c.English, Arabic <- c.Arabic, Language <- c.Language,
  Web <- c.Web, MaxEdits <- c.MaxEdits,
  table <- categories, cache <- treeCache, request <- treeRequest, edits <- treeEdits
Products(c) == INSTANCE Products WITH
  User <- c.User, Owner <- c.Owner, Web <- c.Web, MaxProducts <- c.MaxProducts,
  MaxVariants <- c.MaxVariants, MaxEdits <- c.MaxEdits,
  request <- productRequest, edits <- productEdits

ASSUME SizesFit ==
  /\ Stories(Shelf)!Assumptions
  /\ \A c \in {Toggles, Marks, Reports, FollowsSaved, SharesSaved} : Engagement(c)!Assumptions
  /\ Ratings(Raters)!Assumptions /\ Ratings(Days)!Assumptions
  /\ \A c \in {Photos, Onboarding} : Profiles(c)!Assumptions
  /\ Categories(Tree)!Assumptions /\ Categories(Copies)!Assumptions
  /\ Products(Shop)!Assumptions

-----------------------------------------------------------------------------
(* The turns                                                               *)

reviewVars == vars
storyVars == <<now, story, storyQueue, flagged, watched, views, storyLock, storyPc, storyItem, storyCopy, who>>
reactionVars == <<rel, comment, shares, status, count, rowLock, page, notices, job>>
ratingVars == <<today, score, born, average, ratingLock, rating, stats, rollup, beaten>>
profileVars == <<profile, stored, uploads, verified, pageCache, profileRequest, profileEdits>>
categoryVars == <<categories, used, treeCache, treeRequest, treeEdits>>
productVars == <<product, variant, wish, productRequest, productEdits>>
allVars == <<turn, reviewVars, storyVars, reactionVars, ratingVars, profileVars, categoryVars, productVars>>

AllInit ==
  /\ turn \in {"post", "reel", "pipeline", "stories", "raters", "days", "photos", "onboarding",
               "tree", "copies", "products", "toggles", "marks", "reports",
               "follows saved", "shares saved"}
  /\ Init /\ Stories(Shelf)!Init /\ Products(Shop)!Init
  /\ \/ turn = "marks" /\ Engagement(Marks)!Init
     \/ turn = "reports" /\ Engagement(Reports)!Init
     \/ turn = "follows saved" /\ Engagement(FollowsSaved)!Init
     \/ turn = "shares saved" /\ Engagement(SharesSaved)!Init
     \/ /\ turn \notin {"marks", "reports", "follows saved", "shares saved"}
        /\ Engagement(Toggles)!Init
        /\ turn = "toggles" \/ \A x \in Toggles.Content : status[x] = "published"
  /\ IF turn = "raters" THEN Ratings(Raters)!Init ELSE Ratings(Days)!Init
  /\ IF turn = "onboarding" THEN Profiles(Onboarding)!Init ELSE Profiles(Photos)!Init
  /\ IF turn = "copies" THEN Categories(Copies)!Init ELSE Categories(Tree)!Init

ReviewTurn ==
  /\ \/ turn = "post" /\ Next /\ \A c \in Reel : row'[c] = Absent
     \/ turn = "reel" /\ Next /\ \A c \in Post : row'[c] = Absent
     \/ turn = "pipeline" /\ PipelineNext
  /\ UNCHANGED <<turn, storyVars, reactionVars, ratingVars, profileVars, categoryVars, productVars>>

StoryTurn ==
  /\ turn = "stories" /\ Stories(Shelf)!Next
  /\ UNCHANGED <<turn, reviewVars, reactionVars, ratingVars, profileVars, categoryVars, productVars>>

ReactionTurn ==
  /\ \/ turn = "toggles" /\ Engagement(Toggles)!RequestNext
     \/ turn = "marks" /\ Engagement(Marks)!RequestNext
     \/ turn = "reports" /\ Engagement(Reports)!RequestNext
     \/ turn = "follows saved" /\ Engagement(FollowsSaved)!Next
     \/ turn = "shares saved" /\ Engagement(SharesSaved)!Next
  /\ UNCHANGED <<turn, reviewVars, storyVars, ratingVars, profileVars, categoryVars, productVars>>

RatingTurn ==
  /\ \/ turn = "raters" /\ Ratings(Raters)!RateNext
     \/ turn = "days" /\ Ratings(Days)!Next
  /\ UNCHANGED <<turn, reviewVars, storyVars, reactionVars, profileVars, categoryVars, productVars>>

ProfileTurn ==
  /\ \/ turn = "photos" /\ Profiles(Photos)!PhotoNext
     \/ turn = "onboarding" /\ Profiles(Onboarding)!PageNext
  /\ UNCHANGED <<turn, reviewVars, storyVars, reactionVars, ratingVars, categoryVars, productVars>>

CategoryTurn ==
  /\ \/ turn = "tree" /\ Categories(Tree)!AdminNext
     \/ turn = "copies" /\ Categories(Copies)!Next
  /\ UNCHANGED <<turn, reviewVars, storyVars, reactionVars, ratingVars, profileVars, productVars>>

ProductTurn ==
  /\ turn = "products" /\ Products(Shop)!Next
  /\ UNCHANGED <<turn, reviewVars, storyVars, reactionVars, ratingVars, profileVars, categoryVars>>

AllNext ==
  \/ ReviewTurn \/ StoryTurn \/ ReactionTurn \/ RatingTurn
  \/ ProfileTurn \/ CategoryTurn \/ ProductTurn
AllSpec == AllInit /\ [][AllNext]_allVars

-----------------------------------------------------------------------------
(* Properties: those of the components, in the turns they are about.  Those *)
(* of Review keep their names.                                             *)

\* Every variable has its type: the tables, locks and requests of all components.
ComponentTypes ==
  /\ TypeOK /\ Stories(Shelf)!TypeOK /\ Products(Shop)!TypeOK
  /\ turn = "toggles" => Engagement(Toggles)!TypeOK
  /\ turn = "marks" => Engagement(Marks)!TypeOK
  /\ turn = "reports" => Engagement(Reports)!TypeOK
  /\ turn = "follows saved" => Engagement(FollowsSaved)!TypeOK
  /\ turn = "shares saved" => Engagement(SharesSaved)!TypeOK
  /\ turn = "raters" => Ratings(Raters)!TypeOK
  /\ turn = "days" => Ratings(Days)!TypeOK
  /\ turn = "photos" => Profiles(Photos)!TypeOK
  /\ turn = "onboarding" => Profiles(Onboarding)!TypeOK
  /\ turn = "tree" => Categories(Tree)!TypeOK
  /\ turn = "copies" => Categories(Copies)!TypeOK

\* While nobody edits, queue and content agree and what is in the queue can be watched
\* (moderation/services.py:165-236, content/tasks.py:215).  A story that waits for a whole
\* lifetime has been flagged by the watch (moderation/tasks.py:4-8); only an expired one is
\* archived, whatever a decision saves over the sweep's stamp (stories/tasks.py:60); a
\* viewer's concurrent views are one row (stories/views.py:131).
ModerationHolds ==
  /\ turn = "pipeline" => DecisionShown
  /\ Stories(Shelf)!NoSilentExpiry /\ Stories(Shelf)!ArchivedIsExpired /\ Stories(Shelf)!OneViewPerViewer

\* Only the Admin and the save of a row that was read before another request counted move
\* a counter away from its rows (businesses/services.py:116): toggles, comments and shares
\* that race, fail and die do not (social/views.py:5-9).
OnlyStaleSavesDrift ==
  [][/\ turn = "follows saved" => Engagement(FollowsSaved)!DriftsOnlyBySaves
     /\ turn = "shares saved" => Engagement(SharesSaved)!DriftsOnlyBySaves]_reactionVars

\* A comment is hidden exactly when Threshold different accounts reported it
\* (social/services.py:16-55), and a notice of a comment is about a committed one and
\* goes to the owner of what it is on (social/views.py:404-420).
CommentsHold ==
  turn = "reports" =>
    Engagement(Reports)!HiddenByDistinctReporters /\ Engagement(Reports)!CommentNoticesTrue

\* Customers who rate at the same time are never counted twice (ratings/services.py:55);
\* what Beat stored for a day counts all first ratings of that day
\* (analytics/tasks.py:8-10); and an average stops being exact only at the COMMIT of a
\* request that missed what another one committed after it had read the rows
\* (ratings/services.py:14-17).
RatingsHold ==
  /\ [](/\ turn = "raters" => Ratings(Raters)!CountsNobodyTwice
        /\ turn = "days" => Ratings(Days)!DayComplete)
  /\ [][turn = "raters" => Ratings(Raters)!AverageDriftsByOverlap]_ratingVars

\* Two onboarding requests leave one profile (businesses/services.py:49); a row comes to name
\* a photo that is gone or about to go only when a whole-row save brings an old name back
\* (businesses/services.py:116, 156); a cached page becomes wrong only by a save that owes
\* its delete, by what drops nothing, or by a reader that another process has overtaken
\* (businesses/views.py:160, businesses/signals.py:8).
ProfilesHold ==
  /\ [](turn = "onboarding" => Profiles(Onboarding)!OneProfile)
  /\ [][/\ turn = "photos" => Profiles(Photos)!PhotoLostOnlyBySaves
        /\ turn = "onboarding" => Profiles(Onboarding)!StalePageIsOwed]_profileVars

\* What a category or a product refers to is there, whatever is deleted meanwhile
\* (categories/models.py:44, products/models.py:82); an active category is missing from
\* the tree only if its active ancestors never end (categories/services.py:56); a cached
\* tree becomes wrong only by a reader that overlaps an Admin's transaction
\* (categories/signals.py:12), and a product stops being what its owner was told only by the
\* save of a row that was changed since it was loaded (products/serializers.py:45).
CatalogueHolds ==
  /\ [](turn = "tree" => Categories(Tree)!RefsExist /\ Categories(Tree)!OnlyEndlessVanish)
  /\ [][/\ turn = "copies" => Categories(Copies)!StaleTreeByOverlap
        /\ turn = "products" => Products(Shop)!DriftsByStaleSaves]_<<categoryVars, productVars>>
=============================================================================
