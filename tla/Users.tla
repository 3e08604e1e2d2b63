-------------------------------- MODULE Users --------------------------------
(***************************************************************************)
(* What accounts do and what reaches them: sessions, messages,             *)
(* conversations, notifications, the feeds and search.  As in Publishing,  *)
(* the component that has the turn moves and the others stay as they began. *)
(* Two accounts write to each other in Chat.                               *)
(***************************************************************************)
EXTENDS Chat

CONSTANTS
  Joining, Sessions, Tokens, \* sizes of accounts
  Starting, Sending,         \* of conversations
  Muting, Pushing,           \* of notifications
  Reading, Searching         \* of the feeds and of search

VARIABLES
  turn,
  account, token, black, expired, access, request, ended, edits,
  reachable, visible, members, asking, answer, message,
  exists, pref, edit, device, spoken, event, open, queue, task, row, rows, sent,
  published, followed, featured, view, stage, follows, part, cursor, served, twice, steady, feedEdits,
  listed, score, matches, query

Accounts(c) == INSTANCE Accounts WITH
  Address <- c.Address, Spelling <- c.Spelling, Language <- c.Language, Web <- c.Web,
  MaxAccounts <- c.MaxAccounts, MaxTokens <- c.MaxTokens, MaxEdits <- c.MaxEdits
Conversations(c) == INSTANCE Conversations WITH
  User <- c.User, Business <- c.Business, Owner <- c.Owner, Spelling <- c.Spelling,
  Content <- c.Content, Web <- c.Web, MaxConversations <- c.MaxConversations,
  MaxMessages <- c.MaxMessages, open <- reachable, request <- asking
MutedNotices == INSTANCE Notifications WITH
  User <- Muting.User, Language <- Muting.Language, Token <- Muting.Token, Type <- Muting.Type,
  Web <- Muting.Web, Celery <- Muting.Celery, MaxEvent <- Muting.MaxEvent
PushedNotices == INSTANCE Notifications WITH
  User <- Pushing.User, Language <- Pushing.Language, Token <- Pushing.Token, Type <- Pushing.Type,
  Web <- Pushing.Web, Celery <- Pushing.Celery, MaxEvent <- Pushing.MaxEvent
Feeds == INSTANCE Feeds WITH
  Item <- Reading.Item, Business <- Reading.Business, Own <- Reading.Own, Nobody <- None,
  PageSize <- Reading.PageSize, MaxEdits <- Reading.MaxEdits, edits <- feedEdits
Search == INSTANCE Search WITH
  Item <- Searching.Item, Business <- Searching.Business, Score <- Searching.Score, Nobody <- None,
  PageSize <- Searching.PageSize, MaxEdits <- Searching.MaxEdits, edits <- feedEdits, visible <- listed

ASSUME SizesFit ==
  /\ Assumptions
  /\ \A c \in {Joining, Sessions, Tokens} : Accounts(c)!Assumptions
  /\ \A c \in {Starting, Sending} : Conversations(c)!Assumptions
  /\ MutedNotices!Assumptions /\ PushedNotices!Assumptions
  /\ Feeds!Assumptions /\ Search!Assumptions

-----------------------------------------------------------------------------
(* The turns                                                               *)

accountVars == <<account, token, black, expired, access, request, ended, edits>>
chatVars == vars
conversationVars == <<reachable, visible, members, asking, answer, message>>
notificationVars == <<exists, pref, edit, device, spoken, event, open, queue, task, row, rows, sent>>
\* Both readers keep the page they are on in the same variables.
pageVars == <<published, followed, featured, view, stage, follows, part, cursor, served, twice, steady, feedEdits,
              listed, score, matches, query>>
allVars == <<turn, accountVars, chatVars, conversationVars, notificationVars, pageVars>>

NotListed == listed = {} /\ score = << >> /\ matches = {} /\ query = None
NotPublished ==
  /\ published = {} /\ followed = {} /\ view = "none" /\ stage = "idle" /\ follows = {} /\ part = {}
NoPage ==
  /\ NotListed /\ NotPublished
  /\ featured = {} /\ cursor = None /\ served = {} /\ twice = {} /\ steady = {} /\ feedEdits = 0

AllInit ==
  /\ turn \in {"entry", "sessions", "tokens", "tabs", "messages", "starting", "sending",
               "muting", "pushing", "feeds", "search"}
  /\ \/ turn = "sessions" /\ Accounts(Sessions)!Init
     \/ turn = "tokens" /\ Accounts(Tokens)!Init
     \/ turn \notin {"sessions", "tokens"} /\ Accounts(Joining)!Init
  /\ Init
  /\ IF turn = "sending" THEN Conversations(Sending)!Init ELSE Conversations(Starting)!Init
  /\ \/ turn = "pushing" /\ PushedNotices!Init
     \/ turn = "muting" /\ MutedNotices!Init
     \/ turn \notin {"muting", "pushing"} /\ MutedNotices!Init /\ \A u \in Muting.User : pref[u] = None
  /\ \/ turn = "feeds" /\ Feeds!Init /\ NotListed
     \/ turn = "search" /\ Search!Init /\ NotPublished
     \/ turn \notin {"feeds", "search"} /\ NoPage

AccountTurn ==
  /\ \/ turn = "entry" /\ Accounts(Joining)!Next
     \/ turn = "sessions" /\ (Accounts(Sessions)!EntryNext \/ Accounts(Sessions)!SessionNext)
     \/ turn = "tokens" /\ Accounts(Tokens)!Next
  /\ UNCHANGED <<turn, chatVars, conversationVars, notificationVars, pageVars>>

ChatTurn ==
  /\ \/ turn = "tabs" /\ SpacedNext
     \/ turn = "messages" /\ MessageNext
  /\ UNCHANGED <<turn, accountVars, conversationVars, notificationVars, pageVars>>

ConversationTurn ==
  /\ \/ turn = "starting" /\ Conversations(Starting)!StartNext
     \/ turn = "sending" /\ Conversations(Sending)!Next
  /\ UNCHANGED <<turn, accountVars, chatVars, notificationVars, pageVars>>

NotificationTurn ==
  /\ \/ turn = "muting" /\ MutedNotices!Next
     \/ turn = "pushing" /\ PushedNotices!PushNext
  /\ UNCHANGED <<turn, accountVars, chatVars, conversationVars, pageVars>>

FeedTurn ==
  /\ turn = "feeds" /\ Feeds!Next /\ UNCHANGED <<listed, score, matches, query>>
  /\ UNCHANGED <<turn, accountVars, chatVars, conversationVars, notificationVars>>

SearchTurn ==
  /\ turn = "search" /\ Search!Next /\ UNCHANGED <<published, followed, view, stage, follows, part>>
  /\ UNCHANGED <<turn, accountVars, chatVars, conversationVars, notificationVars>>

AllNext ==
  \/ AccountTurn \/ ChatTurn \/ ConversationTurn \/ NotificationTurn \/ FeedTurn \/ SearchTurn
AllSpec == AllInit /\ [][AllNext]_allVars

-----------------------------------------------------------------------------
(* Properties: those of the components, in the turns they are about.       *)
(* NothingMissed and StatusForward are those of Chat.                      *)

\* Every variable has its type: the tables, sessions, requests and pages of all components.
ComponentTypes ==
  /\ turn = "entry" => Accounts(Joining)!TypeOK
  /\ turn = "sessions" => Accounts(Sessions)!TypeOK
  /\ turn = "tokens" => Accounts(Tokens)!TypeOK
  /\ TypeOK
  /\ turn = "starting" => Conversations(Starting)!TypeOK
  /\ turn = "sending" => Conversations(Sending)!TypeOK
  /\ turn = "muting" => MutedNotices!TypeOK
  /\ turn = "pushing" => PushedNotices!TypeOK
  /\ turn = "feeds" => Feeds!TypeOK
  /\ turn = "search" => Search!TypeOK

\* An address has at most as many accounts as registrations can overlap
\* (accounts/serializers.py:49); a session is split, or goes on after its logout, only by a
\* rotation whose token another request retired after it was checked
\* (config/settings/base.py:318, accounts/services.py:126); a token has a successor only
\* after it was retired, whatever dies (config/settings/base.py:317).
AccountsHold ==
  /\ [](/\ turn = "entry" => Accounts(Joining)!TwinsOnlyTogether
        /\ turn = "tokens" => Accounts(Tokens)!RetiredFirst)
  /\ [][turn = "sessions" => Accounts(Sessions)!SessionsForkByOverlap]_accountVars

\* Two accounts have at most as many conversations as requests can overlap
\* (chat/views.py:145), and who asks for an account is given a conversation with it, or for
\* oneself by a padded id one of one's own (chat/views.py:66).  Every message that can be
\* stored gives the notification something to say (chat/tasks.py:49), and a file is stored
\* exactly if it is an image or a video within its own limit (chat/serializers.py:314).
ConversationsHold ==
  /\ turn = "starting" => /\ Conversations(Starting)!TwinsOnlyTogether
                          /\ Conversations(Starting)!AnswerIsBoth
  /\ turn = "sending" => /\ Conversations(Sending)!AnswerIsBoth
                         /\ Conversations(Sending)!NeverBlank /\ Conversations(Sending)!ClassifyRight

\* An event whose category was off from when it happened until its task looked is silent
\* (notifications/tasks.py:15-18); whatever workers die, an event has at most one row and
\* one push to a token (notifications/tasks.py:37-47); a push speaks a language of its
\* recipient (devices/views.py:43-45).
NoticesHold ==
  /\ turn = "muting" => MutedNotices!MutedIsSilent
  /\ turn = "pushing" => PushedNotices!ToldOnce /\ PushedNotices!OwnLanguage

\* Whatever changes between two pages, what nobody touched is served once: never twice
\* (feed/services.py:24, search/services.py:44), and at the latest on the last page
\* (feed/services.py:50, search/services.py:39), although each table is cut to a page before
\* the merge (feed/services.py:16).  A search for featured businesses serves no other
\* (search/services.py:255).
ServedOnce ==
  /\ turn = "feeds" => Feeds!NoRepeat /\ Feeds!NoSkip /\ Feeds!MergeIsExact
  /\ turn = "search" => Search!NoRepeat /\ Search!NoSkip /\ Search!OnlyFeatured
=============================================================================
