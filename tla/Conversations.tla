---------------------------- MODULE Conversations ----------------------------
(***************************************************************************)
(* Starting a conversation and putting something in it:                    *)
(* ConversationStartView, MessageSendView and MessageSerializer (chat/views.py,  *)
(* chat/serializers.py), with the notification text of chat/tasks.py.      *)
(*                                                                         *)
(* Start looks for a conversation of the two and creates one if there is   *)
(* none; nothing in the schema says that two accounts have only one.       *)
(***************************************************************************)
EXTENDS Integers, FiniteSets, FiniteSetsExt

CONSTANTS
  User,      \* accounts
  Business,  \* business profiles
  Owner,     \* the account of a profile
  Spelling,  \* how a client may write a recipient id: "plain", "padded"
  Web,       \* processes that serve HTTP requests
  Content,   \* posts, reels and products that can be shared
  MaxConversations, MaxMessages,  \* bounds
  None       \* no business, no answer, no file

Assumptions ==
  /\ Owner \in [Business -> User]
  /\ MaxConversations \in Nat /\ MaxMessages \in Nat
  /\ Spelling \subseteq {"plain", "padded"} /\ None \notin {"text", "image", "video"}
  /\ IsFiniteSet(Web)

VARIABLES
  open,      \* businesses that are not deleted and whose owner is active
  visible,   \* content that is published or active
  members,   \* the participants of each conversation
  request,   \* what each web process works on
  answer,    \* who asked last for whom and how, and the conversation it was given
  message    \* the stored messages

vars == <<open, visible, members, request, answer, message>>

Idle == [at |-> "idle"]
Id == 1..MaxConversations
Conversation == DOMAIN members
Of(u) == {i \in Conversation : u \in members[i]}

-----------------------------------------------------------------------------
(* Files, by their real content, in the order validate_upload looks at them *)

\* Sizes: 1 fits an image, 2 only a video, 3 nothing.  probe: ffprobe finds a video stream.
ImageMax == 1
VideoMax == 2
File == [mime : {"image", "video", "octets", "other"}, size : 1..3, probe : BOOLEAN]

validate_upload(f, mimes, max) ==
  IF f.size > max THEN "file_too_large"
  ELSE IF f.mime \notin mimes THEN "unsupported_file_type" ELSE "ok"

\* libmagic does not know the container, and ffprobe does.
UnknownBinaryIsVideo(f) == f.mime = "octets" /\ f.probe

ClassifyOnePhase(f) ==  \* Faulty: the image limit for every file
  CASE validate_upload(f, {"image"}, ImageMax) = "ok" -> "image"
    [] validate_upload(f, {"video"}, ImageMax) = "ok" \/ UnknownBinaryIsVideo(f) -> "video"
    [] OTHER -> "refused"

\* validate_media: first any image up to the video limit, then a video.
Classify(f) ==
  LET first == validate_upload(f, {"image"}, VideoMax) IN
  CASE first = "file_too_large" -> "refused"
    [] first = "unsupported_file_type" ->
         IF \/ validate_upload(f, {"video"}, VideoMax) = "ok"
            \/ UnknownBinaryIsVideo(f)
         THEN "video" ELSE "refused"
    [] first = "ok" -> IF validate_upload(f, {"image"}, ImageMax) = "ok"
                       THEN "image" ELSE "refused"

-----------------------------------------------------------------------------
(* Messages                                                                *)

\* What a client sends: text, a file, and the two halves of a reference.
Form == [text : BOOLEAN, media : File \cup {None},
         sharedType : {"known", "unknown", None}, sharedId : Content \cup {None}]

CarriesUnchecked(form) == TRUE  \* Faulty: an empty message is a message
Carries(form) == form.text \/ form.media # None \/ form.sharedType # None

Valid(form) ==
  /\ form.media # None => Classify(form.media) # "refused"
  /\ (form.sharedType = None) <=> (form.sharedId = None)
  /\ form.sharedType # None => form.media = None
  /\ Carries(form)
  /\ form.sharedType # None => form.sharedType = "known" /\ form.sharedId \in visible

Stored(c, u, form) ==
  [conversation |-> c, sender |-> u, text |-> form.text, shared |-> form.sharedId, media |-> form.media,
   mediaType |-> IF form.media = None THEN None ELSE Classify(form.media)]

\* The text of the notification; None is an empty string.
push_body(m) ==
  CASE m.text -> "text"
    [] ~m.text /\ m.mediaType # None -> m.mediaType
    [] ~m.text /\ m.mediaType = None -> m.shared

-----------------------------------------------------------------------------
TypeOK ==
  /\ open \subseteq Business /\ visible \subseteq Content
  /\ Conversation \in {1..n : n \in 0..MaxConversations}
  /\ \A i \in Conversation : members[i] \subseteq User /\ Cardinality(members[i]) = 2
  /\ \A p \in Web : request[p].at \in {"idle", "create"}
  /\ answer = None \/ answer.conversation \in Conversation
  /\ \A m \in DOMAIN message : message[m].sender \in members[message[m].conversation]

Init ==
  /\ open = Business /\ visible = Content
  /\ members = << >>
  /\ request = [p \in Web |-> Idle]
  /\ answer = None
  /\ message = << >>

\* The account that is asked for, or None for a 400 or a 404.
SelfByBusinessUnchecked(u, v) == TRUE  \* Faulty: the check is made on the ids sent
NotSelfByBusiness(u, v) == v # u

RecipientByBusiness(u, b) ==
  IF b \in open /\ NotSelfByBusiness(u, Owner[b]) THEN Owner[b] ELSE None

\* The ids are compared as text: a padded id of oneself passes.
RecipientById(u, v, spelling) == IF v = u /\ spelling = "plain" THEN None ELSE v

\* Two joins, on the one and on the other; the last updated, that is the newest.
ExistingOneJoin(u, v) == {i \in Of(u) : u = v}  \* Faulty: both conditions on one participant row
Existing(u, v) == Of(u) \cap Of(v)

\* The lookup, and the answer if there is a conversation; how names the form of the request.
Start(p, u, v, how) ==
  /\ v # None /\ request[p] = Idle
  /\ IF Existing(u, v) # {}
     THEN /\ answer' = [asker |-> u, asked |-> v, how |-> how, conversation |-> Max(Existing(u, v))]
          /\ UNCHANGED request
     ELSE /\ request' = [request EXCEPT ![p] = [at |-> "create", asker |-> u, asked |-> v, how |-> how]]
          /\ UNCHANGED answer
  /\ UNCHANGED <<open, visible, members, message>>

StartWithBusiness(p, u, b) == Start(p, u, RecipientByBusiness(u, b), "business")
StartWithUser(p, u, v, spelling) == Start(p, u, RecipientById(u, v, spelling), spelling)

\* Conversation and participants in one transaction; the same account twice
\* violates unique_together, and everything is rolled back.
Create(p) ==
  LET r == request[p]
      i == Cardinality(Conversation) + 1
  IN
  /\ r.at = "create" /\ i \in Id
  /\ IF r.asker = r.asked THEN UNCHANGED <<members, answer>>
     ELSE /\ members' = [j \in 1..i |-> IF j = i THEN {r.asker, r.asked} ELSE members[j]]
          /\ answer' = [asker |-> r.asker, asked |-> r.asked, how |-> r.how, conversation |-> i]
  /\ request' = [request EXCEPT ![p] = Idle]
  /\ UNCHANGED <<open, visible, message>>

\* The process dies, or its transaction fails.
Abort(p) ==
  /\ request[p] # Idle
  /\ request' = [request EXCEPT ![p] = Idle]
  /\ UNCHANGED <<open, visible, members, answer, message>>

require_participant(c, u) == u \in members[c]

\* MessageSerializer and the INSERT, by a participant.
Send(c, u, form) ==
  LET n == Cardinality(DOMAIN message) + 1 IN
  /\ c \in Conversation /\ require_participant(c, u) /\ n <= MaxMessages
  /\ Valid(form)
  /\ message' = [m \in 1..n |-> IF m = n THEN Stored(c, u, form) ELSE message[m]]
  /\ UNCHANGED <<open, visible, members, request, answer>>

\* Deletion by the Admin, an account that becomes inactive, a take-down.
Disappear ==
  /\ \/ \E b \in open : open' = open \ {b} /\ UNCHANGED visible
     \/ \E x \in visible : visible' = visible \ {x} /\ UNCHANGED open
  /\ UNCHANGED <<members, request, answer, message>>

StartNext ==
  \E p \in Web :
    \/ Create(p) \/ Abort(p)
    \/ \E u \in User : \/ \E b \in Business : StartWithBusiness(p, u, b)
                       \/ \E v \in User, s \in Spelling : StartWithUser(p, u, v, s)
Next ==
  \/ StartNext \/ Disappear
  \/ \E c \in Id, u \in User, form \in Form : Send(c, u, form)

Spec == Init /\ [][Next]_vars

-----------------------------------------------------------------------------
(* Properties                                                              *)

Between(u, v) == {i \in Conversation : members[i] = {u, v}}

\* Two accounts have as many conversations as requests can be between the lookup and the
\* creation at the same time: a request that begins when there is one is given it
\* (chat/views.py:145).
TwinsOnlyTogether == \A u, v \in User : Cardinality(Between(u, v)) <= Cardinality(Web)

\* Two accounts have at most one conversation (the same line).  Refuted by two processes.
OneConversation == \A i, j \in Conversation : members[i] = members[j] => i = j

\* Whoever asks for an account is given a conversation with that account (chat/views.py:66),
\* one who asks for oneself by a padded id one of one's own.
AnswerIsBoth ==
  answer # None =>
    \/ members[answer.conversation] = {answer.asker, answer.asked}
    \/ /\ answer.asker = answer.asked /\ answer.how = "padded"
       /\ answer.asker \in members[answer.conversation]

\* Every message that can be stored gives the notification something to say: what
\* validate accepts is what _push_body can describe (chat/tasks.py:49).
NeverBlank == \A m \in DOMAIN message : push_body(message[m]) # None

\* What is stored is an image within the image's limit or a video within the
\* video's, and is named so; and every such file is accepted: the two phases do not
\* lose the videos that are greater than an image may be (chat/serializers.py:314).
MediaTypeOf(f) ==
  CASE f.mime = "image" /\ f.size <= ImageMax -> "image"
    [] (f.mime = "video" \/ (f.mime = "octets" /\ f.probe)) /\ f.size <= VideoMax -> "video"
    [] OTHER -> "refused"
ClassifyRight ==
  /\ \A m \in DOMAIN message :
       message[m].media # None => message[m].mediaType = MediaTypeOf(message[m].media)
  /\ \A f \in File : MediaTypeOf(f) # "refused" => Classify(f) # "refused"
=============================================================================
