---------------------------- MODULE Publication ----------------------------
(***************************************************************************)
(* What moderation promises about content (moderation/services.py:1-14):   *)
(* a decision is made once, and only approved content is ever public.      *)
(***************************************************************************)
CONSTANTS Content

VARIABLES
  verdict,  \* the decision on each content object, or "none"
  public    \* the content the public lists show

Init ==
  /\ verdict = [c \in Content |-> "none"]
  /\ public = {}

\* Content is withdrawn, or approved content is shown.
Show ==
  /\ \E C \in SUBSET Content :
       /\ C \ public \subseteq {c \in Content : verdict[c] = "approved"}
       /\ public' = C
  /\ UNCHANGED verdict

Approve(c) ==
  /\ verdict[c] = "none"
  /\ verdict' = [verdict EXCEPT ![c] = "approved"]
  /\ public' \in {public, public \cup {c}}

Reject(c) ==
  /\ verdict[c] = "none"
  /\ verdict' = [verdict EXCEPT ![c] = "rejected"]
  /\ UNCHANGED public

Next == Show \/ \E c \in Content : Approve(c) \/ Reject(c)

Spec == Init /\ [][Next]_<<verdict, public>>
=============================================================================
