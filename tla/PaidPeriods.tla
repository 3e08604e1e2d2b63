---------------------------- MODULE PaidPeriods -----------------------------
(***************************************************************************)
(* What the payments app promises, without rows, callbacks or processes: a *)
(* payment gets one Featured period, and only after the gateway has taken  *)
(* its full amount.                                                        *)
(***************************************************************************)
EXTENDS Naturals

CONSTANT Payment

VARIABLES
  charged,  \* payments whose full amount the gateway has taken
  periods   \* periods granted for each payment

Init == charged = {} /\ periods = [s \in Payment |-> 0]

Charge(s) ==
  /\ s \notin charged
  /\ charged' = charged \cup {s}
  /\ UNCHANGED periods

Grant(s) ==
  /\ s \in charged
  /\ periods[s] = 0
  /\ periods' = [periods EXCEPT ![s] = 1]
  /\ UNCHANGED charged

Next == \E s \in Payment : Charge(s) \/ Grant(s)

Spec == Init /\ [][Next]_<<charged, periods>>
=============================================================================
