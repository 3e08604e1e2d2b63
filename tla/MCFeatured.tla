----------------------------- MODULE MCFeatured -----------------------------
(* Featured for TLC: two plans of one and two days.                        *)
EXTENDS Featured, TLC

MCDuration == [p \in Plan |-> IF p = "short" THEN 1 ELSE 2]
=============================================================================
