----------------------------- MODULE MCPayments -----------------------------
(* Payments for TLC: processes that serve the same requests are alike.     *)
EXTENDS Payments, TLC

Alike == Permutations(Web)
=============================================================================
