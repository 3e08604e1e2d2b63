----------------------------- MODULE MCRatings -----------------------------
(* Ratings for TLC: web processes and customers are interchangeable.       *)
EXTENDS Ratings, TLC

Symmetry == Permutations(Web) \cup Permutations(Customer)
=============================================================================
