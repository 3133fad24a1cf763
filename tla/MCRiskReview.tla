---------------------------- MODULE MCRiskReview ----------------------------
(* Small reviews for RiskReview. *)
EXTENDS RiskReview, TLC

\* Threads, calls and questions are alike.
Alike == Permutations(Thread) \cup Permutations(Call) \cup Permutations(Question)
=============================================================================
