---------------------------- MODULE MCReviewTasks ----------------------------
(* Instances of ReviewTasks for TLC. *)
EXTENDS ReviewTasks, TLC

ReviewerSymmetry == Permutations(Reviewers)
=============================================================================
