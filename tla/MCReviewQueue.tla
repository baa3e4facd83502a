---------------------------- MODULE MCReviewQueue ----------------------------
(* Instances of ReviewQueue for TLC. *)
EXTENDS ReviewQueue, TLC

\* Reviewers are interchangeable, and so are routing runs. Used for safety only.
Symmetry == Permutations(Reviewers) \cup Permutations(Runs)
=============================================================================
