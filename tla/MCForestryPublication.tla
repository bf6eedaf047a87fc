------------------------ MODULE MCForestryPublication ------------------------
(***************************************************************************)
(* Instances of ForestryPublication for TLC.                                *)
(***************************************************************************)
EXTENDS ForestryPublication, TLC

(* Reviewers are interchangeable. *)
MCSymmetry == Permutations(Reviewers)

(* The second and third versions differ from the first by changes that need  *)
(* review; from each other they do not.                                      *)
MCReviewRequired == {<<"s2", "s1">>, <<"s3", "s1">>}

=============================================================================
