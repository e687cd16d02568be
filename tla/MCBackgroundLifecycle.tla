----------------------- MODULE MCBackgroundLifecycle -----------------------
(* BackgroundLifecycle on a few workers. *)
EXTENDS BackgroundLifecycle, TLC

Symmetry == Permutations(Handles) \union Permutations(Admins)
=============================================================================
