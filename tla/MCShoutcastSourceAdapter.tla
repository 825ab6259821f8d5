--------------------- MODULE MCShoutcastSourceAdapter ---------------------
(* The adapter with a handful of requests, for TLC. *)
EXTENDS ShoutcastSourceAdapter, TLC

\* Requests are only ever compared with each other.  Safety runs only.
Symmetry == Permutations(Requests)
=============================================================================
