----------------------------- MODULE MCUtilities -----------------------------
(* Small instances of the parts of Utilities. *)
EXTENDS Utilities

\* Weights a resolver may announce, one that is no weight among them.
Weights == {None, -1, 0, 1, 2, 4}
=============================================================================
