------------------------------ MODULE MCStore -------------------------------
(***************************************************************************)
(* A small instance of Store for TLC.                                      *)
(***************************************************************************)
EXTENDS Store

\* the workers only differ in what they happen to do
WorkerSymmetry == Permutations(Workers)

=============================================================================
