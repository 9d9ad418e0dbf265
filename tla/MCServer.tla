------------------------------ MODULE MCServer ------------------------------
(***************************************************************************)
(* Small instances of Server for TLC.                                      *)
(***************************************************************************)
EXTENDS Server, TLC

\* Workers and connections are interchangeable: descriptors and messages are
\* numbered in the order in which they come.
ServerSymmetry == Permutations(Workers) \cup Permutations(Conns)

=============================================================================
