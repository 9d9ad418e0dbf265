----------------------------- MODULE MCLatches ------------------------------
(***************************************************************************)
(* A small instance of Latches for TLC.                                    *)
(***************************************************************************)
EXTENDS Latches, TLC

LatchSymmetry == Permutations(Workers) \cup Permutations(Locks)

=============================================================================
