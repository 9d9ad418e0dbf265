------------------------------- MODULE MCEval -------------------------------
(***************************************************************************)
(* A small instance of Eval for TLC.                                       *)
(***************************************************************************)
EXTENDS Eval, TLC

\* Strings, names and the objects but the first are interchangeable.
EvalSymmetry == Permutations(Strings) \cup Permutations(Names)
                \cup Permutations(Objs \ {Root})

=============================================================================
