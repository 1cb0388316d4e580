--------------------------- MODULE MCInterpreter ---------------------------
(* Small instances of Interpreter for TLC.                                 *)
EXTENDS Interpreter, TLC

Interchangeable == Permutations(Modules)
=============================================================================
