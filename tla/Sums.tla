-------------------------------- MODULE Sums --------------------------------
(***************************************************************************)
(* Sums of amounts.                                                        *)
(***************************************************************************)
EXTENDS Integers, FiniteSetsExt

\* The sum of the values of f over S.
Total(f, S) == MapThenSumSet(LAMBDA m : f[m], S)
=============================================================================
