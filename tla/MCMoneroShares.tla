---------------------------- MODULE MCMoneroShares ----------------------------
(***************************************************************************)
(* Small instances of MoneroShares for TLC.                                *)
(***************************************************************************)
EXTENDS MoneroShares, TLC

\* The connections are alike.
MCSymmetry == Permutations(Conns)
=============================================================================
