------------------------------ MODULE MCRounds ------------------------------
(***************************************************************************)
(* Small instances of Rounds for TLC.                                      *)
(***************************************************************************)
EXTENDS Rounds

\* Eight units do not divide evenly, whatever the fee and the shares.
MCReward == [b \in Blocks |-> 8]
=============================================================================
