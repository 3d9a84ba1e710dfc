------------------------------ MODULE MCPayouts ------------------------------
(***************************************************************************)
(* Small instances of Payouts for TLC.                                     *)
(***************************************************************************)
EXTENDS Payouts

CONSTANTS alice, faucet, b1, b2

\* Each block pays alice and, its fee, the faucet.
MCCredits == [b \in Blocks |-> [m \in Miners |-> IF m = alice THEN 2 ELSE 1]]

\* Nothing to spend, enough for one small balance, enough for all.
MCBudgets == {-1, 2, 9}
=============================================================================
