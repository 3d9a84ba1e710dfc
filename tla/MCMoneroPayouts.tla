--------------------------- MODULE MCMoneroPayouts ---------------------------
(***************************************************************************)
(* Small instances of MoneroPayouts for TLC.                               *)
(***************************************************************************)
EXTENDS MoneroPayouts

CONSTANTS alice, faucet, b1, b2

\* One block for each miner, so that balances come at different times.
MCCredits ==
  [b \in Blocks |-> [m \in Miners |-> IF (b = b1) = (m = alice) THEN 1 ELSE 0]]
=============================================================================
