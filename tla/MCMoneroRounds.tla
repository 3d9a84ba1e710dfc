---------------------------- MODULE MCMoneroRounds ----------------------------
(***************************************************************************)
(* Small instances of MoneroRounds for TLC.                                *)
(***************************************************************************)
EXTENDS MoneroRounds

MCBlocks == Own \cup 1..MaxForeign

\* The blocks of the pool are split alike.
MCCredits == [b \in Own |-> [m \in Miners |-> IF m = Faucet THEN 1 ELSE 2]]
=============================================================================
