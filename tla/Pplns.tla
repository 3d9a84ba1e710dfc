------------------------------- MODULE Pplns -------------------------------
(***************************************************************************)
(* The shares table and the PPLNS split (accounting.py: record_share,      *)
(* credit_block, shares_keep_floor, prune_shares).                         *)
(*                                                                         *)
(* The table is the sequence of its rows in the order of their ids, oldest *)
(* first: a row has the miner it belongs to and the work (pool difficulty) *)
(* it is weighted with.  Amounts and works are integers: the code divides  *)
(* floats and truncates, which for amounts below 2^53 is the floor.        *)
(***************************************************************************)
EXTENDS Accounting, Sequences

CONSTANTS
  OtherCoin,   \* the miners of another coin whose pool shares the database
  Window,      \* cfg.public.pplns_window
  FeePercent,  \* cfg.public.fee_percent
  Works        \* the difficulties a share can be credited at

ASSUME OtherCoinApart == OtherCoin \cap Miners = {}
ASSUME WindowPositive == Window \in Nat \ {0}
ASSUME FeeBelow100 == FeePercent \in 0..99
ASSUME WorksPositive == Works \subseteq Nat \ {0}

Row == [miner : Miners \cup OtherCoin, work : Works]

\* The rows of the table s that belong to this coin, by their position.
Ours(s) == {i \in DOMAIN s : s[i].miner \in Miners}

\* JOIN miners ... WHERE m.coin=? ORDER BY s.id DESC LIMIT window
WindowRows(s) ==
  {i \in Ours(s) : Cardinality({j \in Ours(s) : j > i}) < Window}

WorkOf(s, m) ==
  Total([i \in DOMAIN s |-> s[i].work], {i \in WindowRows(s) : s[i].miner = m})

Earned(s, payable) ==
  LET work  == [m \in Miners |-> WorkOf(s, m)]
      total == Total(work, Miners)
  IN  [m \in Miners |-> IF total = 0 THEN 0 ELSE (payable * work[m]) \div total]

\* Mutation: the faucet gets the fee and not the rounding remainder.
SplitLosingDust(s, reward) ==
  LET payable == (reward * (100 - FeePercent)) \div 100
      earned  == Earned(s, payable)
  IN  [earned EXCEPT ![Faucet] = earned[Faucet] + (reward - payable)]

\* What each miner gets of a reward: its part of the payable amount by work,
\* and the faucet the fee and whatever truncation left over.
Split(s, reward) ==
  LET payable == (reward * (100 - FeePercent)) \div 100
      earned  == Earned(s, payable)
  IN  [earned EXCEPT ![Faucet] = earned[Faucet] + (reward - Total(earned, Miners))]

\* How many of the oldest rows of s lie beyond the rows a prune must keep.
\* The keep_recent most recent rows are counted over every coin in the table.
BeyondFloor(s) == Clamp(Len(s) - Window)
=============================================================================
