----------------------------- MODULE Accounting -----------------------------
(***************************************************************************)
(* The SQLite database of one coin (accounting.py, class Accounting).      *)
(*                                                                         *)
(* A database is a record with one field per table the caller works on.    *)
(* Every method of the class that writes runs in one transaction, so it is *)
(* an operator from databases to databases: a module that composes the     *)
(* database with the tasks that call it writes db' = Method(db, ...).  An  *)
(* operator reads and changes only the fields it names.                    *)
(*                                                                         *)
(*   owed[m]     balances.owed of miner m (0 when m has no row)            *)
(*   paid[m]     SUM(amount) of m's rows in payouts                        *)
(*   pending[c]  the pending_payouts row of batch c: its items (amount 0   *)
(*               for a miner that is not named) and its txid column        *)
(*   status[b]   blocks.status of block b, "none" before it is recorded    *)
(*   credits[b]  the credits rows of block b, amount per miner             *)
(***************************************************************************)
EXTENDS Integers, Sums

CONSTANTS
  Miners,    \* the rows of the miners table, one per payout address
  Faucet,    \* the miner that receives the fee, the dust and swept balances
  Comments,  \* the comments that tag payout batches
  Blocks     \* the blocks the pool can record

ASSUME FaucetIsMiner == Faucet \in Miners
ASSUME TablesFinite == IsFiniteSet(Miners) /\ IsFiniteSet(Blocks)

Nothing == [m \in Miners |-> 0]

NoIntent == [txid |-> "absent", items |-> Nothing]

Intent == [txid : {"absent", "null", "known"}, items : [Miners -> Nat]]

BlockStatus == {"none", "immature", "matured", "orphaned", "stale"}

\* The tables the payout side of the pool works on.
Ledger == [owed    : [Miners -> Nat],
           paid    : [Miners -> Nat],
           pending : [Comments -> Intent],
           status  : [Blocks -> BlockStatus],
           credits : [Blocks -> [Miners -> Nat]]]

EmptyLedger == [owed    |-> Nothing,
                paid    |-> Nothing,
                pending |-> [c \in Comments |-> NoIntent],
                status  |-> [b \in Blocks |-> "none"],
                credits |-> [b \in Blocks |-> Nothing]]

-----------------------------------------------------------------------------
(* Helpers.                                                                *)

\* SQL's MAX(0, n).
Clamp(n) == IF n < 0 THEN 0 ELSE n

Pending(d, c) == d.pending[c].txid # "absent"

\* Batch c is unresolved in d and pays miner m.
Names(d, c, m) == Pending(d, c) /\ d.pending[c].items[m] > 0

\* Mutation: only the batches with a txid count as in flight.
OnlyProvenMinerIds(d) ==
  {m \in Miners : \E c \in Comments : Names(d, c, m) /\ d.pending[c].txid = "known"}

PendingPayoutMinerIds(d) == {m \in Miners : \E c \in Comments : Names(d, c, m)}

Payable(d, min) == {m \in Miners : d.owed[m] >= min}

-----------------------------------------------------------------------------
(* Blocks: the credits of a block reach the balances when it matures.      *)

\* INSERT OR IGNORE, then nothing more for a block that is already recorded.
CreditBlock(d, b, split) ==
  IF d.status[b] # "none"
  THEN d
  ELSE [d EXCEPT !.status  = [d.status EXCEPT ![b] = "immature"],
                 !.credits = [d.credits EXCEPT ![b] = split]]

\* Mutation: the credits are applied, the status is left behind.
MatureWithoutStatus(d, b) ==
  IF d.status[b] # "immature"
  THEN d
  ELSE [d EXCEPT !.owed = [m \in Miners |-> d.owed[m] + d.credits[b][m]]]

MatureBlock(d, b) ==
  IF d.status[b] # "immature"
  THEN d
  ELSE [d EXCEPT !.owed = [m \in Miners |-> d.owed[m] + d.credits[b][m]],
                 !.status = [d.status EXCEPT ![b] = "matured"]]

OrphanBlock(d, b) ==
  [d EXCEPT !.credits = [d.credits EXCEPT ![b] = Nothing],
            !.status  = [d.status EXCEPT
                           ![b] = IF d.status[b] = "immature" THEN "orphaned"
                                                              ELSE d.status[b]]]

-----------------------------------------------------------------------------
(* Payout intents.                                                         *)

BeginPayout(d, c, items) ==
  [d EXCEPT !.pending =
     [d.pending EXCEPT ![c] = [txid |-> "null", items |-> items]]]

\* UPDATE ... WHERE comment=?: nothing happens when the row is gone.
SetPayoutTxid(d, c) ==
  IF Pending(d, c)
  THEN [d EXCEPT !.pending =
          [d.pending EXCEPT ![c] = [txid |-> "known", items |-> d.pending[c].items]]]
  ELSE d

ClearPayout(d, c) ==
  [d EXCEPT !.pending = [d.pending EXCEPT ![c] = NoIntent]]

\* The debit is gated on having removed the intent in the same transaction.
RecordPayouts(d, c, items) ==
  IF ~Pending(d, c)
  THEN d
  ELSE [d EXCEPT !.pending = [d.pending EXCEPT ![c] = NoIntent],
                 !.owed = [m \in Miners |-> Clamp(d.owed[m] - items[m])],
                 !.paid = [m \in Miners |-> d.paid[m] + items[m]]]

-----------------------------------------------------------------------------
(* Corrections and the idle sweep.                                         *)

AdjustBalance(d, m, delta) ==
  [d EXCEPT !.owed = [d.owed EXCEPT ![m] = Clamp(d.owed[m] + delta)]]

\* Mutation: the sweep does not look at the unresolved intents.
SweptRegardless(d, idle) == {m \in idle \ {Faucet} : d.owed[m] > 0}

\* The miners of idle whose balance the sweep takes.
Swept(d, idle) ==
  {m \in idle \ {Faucet} : d.owed[m] > 0} \ PendingPayoutMinerIds(d)

SweepStale(d, idle) ==
  [d EXCEPT !.owed =
     [m \in Miners |->
        CASE m \in Swept(d, idle) -> 0
          [] m = Faucet           -> d.owed[m] + Total(d.owed, Swept(d, idle))
          [] OTHER                -> d.owed[m]]]
=============================================================================
