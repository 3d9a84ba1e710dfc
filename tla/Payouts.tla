------------------------------- MODULE Payouts -------------------------------
(***************************************************************************)
(* Paying miners (pool.py, the payout task of a BTC or LTC pool).          *)
(*                                                                         *)
(* Four actors share one database and one wallet:                          *)
(*   - the payout task, a coroutine: between two awaits its code runs      *)
(*     undisturbed by the process, and pc names the await it is at;        *)
(*   - the maturity task of the same process, which credits balances;      *)
(*   - the operator's admin CLI, another process, whose transactions fall  *)
(*     anywhere between those of the pool;                                 *)
(*   - the node's wallet, which executes a sendmany when it gets to it,    *)
(*     whether or not the pool still waits for the answer.                 *)
(* The process can crash at any step, and the machine can lose power,      *)
(* which takes the database back to what was last synced.                  *)
(*                                                                         *)
(* Faults names what may go wrong beyond crashes, power cuts, rejected     *)
(* sends and timed-out replies:                                            *)
(*   find_error        the wallet has executed a timed-out sendmany, and   *)
(*                     the query that follows fails (find_wallet_tx then   *)
(*                     answers "", as for a batch that is not there)       *)
(*   late_send         the wallet has yet to execute a timed-out sendmany  *)
(*                     when that query is answered                         *)
(*   lost_reply        the reply of an executed sendmany is cut off or     *)
(*                     garbled, which the client reports as RPCError       *)
(*   hasty_operator    the operator clears an intent as unpaid while its   *)
(*                     send is still in the wallet's queue                 *)
(*   racing_debit      the operator debits a miner whose balance a payout  *)
(*                     round has read and not yet settled                  *)
(*   checkpoint_fails  the checkpoint that makes an intent durable fails   *)
(*                     or is kept from finishing by another connection,    *)
(*                     and the send goes ahead all the same                *)
(***************************************************************************)
EXTENDS Accounting, FiniteSets

CONSTANTS
  NoComment,     \* no batch is being sent
  Credits,       \* the split credit_block recorded for each block
  MinPayout,     \* cfg.public.min_payout in base units
  Budgets,       \* what get_balance may leave to spend, less the fee reserve
  Adjustments,   \* the amounts an operator credits or debits
  Faults,        \* the faults the environment may show
  MaxCrashes,    \* bound: crashes and power cuts in a behaviour
  MaxAdjusts     \* bound: balance adjustments in a behaviour

FaultKinds == {"find_error", "late_send", "lost_reply",
               "hasty_operator", "racing_debit", "checkpoint_fails"}

ASSUME NoCommentNew == NoComment \notin Comments
ASSUME CreditsNat == Credits \in [Blocks -> [Miners -> Nat]]
ASSUME MinPayoutNat == MinPayout \in Nat
ASSUME BudgetsInt == Budgets \subseteq Int
ASSUME AdjustmentsNat == Adjustments \subseteq Nat
ASSUME FaultsKnown == Faults \subseteq FaultKinds
ASSUME BoundsNat == MaxCrashes \in Nat /\ MaxAdjusts \in Nat

VARIABLES
  db,        \* the database as every connection sees it
  disk,      \* the database as a power cut would leave it
  pc,        \* where the payout task waits
  todo,      \* _reconcile_pending_payouts: the rows not yet looked at
  cand,      \* _do_payouts: the balances read by payable (0: not payable)
  cur,       \* _do_payouts: the comment of the batch being sent
  outputs,   \* the amounts of the sendmany tagged c
  wallet,    \* what became of the sendmany tagged c
  sent,      \* what the wallet has broadcast to each miner in all
  crashes,   \* crashes so far
  adjusts    \* operator adjustments so far

vars == <<db, disk, pc, todo, cand, cur, outputs, wallet, sent, crashes, adjusts>>

task == <<todo, cand, cur>>            \* the locals of the payout task
external == <<outputs, wallet, sent>>  \* the node's side
bounds == <<crashes, adjusts>>

PcStates == {"down", "boot", "sleep", "reconcile", "collect", "balance",
             "sending", "finding", "notfound", "debit", "sweep"}

\* Where the task holds a batch.
Paying == {"sending", "finding", "notfound", "debit"}

WalletStates == {"idle", "queued", "broadcast", "dead"}

TypeOK ==
  /\ db \in Ledger
  /\ disk \in Ledger
  /\ pc \in PcStates
  /\ todo \in [Comments -> Intent]
  /\ cand \in [Miners -> Nat]
  /\ cur \in IF pc \in Paying THEN Comments ELSE {NoComment}
  /\ outputs \in [Comments -> [Miners -> Nat]]
  /\ wallet \in [Comments -> WalletStates]
  /\ sent \in [Miners -> Nat]
  /\ crashes \in Nat
  /\ adjusts \in Nat

NoRows == [c \in Comments |-> NoIntent]

\* A pool that has found its blocks and paid nobody yet.
FirstLedger == [EmptyLedger EXCEPT !.status  = [b \in Blocks |-> "immature"],
                                   !.credits = Credits]

Init ==
  /\ db = FirstLedger
  /\ disk = FirstLedger
  /\ pc = "boot"
  /\ todo = NoRows
  /\ cand = Nothing
  /\ cur = NoComment
  /\ outputs = [c \in Comments |-> Nothing]
  /\ wallet = [c \in Comments |-> "idle"]
  /\ sent = Nothing
  /\ crashes = 0
  /\ adjusts = 0

-----------------------------------------------------------------------------
(* Durability.  A commit reaches the disk at a checkpoint, or whenever the *)
(* operating system writes it back (Writeback).                            *)

Commit == UNCHANGED disk

\* Mutation: an intent is only committed.
CommitOnly == UNCHANGED disk

\* _fsync_durable: everything committed so far is on disk.
CommitDurably ==
  \/ disk' = db'
  \/ /\ "checkpoint_fails" \in Faults
     /\ UNCHANGED disk

Writeback ==
  /\ disk # db
  /\ disk' = db
  /\ UNCHANGED <<db, pc, task, external, bounds>>

-----------------------------------------------------------------------------
(* _reconcile_pending_payouts, at startup and at the head of every round.  *)
(* It walks a list read once, so a row may have been resolved meanwhile.   *)

Reconciling == pc \in {"boot", "reconcile"}

Todo == {c \in Comments : todo[c].txid # "absent"}

Done(c) == todo' = [todo EXCEPT ![c] = NoIntent]

ReconcileKnown(c) ==
  /\ Reconciling
  /\ todo[c].txid = "known"
  /\ db' = RecordPayouts(db, c, todo[c].items)
  /\ Commit
  /\ Done(c)
  /\ UNCHANGED <<pc, cand, cur, external, bounds>>

\* find_wallet_tx has found the transaction of batch c.
ReconcileFound(c) ==
  /\ Reconciling
  /\ todo[c].txid = "null"
  /\ wallet[c] = "broadcast"
  /\ db' = RecordPayouts(db, c, todo[c].items)
  /\ Commit
  /\ Done(c)
  /\ UNCHANGED <<pc, cand, cur, external, bounds>>

\* Mutation: an intent whose transaction is not seen is cleared.
ReconcileByClearing(c) ==
  /\ Reconciling
  /\ todo[c].txid = "null"
  /\ db' = ClearPayout(db, c)
  /\ Commit
  /\ Done(c)
  /\ UNCHANGED <<pc, cand, cur, external, bounds>>

\* No such transaction, or no answer: the intent stays.
ReconcileIndeterminate(c) ==
  /\ Reconciling
  /\ todo[c].txid = "null"
  /\ Done(c)
  /\ UNCHANGED <<db, disk, pc, cand, cur, external, bounds>>

ReconcileEnds ==
  /\ Reconciling
  /\ Todo = {}
  /\ pc' = IF pc = "boot" THEN "sleep" ELSE "collect"
  /\ UNCHANGED <<db, disk, task, external, bounds>>

-----------------------------------------------------------------------------
(* _do_payouts.                                                            *)

\* Mutation: intents are reconciled at startup only.
WakeWithoutReconcile ==
  /\ pc = "sleep"
  /\ pc' = "collect"
  /\ UNCHANGED <<db, disk, task, external, bounds>>

\* The payout interval is over: a round begins with a reconciliation.
Wake ==
  /\ pc = "sleep"
  /\ pc' = "reconcile"
  /\ todo' = db.pending
  /\ UNCHANGED <<db, disk, cand, cur, external, bounds>>

\* The miners to pay: owed enough, and named by no unresolved intent.
ToPay == Payable(db, MinPayout) \ PendingPayoutMinerIds(db)

CollectPayable ==
  /\ pc = "collect"
  /\ IF ToPay = {}
     THEN /\ pc' = "sweep"
          /\ UNCHANGED cand
     ELSE /\ pc' = "balance"
          /\ cand' = [m \in Miners |-> IF m \in ToPay THEN db.owed[m] ELSE 0]
  /\ UNCHANGED <<db, disk, todo, cur, external, bounds>>

\* S is what the loop over payable selects: largest balance first, skipping
\* what no longer fits the budget; equal balances come in any order.
Affordable(S, budget) ==
  LET Owed == {m \in Miners : cand[m] > 0}
  IN  \E rank \in [Owed -> 1..Cardinality(Owed)] :
        /\ \A m, n \in Owed : cand[m] > cand[n] => rank[m] < rank[n]
        /\ \A m, n \in Owed : m # n => rank[m] # rank[n]
        /\ \A m \in Owed :
             m \in S <=> Total(cand, {n \in S : rank[n] < rank[m]}) + cand[m] <= budget

\* get_balance answered: the batch is fixed, its intent made durable, and the
\* sendmany handed to the wallet, with no await in between.
SendBatch(c) ==
  /\ pc = "balance"
  /\ wallet[c] = "idle"
  /\ \E budget \in Budgets, S \in SUBSET {m \in Miners : cand[m] > 0} :
       /\ S # {}
       /\ Affordable(S, budget)
       /\ LET items == [m \in Miners |-> IF m \in S THEN cand[m] ELSE 0]
          IN  /\ db' = BeginPayout(db, c, items)
              /\ outputs' = [outputs EXCEPT ![c] = items]
  /\ CommitDurably
  /\ wallet' = [wallet EXCEPT ![c] = "queued"]
  /\ cur' = c
  /\ pc' = "sending"
  /\ cand' = Nothing
  /\ UNCHANGED <<todo, sent, bounds>>

\* get_balance failed, or nothing fits the budget.
NothingToSend ==
  /\ pc = "balance"
  /\ pc' = "sweep"
  /\ cand' = Nothing
  /\ UNCHANGED <<db, disk, todo, cur, external, bounds>>

\* The reply carries the txid: it is recorded durably before the debit.
SendReturns ==
  /\ pc = "sending"
  /\ wallet[cur] = "broadcast"
  /\ db' = SetPayoutTxid(db, cur)
  /\ CommitDurably
  /\ pc' = "debit"
  /\ UNCHANGED <<task, external, bounds>>

\* Mutation: a timeout is read as a rejection.
TimeoutIsRejection ==
  /\ pc = "sending"
  /\ db' = ClearPayout(db, cur)
  /\ Commit
  /\ pc' = "sweep"
  /\ cur' = NoComment
  /\ UNCHANGED <<todo, cand, external, bounds>>

\* RPCTimeout, whatever the wallet has done or will do.
SendTimesOut ==
  /\ pc = "sending"
  /\ pc' = "finding"
  /\ UNCHANGED <<db, disk, task, external, bounds>>

\* RPCError is read as a rejection: the intent is dropped.
SendFails ==
  /\ pc = "sending"
  /\ \/ wallet[cur] = "dead"
     \/ "lost_reply" \in Faults /\ wallet[cur] = "broadcast"
  /\ db' = ClearPayout(db, cur)
  /\ Commit
  /\ pc' = "sweep"
  /\ cur' = NoComment
  /\ UNCHANGED <<todo, cand, external, bounds>>

\* find_wallet_tx after the timeout: the transaction is there.
FindSucceeds ==
  /\ pc = "finding"
  /\ wallet[cur] = "broadcast"
  /\ db' = SetPayoutTxid(db, cur)
  /\ CommitDurably
  /\ pc' = "debit"
  /\ UNCHANGED <<task, external, bounds>>

\* find_wallet_tx after the timeout answers "".
FindIsEmpty ==
  /\ pc = "finding"
  /\ \/ wallet[cur] = "dead"
     \/ "late_send" \in Faults /\ wallet[cur] = "queued"
     \/ "find_error" \in Faults /\ wallet[cur] = "broadcast"
  /\ pc' = "notfound"
  /\ UNCHANGED <<db, disk, task, external, bounds>>

\* Mutation: a batch that is not found is debited all the same.
DebitUnfound ==
  /\ pc = "notfound"
  /\ db' = RecordPayouts(db, cur, outputs[cur])
  /\ Commit
  /\ pc' = "sweep"
  /\ cur' = NoComment
  /\ UNCHANGED <<todo, cand, external, bounds>>

GiveUpBatch ==
  /\ pc = "notfound"
  /\ db' = ClearPayout(db, cur)
  /\ Commit
  /\ pc' = "sweep"
  /\ cur' = NoComment
  /\ UNCHANGED <<todo, cand, external, bounds>>

DebitBatch ==
  /\ pc = "debit"
  /\ db' = RecordPayouts(db, cur, outputs[cur])
  /\ Commit
  /\ pc' = "sweep"
  /\ cur' = NoComment
  /\ UNCHANGED <<todo, cand, external, bounds>>

\* The end of a round: once an hour, the balances of idle miners are swept.
Sweep ==
  /\ pc = "sweep"
  /\ \/ \E idle \in SUBSET Miners : db' = SweepStale(db, idle) /\ Commit
     \/ UNCHANGED <<db, disk>>
  /\ pc' = "sleep"
  /\ UNCHANGED <<task, external, bounds>>

-----------------------------------------------------------------------------
(* A write that SQLite refuses (the admin CLI holds the lock for longer    *)
(* than busy_timeout, the disk is full) is rolled back, and its exception  *)
(* ends the reconciliation or the round it is part of.                     *)

ReconcileWriteFails ==
  /\ Reconciling
  /\ Todo # {}
  /\ todo' = NoRows
  /\ pc' = IF pc = "boot" THEN "sleep" ELSE "collect"
  /\ UNCHANGED <<db, disk, cand, cur, external, bounds>>

\* Of begin_payout, before anything is sent, NothingToSend tells as much.
PayoutWriteFails ==
  /\ \/ pc \in {"sending", "finding"} /\ wallet[cur] = "broadcast"
     \/ pc = "sending" /\ wallet[cur] = "dead"
     \/ pc \in {"notfound", "debit"}
  /\ pc' = "sweep"
  /\ cur' = NoComment
  /\ UNCHANGED <<db, disk, todo, cand, external, bounds>>

-----------------------------------------------------------------------------
(* The maturity task.                                                      *)

ApplyMaturity(b) ==
  /\ pc # "down"
  /\ db.status[b] = "immature"
  /\ \/ db' = MatureBlock(db, b)
     \/ db' = OrphanBlock(db, b)
  /\ Commit
  /\ UNCHANGED <<pc, task, external, bounds>>

-----------------------------------------------------------------------------
(* The admin CLI.                                                          *)

\* resolve --paid, for a batch the operator has seen on chain.
ResolvePaid(c) ==
  /\ Pending(db, c)
  /\ wallet[c] = "broadcast"
  /\ db' = RecordPayouts(db, c, db.pending[c].items)
  /\ Commit
  /\ UNCHANGED <<pc, task, external, bounds>>

\* resolve --unpaid, refused once a txid is recorded.
ResolveUnpaid(c) ==
  /\ Pending(db, c)
  /\ db.pending[c].txid # "known"
  /\ \/ wallet[c] = "dead"
     \/ "hasty_operator" \in Faults /\ wallet[c] = "queued"
  /\ db' = ClearPayout(db, c)
  /\ Commit
  /\ UNCHANGED <<pc, task, external, bounds>>

\* No payout round has read m's balance and not yet settled it.
\* That a debit waits for this is up to the operator, the code does not see to it
\* (admin.py: "running them with the pool stopped is cleanest").
Settled(m) == cand[m] = 0 /\ m \notin PendingPayoutMinerIds(db)

AdjustOwed(m) ==
  /\ adjusts < MaxAdjusts
  /\ \E n \in Adjustments :
       \/ db' = AdjustBalance(db, m, n)
       \/ /\ Settled(m) \/ "racing_debit" \in Faults
          /\ db' = AdjustBalance(db, m, -n)
  /\ Commit
  /\ adjusts' = adjusts + 1
  /\ UNCHANGED <<pc, task, external, crashes>>

-----------------------------------------------------------------------------
(* The wallet, and the failures.                                           *)

WalletBroadcasts(c) ==
  /\ wallet[c] = "queued"
  /\ wallet' = [wallet EXCEPT ![c] = "broadcast"]
  /\ sent' = [m \in Miners |-> sent[m] + outputs[c][m]]
  /\ UNCHANGED <<db, disk, pc, task, outputs, bounds>>

\* Rejected, or never received.
WalletDrops(c) ==
  /\ wallet[c] = "queued"
  /\ wallet' = [wallet EXCEPT ![c] = "dead"]
  /\ UNCHANGED <<db, disk, pc, task, outputs, sent, bounds>>

\* The process dies, or is stopped, and loses what it held in memory.
Down ==
  /\ pc' = "down"
  /\ todo' = NoRows
  /\ cand' = Nothing
  /\ cur' = NoComment
  /\ crashes < MaxCrashes
  /\ crashes' = crashes + 1
  /\ UNCHANGED <<external, adjusts>>

Crash ==
  /\ pc # "down"
  /\ Down
  /\ UNCHANGED <<db, disk>>

PowerCut ==
  /\ Down
  /\ db' = disk
  /\ UNCHANGED disk

Restart ==
  /\ pc = "down"
  /\ pc' = "boot"
  /\ todo' = db.pending
  /\ UNCHANGED <<db, disk, cand, cur, external, bounds>>

-----------------------------------------------------------------------------
PayoutTask ==
  \/ Wake
  \/ \E c \in Comments : \/ ReconcileKnown(c)
                         \/ ReconcileFound(c)
                         \/ ReconcileIndeterminate(c)
                         \/ SendBatch(c)
  \/ ReconcileEnds
  \/ CollectPayable
  \/ NothingToSend
  \/ SendReturns
  \/ SendTimesOut
  \/ SendFails
  \/ FindSucceeds
  \/ FindIsEmpty
  \/ GiveUpBatch
  \/ DebitBatch
  \/ Sweep

Operator ==
  \/ \E c \in Comments : ResolvePaid(c) \/ ResolveUnpaid(c)
  \/ \E m \in Miners : AdjustOwed(m)

Wallet == \E c \in Comments : WalletBroadcasts(c) \/ WalletDrops(c)

Next ==
  \/ PayoutTask
  \/ ReconcileWriteFails
  \/ PayoutWriteFails
  \/ \E b \in Blocks : ApplyMaturity(b)
  \/ Operator
  \/ Wallet
  \/ Writeback
  \/ Crash
  \/ PowerCut
  \/ Restart

Spec == Init /\ [][Next]_vars

\* The event loop runs the task, the supervisor restarts the process, the
\* wallet works its queue off, the node is not unreachable for ever, nor does
\* every write to the database fail.
Fairness ==
  /\ WF_vars(PayoutTask)
  /\ WF_vars(Restart)
  /\ WF_vars(Wallet)
  /\ SF_vars(\E c \in Comments : ReconcileKnown(c) \/ ReconcileFound(c))

FairSpec == Spec /\ Fairness

-----------------------------------------------------------------------------
(* Properties.                                                             *)

\* What a batch on chain that d still holds as an intent pays miner m, where w
\* says what became of the batches.  OneIntentPerMiner leaves one to choose.
InFlight(d, w, m) ==
  LET batches == {c \in Comments : w[c] = "broadcast" /\ Names(d, c, m)}
  IN  IF batches = {} THEN 0 ELSE d.pending[CHOOSE c \in batches : TRUE].items[m]

\* No two unresolved intents name the same miner, so that a batch in doubt
\* blocks every later payment to its miners (pool.py: in_flight).
OneIntentPerMiner ==
  \A d \in {db, disk}, m \in Miners, c1, c2 \in Comments :
    Names(d, c1, m) /\ Names(d, c2, m) => c1 = c2

\* A balance is debited only for a payment that is on chain, and once: the
\* task, the reconciler and the admin CLI may race for the same intent, and
\* a power cut may undo the debit (accounting.py: record_payouts).
DebitOnlyIfBroadcast ==
  \A d \in {db, disk}, m \in Miners : d.paid[m] + InFlight(d, wallet, m) <= sent[m]

\* Every payment on chain is debited or still held as an intent, in the
\* database and in what a power cut leaves of it: nobody is paid twice for
\* one balance (pool.py: _do_payouts, _reconcile_pending_payouts).
BroadcastOnBooks ==
  \A d \in {db, disk}, m \in Miners : sent[m] <= d.paid[m] + InFlight(d, wallet, m)

\* Hence no miner ever receives more than was credited to it.
NoDoublePay ==
  \A d \in {db, disk}, m \in Miners : sent[m] <= d.owed[m] + d.paid[m]

\* The balance of a miner still covers the batch that names it: no sweep or
\* maturity gets between the intent and the debit, whose clamp at 0 never
\* acts (accounting.py: sweep_stale, record_payouts).
IntentCovered ==
  \A d \in {db, disk}, c \in Comments, m \in Miners :
    Pending(d, c) => d.pending[c].items[m] <= d.owed[m]

\* A batch the wallet may still execute has its intent on disk
\* (accounting.py: begin_payout).
IntentBeforeSend ==
  \A c \in Comments : wallet[c] = "queued" => Pending(disk, c)

\* The debits catch up with what was sent to a miner again and again, whatever
\* crashes, power cuts, timeouts and failed writes come between: an intent that
\* goes without a debit does not count (pool.py: _reconcile_pending_payouts).
EventuallyDebited == \A m \in Miners : []<>(db.paid[m] >= sent[m])

\* The pool pays as IdealPayouts does.  A miner's credit is what it is owed
\* and has been debited for; a payment happens when the wallet broadcasts it.
Books(d) == [credited |-> [m \in Miners |-> d.owed[m] + d.paid[m]],
             settled  |-> {b \in Blocks : d.status[b] # "immature"}]

Ideal == INSTANCE IdealPayouts
           WITH books <- Books(db), saved <- Books(disk), paid <- sent

PaysIdeally == Ideal!Spec
=============================================================================
