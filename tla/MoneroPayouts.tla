---------------------------- MODULE MoneroPayouts ----------------------------
(***************************************************************************)
(* Paying miners of a Monero pool (monero_pool.py, the payout task).       *)
(*                                                                         *)
(* A Monero wallet cannot be asked for the transaction of a batch: the     *)
(* task compares the wallet's outgoing transactions before the transfer    *)
(* with those after it, and takes what is new for its own.  The list       *)
(* before is kept with the intent, for the reconciliation after a crash;   *)
(* where the wallet could not be reached, there is no list, and what       *)
(* happened to the batch cannot be told.                                   *)
(*                                                                         *)
(* The actors are those of Payouts: the payout task with its awaits, the   *)
(* maturity task, the operator, and the wallet.  The process may crash at  *)
(* any step, a transfer may fail or its reply be late or lost, and the     *)
(* wallet may be unreachable whenever it is asked.  The wallet takes one   *)
(* request at a time: it lists its transactions when no transfer is under  *)
(* way.  Durability is the subject of Payouts and left out here.           *)
(*                                                                         *)
(* Faults names what may go wrong beyond that:                             *)
(*   blind_round   the reconciliation cannot reach the wallet, the round   *)
(*                 that follows it can                                     *)
(*   late_send     the wallet lists its transactions while a transfer that *)
(*                 was given up is still under way                         *)
(*   empty_reply   a transfer is answered without a txid while the list    *)
(*                 before or after it is missing                           *)
(***************************************************************************)
EXTENDS Accounting, FiniteSets

CONSTANTS
  NoComment,   \* no batch is being sent
  Credits,     \* the split credit_block recorded for each block
  MinPayout,   \* cfg.public.min_payout
  Budgets,     \* what get_balance leaves to spend, less the reserve
  Faults,      \* the faults the environment may show
  MaxCrashes   \* bound: crashes in a behaviour

FaultKinds == {"blind_round", "late_send", "empty_reply"}

ASSUME NoCommentNew == NoComment \notin Comments
ASSUME CreditsNat == Credits \in [Blocks -> [Miners -> Nat]]
ASSUME AmountsNat == MinPayout \in Nat /\ Budgets \subseteq Nat
ASSUME FaultsKnown == Faults \subseteq FaultKinds
ASSUME CrashesNat == MaxCrashes \in Nat

VARIABLES
  db,       \* the database
  snap,     \* the list kept with the intent of batch c
  pc,       \* where the payout task waits
  todo,     \* _reconcile_pending_payouts: the rows not yet looked at
  after,    \* _reconcile_pending_payouts: the list to compare with
  cand,     \* _do_payouts: the amounts to pay
  before,   \* _do_payouts: the list before the transfer
  cur,      \* _do_payouts: the comment of the batch being sent
  outputs,  \* the amounts of transfer c
  wallet,   \* what became of transfer c
  sent,     \* what the wallet has broadcast to each miner in all
  crashes   \* crashes so far

vars == <<db, snap, pc, todo, after, cand, before, cur, outputs, wallet, sent, crashes>>

reconciler == <<todo, after>>
round == <<cand, before, cur>>
external == <<outputs, wallet, sent>>

\* A list of transactions, each named by the batch it pays, or no list.
TxList == [known : BOOLEAN, ids : SUBSET Comments]
NoList == [known |-> FALSE, ids |-> {}]

PcStates == {"down", "boot", "sleep", "reconcile", "collect", "balance",
             "listing", "sending", "checking", "debit", "sweep"}

Paying == {"sending", "checking", "debit"}

WalletStates == {"idle", "queued", "broadcast", "dead"}

NoRows == [c \in Comments |-> NoIntent]

FirstLedger == [EmptyLedger EXCEPT !.status  = [b \in Blocks |-> "immature"],
                                   !.credits = Credits]

Init ==
  /\ db = FirstLedger
  /\ snap = [c \in Comments |-> NoList]
  /\ pc = "boot"
  /\ todo = NoRows
  /\ after = NoList
  /\ cand = Nothing
  /\ before = NoList
  /\ cur = NoComment
  /\ outputs = [c \in Comments |-> Nothing]
  /\ wallet = [c \in Comments |-> "idle"]
  /\ sent = Nothing
  /\ crashes = 0

-----------------------------------------------------------------------------
(* The wallet.                                                             *)

Broadcasts == {c \in Comments : wallet[c] = "broadcast"}

\* The wallet is free to answer.
Free == "late_send" \in Faults \/ \A c \in Comments : wallet[c] # "queued"

\* What _outgoing_txids answers.
Listed == {NoList} \cup (IF Free THEN {[known |-> TRUE, ids |-> Broadcasts]} ELSE {})

WalletBroadcasts(c) ==
  /\ wallet[c] = "queued"
  /\ wallet' = [wallet EXCEPT ![c] = "broadcast"]
  /\ sent' = [m \in Miners |-> sent[m] + outputs[c][m]]
  /\ UNCHANGED <<db, snap, pc, reconciler, round, outputs, crashes>>

WalletDrops(c) ==
  /\ wallet[c] = "queued"
  /\ wallet' = [wallet EXCEPT ![c] = "dead"]
  /\ UNCHANGED <<db, snap, pc, reconciler, round, outputs, sent, crashes>>

-----------------------------------------------------------------------------
(* _reconcile_pending_payouts: the rows are read once; the wallet is asked *)
(* at the first row that needs it, until it answers.                       *)

Reconciling == pc \in {"boot", "reconcile"}

Todo == {c \in Comments : todo[c].txid # "absent"}

Done(c) == todo' = [todo EXCEPT ![c] = NoIntent]

ReconcileKnown(c) ==
  /\ Reconciling
  /\ todo[c].txid = "known"
  /\ db' = RecordPayouts(db, c, todo[c].items)
  /\ Done(c)
  /\ UNCHANGED <<snap, pc, after, round, external, crashes>>

\* Mutation: a missing list is taken for an empty one.
VerifiableAlways(c) == todo[c].txid = "null"

\* The intent of batch c came with a list.
Verifiable(c) == todo[c].txid = "null" /\ snap[c].known

ReconcileUnverifiable(c) ==
  /\ Reconciling
  /\ todo[c].txid = "null"
  /\ ~Verifiable(c)
  /\ Done(c)
  /\ UNCHANGED <<db, snap, pc, after, round, external, crashes>>

ReconcileAsks(c) ==
  /\ Reconciling
  /\ Verifiable(c)
  /\ ~after.known
  /\ after' \in Listed
  /\ after'.known
  /\ UNCHANGED <<db, snap, pc, todo, round, external, crashes>>

\* The wallet is unreachable; the row waits for another round.  It is taken to
\* stay unreachable for the round that follows: see Blind.
ReconcileBlind(c) ==
  /\ Reconciling
  /\ Verifiable(c)
  /\ ~after.known
  /\ Done(c)
  /\ UNCHANGED <<db, snap, pc, after, round, external, crashes>>

\* Mutation: what is not seen stays pending.
ResolveSeen(c) ==
  IF after.ids \ snap[c].ids # {} THEN RecordPayouts(db, c, todo[c].items) ELSE db

\* What is new is the batch's; when nothing is, it was never sent.
Resolve(c) ==
  IF after.ids \ snap[c].ids # {}
  THEN RecordPayouts(db, c, todo[c].items)
  ELSE ClearPayout(db, c)

ReconcileDiffs(c) ==
  /\ Reconciling
  /\ Verifiable(c)
  /\ after.known
  /\ db' = Resolve(c)
  /\ Done(c)
  /\ UNCHANGED <<snap, pc, after, round, external, crashes>>

ReconcileEnds ==
  /\ Reconciling
  /\ Todo = {}
  /\ pc' = IF pc = "boot" THEN "sleep" ELSE "collect"
  /\ after' = NoList
  /\ UNCHANGED <<db, snap, todo, round, external, crashes>>

\* An intent that could be resolved was not.
Blind == \E c \in Comments : db.pending[c].txid = "null" /\ snap[c].known

-----------------------------------------------------------------------------
(* _do_payouts.                                                            *)

Wake ==
  /\ pc = "sleep"
  /\ pc' = "reconcile"
  /\ todo' = db.pending
  /\ UNCHANGED <<db, snap, after, round, external, crashes>>

ToPay == Payable(db, MinPayout) \ PendingPayoutMinerIds(db)

CollectPayable ==
  /\ pc = "collect"
  /\ IF ToPay = {}
     THEN pc' = "sweep" /\ UNCHANGED cand
     ELSE /\ pc' = "balance"
          /\ cand' = [m \in Miners |-> IF m \in ToPay THEN db.owed[m] ELSE 0]
  /\ UNCHANGED <<db, snap, reconciler, before, cur, external, crashes>>

\* get_balance: some of the miners fit the budget.  A behaviour has as many
\* batches as there are comments.
Choose ==
  /\ pc = "balance"
  /\ \E c \in Comments : wallet[c] = "idle"
  /\ ~Blind \/ "blind_round" \in Faults
  /\ \E S \in SUBSET {m \in Miners : cand[m] > 0}, budget \in Budgets :
       /\ S # {}
       /\ Total(cand, S) <= budget
       /\ cand' = [m \in Miners |-> IF m \in S THEN cand[m] ELSE 0]
  /\ pc' = "listing"
  /\ UNCHANGED <<db, snap, reconciler, before, cur, external, crashes>>

\* get_balance failed, or nothing fits the budget.
NothingToSend ==
  /\ pc = "balance"
  /\ pc' = "sweep"
  /\ cand' = Nothing
  /\ UNCHANGED <<db, snap, reconciler, before, cur, external, crashes>>

\* The wallet's transactions are listed, or it is unreachable; the intent is
\* written, and the transfer handed to the wallet, with no await in between.
SendBatch(c) ==
  /\ pc = "listing"
  /\ wallet[c] = "idle"
  /\ before' \in Listed
  /\ db' = BeginPayout(db, c, cand)
  /\ snap' = [snap EXCEPT ![c] = before']
  /\ outputs' = [outputs EXCEPT ![c] = cand]
  /\ wallet' = [wallet EXCEPT ![c] = "queued"]
  /\ cur' = c
  /\ pc' = "sending"
  /\ cand' = Nothing
  /\ UNCHANGED <<reconciler, sent, crashes>>

\* The round is over for batch cur, which leaves the database as d.
EndBatch(d) ==
  /\ db' = d
  /\ pc' = "sweep"
  /\ cur' = NoComment
  /\ before' = NoList
  /\ UNCHANGED <<snap, reconciler, cand, external, crashes>>

\* The txid is written; the debit follows.
Proven ==
  /\ db' = SetPayoutTxid(db, cur)
  /\ pc' = "debit"
  /\ UNCHANGED <<snap, reconciler, round, external, crashes>>

SendReturns ==
  /\ pc = "sending"
  /\ wallet[cur] = "broadcast"
  /\ Proven

\* _new_txids.
Fresh(list) == before.known /\ list.known /\ list.ids \ before.ids # {}

\* The reply names no transaction: the wallet is asked, and what it does not
\* show is dropped.
SendReturnsNothing ==
  /\ pc = "sending"
  /\ wallet[cur] \in {"broadcast", "dead"}
  /\ \E list \in Listed :
       /\ (before.known /\ list.known) \/ "empty_reply" \in Faults
       /\ IF Fresh(list) THEN Proven ELSE EndBatch(ClearPayout(db, cur))

\* MoneroRPCError, a timeout among them, whatever the wallet does.
SendFails ==
  /\ pc = "sending"
  /\ pc' = "checking"
  /\ UNCHANGED <<db, snap, reconciler, round, external, crashes>>

\* Mutation: a list that is missing shows nothing new.
CheckHastily ==
  /\ pc = "checking"
  /\ \E list \in Listed :
       IF Fresh(list) THEN Proven ELSE EndBatch(ClearPayout(db, cur))

\* The lists are compared, unless one is missing: then the intent stays.
Check ==
  /\ pc = "checking"
  /\ \E list \in Listed :
       CASE ~(before.known /\ list.known) -> EndBatch(db)
         [] Fresh(list)                   -> Proven
         [] OTHER                         -> EndBatch(ClearPayout(db, cur))

DebitBatch ==
  /\ pc = "debit"
  /\ EndBatch(RecordPayouts(db, cur, outputs[cur]))

\* The hourly sweep of idle balances.
Sweep ==
  /\ pc = "sweep"
  /\ \E idle \in SUBSET Miners : db' = SweepStale(db, idle)
  /\ pc' = "sleep"
  /\ UNCHANGED <<snap, reconciler, round, external, crashes>>

-----------------------------------------------------------------------------
(* The maturity task, the operator, crashes.                               *)

ApplyMaturity(b) ==
  /\ pc # "down"
  /\ db.status[b] = "immature"
  /\ db' = MatureBlock(db, b) \/ db' = OrphanBlock(db, b)
  /\ UNCHANGED <<snap, pc, reconciler, round, external, crashes>>

\* resolve --paid and --unpaid, by an operator who has looked at the wallet.
Operator(c) ==
  /\ Pending(db, c)
  /\ \/ wallet[c] = "broadcast" /\ db' = RecordPayouts(db, c, db.pending[c].items)
     \/ wallet[c] = "dead" /\ db.pending[c].txid = "null" /\ db' = ClearPayout(db, c)
  /\ UNCHANGED <<snap, pc, reconciler, round, external, crashes>>

Crash ==
  /\ pc # "down"
  /\ crashes < MaxCrashes
  /\ crashes' = crashes + 1
  /\ pc' = "down"
  /\ todo' = NoRows
  /\ after' = NoList
  /\ cand' = Nothing
  /\ before' = NoList
  /\ cur' = NoComment
  /\ UNCHANGED <<db, snap, external>>

Restart ==
  /\ pc = "down"
  /\ pc' = "boot"
  /\ todo' = db.pending
  /\ UNCHANGED <<db, snap, after, round, external, crashes>>

-----------------------------------------------------------------------------
Reconcile(c) ==
  \/ ReconcileKnown(c) \/ ReconcileUnverifiable(c) \/ ReconcileAsks(c)
  \/ ReconcileBlind(c) \/ ReconcileDiffs(c)

PayoutTask ==
  \/ Wake
  \/ \E c \in Comments : Reconcile(c) \/ SendBatch(c)
  \/ ReconcileEnds
  \/ CollectPayable
  \/ Choose
  \/ NothingToSend
  \/ SendReturns
  \/ SendReturnsNothing
  \/ SendFails
  \/ Check
  \/ DebitBatch
  \/ Sweep

Wallet == \E c \in Comments : WalletBroadcasts(c) \/ WalletDrops(c)

Next ==
  \/ PayoutTask
  \/ Wallet
  \/ \E b \in Blocks : ApplyMaturity(b)
  \/ \E c \in Comments : Operator(c)
  \/ Crash
  \/ Restart

\* The task runs, the process is restarted, the wallet works; it is not
\* unreachable in every reconciliation.
Fairness ==
  /\ WF_vars(PayoutTask)
  /\ WF_vars(Restart)
  /\ WF_vars(Wallet)
  /\ \A c \in Comments :
       SF_vars(ReconcileKnown(c)) /\ SF_vars(ReconcileAsks(c)) /\ SF_vars(ReconcileDiffs(c))

Spec == Init /\ [][Next]_vars

FairSpec == Spec /\ Fairness

-----------------------------------------------------------------------------
(* Properties.                                                             *)

TypeOK ==
  /\ db \in Ledger
  /\ snap \in [Comments -> TxList]
  /\ pc \in PcStates
  /\ todo \in [Comments -> Intent]
  /\ {after, before} \subseteq TxList
  /\ cand \in [Miners -> Nat]
  /\ cur \in IF pc \in Paying THEN Comments ELSE {NoComment}
  /\ outputs \in [Comments -> [Miners -> Nat]]
  /\ wallet \in [Comments -> WalletStates]
  /\ sent \in [Miners -> Nat]
  /\ crashes \in Nat

\* What a batch on chain that is still an intent pays miner m.
\* OneIntentPerMiner leaves one to choose.
InFlight(m) ==
  LET batches == {c \in Broadcasts : Names(db, c, m)}
  IN  IF batches = {} THEN 0 ELSE db.pending[CHOOSE c \in batches : TRUE].items[m]

\* A miner is debited only for a transfer that is on chain and that pays it,
\* although a transfer is known by nothing but its being new in the wallet
\* (_reconcile_pending_payouts, _do_payouts).
DebitOnlyIfBroadcast == \A m \in Miners : db.paid[m] + InFlight(m) <= sent[m]

\* What is on chain is debited or held as an intent, so that no balance is paid
\* twice, whichever of the wallet's answers are missing.
BroadcastOnBooks == \A m \in Miners : sent[m] <= db.paid[m] + InFlight(m)

\* No two intents name one miner: a batch that cannot be verified keeps its
\* miners from being paid again.
OneIntentPerMiner ==
  \A m \in Miners, c1, c2 \in Comments :
    Names(db, c1, m) /\ Names(db, c2, m) => c1 = c2

\* A batch with a list before it is resolved in the end, debited or given up,
\* without the operator (_reconcile_pending_payouts: "self-healing each tick").
EventuallyResolved ==
  \A c \in Comments : db.pending[c].txid = "known" \/ (Pending(db, c) /\ snap[c].known)
                        ~> ~Pending(db, c)
=============================================================================
