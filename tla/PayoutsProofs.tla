---------------------------- MODULE PayoutsProofs ----------------------------
(***************************************************************************)
(* Proofs about Payouts, for every value of its constants.                 *)
(***************************************************************************)
EXTENDS Payouts, AccountingProofs, TLAPS

-----------------------------------------------------------------------------
(* The inductive invariants behind these properties.  They speak of the    *)
(* database and of its durable copy alike, for a power cut turns the first *)
(* into the second; w, out and s stand for wallet, outputs and sent.       *)

\* Whatever the faults: intents are what the wallet was asked to pay, a txid
\* is proof of a broadcast, and debits never exceed what is on chain.
Sound(d, w, out, s) ==
  /\ \A c \in Comments :
       /\ Pending(d, c) => d.pending[c].items = out[c] /\ w[c] # "idle"
       /\ d.pending[c].txid = "known" => w[c] = "broadcast"
  /\ \A m \in Miners, c1, c2 \in Comments :
       Names(d, c1, m) /\ Names(d, c2, m) => c1 = c2
  /\ \A m \in Miners :
       /\ d.paid[m] <= s[m]
       /\ \A c \in Comments :
            w[c] = "broadcast" /\ Names(d, c, m) =>
              d.paid[m] + d.pending[c].items[m] <= s[m]

\* Without faults: what is on chain or in the wallet's queue is debited or
\* held as an intent, and the balances cover the intents.
Complete(d, w, s) ==
  /\ \A c \in Comments : w[c] = "queued" => Pending(d, c)
  /\ \A m \in Miners :
       \/ s[m] <= d.paid[m]
       \/ \E c \in Comments : /\ w[c] = "broadcast"
                              /\ Names(d, c, m)
                              /\ s[m] <= d.paid[m] + d.pending[c].items[m]
  /\ \A c \in Comments, m \in Miners :
       Pending(d, c) => d.pending[c].items[m] <= d.owed[m]

\* What the payout task remembers is still true.
TaskSound ==
  /\ \A c \in Comments :
       /\ todo[c].txid # "absent" =>
            todo[c].items = outputs[c] /\ wallet[c] # "idle"
       /\ todo[c].txid = "known" => wallet[c] = "broadcast"
  /\ pc = "balance" =>
       \A m \in Miners, c \in Comments : cand[m] > 0 => ~Names(db, c, m)
  /\ pc \in Paying => wallet[cur] # "idle"
  /\ pc = "debit" => wallet[cur] = "broadcast"

TaskComplete ==
  /\ pc = "notfound" => wallet[cur] = "dead"
  /\ pc = "balance" => \A m \in Miners : cand[m] <= db.owed[m]

SoundInv ==
  /\ TypeOK
  /\ Sound(db, wallet, outputs, sent)
  /\ Sound(disk, wallet, outputs, sent)
  /\ TaskSound

CompleteInv ==
  /\ SoundInv
  /\ Complete(db, wallet, sent)
  /\ Complete(disk, wallet, sent)
  /\ TaskComplete

\* A block that has not been settled still has the split it was recorded with.
SplitKept(d) == \A b \in Blocks : d.status[b] = "immature" => d.credits[b] = Credits[b]

\* What a step needs to be one of IdealPayouts.
IdealInv ==
  /\ CompleteInv
  /\ SplitKept(db)
  /\ SplitKept(disk)

-----------------------------------------------------------------------------
(* Type correctness.                                                       *)

\* The database before anything is paid is one.
LEMMA FirstLedgerType == FirstLedger \in Ledger
BY CreditsNat
   DEF FirstLedger, EmptyLedger, Ledger, Nothing, NoIntent, Intent, BlockStatus

LEMMA NoRowsType == NoRows \in [Comments -> Intent]
BY NoIntentType DEF NoRows

LEMMA InitType == Init => TypeOK
BY FirstLedgerType, NoRowsType DEF Init, TypeOK, PcStates, Paying, WalletStates, Nothing

LEMMA ReconcileType ==
  ASSUME TypeOK, NEW c \in Comments,
         ReconcileKnown(c) \/ ReconcileFound(c) \/ ReconcileIndeterminate(c)
  PROVE  TypeOK'
<1>1. todo' \in [Comments -> Intent]
  BY NoIntentType DEF TypeOK, ReconcileKnown, ReconcileFound,
                      ReconcileIndeterminate, Done
<1>2. todo[c].items \in [Miners -> Nat]
  BY DEF TypeOK, Intent
<1>3. db' \in Ledger
  BY <1>2, RecordPayoutsType DEF TypeOK, ReconcileKnown, ReconcileFound,
                                 ReconcileIndeterminate
<1> QED
  BY <1>1, <1>3 DEF TypeOK, ReconcileKnown, ReconcileFound,
                    ReconcileIndeterminate, Reconciling, Paying,
                    Commit, external, bounds

LEMMA SendBatchType ==
  ASSUME TypeOK, NEW c \in Comments, SendBatch(c)
  PROVE  TypeOK'
<1>1. PICK S \in SUBSET {m \in Miners : cand[m] > 0} :
        LET items == [m \in Miners |-> IF m \in S THEN cand[m] ELSE 0]
        IN  db' = BeginPayout(db, c, items) /\ outputs' = [outputs EXCEPT ![c] = items]
  BY DEF SendBatch
<1> DEFINE items == [m \in Miners |-> IF m \in S THEN cand[m] ELSE 0]
<1>2. items \in [Miners -> Nat]
  BY DEF TypeOK
<1> HIDE DEF items
<1>3. db' \in Ledger /\ outputs' \in [Comments -> [Miners -> Nat]]
  BY <1>1, <1>2, BeginPayoutType DEF TypeOK, items
<1> QED
  BY <1>3 DEF SendBatch, CommitDurably, TypeOK, bounds, PcStates, Paying,
               WalletStates, Nothing

LEMMA NextType == TypeOK /\ [Next]_vars => TypeOK'
<1> SUFFICES ASSUME TypeOK, [Next]_vars PROVE TypeOK'
  OBVIOUS
<1> USE DEF TypeOK, PcStates, Paying, task, external, bounds, Commit, CommitDurably
<1>1. CASE UNCHANGED vars
  BY <1>1 DEF vars
<1>2. CASE Wake
  BY <1>2, PendingType DEF Wake
<1>3. ASSUME NEW c \in Comments,
             ReconcileKnown(c) \/ ReconcileFound(c) \/ ReconcileIndeterminate(c)
      PROVE  TypeOK'
  BY <1>3, ReconcileType
<1>4. CASE ReconcileEnds
  BY <1>4 DEF ReconcileEnds, Reconciling
<1>5. CASE CollectPayable
  BY <1>5, PendingType DEF CollectPayable
<1>6. ASSUME NEW c \in Comments, SendBatch(c) PROVE TypeOK'
  BY <1>6, SendBatchType
<1>7. CASE NothingToSend
  BY <1>7 DEF NothingToSend, Nothing
<1>8. CASE SendReturns \/ FindSucceeds
  <2>1. cur \in Comments
    BY <1>8 DEF SendReturns, FindSucceeds
  <2> QED
    BY <1>8, <2>1, SetPayoutTxidType DEF SendReturns, FindSucceeds
<1>9. CASE SendTimesOut \/ FindIsEmpty
  BY <1>9 DEF SendTimesOut, FindIsEmpty
<1>10. CASE SendFails \/ GiveUpBatch
  BY <1>10, ClearPayoutType DEF SendFails, GiveUpBatch
<1>11. CASE DebitBatch
  BY <1>11, RecordPayoutsType DEF DebitBatch
<1>12. CASE Sweep
  BY <1>12, SweepStaleType DEF Sweep
<1>13. ASSUME NEW b \in Blocks, ApplyMaturity(b) PROVE TypeOK'
  BY <1>13, MatureBlockType, OrphanBlockType DEF ApplyMaturity
<1>14. ASSUME NEW c \in Comments, ResolvePaid(c) \/ ResolveUnpaid(c) PROVE TypeOK'
  <2>1. db.pending[c].items \in [Miners -> Nat]
    BY PendingType DEF Intent
  <2> QED
    BY <1>14, <2>1, RecordPayoutsType, ClearPayoutType DEF ResolvePaid, ResolveUnpaid
<1>15. ASSUME NEW m \in Miners, AdjustOwed(m) PROVE TypeOK'
  BY <1>15, AdjustBalanceType, AdjustmentsNat DEF AdjustOwed
<1>16. ASSUME NEW c \in Comments, WalletBroadcasts(c) \/ WalletDrops(c) PROVE TypeOK'
  BY <1>16 DEF WalletBroadcasts, WalletDrops, WalletStates
<1>17. CASE Writeback
  BY <1>17 DEF Writeback
<1>18. CASE Crash \/ PowerCut
  BY <1>18, NoIntentType, NoRowsType DEF Crash, PowerCut, Down, Nothing
<1>19. CASE Restart
  BY <1>19, PendingType DEF Restart
<1>20. CASE ReconcileWriteFails \/ PayoutWriteFails
  BY <1>20, NoIntentType, NoRowsType DEF ReconcileWriteFails, PayoutWriteFails, Reconciling
<1> QED
  BY <1>1, <1>2, <1>3, <1>4, <1>5, <1>6, <1>7, <1>8, <1>9, <1>10, <1>11, <1>12,
     <1>13, <1>14, <1>15, <1>16, <1>17, <1>18, <1>19, <1>20
  DEF Next, PayoutTask, Operator, Wallet

\* Every variable keeps its type (Payouts.TypeOK): no debit, sweep or
\* correction makes a balance negative, whatever the races and failures.
THEOREM TypeCorrect == Spec => []TypeOK
<1> QED
  BY InitType, NextType, PTL DEF Spec

-----------------------------------------------------------------------------
(* What each method does to Sound.  Env stands for the node's side.        *)

Env(w, out, s) ==
  /\ w \in [Comments -> WalletStates]
  /\ out \in [Comments -> [Miners -> Nat]]
  /\ s \in [Miners -> Nat]

\* Only the intents and the debits matter to Sound.
LEMMA SoundFrame ==
  ASSUME NEW w, NEW out, NEW s, NEW d \in Ledger, NEW e \in Ledger,
         e.pending = d.pending, e.paid = d.paid, Sound(d, w, out, s)
  PROVE  Sound(e, w, out, s)
BY DEF Sound, Names, Pending

LEMMA MaturitySound ==
  ASSUME NEW w, NEW out, NEW s, NEW d \in Ledger, NEW b \in Blocks,
         Sound(d, w, out, s)
  PROVE  Sound(MatureBlock(d, b), w, out, s) /\ Sound(OrphanBlock(d, b), w, out, s)
<1>1. /\ MatureBlock(d, b).pending = d.pending
      /\ MatureBlock(d, b).paid = d.paid
      /\ OrphanBlock(d, b).pending = d.pending
      /\ OrphanBlock(d, b).paid = d.paid
  BY DEF MatureBlock, OrphanBlock, Ledger
<1> QED
  BY <1>1, SoundFrame, MatureBlockType, OrphanBlockType

LEMMA AdjustSound ==
  ASSUME NEW w, NEW out, NEW s, NEW d \in Ledger, NEW m \in Miners,
         NEW delta \in Int, Sound(d, w, out, s)
  PROVE  Sound(AdjustBalance(d, m, delta), w, out, s)
<1>1. /\ AdjustBalance(d, m, delta).pending = d.pending
      /\ AdjustBalance(d, m, delta).paid = d.paid
  BY DEF AdjustBalance, Ledger
<1> QED
  BY <1>1, SoundFrame, AdjustBalanceType

LEMMA SweepSound ==
  ASSUME NEW w, NEW out, NEW s, NEW d \in Ledger, NEW idle \in SUBSET Miners,
         Sound(d, w, out, s)
  PROVE  Sound(SweepStale(d, idle), w, out, s)
<1>1. /\ SweepStale(d, idle).pending = d.pending
      /\ SweepStale(d, idle).paid = d.paid
  BY DEF SweepStale, Ledger
<1> QED
  BY <1>1, SoundFrame, SweepStaleType

\* A fresh batch whose miners no intent names.
LEMMA BeginPayoutSound ==
  ASSUME NEW w, NEW out, NEW s, Env(w, out, s), NEW d \in Ledger,
         NEW c \in Comments, NEW items \in [Miners -> Nat], w[c] = "idle",
         \A m \in Miners, k \in Comments : items[m] > 0 => ~Names(d, k, m),
         Sound(d, w, out, s)
  PROVE  Sound(BeginPayout(d, c, items), [w EXCEPT ![c] = "queued"],
               [out EXCEPT ![c] = items], s)
<1> DEFINE e == BeginPayout(d, c, items)
           x == [w EXCEPT ![c] = "queued"]
           o == [out EXCEPT ![c] = items]
<1>1. /\ e.paid = d.paid
      /\ e.pending[c].txid = "null" /\ e.pending[c].items = items
      /\ \A k \in Comments : k # c => e.pending[k] = d.pending[k]
  BY DEF BeginPayout, Ledger
<1>2. /\ x[c] = "queued" /\ o[c] = items
      /\ \A k \in Comments : k # c => x[k] = w[k] /\ o[k] = out[k]
  BY DEF Env
<1> HIDE DEF e, x, o
<1>3. \A k \in Comments : k # c => (Pending(e, k) <=> Pending(d, k))
  BY <1>1 DEF Pending
<1>4. \A k \in Comments, m \in Miners : k # c => (Names(e, k, m) <=> Names(d, k, m))
  BY <1>1 DEF Names, Pending
<1>5. Sound(e, x, o, s)
  <2>1. \A k \in Comments : /\ Pending(e, k) => e.pending[k].items = o[k] /\ x[k] # "idle"
                            /\ e.pending[k].txid = "known" => x[k] = "broadcast"
    BY <1>1, <1>2, <1>3 DEF Sound
  <2>2. \A m \in Miners, c1, c2 \in Comments :
          Names(e, c1, m) /\ Names(e, c2, m) => c1 = c2
    BY <1>1, <1>4 DEF Sound, Names
  <2>3. \A m \in Miners :
          /\ e.paid[m] <= s[m]
          /\ \A k \in Comments :
               x[k] = "broadcast" /\ Names(e, k, m) =>
                 e.paid[m] + e.pending[k].items[m] <= s[m]
    BY <1>1, <1>2, <1>4 DEF Sound
  <2> QED
    BY <2>1, <2>2, <2>3 DEF Sound
<1> QED
  BY <1>5 DEF e, x, o

LEMMA SetPayoutTxidSound ==
  ASSUME NEW w, NEW out, NEW s, NEW d \in Ledger, NEW c \in Comments,
         w[c] = "broadcast", Sound(d, w, out, s)
  PROVE  Sound(SetPayoutTxid(d, c), w, out, s)
<1> DEFINE e == SetPayoutTxid(d, c)
<1>1. CASE ~Pending(d, c)
  BY <1>1 DEF SetPayoutTxid
<1>2. CASE Pending(d, c)
  <2>1. /\ e.paid = d.paid
        /\ \A k \in Comments : /\ e.pending[k].items = d.pending[k].items
                               /\ k # c => e.pending[k] = d.pending[k]
        /\ e.pending[c].txid = "known"
    BY <1>2 DEF SetPayoutTxid, Ledger
  <2> HIDE DEF e
  <2>2. \A k \in Comments : Pending(e, k) <=> Pending(d, k)
    BY <1>2, <2>1 DEF Pending
  <2>3. \A k \in Comments, m \in Miners : Names(e, k, m) <=> Names(d, k, m)
    BY <2>1, <2>2 DEF Names
  <2>4. Sound(e, w, out, s)
    BY <2>1, <2>2, <2>3 DEF Sound
  <2> QED
    BY <2>4 DEF e
<1> QED
  BY <1>1, <1>2

\* Dropping an intent leaves fewer facts to hold.
LEMMA ClearPayoutSound ==
  ASSUME NEW w, NEW out, NEW s, NEW d \in Ledger, NEW c \in Comments,
         Sound(d, w, out, s)
  PROVE  Sound(ClearPayout(d, c), w, out, s)
<1> DEFINE e == ClearPayout(d, c)
<1>1. /\ e.paid = d.paid
      /\ \A k \in Comments : k # c => e.pending[k] = d.pending[k]
      /\ e.pending[c].txid = "absent"
  BY DEF ClearPayout, Ledger, NoIntent
<1> HIDE DEF e
<1>2. \A k \in Comments : Pending(e, k) => k # c /\ Pending(d, k)
  BY <1>1 DEF Pending
<1>3. \A k \in Comments, m \in Miners : Names(e, k, m) => k # c /\ Names(d, k, m)
  BY <1>1, <1>2 DEF Names
<1>4. Sound(e, w, out, s)
  BY <1>1, <1>2, <1>3 DEF Sound
<1> QED
  BY <1>4 DEF e

\* The debit of a batch on chain: its own intent made room for it.
LEMMA RecordPayoutsSound ==
  ASSUME NEW w, NEW out, NEW s, Env(w, out, s), NEW d \in Ledger,
         NEW c \in Comments, w[c] = "broadcast", Sound(d, w, out, s)
  PROVE  Sound(RecordPayouts(d, c, out[c]), w, out, s)
<1> DEFINE e == RecordPayouts(d, c, out[c])
<1>1. CASE ~Pending(d, c)
  BY <1>1 DEF RecordPayouts
<1>2. CASE Pending(d, c)
  <2>1. /\ e.paid = [m \in Miners |-> d.paid[m] + out[c][m]]
        /\ \A k \in Comments : k # c => e.pending[k] = d.pending[k]
        /\ e.pending[c].txid = "absent"
    BY <1>2 DEF RecordPayouts, Ledger, NoIntent
  <2> HIDE DEF e
  <2>2. \A k \in Comments : Pending(e, k) => k # c /\ Pending(d, k)
    BY <2>1 DEF Pending
  <2>3. \A k \in Comments, m \in Miners : Names(e, k, m) => k # c /\ Names(d, k, m)
    BY <2>1, <2>2 DEF Names
  <2>4. d.pending[c].items = out[c]
    BY <1>2 DEF Sound
  <2>5. \A m \in Miners : out[c][m] \in Nat /\ d.paid[m] \in Nat /\ s[m] \in Nat
    BY DEF Env, Ledger
  <2>6. \A m \in Miners : /\ e.paid[m] = d.paid[m] + out[c][m]
                          /\ out[c][m] = 0 \/ Names(d, c, m)
    BY <1>2, <2>1, <2>4, <2>5 DEF Names
  <2>7. \A m \in Miners : e.paid[m] <= s[m]
    BY <2>4, <2>5, <2>6 DEF Sound
  <2>8. ASSUME NEW m \in Miners, NEW k \in Comments, w[k] = "broadcast", Names(e, k, m)
        PROVE  e.paid[m] + e.pending[k].items[m] <= s[m]
    <3>1. k # c /\ Names(d, k, m) /\ e.pending[k] = d.pending[k]
      BY <2>1, <2>3, <2>8
    <3>2. out[c][m] = 0
      BY <2>6, <3>1 DEF Sound
    <3> QED
      BY <2>5, <2>6, <2>8, <3>1, <3>2 DEF Sound
  <2>9. Sound(e, w, out, s)
    BY <2>1, <2>2, <2>3, <2>7, <2>8 DEF Sound
  <2> QED
    BY <2>9 DEF e
<1> QED
  BY <1>1, <1>2

\* The wallet broadcasts a batch, whose miners had nothing else in flight.
LEMMA BroadcastSound ==
  ASSUME NEW w, NEW out, NEW s, Env(w, out, s), NEW d \in Ledger,
         NEW c \in Comments, w[c] = "queued", Sound(d, w, out, s)
  PROVE  Sound(d, [w EXCEPT ![c] = "broadcast"], out,
               [m \in Miners |-> s[m] + out[c][m]])
<1> DEFINE x == [w EXCEPT ![c] = "broadcast"]
           t == [m \in Miners |-> s[m] + out[c][m]]
<1>1. /\ x[c] = "broadcast"
      /\ \A k \in Comments : k # c => x[k] = w[k]
      /\ \A m \in Miners : t[m] = s[m] + out[c][m]
  BY DEF Env
<1> HIDE DEF x, t
<1>2. \A m \in Miners : out[c][m] \in Nat /\ d.paid[m] \in Nat /\ s[m] \in Nat
  BY DEF Env, Ledger
<1>3. \A m \in Miners, k \in Comments : d.pending[k].items[m] \in Nat
  BY DEF Ledger, Intent
<1>4. Sound(d, x, out, t)
  BY <1>1, <1>2, <1>3 DEF Sound, Names
<1> QED
  BY <1>4 DEF x, t

LEMMA DropSound ==
  ASSUME NEW w, NEW out, NEW s, Env(w, out, s), NEW d \in Ledger,
         NEW c \in Comments, w[c] = "queued", Sound(d, w, out, s)
  PROVE  Sound(d, [w EXCEPT ![c] = "dead"], out, s)
BY DEF Sound, Env

-----------------------------------------------------------------------------
(* Soundness, whatever the faults.                                         *)

LEMMA InitSound == Init => SoundInv
<1> SUFFICES ASSUME Init PROVE SoundInv
  OBVIOUS
<1>1. TypeOK
  BY InitType
<1>2. Sound(FirstLedger, wallet, outputs, sent)
  BY DEF Init, Sound, FirstLedger, EmptyLedger, Nothing, NoIntent, Names, Pending
<1>3. TaskSound
  BY DEF Init, TaskSound, NoRows, NoIntent, Paying
<1> QED
  BY <1>1, <1>2, <1>3 DEF Init, SoundInv

LEMMA EnvHolds == TypeOK => Env(wallet, outputs, sent)
BY DEF TypeOK, Env

\* What the two copies of the database become in a step that leaves the
\* node's side alone: the durable one is kept or replaced by the other.
LEMMA LedgersSound ==
  ASSUME SoundInv, UNCHANGED external,
         Sound(db', wallet, outputs, sent),
         disk' = disk \/ disk' = db'
  PROVE  /\ Sound(db', wallet', outputs', sent')
         /\ Sound(disk', wallet', outputs', sent')
BY DEF SoundInv, external

LEMMA ReconcileSound ==
  ASSUME SoundInv, NEW c \in Comments,
         ReconcileKnown(c) \/ ReconcileFound(c) \/ ReconcileIndeterminate(c)
  PROVE  SoundInv'
<1>1. TypeOK'
  BY NextType DEF SoundInv, Next, PayoutTask
<1>2. CASE ReconcileIndeterminate(c)
  BY <1>1, <1>2 DEF ReconcileIndeterminate, Reconciling, SoundInv, TaskSound,
                    Done, NoIntent, Paying, external, TypeOK
<1>3. CASE ReconcileKnown(c) \/ ReconcileFound(c)
  <2>1. wallet[c] = "broadcast" /\ todo[c].items = outputs[c]
    BY <1>3 DEF ReconcileKnown, ReconcileFound, SoundInv, TaskSound
  <2>2. db' = RecordPayouts(db, c, outputs[c])
    BY <1>3, <2>1 DEF ReconcileKnown, ReconcileFound
  <2>3. Sound(db', wallet, outputs, sent)
    BY <2>1, <2>2, RecordPayoutsSound, EnvHolds DEF SoundInv, TypeOK
  <2>4. Sound(db', wallet', outputs', sent') /\ Sound(disk', wallet', outputs', sent')
    BY <1>3, <2>3, LedgersSound DEF ReconcileKnown, ReconcileFound, Commit
  <2>5. TaskSound'
    BY <1>3 DEF ReconcileKnown, ReconcileFound, Reconciling, SoundInv, TaskSound,
                Done, NoIntent, Paying, external, TypeOK
  <2> QED
    BY <1>1, <2>4, <2>5 DEF SoundInv
<1> QED
  BY <1>2, <1>3

LEMMA SendBatchSound ==
  ASSUME SoundInv, NEW c \in Comments, SendBatch(c)
  PROVE  SoundInv'
<1>1. TypeOK'
  BY NextType DEF SoundInv, Next, PayoutTask
<1>2. PICK S \in SUBSET {m \in Miners : cand[m] > 0} :
        LET items == [m \in Miners |-> IF m \in S THEN cand[m] ELSE 0]
        IN  db' = BeginPayout(db, c, items) /\ outputs' = [outputs EXCEPT ![c] = items]
  BY DEF SendBatch
<1> DEFINE items == [m \in Miners |-> IF m \in S THEN cand[m] ELSE 0]
<1>3. items \in [Miners -> Nat]
  BY DEF SoundInv, TypeOK
<1>4. \A m \in Miners, k \in Comments : items[m] > 0 => ~Names(db, k, m)
  BY DEF SendBatch, SoundInv, TaskSound
<1>5. wallet' = [wallet EXCEPT ![c] = "queued"] /\ wallet[c] = "idle" /\ sent' = sent
  BY DEF SendBatch
<1> HIDE DEF items
<1>6. Sound(db', wallet', outputs', sent')
  BY <1>2, <1>3, <1>4, <1>5, BeginPayoutSound, EnvHolds DEF SoundInv, TypeOK, items
<1>7. Sound(disk', wallet', outputs', sent')
  <2>1. CASE disk' = db'
    BY <1>6, <2>1
  <2>2. CASE disk' = disk
    <3>1. ~Pending(disk, c)
      BY <1>5 DEF SoundInv, Sound
    <3>2. \A k \in Comments : k # c => wallet'[k] = wallet[k] /\ outputs'[k] = outputs[k]
      BY <1>2, <1>5 DEF SoundInv, TypeOK
    <3>3. Sound(disk, wallet, outputs, sent)
      BY DEF SoundInv
    <3> QED
      BY <1>1, <1>5, <2>2, <3>1, <3>2, <3>3 DEF Sound, Names, Pending
  <2> QED
    BY <2>1, <2>2 DEF SendBatch, CommitDurably
<1>8. TaskSound'
  <2>1. \A k \in Comments : k # c => wallet'[k] = wallet[k] /\ outputs'[k] = outputs[k]
    BY <1>2, <1>5 DEF SoundInv, TypeOK
  <2>2. pc' = "sending" /\ cur' = c /\ todo' = todo /\ wallet'[c] = "queued"
    BY <1>5 DEF SendBatch, SoundInv, TypeOK
  <2> QED
    BY <1>5, <2>1, <2>2 DEF SoundInv, TaskSound, Paying
<1> QED
  BY <1>1, <1>6, <1>7, <1>8 DEF SoundInv

LEMMA WalletSound ==
  ASSUME SoundInv, NEW c \in Comments, WalletBroadcasts(c) \/ WalletDrops(c)
  PROVE  SoundInv'
<1>1. TypeOK'
  BY NextType DEF SoundInv, Next, Wallet
<1>2. wallet[c] = "queued" /\ UNCHANGED <<db, disk, pc, todo, cand, cur, outputs>>
  BY DEF WalletBroadcasts, WalletDrops, task
<1>3. Sound(db', wallet', outputs', sent') /\ Sound(disk', wallet', outputs', sent')
  BY <1>2, BroadcastSound, DropSound, EnvHolds
  DEF WalletBroadcasts, WalletDrops, SoundInv, TypeOK
<1>4. \A k \in Comments : /\ wallet[k] = "broadcast" => wallet'[k] = "broadcast"
                          /\ wallet[k] # "idle" => wallet'[k] # "idle"
  BY <1>2 DEF WalletBroadcasts, WalletDrops, SoundInv, TypeOK
<1>5. TaskSound'
  <2>1. pc \in Paying => cur \in Comments
    BY DEF SoundInv, TypeOK
  <2>2. "debit" \in Paying
    BY DEF Paying
  <2>3. \A k \in Comments, m \in Miners : Names(db', k, m) <=> Names(db, k, m)
    BY <1>2
  <2>4. TaskSound
    BY DEF SoundInv
  <2> QED
    BY <1>2, <1>4, <2>1, <2>2, <2>3, <2>4 DEF TaskSound
<1> QED
  BY <1>1, <1>3, <1>5 DEF SoundInv

LEMMA NextSound == SoundInv /\ [Next]_vars => SoundInv'
<1> SUFFICES ASSUME SoundInv, [Next]_vars PROVE SoundInv'
  OBVIOUS
<1>0. TypeOK /\ TypeOK'
  BY NextType DEF SoundInv
<1>1. CASE UNCHANGED vars
  BY <1>0, <1>1 DEF vars, SoundInv, TaskSound
<1>2. CASE Wake \/ Restart
  <2>1. UNCHANGED <<db, disk, outputs, wallet, sent>> /\ todo' = db.pending
    BY <1>2 DEF Wake, Restart, external
  <2>2. pc' \in {"reconcile", "boot"}
    BY <1>2 DEF Wake, Restart
  <2>3. TaskSound'
    BY <2>1, <2>2 DEF SoundInv, Sound, TaskSound, Pending, Paying
  <2> QED
    BY <1>0, <2>1, <2>3 DEF SoundInv
<1>3. ASSUME NEW c \in Comments,
             ReconcileKnown(c) \/ ReconcileFound(c) \/ ReconcileIndeterminate(c)
      PROVE  SoundInv'
  BY <1>3, ReconcileSound
<1>4. CASE ReconcileEnds \/ SendTimesOut \/ FindIsEmpty \/ NothingToSend
  <2>1. UNCHANGED <<db, disk, outputs, wallet, sent, todo, cur>>
    BY <1>4 DEF ReconcileEnds, SendTimesOut, FindIsEmpty, NothingToSend, task, external
  <2>2. TaskSound'
    BY <1>4, <2>1 DEF ReconcileEnds, SendTimesOut, FindIsEmpty, NothingToSend,
                      SoundInv, TaskSound, Paying
  <2> QED
    BY <1>0, <2>1, <2>2 DEF SoundInv
<1>5. CASE CollectPayable
  <2>1. UNCHANGED <<db, disk, outputs, wallet, sent, todo>>
    BY <1>5 DEF CollectPayable, external
  <2>2. TaskSound'
    BY <1>5, <2>1 DEF CollectPayable, ToPay, PendingPayoutMinerIds,
                      SoundInv, TaskSound, Paying
  <2> QED
    BY <1>0, <2>1, <2>2 DEF SoundInv
<1>6. ASSUME NEW c \in Comments, SendBatch(c) PROVE SoundInv'
  BY <1>6, SendBatchSound
<1>7. CASE SendReturns \/ FindSucceeds
  <2>1. cur \in Comments /\ wallet[cur] = "broadcast"
    BY <1>0, <1>7 DEF SendReturns, FindSucceeds, TypeOK, Paying
  <2>2. Sound(db', wallet, outputs, sent)
    BY <1>0, <1>7, <2>1, SetPayoutTxidSound
    DEF SendReturns, FindSucceeds, SoundInv, TypeOK
  <2>3. Sound(db', wallet', outputs', sent') /\ Sound(disk', wallet', outputs', sent')
    BY <1>7, <2>2, LedgersSound DEF SendReturns, FindSucceeds, CommitDurably
  <2>4. TaskSound'
    BY <1>7, <2>1 DEF SendReturns, FindSucceeds, SoundInv, TaskSound, task, external
  <2> QED
    BY <1>0, <2>3, <2>4 DEF SoundInv
<1>8. CASE SendFails \/ GiveUpBatch
  <2>1. cur \in Comments
    BY <1>0, <1>8 DEF SendFails, GiveUpBatch, TypeOK, Paying
  <2>2. Sound(db', wallet, outputs, sent)
    BY <1>0, <1>8, <2>1, ClearPayoutSound DEF SendFails, GiveUpBatch, SoundInv, TypeOK
  <2>3. Sound(db', wallet', outputs', sent') /\ Sound(disk', wallet', outputs', sent')
    BY <1>8, <2>2, LedgersSound DEF SendFails, GiveUpBatch, Commit
  <2>4. TaskSound'
    BY <1>8 DEF SendFails, GiveUpBatch, SoundInv, TaskSound, Paying, external
  <2> QED
    BY <1>0, <2>3, <2>4 DEF SoundInv
<1>9. CASE DebitBatch
  <2>1. cur \in Comments /\ wallet[cur] = "broadcast"
    BY <1>0, <1>9 DEF DebitBatch, TypeOK, Paying, SoundInv, TaskSound
  <2>2. Sound(db', wallet, outputs, sent)
    BY <1>0, <1>9, <2>1, RecordPayoutsSound, EnvHolds DEF DebitBatch, SoundInv, TypeOK
  <2>3. Sound(db', wallet', outputs', sent') /\ Sound(disk', wallet', outputs', sent')
    BY <1>9, <2>2, LedgersSound DEF DebitBatch, Commit
  <2>4. TaskSound'
    BY <1>9 DEF DebitBatch, SoundInv, TaskSound, Paying, external
  <2> QED
    BY <1>0, <2>3, <2>4 DEF SoundInv
<1>10. CASE Sweep
  <2>1. Sound(db', wallet, outputs, sent)
    BY <1>0, <1>10, SweepSound DEF Sweep, SoundInv, TypeOK
  <2>2. Sound(db', wallet', outputs', sent') /\ Sound(disk', wallet', outputs', sent')
    BY <1>10, <2>1, LedgersSound DEF Sweep, Commit
  <2>3. TaskSound'
    BY <1>10 DEF Sweep, SoundInv, TaskSound, Paying, task, external
  <2> QED
    BY <1>0, <2>2, <2>3 DEF SoundInv
<1>11. ASSUME NEW b \in Blocks, ApplyMaturity(b) PROVE SoundInv'
  <2>1. Sound(db', wallet, outputs, sent) /\ db'.pending = db.pending
    <3>1. db \in Ledger
      BY <1>0 DEF TypeOK
    <3>2. MatureBlock(db, b).pending = db.pending /\ OrphanBlock(db, b).pending = db.pending
      BY <3>1 DEF MatureBlock, OrphanBlock, Ledger
    <3> QED
      BY <1>11, <3>1, <3>2, MaturitySound DEF ApplyMaturity, SoundInv
  <2>2. Sound(db', wallet', outputs', sent') /\ Sound(disk', wallet', outputs', sent')
    BY <1>11, <2>1, LedgersSound DEF ApplyMaturity, Commit
  <2>3. TaskSound'
    BY <1>11, <2>1 DEF ApplyMaturity, SoundInv, TaskSound, Names, Pending, task, external
  <2> QED
    BY <1>0, <2>2, <2>3 DEF SoundInv
<1>12. ASSUME NEW c \in Comments, ResolvePaid(c) \/ ResolveUnpaid(c) PROVE SoundInv'
  <2>1. db.pending[c].items = outputs[c]
    BY <1>12 DEF ResolvePaid, ResolveUnpaid, SoundInv, Sound
  <2>2. Sound(db', wallet, outputs, sent)
    BY <1>0, <1>12, <2>1, RecordPayoutsSound, ClearPayoutSound, EnvHolds
    DEF ResolvePaid, ResolveUnpaid, SoundInv, TypeOK
  <2>3. Sound(db', wallet', outputs', sent') /\ Sound(disk', wallet', outputs', sent')
    BY <1>12, <2>2, LedgersSound DEF ResolvePaid, ResolveUnpaid, Commit
  <2>4. \A k \in Comments, m \in Miners : Names(db', k, m) => Names(db, k, m)
    <3>1. db \in Ledger /\ db.pending \in [Comments -> Intent]
      BY <1>0, PendingType DEF TypeOK
    <3>2. \/ db' = RecordPayouts(db, c, outputs[c])
          \/ db' = ClearPayout(db, c)
      BY <1>12, <2>1 DEF ResolvePaid, ResolveUnpaid
    <3>3. db'.pending = db.pending \/ db'.pending = [db.pending EXCEPT ![c] = NoIntent]
      BY <3>1, <3>2 DEF RecordPayouts, ClearPayout, Ledger
    <3> QED
      BY <3>1, <3>3 DEF Names, Pending, NoIntent
  <2>5. TaskSound'
    BY <1>12, <2>4 DEF ResolvePaid, ResolveUnpaid, SoundInv, TaskSound, task, external
  <2> QED
    BY <1>0, <2>3, <2>5 DEF SoundInv
<1>13. ASSUME NEW m \in Miners, AdjustOwed(m) PROVE SoundInv'
  <2>1. PICK n \in Adjustments :
          db' = AdjustBalance(db, m, n) \/ db' = AdjustBalance(db, m, -n)
    BY <1>13 DEF AdjustOwed
  <2>2. n \in Int /\ -n \in Int /\ db \in Ledger
    BY <1>0, AdjustmentsNat DEF TypeOK
  <2>3. Sound(db', wallet, outputs, sent) /\ db'.pending = db.pending
    <3>1. \A i \in Int : AdjustBalance(db, m, i).pending = db.pending
      BY <2>2 DEF AdjustBalance, Ledger
    <3> QED
      BY <2>1, <2>2, <3>1, AdjustSound DEF SoundInv
  <2>4. Sound(db', wallet', outputs', sent') /\ Sound(disk', wallet', outputs', sent')
    BY <1>13, <2>3, LedgersSound DEF AdjustOwed, Commit
  <2>5. TaskSound'
    BY <1>13, <2>3 DEF AdjustOwed, SoundInv, TaskSound, Names, Pending, task, external
  <2> QED
    BY <1>0, <2>4, <2>5 DEF SoundInv
<1>14. ASSUME NEW c \in Comments, WalletBroadcasts(c) \/ WalletDrops(c) PROVE SoundInv'
  BY <1>14, WalletSound
<1>15. CASE Writeback
  BY <1>0, <1>15 DEF Writeback, SoundInv, TaskSound, task, external
<1>16. CASE Crash \/ PowerCut
  <2>1. /\ db' = db \/ db' = disk
        /\ disk' = disk /\ pc' = "down" /\ todo' = NoRows
        /\ UNCHANGED <<outputs, wallet, sent>>
    BY <1>16 DEF Crash, PowerCut, Down, external
  <2>2. TaskSound'
    BY <2>1 DEF TaskSound, NoRows, NoIntent, Paying
  <2> QED
    BY <1>0, <2>1, <2>2 DEF SoundInv
<1>17. CASE ReconcileWriteFails \/ PayoutWriteFails
  <2>1. /\ UNCHANGED <<db, disk, outputs, wallet, sent>>
        /\ todo' = todo \/ todo' = NoRows
        /\ pc' \in {"sleep", "collect", "sweep"}
    BY <1>17 DEF ReconcileWriteFails, PayoutWriteFails, external
  <2>2. TaskSound'
    BY <2>1 DEF SoundInv, TaskSound, NoRows, NoIntent, Paying
  <2> QED
    BY <1>0, <2>1, <2>2 DEF SoundInv
<1> QED
  BY <1>1, <1>2, <1>3, <1>4, <1>5, <1>6, <1>7, <1>8, <1>9, <1>10, <1>11, <1>12,
     <1>13, <1>14, <1>15, <1>16, <1>17
  DEF Next, PayoutTask, Operator, Wallet

LEMMA SoundAlways == Spec => []SoundInv
<1> QED
  BY InitSound, NextSound, PTL DEF Spec

\* Whatever fails, a miner is never in two unresolved batches
\* (Payouts.OneIntentPerMiner; pool.py: in_flight in _do_payouts).
THEOREM OneIntentPerMinerHolds == Spec => []OneIntentPerMiner
<1>1. SoundInv => OneIntentPerMiner
  BY DEF SoundInv, Sound, OneIntentPerMiner
<1> QED
  BY <1>1, SoundAlways, PTL

\* The batch InFlight counts is the only one, if there is any.
LEMMA InFlightValue ==
  ASSUME NEW w, NEW out, NEW s, NEW d \in Ledger, NEW m \in Miners,
         Sound(d, w, out, s)
  PROVE  /\ (\A c \in Comments : ~(w[c] = "broadcast" /\ Names(d, c, m)))
              => InFlight(d, w, m) = 0
         /\ \A c \in Comments : w[c] = "broadcast" /\ Names(d, c, m)
              => InFlight(d, w, m) = d.pending[c].items[m]
<1> DEFINE batches == {c \in Comments : w[c] = "broadcast" /\ Names(d, c, m)}
<1>1. ASSUME NEW c \in batches
      PROVE  (CHOOSE k \in batches : TRUE) = c
  BY <1>1 DEF Sound
<1> QED
  BY <1>1 DEF InFlight

\* Whatever fails, a balance is debited only for a payment on chain, and for
\* each one at most once (Payouts.DebitOnlyIfBroadcast; accounting.py:
\* record_payouts).
THEOREM DebitOnlyIfBroadcastHolds == Spec => []DebitOnlyIfBroadcast
<1>1. ASSUME SoundInv, NEW d \in {db, disk}, NEW m \in Miners
      PROVE  d.paid[m] + InFlight(d, wallet, m) <= sent[m]
  <2>1. d \in Ledger /\ Sound(d, wallet, outputs, sent)
    BY <1>1 DEF SoundInv, TypeOK
  <2>2. d.paid[m] \in Nat /\ sent[m] \in Nat
    BY <1>1, <2>1, PendingType DEF SoundInv, TypeOK
  <2>3. d.paid[m] <= sent[m]
    BY <2>1 DEF Sound
  <2>4. ASSUME NEW c \in Comments, wallet[c] = "broadcast", Names(d, c, m)
        PROVE  d.paid[m] + InFlight(d, wallet, m) <= sent[m]
    <3>1. InFlight(d, wallet, m) = d.pending[c].items[m]
      BY <2>1, <2>4, InFlightValue
    <3> QED
      BY <2>1, <2>4, <3>1 DEF Sound
  <2>5. CASE \A c \in Comments : ~(wallet[c] = "broadcast" /\ Names(d, c, m))
    <3>1. InFlight(d, wallet, m) = 0
      BY <2>1, <2>5, InFlightValue
    <3> QED
      BY <2>2, <2>3, <3>1
  <2> QED
    BY <2>4, <2>5
<1>2. SoundInv => DebitOnlyIfBroadcast
  BY <1>1 DEF DebitOnlyIfBroadcast
<1> QED
  BY <1>2, SoundAlways, PTL

-----------------------------------------------------------------------------
(* Without faults: nothing on chain is forgotten.                          *)

\* A change of balances that keeps the intents, the debits and the cover.
LEMMA CompleteFrame ==
  ASSUME NEW w, NEW s, NEW d \in Ledger, NEW e \in Ledger,
         e.pending = d.pending, e.paid = d.paid,
         \A c \in Comments, m \in Miners :
           Names(d, c, m) => d.owed[m] <= e.owed[m],
         Complete(d, w, s)
  PROVE  Complete(e, w, s)
<1>1. \A c \in Comments, m \in Miners :
        Pending(e, c) => e.pending[c].items[m] <= e.owed[m]
  <2> SUFFICES ASSUME NEW c \in Comments, NEW m \in Miners, Pending(e, c)
               PROVE  e.pending[c].items[m] <= e.owed[m]
    OBVIOUS
  <2>1. d.pending[c].items[m] \in Nat /\ e.owed[m] \in Nat /\ d.owed[m] \in Nat
    BY DEF Ledger, Intent
  <2>2. Pending(d, c) /\ d.pending[c].items[m] <= d.owed[m]
    BY DEF Complete, Pending
  <2> QED
    BY <2>1, <2>2 DEF Names
<1> QED
  BY <1>1 DEF Complete, Names, Pending

LEMMA MaturityComplete ==
  ASSUME NEW w, NEW s, NEW d \in Ledger, NEW b \in Blocks, Complete(d, w, s)
  PROVE  Complete(MatureBlock(d, b), w, s) /\ Complete(OrphanBlock(d, b), w, s)
<1>1. /\ MatureBlock(d, b).pending = d.pending
      /\ MatureBlock(d, b).paid = d.paid
      /\ OrphanBlock(d, b).pending = d.pending
      /\ OrphanBlock(d, b).paid = d.paid
      /\ OrphanBlock(d, b).owed = d.owed
  BY DEF MatureBlock, OrphanBlock, Ledger
<1>2. \A m \in Miners : /\ d.owed[m] \in Nat /\ d.credits[b][m] \in Nat
                        /\ \/ MatureBlock(d, b).owed[m] = d.owed[m]
                           \/ MatureBlock(d, b).owed[m] = d.owed[m] + d.credits[b][m]
  BY DEF MatureBlock, Ledger
<1>3. Complete(MatureBlock(d, b), w, s)
  BY <1>1, <1>2, CompleteFrame, MatureBlockType
<1>4. Complete(OrphanBlock(d, b), w, s)
  BY <1>1, <1>2, CompleteFrame, OrphanBlockType
<1> QED
  BY <1>3, <1>4

LEMMA AdjustComplete ==
  ASSUME NEW w, NEW s, NEW d \in Ledger, NEW m \in Miners, NEW delta \in Int,
         delta >= 0 \/ m \notin PendingPayoutMinerIds(d), Complete(d, w, s)
  PROVE  Complete(AdjustBalance(d, m, delta), w, s)
<1>1. /\ AdjustBalance(d, m, delta).pending = d.pending
      /\ AdjustBalance(d, m, delta).paid = d.paid
      /\ AdjustBalance(d, m, delta).owed = [d.owed EXCEPT ![m] = Clamp(d.owed[m] + delta)]
  BY DEF AdjustBalance, Ledger
<1>2. \A n \in Miners, c \in Comments :
        Names(d, c, n) => d.owed[n] <= AdjustBalance(d, m, delta).owed[n]
  BY <1>1 DEF Clamp, Ledger, PendingPayoutMinerIds
<1> QED
  BY <1>1, <1>2, CompleteFrame, AdjustBalanceType

LEMMA SweepComplete ==
  ASSUME NEW w, NEW s, NEW d \in Ledger, NEW idle \in SUBSET Miners, Complete(d, w, s)
  PROVE  Complete(SweepStale(d, idle), w, s)
<1>1. /\ SweepStale(d, idle).pending = d.pending
      /\ SweepStale(d, idle).paid = d.paid
  BY DEF SweepStale, Ledger
<1>2. ASSUME NEW m \in Miners, NEW c \in Comments, Names(d, c, m)
      PROVE  d.owed[m] <= SweepStale(d, idle).owed[m]
  <2>1. m \notin Swept(d, idle)
    BY <1>2 DEF Swept, PendingPayoutMinerIds
  <2>2. SweepStale(d, idle).owed[m] =
          IF m = Faucet THEN d.owed[m] + Total(d.owed, Swept(d, idle)) ELSE d.owed[m]
    BY <2>1 DEF SweepStale, Ledger
  <2> QED
    BY <2>2, SweepStaleType DEF Ledger
<1> QED
  BY <1>1, <1>2, CompleteFrame, SweepStaleType

LEMMA BeginPayoutComplete ==
  ASSUME NEW w, NEW out, NEW s, Env(w, out, s), NEW d \in Ledger,
         NEW c \in Comments, NEW items \in [Miners -> Nat], w[c] = "idle",
         \A m \in Miners : items[m] <= d.owed[m],
         Sound(d, w, out, s), Complete(d, w, s)
  PROVE  Complete(BeginPayout(d, c, items), [w EXCEPT ![c] = "queued"], s)
<1> DEFINE e == BeginPayout(d, c, items)
           x == [w EXCEPT ![c] = "queued"]
<1>1. /\ e.paid = d.paid /\ e.owed = d.owed
      /\ e.pending[c].txid = "null" /\ e.pending[c].items = items
      /\ \A k \in Comments : k # c => e.pending[k] = d.pending[k]
  BY DEF BeginPayout, Ledger
<1>2. /\ x[c] = "queued"
      /\ \A k \in Comments : k # c => x[k] = w[k]
  BY DEF Env
<1> HIDE DEF e, x
<1>3. \A k \in Comments : x[k] = "queued" => Pending(e, k)
  BY <1>1, <1>2 DEF Complete, Pending
<1>4. \A m \in Miners :
        \/ s[m] <= e.paid[m]
        \/ \E k \in Comments : /\ x[k] = "broadcast"
                               /\ Names(e, k, m)
                               /\ s[m] <= e.paid[m] + e.pending[k].items[m]
  BY <1>1, <1>2 DEF Complete, Names, Pending
<1>5. \A k \in Comments, m \in Miners :
        Pending(e, k) => e.pending[k].items[m] <= e.owed[m]
  BY <1>1 DEF Complete, Pending
<1>6. Complete(e, x, s)
  BY <1>3, <1>4, <1>5 DEF Complete
<1> QED
  BY <1>6 DEF e, x

LEMMA SetPayoutTxidComplete ==
  ASSUME NEW w, NEW s, NEW d \in Ledger, NEW c \in Comments, Complete(d, w, s)
  PROVE  Complete(SetPayoutTxid(d, c), w, s)
<1> DEFINE e == SetPayoutTxid(d, c)
<1>1. CASE ~Pending(d, c)
  BY <1>1 DEF SetPayoutTxid
<1>2. CASE Pending(d, c)
  <2>1. /\ e.paid = d.paid /\ e.owed = d.owed
        /\ \A k \in Comments : /\ e.pending[k].items = d.pending[k].items
                               /\ k # c => e.pending[k] = d.pending[k]
        /\ e.pending[c].txid = "known"
    BY <1>2 DEF SetPayoutTxid, Ledger
  <2> HIDE DEF e
  <2>2. \A k \in Comments : Pending(e, k) <=> Pending(d, k)
    BY <1>2, <2>1 DEF Pending
  <2>3. \A k \in Comments, m \in Miners : Names(e, k, m) <=> Names(d, k, m)
    BY <2>1, <2>2 DEF Names
  <2>4. Complete(e, w, s)
    BY <2>1, <2>2, <2>3 DEF Complete
  <2> QED
    BY <2>4 DEF e
<1> QED
  BY <1>1, <1>2

\* An intent may be dropped once the wallet can no longer execute its batch.
LEMMA ClearPayoutComplete ==
  ASSUME NEW w, NEW s, NEW d \in Ledger, NEW c \in Comments, w[c] = "dead",
         Complete(d, w, s)
  PROVE  Complete(ClearPayout(d, c), w, s)
<1> DEFINE e == ClearPayout(d, c)
<1>1. /\ e.paid = d.paid /\ e.owed = d.owed
      /\ \A k \in Comments : k # c => e.pending[k] = d.pending[k]
      /\ e.pending[c].txid = "absent"
  BY DEF ClearPayout, Ledger, NoIntent
<1> HIDE DEF e
<1>2. \A k \in Comments : w[k] # "dead" => e.pending[k] = d.pending[k]
  BY <1>1
<1>3. \A k \in Comments, m \in Miners : Pending(e, k) => k # c
  BY <1>1 DEF Pending
<1>4. Complete(e, w, s)
  BY <1>1, <1>2, <1>3 DEF Complete, Names, Pending
<1> QED
  BY <1>4 DEF e

LEMMA RecordPayoutsComplete ==
  ASSUME NEW w, NEW out, NEW s, Env(w, out, s), NEW d \in Ledger,
         NEW c \in Comments, w[c] = "broadcast",
         Sound(d, w, out, s), Complete(d, w, s)
  PROVE  Complete(RecordPayouts(d, c, out[c]), w, s)
<1> DEFINE e == RecordPayouts(d, c, out[c])
<1>1. CASE ~Pending(d, c)
  BY <1>1 DEF RecordPayouts
<1>2. CASE Pending(d, c)
  <2>1. /\ e.paid = [m \in Miners |-> d.paid[m] + out[c][m]]
        /\ e.owed = [m \in Miners |-> Clamp(d.owed[m] - out[c][m])]
        /\ \A k \in Comments : k # c => e.pending[k] = d.pending[k]
        /\ e.pending[c].txid = "absent"
    BY <1>2 DEF RecordPayouts, Ledger, NoIntent
  <2> HIDE DEF e
  <2>2. d.pending[c].items = out[c]
    BY <1>2 DEF Sound
  <2>3. \A m \in Miners : /\ out[c][m] \in Nat /\ d.paid[m] \in Nat
                          /\ s[m] \in Nat /\ d.owed[m] \in Nat
                          /\ e.paid[m] = d.paid[m] + out[c][m]
                          /\ out[c][m] = 0 => e.owed[m] = d.owed[m]
                          /\ out[c][m] = 0 \/ Names(d, c, m)
    BY <1>2, <2>1, <2>2 DEF Env, Ledger, Clamp, Names
  <2>4. \A k \in Comments : k # c => (Pending(e, k) <=> Pending(d, k))
    BY <2>1 DEF Pending
  <2>5. \A k \in Comments : w[k] = "queued" => Pending(e, k)
    BY <2>4 DEF Complete
  <2>6. ASSUME NEW m \in Miners
        PROVE  \/ s[m] <= e.paid[m]
               \/ \E k \in Comments : /\ w[k] = "broadcast"
                                      /\ Names(e, k, m)
                                      /\ s[m] <= e.paid[m] + e.pending[k].items[m]
    <3>1. CASE s[m] <= d.paid[m]
      BY <2>3, <3>1
    <3>2. ASSUME NEW k \in Comments, w[k] = "broadcast", Names(d, k, m),
                 s[m] <= d.paid[m] + d.pending[k].items[m], k # c
          PROVE  Names(e, k, m) /\ s[m] <= e.paid[m] + e.pending[k].items[m]
      <4>1. out[c][m] = 0
        BY <2>3, <3>2 DEF Sound
      <4> QED
        BY <2>1, <2>3, <2>4, <3>2, <4>1 DEF Names
    <3>3. CASE s[m] <= d.paid[m] + d.pending[c].items[m]
      BY <2>2, <2>3, <3>3
    <3> QED
      BY <3>1, <3>2, <3>3 DEF Complete
  <2>7. ASSUME NEW k \in Comments, NEW m \in Miners, Pending(e, k)
        PROVE  e.pending[k].items[m] <= e.owed[m]
    <3>1. k # c /\ Pending(d, k) /\ e.pending[k] = d.pending[k]
      BY <2>1, <2>4, <2>7 DEF Pending
    <3>2. d.pending[k].items[m] <= d.owed[m] /\ d.pending[k].items[m] \in Nat
      BY <3>1 DEF Complete, Ledger, Intent
    <3>3. CASE out[c][m] = 0
      BY <2>3, <3>1, <3>2, <3>3
    <3>4. CASE out[c][m] # 0
      <4>1. ~Names(d, k, m)
        BY <2>3, <3>1, <3>4 DEF Sound
      <4>2. d.pending[k].items[m] = 0
        BY <3>1, <3>2, <4>1 DEF Names
      <4>3. e.owed[m] \in Nat
        BY <2>1, <2>3 DEF Clamp
      <4> QED
        BY <3>1, <4>2, <4>3
    <3> QED
      BY <3>3, <3>4
  <2>8. Complete(e, w, s)
    BY <2>5, <2>6, <2>7 DEF Complete
  <2> QED
    BY <2>8 DEF e
<1> QED
  BY <1>1, <1>2

\* What the wallet broadcasts was held as an intent, and adds to what the
\* database is behind the chain by the amounts of that intent.
LEMMA BroadcastComplete ==
  ASSUME NEW w, NEW out, NEW s, Env(w, out, s), NEW d \in Ledger,
         NEW c \in Comments, w[c] = "queued",
         Sound(d, w, out, s), Complete(d, w, s)
  PROVE  Complete(d, [w EXCEPT ![c] = "broadcast"],
                  [m \in Miners |-> s[m] + out[c][m]])
<1> DEFINE x == [w EXCEPT ![c] = "broadcast"]
           t == [m \in Miners |-> s[m] + out[c][m]]
<1>1. /\ x[c] = "broadcast"
      /\ \A k \in Comments : k # c => x[k] = w[k]
      /\ \A m \in Miners : t[m] = s[m] + out[c][m]
  BY DEF Env
<1> HIDE DEF x, t
<1>2. Pending(d, c) /\ d.pending[c].items = out[c]
  BY DEF Sound, Complete
<1>3. \A m \in Miners : out[c][m] \in Nat /\ d.paid[m] \in Nat /\ s[m] \in Nat
  BY DEF Env, Ledger
<1>4. ASSUME NEW m \in Miners
      PROVE  \/ t[m] <= d.paid[m]
             \/ \E k \in Comments : /\ x[k] = "broadcast"
                                    /\ Names(d, k, m)
                                    /\ t[m] <= d.paid[m] + d.pending[k].items[m]
  <2>1. CASE Names(d, c, m)
    <3>1. \A k \in Comments : w[k] = "broadcast" => ~Names(d, k, m)
      BY <2>1 DEF Sound
    <3>2. s[m] <= d.paid[m]
      BY <3>1 DEF Complete
    <3> QED
      BY <1>1, <1>2, <1>3, <2>1, <3>2
  <2>2. CASE ~Names(d, c, m)
    <3>1. t[m] = s[m]
      BY <1>1, <1>2, <1>3, <2>2 DEF Names
    <3> QED
      BY <1>1, <3>1 DEF Complete
  <2> QED
    BY <2>1, <2>2
<1>5. Complete(d, x, t)
  BY <1>1, <1>4 DEF Complete
<1> QED
  BY <1>5 DEF x, t

LEMMA DropComplete ==
  ASSUME NEW w, NEW out, NEW s, Env(w, out, s), NEW d,
         NEW c \in Comments, w[c] = "queued", Complete(d, w, s)
  PROVE  Complete(d, [w EXCEPT ![c] = "dead"], s)
BY DEF Complete, Env

LEMMA InitComplete == Init => CompleteInv
<1> SUFFICES ASSUME Init PROVE CompleteInv
  OBVIOUS
<1>1. Complete(FirstLedger, wallet, sent)
  BY DEF Init, Complete, FirstLedger, EmptyLedger, Nothing, NoIntent, Names, Pending
<1>2. TaskComplete
  BY DEF Init, TaskComplete
<1> QED
  BY <1>1, <1>2, InitSound DEF Init, CompleteInv

LEMMA LedgersComplete ==
  ASSUME CompleteInv, UNCHANGED external,
         Complete(db', wallet, sent),
         disk' = disk \/ disk' = db'
  PROVE  /\ Complete(db', wallet', sent')
         /\ Complete(disk', wallet', sent')
BY DEF CompleteInv, external

LEMMA SendBatchComplete ==
  ASSUME Faults = {}, CompleteInv, NEW c \in Comments, SendBatch(c)
  PROVE  CompleteInv'
<1>1. SoundInv'
  BY NextSound DEF CompleteInv, Next, PayoutTask
<1>2. PICK S \in SUBSET {m \in Miners : cand[m] > 0} :
        LET items == [m \in Miners |-> IF m \in S THEN cand[m] ELSE 0]
        IN  db' = BeginPayout(db, c, items) /\ outputs' = [outputs EXCEPT ![c] = items]
  BY DEF SendBatch
<1> DEFINE items == [m \in Miners |-> IF m \in S THEN cand[m] ELSE 0]
<1>3. items \in [Miners -> Nat] /\ db \in Ledger
  BY DEF CompleteInv, SoundInv, TypeOK
<1>4. \A m \in Miners : items[m] <= db.owed[m]
  <2>1. \A m \in Miners : cand[m] <= db.owed[m] /\ db.owed[m] \in Nat
    BY <1>3 DEF SendBatch, CompleteInv, TaskComplete, Ledger
  <2> QED
    BY <2>1
<1> HIDE DEF items
<1>5. Complete(db', wallet', sent')
  BY <1>2, <1>3, <1>4, BeginPayoutComplete, EnvHolds
  DEF SendBatch, CompleteInv, SoundInv, items
<1>6. disk' = db'
  BY DEF SendBatch, CommitDurably
<1>7. TaskComplete'
  BY DEF SendBatch, TaskComplete
<1> QED
  BY <1>1, <1>5, <1>6, <1>7 DEF CompleteInv

LEMMA WalletComplete ==
  ASSUME CompleteInv, NEW c \in Comments, WalletBroadcasts(c) \/ WalletDrops(c)
  PROVE  CompleteInv'
<1>1. SoundInv'
  BY NextSound DEF CompleteInv, Next, Wallet
<1>2. wallet[c] = "queued" /\ UNCHANGED <<db, disk, pc, cand, cur>>
  BY DEF WalletBroadcasts, WalletDrops, task
<1>3. Complete(db', wallet', sent') /\ Complete(disk', wallet', sent')
  BY <1>2, BroadcastComplete, DropComplete, EnvHolds
  DEF WalletBroadcasts, WalletDrops, CompleteInv, SoundInv, TypeOK
<1>4. TaskComplete'
  <2>1. \A k \in Comments : wallet[k] = "dead" => wallet'[k] = "dead"
    BY <1>2 DEF WalletBroadcasts, WalletDrops, CompleteInv, SoundInv, TypeOK
  <2>2. pc = "notfound" => cur \in Comments
    BY DEF CompleteInv, SoundInv, TypeOK, Paying
  <2> QED
    BY <1>2, <2>1, <2>2 DEF CompleteInv, TaskComplete
<1> QED
  BY <1>1, <1>3, <1>4 DEF CompleteInv

LEMMA NextComplete == Faults = {} /\ CompleteInv /\ [Next]_vars => CompleteInv'
<1> SUFFICES ASSUME Faults = {}, CompleteInv, [Next]_vars PROVE CompleteInv'
  OBVIOUS
<1>0. SoundInv /\ SoundInv' /\ TypeOK /\ TypeOK'
  BY NextSound DEF CompleteInv, SoundInv
<1>1. CASE UNCHANGED vars
  BY <1>0, <1>1 DEF vars, CompleteInv, TaskComplete
<1>2. CASE Wake \/ Restart \/ ReconcileEnds \/ SendTimesOut \/ NothingToSend
  <2>1. UNCHANGED <<db, disk, wallet, sent>> /\ pc' \notin {"balance", "notfound"}
    BY <1>2 DEF Wake, Restart, ReconcileEnds, SendTimesOut, NothingToSend, external
  <2> QED
    BY <1>0, <2>1 DEF CompleteInv, TaskComplete
<1>3. ASSUME NEW c \in Comments,
             ReconcileKnown(c) \/ ReconcileFound(c) \/ ReconcileIndeterminate(c)
      PROVE  CompleteInv'
  <2>1. TaskComplete'
    BY <1>3 DEF ReconcileKnown, ReconcileFound, ReconcileIndeterminate,
                Reconciling, TaskComplete
  <2>2. CASE ReconcileIndeterminate(c)
    BY <1>0, <2>1, <2>2 DEF ReconcileIndeterminate, external, CompleteInv
  <2>3. CASE ReconcileKnown(c) \/ ReconcileFound(c)
    <3>1. wallet[c] = "broadcast" /\ todo[c].items = outputs[c]
      BY <1>0, <2>3 DEF ReconcileKnown, ReconcileFound, SoundInv, TaskSound
    <3>2. db' = RecordPayouts(db, c, outputs[c])
      BY <2>3, <3>1 DEF ReconcileKnown, ReconcileFound
    <3>3. Complete(db', wallet, sent)
      BY <1>0, <3>1, <3>2, RecordPayoutsComplete, EnvHolds
      DEF CompleteInv, SoundInv, TypeOK
    <3> QED
      BY <1>0, <2>1, <2>3, <3>3, LedgersComplete
      DEF ReconcileKnown, ReconcileFound, Commit, CompleteInv
  <2> QED
    BY <1>3, <2>2, <2>3
<1>4. CASE CollectPayable
  <2>1. db.owed \in [Miners -> Nat]
    BY <1>0, PendingType DEF TypeOK
  <2>2. UNCHANGED <<db, disk, wallet, sent>> /\ TaskComplete'
    BY <1>4, <2>1 DEF CollectPayable, external, TaskComplete
  <2> QED
    BY <1>0, <2>2 DEF CompleteInv
<1>5. ASSUME NEW c \in Comments, SendBatch(c) PROVE CompleteInv'
  BY <1>5, SendBatchComplete
<1>6. CASE SendReturns \/ FindSucceeds
  <2>1. cur \in Comments
    BY <1>0, <1>6 DEF SendReturns, FindSucceeds, TypeOK, Paying
  <2>2. Complete(db', wallet, sent)
    BY <1>0, <1>6, <2>1, SetPayoutTxidComplete
    DEF SendReturns, FindSucceeds, CompleteInv, TypeOK
  <2>3. TaskComplete'
    BY <1>6 DEF SendReturns, FindSucceeds, TaskComplete
  <2> QED
    BY <1>0, <1>6, <2>2, <2>3, LedgersComplete
    DEF SendReturns, FindSucceeds, CommitDurably, CompleteInv
<1>7. CASE FindIsEmpty
  <2>1. wallet[cur] = "dead"
    BY <1>7 DEF FindIsEmpty
  <2> QED
    BY <1>0, <1>7, <2>1 DEF FindIsEmpty, task, external, CompleteInv, TaskComplete
<1>8. CASE SendFails \/ GiveUpBatch
  <2>1. cur \in Comments /\ wallet[cur] = "dead"
    BY <1>0, <1>8 DEF SendFails, GiveUpBatch, TypeOK, Paying, CompleteInv, TaskComplete
  <2>2. Complete(db', wallet, sent)
    BY <1>0, <1>8, <2>1, ClearPayoutComplete
    DEF SendFails, GiveUpBatch, CompleteInv, TypeOK
  <2>3. TaskComplete'
    BY <1>8 DEF SendFails, GiveUpBatch, TaskComplete
  <2> QED
    BY <1>0, <1>8, <2>2, <2>3, LedgersComplete
    DEF SendFails, GiveUpBatch, Commit, CompleteInv
<1>9. CASE DebitBatch
  <2>1. cur \in Comments /\ wallet[cur] = "broadcast"
    BY <1>0, <1>9 DEF DebitBatch, TypeOK, Paying, SoundInv, TaskSound
  <2>2. Complete(db', wallet, sent)
    BY <1>0, <1>9, <2>1, RecordPayoutsComplete, EnvHolds
    DEF DebitBatch, CompleteInv, SoundInv, TypeOK
  <2>3. TaskComplete'
    BY <1>9 DEF DebitBatch, TaskComplete
  <2> QED
    BY <1>0, <1>9, <2>2, <2>3, LedgersComplete DEF DebitBatch, Commit, CompleteInv
<1>10. CASE Sweep
  <2>1. Complete(db', wallet, sent)
    BY <1>0, <1>10, SweepComplete DEF Sweep, CompleteInv, TypeOK
  <2>2. TaskComplete'
    BY <1>10 DEF Sweep, TaskComplete
  <2> QED
    BY <1>0, <1>10, <2>1, <2>2, LedgersComplete DEF Sweep, Commit, CompleteInv
<1>11. ASSUME NEW b \in Blocks, ApplyMaturity(b) PROVE CompleteInv'
  <2>1. db \in Ledger
    BY <1>0 DEF TypeOK
  <2>2. Complete(db', wallet, sent)
    BY <1>11, <2>1, MaturityComplete DEF ApplyMaturity, CompleteInv
  <2>3. \A m \in Miners : db.owed[m] <= db'.owed[m]
    <3>1. \A m \in Miners : /\ db.owed[m] \in Nat /\ db.credits[b][m] \in Nat
                            /\ OrphanBlock(db, b).owed[m] = db.owed[m]
                            /\ \/ MatureBlock(db, b).owed[m] = db.owed[m]
                               \/ MatureBlock(db, b).owed[m] = db.owed[m] + db.credits[b][m]
      BY <2>1 DEF OrphanBlock, MatureBlock, Ledger
    <3> QED
      BY <1>11, <3>1 DEF ApplyMaturity
  <2>4. TaskComplete'
    <3>1. db.owed \in [Miners -> Nat] /\ db'.owed \in [Miners -> Nat] /\ cand \in [Miners -> Nat]
      BY <1>0, <2>1, PendingType DEF TypeOK
    <3> QED
      BY <1>11, <2>3, <3>1 DEF ApplyMaturity, CompleteInv, TaskComplete, task, external
  <2> QED
    BY <1>0, <1>11, <2>2, <2>4, LedgersComplete DEF ApplyMaturity, Commit, CompleteInv
<1>12. ASSUME NEW c \in Comments, ResolvePaid(c) \/ ResolveUnpaid(c) PROVE CompleteInv'
  <2>1. db.pending[c].items = outputs[c] /\ db \in Ledger
    BY <1>0, <1>12 DEF ResolvePaid, ResolveUnpaid, SoundInv, Sound, TypeOK
  <2>2. Complete(db', wallet, sent)
    BY <1>0, <1>12, <2>1, RecordPayoutsComplete, ClearPayoutComplete, EnvHolds
    DEF ResolvePaid, ResolveUnpaid, CompleteInv, SoundInv
  <2>3. TaskComplete'
    <3>1. CASE ResolveUnpaid(c)
      BY <2>1, <3>1 DEF ResolveUnpaid, ClearPayout, Ledger, CompleteInv,
                        TaskComplete, task, external
    <3>2. CASE ResolvePaid(c)
      <4>1. db' = RecordPayouts(db, c, outputs[c]) /\ Pending(db, c)
        BY <2>1, <3>2 DEF ResolvePaid
      <4>2. pc = "balance" =>
              \A m \in Miners : cand[m] > 0 => outputs[c][m] = 0
        <5>1. \A m \in Miners : outputs[c][m] \in Nat
          BY <1>0 DEF TypeOK
        <5> QED
          BY <1>0, <2>1, <4>1, <5>1 DEF SoundInv, TaskSound, Names
      <4>3. \A m \in Miners : /\ db'.owed[m] \in Nat
                              /\ outputs[c][m] = 0 => db'.owed[m] = db.owed[m]
        <5>1. \A m \in Miners : outputs[c][m] \in Nat /\ db.owed[m] \in Nat
          BY <1>0 DEF TypeOK, Ledger
        <5>2. db' = [db EXCEPT !.pending = [db.pending EXCEPT ![c] = NoIntent],
                               !.owed = [m \in Miners |->
                                           Clamp(db.owed[m] - outputs[c][m])],
                               !.paid = [m \in Miners |->
                                           db.paid[m] + outputs[c][m]]]
          BY <4>1 DEF RecordPayouts
        <5>3. db'.owed = [m \in Miners |-> Clamp(db.owed[m] - outputs[c][m])]
          BY <1>0, <5>2 DEF TypeOK, Ledger
        <5>4. \A m \in Miners : db'.owed[m] = Clamp(db.owed[m] - outputs[c][m])
          BY <5>3
        <5> QED
          BY <5>1, <5>4 DEF Clamp
      <4>4. \A m \in Miners : cand[m] \in Nat
        BY <1>0 DEF TypeOK
      <4> QED
        BY <3>2, <4>2, <4>3, <4>4 DEF ResolvePaid, CompleteInv, TaskComplete, task, external
    <3> QED
      BY <1>12, <3>1, <3>2
  <2> QED
    BY <1>0, <1>12, <2>2, <2>3, LedgersComplete
    DEF ResolvePaid, ResolveUnpaid, Commit, CompleteInv
<1>13. ASSUME NEW m \in Miners, AdjustOwed(m) PROVE CompleteInv'
  <2>1. PICK i \in Int : /\ db' = AdjustBalance(db, m, i)
                         /\ i >= 0 \/ Settled(m)
    BY <1>13, AdjustmentsNat DEF AdjustOwed
  <2>2. db \in Ledger /\ cand \in [Miners -> Nat]
    BY <1>0 DEF TypeOK
  <2>3. Complete(db', wallet, sent)
    BY <2>1, <2>2, AdjustComplete DEF CompleteInv, Settled
  <2>4. TaskComplete'
    <3>1. \A n \in Miners : /\ db.owed[n] \in Nat /\ db'.owed[n] \in Nat
                            /\ n # m => db'.owed[n] = db.owed[n]
                            /\ i >= 0 => db.owed[n] <= db'.owed[n]
      BY <2>1, <2>2 DEF AdjustBalance, Clamp, Ledger
    <3> QED
      BY <1>13, <2>1, <2>2, <3>1
      DEF AdjustOwed, CompleteInv, TaskComplete, Settled, task, external
  <2> QED
    BY <1>0, <1>13, <2>3, <2>4, LedgersComplete DEF AdjustOwed, Commit, CompleteInv
<1>14. ASSUME NEW c \in Comments, WalletBroadcasts(c) \/ WalletDrops(c) PROVE CompleteInv'
  BY <1>14, WalletComplete
<1>15. CASE Writeback
  BY <1>0, <1>15 DEF Writeback, CompleteInv, TaskComplete, task, external
<1>16. CASE Crash \/ PowerCut
  <2>1. /\ db' = db \/ db' = disk
        /\ disk' = disk /\ pc' = "down"
        /\ UNCHANGED <<wallet, sent>>
    BY <1>16 DEF Crash, PowerCut, Down, external
  <2> QED
    BY <1>0, <2>1 DEF CompleteInv, TaskComplete
<1>17. CASE ReconcileWriteFails \/ PayoutWriteFails
  <2>1. /\ UNCHANGED <<db, disk, wallet, sent>>
        /\ pc' \in {"sleep", "collect", "sweep"}
    BY <1>17 DEF ReconcileWriteFails, PayoutWriteFails, external
  <2> QED
    BY <1>0, <2>1 DEF CompleteInv, TaskComplete
<1> QED
  BY <1>1, <1>2, <1>3, <1>4, <1>5, <1>6, <1>7, <1>8, <1>9, <1>10, <1>11, <1>12,
     <1>13, <1>14, <1>15, <1>16, <1>17
  DEF Next, PayoutTask, Operator, Wallet

LEMMA CompleteAlways ==
  ASSUME Faults = {}
  PROVE  Spec => []CompleteInv
<1>1. CompleteInv /\ [Next]_vars => CompleteInv'
  BY NextComplete
<1> QED
  BY <1>1, InitComplete, PTL DEF Spec

\* Without faults, what is on chain is debited or held as an intent, across
\* crashes and power cuts (Payouts.BroadcastOnBooks; pool.py: _do_payouts).
THEOREM BroadcastOnBooksHolds ==
  ASSUME Faults = {}
  PROVE  Spec => []BroadcastOnBooks
<1>1. ASSUME CompleteInv, NEW d \in {db, disk}, NEW m \in Miners
      PROVE  sent[m] <= d.paid[m] + InFlight(d, wallet, m)
  <2>1. /\ d \in Ledger
        /\ Sound(d, wallet, outputs, sent)
        /\ Complete(d, wallet, sent)
    BY <1>1 DEF CompleteInv, SoundInv, TypeOK
  <2>2. d.paid[m] \in Nat /\ sent[m] \in Nat
    BY <1>1, <2>1, PendingType DEF CompleteInv, SoundInv, TypeOK
  <2>3. ASSUME NEW c \in Comments, wallet[c] = "broadcast", Names(d, c, m)
        PROVE  InFlight(d, wallet, m) = d.pending[c].items[m]
    BY <2>1, <2>3, InFlightValue
  <2>4. InFlight(d, wallet, m) \in Nat
    <3>1. \A c \in Comments : d.pending[c].items[m] \in Nat
      BY <2>1 DEF Ledger, Intent
    <3> QED
      BY <2>1, <2>3, <3>1, InFlightValue
  <2>5. CASE sent[m] <= d.paid[m]
    BY <2>2, <2>4, <2>5
  <2>6. ASSUME NEW c \in Comments, wallet[c] = "broadcast", Names(d, c, m),
               sent[m] <= d.paid[m] + d.pending[c].items[m]
        PROVE  sent[m] <= d.paid[m] + InFlight(d, wallet, m)
    BY <2>3, <2>6
  <2> QED
    BY <2>1, <2>5, <2>6 DEF Complete
<1>2. CompleteInv => BroadcastOnBooks
  BY <1>1 DEF BroadcastOnBooks
<1> QED
  BY <1>2, CompleteAlways, PTL

\* Without faults, the clamp of the debit never acts
\* (Payouts.IntentCovered; accounting.py: record_payouts, sweep_stale).
THEOREM IntentCoveredHolds ==
  ASSUME Faults = {}
  PROVE  Spec => []IntentCovered
<1>1. CompleteInv => IntentCovered
  BY DEF CompleteInv, Complete, IntentCovered
<1> QED
  BY <1>1, CompleteAlways, PTL

\* What a miner has received never exceeds its credit.
LEMMA CompleteCovers ==
  ASSUME NEW d \in Ledger, NEW w, NEW s \in [Miners -> Nat], Complete(d, w, s),
         NEW m \in Miners
  PROVE  s[m] <= d.owed[m] + d.paid[m]
<1>1. d.paid[m] \in Nat /\ d.owed[m] \in Nat /\ s[m] \in Nat
  BY PendingType
<1>2. CASE s[m] <= d.paid[m]
  BY <1>1, <1>2
<1>3. ASSUME NEW c \in Comments, Names(d, c, m),
             s[m] <= d.paid[m] + d.pending[c].items[m]
      PROVE  s[m] <= d.owed[m] + d.paid[m]
  <2>1. d.pending[c].items[m] <= d.owed[m] /\ d.pending[c].items[m] \in Nat
    BY <1>3 DEF Complete, Names, Ledger, Intent
  <2> QED
    BY <1>1, <1>3, <2>1
<1> QED
  BY <1>2, <1>3 DEF Complete

\* Without faults, no miner receives more than it was credited, across
\* crashes and power cuts (Payouts.NoDoublePay).
THEOREM NoDoublePayHolds ==
  ASSUME Faults = {}
  PROVE  Spec => []NoDoublePay
<1>1. CompleteInv => NoDoublePay
  BY CompleteCovers DEF CompleteInv, SoundInv, TypeOK, NoDoublePay
<1> QED
  BY <1>1, CompleteAlways, PTL

\* Without faults, a batch the wallet may still execute is on disk
\* (Payouts.IntentBeforeSend; accounting.py: begin_payout).
THEOREM IntentBeforeSendHolds ==
  ASSUME Faults = {}
  PROVE  Spec => []IntentBeforeSend
<1>1. CompleteInv => IntentBeforeSend
  BY DEF CompleteInv, Complete, IntentBeforeSend
<1> QED
  BY <1>1, CompleteAlways, PTL
-----------------------------------------------------------------------------
(* Payouts implements IdealPayouts.  First, what the methods of Accounting *)
(* do to the books.                                                        *)

\* A sum means the same in the module the refinement maps to.
LEMMA IdealTotal ==
  ASSUME NEW f, NEW S
  PROVE  Ideal!Total(f, S) = Total(f, S)
BY DEF Ideal!Total, Total, Ideal!MapThenSumSet, MapThenSumSet,
       Ideal!MapThenFoldSet, MapThenFoldSet

LEMMA BooksKept ==
  ASSUME NEW d, NEW e, e.owed = d.owed, e.paid = d.paid, e.status = d.status
  PROVE  Books(e) = Books(d)
BY DEF Books

LEMMA CreditedSum ==
  ASSUME NEW d \in Ledger, NEW m \in Miners
  PROVE  /\ Books(d).credited[m] = d.owed[m] + d.paid[m]
         /\ d.owed[m] \in Nat /\ d.paid[m] \in Nat
BY DEF Books, Ledger

\* A debit the balances cover moves a credit from owed to paid.
LEMMA RecordPayoutsBooks ==
  ASSUME NEW d \in Ledger, NEW c \in Comments, NEW items \in [Miners -> Nat],
         Pending(d, c) => \A m \in Miners : items[m] <= d.owed[m]
  PROVE  Books(RecordPayouts(d, c, items)) = Books(d)
<1> DEFINE e == RecordPayouts(d, c, items)
<1>1. CASE ~Pending(d, c)
  BY <1>1 DEF RecordPayouts
<1>2. CASE Pending(d, c)
  <2>1. /\ e.owed = [m \in Miners |-> Clamp(d.owed[m] - items[m])]
        /\ e.paid = [m \in Miners |-> d.paid[m] + items[m]]
        /\ e.status = d.status
    BY <1>2 DEF RecordPayouts, Ledger
  <2> HIDE DEF e
  <2>2. \A m \in Miners : e.owed[m] + e.paid[m] = d.owed[m] + d.paid[m]
    <3>1. \A m \in Miners : /\ items[m] \in Nat /\ items[m] <= d.owed[m]
                            /\ d.owed[m] \in Nat /\ d.paid[m] \in Nat
      BY <1>2 DEF Ledger
    <3> QED
      BY <2>1, <3>1 DEF Clamp
  <2>3. Books(e) = Books(d)
    BY <2>1, <2>2 DEF Books
  <2> QED
    BY <2>3 DEF e
<1> QED
  BY <1>1, <1>2

LEMMA IntentBooks ==
  ASSUME NEW d \in Ledger, NEW c \in Comments, NEW items
  PROVE  /\ Books(BeginPayout(d, c, items)) = Books(d)
         /\ Books(SetPayoutTxid(d, c)) = Books(d)
         /\ Books(ClearPayout(d, c)) = Books(d)
<1>1. /\ BeginPayout(d, c, items).owed = d.owed
      /\ BeginPayout(d, c, items).paid = d.paid
      /\ BeginPayout(d, c, items).status = d.status
  BY DEF BeginPayout, Ledger
<1>2. /\ SetPayoutTxid(d, c).owed = d.owed
      /\ SetPayoutTxid(d, c).paid = d.paid
      /\ SetPayoutTxid(d, c).status = d.status
  BY DEF SetPayoutTxid, Ledger
<1>3. /\ ClearPayout(d, c).owed = d.owed
      /\ ClearPayout(d, c).paid = d.paid
      /\ ClearPayout(d, c).status = d.status
  BY DEF ClearPayout, Ledger
<1> QED
  BY <1>1, <1>2, <1>3, BooksKept

\* Maturity credits the block's split, an orphan nothing; either settles it.
LEMMA MatureBlockBooks ==
  ASSUME NEW d \in Ledger, NEW b \in Blocks, d.status[b] = "immature"
  PROVE  Books(MatureBlock(d, b)) =
           [settled  |-> Books(d).settled \cup {b},
            credited |-> [m \in Miners |-> Books(d).credited[m] + d.credits[b][m]]]
<1> DEFINE e == MatureBlock(d, b)
<1>1. /\ e.owed = [m \in Miners |-> d.owed[m] + d.credits[b][m]]
      /\ e.paid = d.paid
      /\ e.status = [d.status EXCEPT ![b] = "matured"]
  BY DEF MatureBlock, Ledger
<1> HIDE DEF e
<1>2. Books(e).settled = Books(d).settled \cup {b}
  BY <1>1 DEF Books, Ledger
<1>3. \A m \in Miners :
        e.owed[m] + e.paid[m] = (d.owed[m] + d.paid[m]) + d.credits[b][m]
  <2>1. \A m \in Miners : d.owed[m] \in Nat /\ d.paid[m] \in Nat /\ d.credits[b][m] \in Nat
    BY DEF Ledger
  <2> QED
    BY <1>1, <2>1
<1>4. Books(e).credited = [m \in Miners |-> Books(d).credited[m] + d.credits[b][m]]
  BY <1>3 DEF Books
<1>5. Books(e) = [settled |-> Books(e).settled, credited |-> Books(e).credited]
  BY DEF Books
<1> QED
  BY <1>2, <1>4, <1>5 DEF e

LEMMA OrphanBlockBooks ==
  ASSUME NEW d \in Ledger, NEW b \in Blocks, d.status[b] = "immature"
  PROVE  Books(OrphanBlock(d, b)) =
           [Books(d) EXCEPT !.settled = Books(d).settled \cup {b}]
<1> DEFINE e == OrphanBlock(d, b)
<1>1. /\ e.owed = d.owed
      /\ e.paid = d.paid
      /\ e.status = [d.status EXCEPT ![b] = "orphaned"]
  BY DEF OrphanBlock, Ledger
<1> HIDE DEF e
<1>2. Books(e).settled = Books(d).settled \cup {b}
  BY <1>1 DEF Books, Ledger
<1>3. Books(e).credited = Books(d).credited
  BY <1>1 DEF Books
<1>4. Books(e) = [Books(d) EXCEPT !.settled = Books(e).settled]
  BY <1>3 DEF Books
<1> QED
  BY <1>2, <1>4 DEF e

LEMMA BooksRecord ==
  ASSUME NEW d, NEW e, Books(e).settled = Books(d).settled
  PROVE  Books(e) = [Books(d) EXCEPT !.credited = Books(e).credited]
BY DEF Books

\* The sweep moves what the swept miners have not been paid to the faucet.
LEMMA SweepBooks ==
  ASSUME NEW d \in Ledger, NEW idle \in SUBSET Miners, NEW s \in [Miners -> Nat],
         \A m \in Swept(d, idle) : d.paid[m] = s[m]
  PROVE  LET left == [m \in Miners |-> Books(d).credited[m] - s[m]]
         IN  Books(SweepStale(d, idle)) =
               [Books(d) EXCEPT !.credited =
                  [m \in Miners |->
                     CASE m \in Swept(d, idle) -> s[m]
                       [] m = Faucet -> Books(d).credited[m]
                                        + Total(left, Swept(d, idle))
                       [] OTHER      -> Books(d).credited[m]]]
<1> DEFINE e == SweepStale(d, idle)
           S == Swept(d, idle)
           left == [m \in Miners |-> Books(d).credited[m] - s[m]]
<1>1. /\ e.paid = d.paid /\ e.status = d.status
      /\ \A m \in Miners : e.owed[m] = CASE m \in S -> 0
                                         [] m = Faucet -> d.owed[m] + Total(d.owed, S)
                                         [] OTHER -> d.owed[m]
  BY DEF SweepStale, Ledger
<1>2. S \subseteq Miners /\ Faucet \notin S
  BY DEF Swept
<1>3. \A m \in Miners : s[m] \in Nat
  OBVIOUS
<1> HIDE DEF e, S
<1>4. \A m \in S : left[m] = d.owed[m]
  BY <1>2, <1>3, CreditedSum DEF S
<1>5. IsFiniteSet(S) /\ Total(d.owed, S) \in Nat
  BY SweepStaleType DEF S
<1> HIDE DEF left
<1>6. Total(left, S) = Total(d.owed, S)
  BY <1>4, <1>5, TotalSame
<1>7. \A m \in Miners :
        e.owed[m] + e.paid[m] =
          CASE m \in S -> s[m]
            [] m = Faucet -> Books(d).credited[m] + Total(left, S)
            [] OTHER      -> Books(d).credited[m]
  <2> SUFFICES ASSUME NEW m \in Miners
               PROVE  e.owed[m] + e.paid[m] =
                        CASE m \in S -> s[m]
                          [] m = Faucet -> Books(d).credited[m] + Total(left, S)
                          [] OTHER      -> Books(d).credited[m]
    OBVIOUS
  <2>1. /\ Books(d).credited[m] = d.owed[m] + d.paid[m]
        /\ d.owed[m] \in Nat /\ d.paid[m] \in Nat /\ Total(d.owed, S) \in Nat
    BY <1>5, CreditedSum
  <2>2. CASE m \in S
    <3>1. d.paid[m] = s[m]
      BY <2>2 DEF S
    <3>2. e.owed[m] = 0 /\ e.paid[m] = d.paid[m]
      BY <1>1, <1>2, <2>2
    <3> QED
      BY <1>2, <1>3, <2>2, <3>1, <3>2
  <2>3. CASE m \notin S
    BY <1>1, <1>6, <2>1, <2>3
  <2> QED
    BY <2>2, <2>3
<1>8. Books(e).credited = [m \in Miners |->
                             CASE m \in S -> s[m]
                               [] m = Faucet -> Books(d).credited[m] + Total(left, S)
                               [] OTHER      -> Books(d).credited[m]]
  BY <1>7 DEF Books
<1>9. Books(e).settled = Books(d).settled
  BY <1>1 DEF Books
<1>10. Books(e) = [Books(d) EXCEPT !.credited = Books(e).credited]
  BY <1>9, BooksRecord
<1> QED
  BY <1>8, <1>10 DEF e, S, left

\* A correction touches one miner's credit.
LEMMA AdjustBooks ==
  ASSUME NEW d \in Ledger, NEW m \in Miners, NEW delta \in Int
  PROVE  /\ Books(AdjustBalance(d, m, delta)).settled = Books(d).settled
         /\ \A n \in Miners \ {m} :
              Books(AdjustBalance(d, m, delta)).credited[n] = Books(d).credited[n]
BY DEF AdjustBalance, Ledger, Books

\* What the steps that only move amounts between intents, debits and balances
\* keep: the books, and what is known of the blocks.
Kept(d, e) == Books(e) = Books(d) /\ e.status = d.status /\ e.credits = d.credits

LEMMA MethodsKeep ==
  ASSUME NEW d \in Ledger, NEW c \in Comments, NEW items \in [Miners -> Nat]
  PROVE  /\ Kept(d, BeginPayout(d, c, items))
         /\ Kept(d, SetPayoutTxid(d, c))
         /\ Kept(d, ClearPayout(d, c))
         /\ (Pending(d, c) => \A m \in Miners : items[m] <= d.owed[m])
              => Kept(d, RecordPayouts(d, c, items))
<1>1. /\ BeginPayout(d, c, items).status = d.status
      /\ BeginPayout(d, c, items).credits = d.credits
  BY DEF BeginPayout, Ledger
<1>2. /\ SetPayoutTxid(d, c).status = d.status
      /\ SetPayoutTxid(d, c).credits = d.credits
  BY DEF SetPayoutTxid, Ledger
<1>3. /\ ClearPayout(d, c).status = d.status
      /\ ClearPayout(d, c).credits = d.credits
  BY DEF ClearPayout, Ledger
<1>4. /\ RecordPayouts(d, c, items).status = d.status
      /\ RecordPayouts(d, c, items).credits = d.credits
  BY DEF RecordPayouts, Ledger
<1> QED
  BY <1>1, <1>2, <1>3, <1>4, IntentBooks, RecordPayoutsBooks DEF Kept

\* The debit of a batch, when no other batch is held under its comment.
LEMMA DebitKeeps ==
  ASSUME CompleteInv, NEW c \in Comments
  PROVE  Kept(db, RecordPayouts(db, c, outputs[c]))
<1>1. db \in Ledger /\ outputs[c] \in [Miners -> Nat]
  BY DEF CompleteInv, SoundInv, TypeOK
<1>2. Pending(db, c) => \A m \in Miners : outputs[c][m] <= db.owed[m]
  BY DEF CompleteInv, SoundInv, Sound, Complete
<1> QED
  BY <1>1, <1>2, MethodsKeep

\* The steps that are none of IdealPayouts but for what they make durable.
Bookkeeping ==
  \/ Wake \/ ReconcileEnds \/ CollectPayable \/ NothingToSend \/ SendReturns
  \/ SendTimesOut \/ SendFails \/ FindSucceeds \/ FindIsEmpty \/ GiveUpBatch
  \/ DebitBatch \/ ReconcileWriteFails \/ PayoutWriteFails \/ Writeback
  \/ Crash \/ Restart
  \/ \E c \in Comments : \/ ReconcileKnown(c) \/ ReconcileFound(c)
                         \/ ReconcileIndeterminate(c) \/ SendBatch(c)
                         \/ ResolvePaid(c) \/ ResolveUnpaid(c) \/ WalletDrops(c)

LEMMA BookkeepingKeeps ==
  ASSUME CompleteInv, Bookkeeping
  PROVE  Kept(db, db') /\ disk' \in {disk, db'} /\ sent' = sent
<1>0. db \in Ledger /\ Nothing \in [Miners -> Nat] /\ Kept(db, db)
  BY DEF CompleteInv, SoundInv, TypeOK, Nothing, Kept
<1>1. CASE \/ Wake \/ ReconcileEnds \/ CollectPayable \/ NothingToSend \/ SendTimesOut
           \/ FindIsEmpty \/ ReconcileWriteFails \/ PayoutWriteFails \/ Writeback
           \/ Crash \/ Restart
  BY <1>0, <1>1 DEF Wake, ReconcileEnds, CollectPayable, NothingToSend, SendTimesOut,
     FindIsEmpty, ReconcileWriteFails, PayoutWriteFails, Writeback, Crash, Down,
     Restart, external
<1>2. CASE SendReturns \/ FindSucceeds
  <2>1. cur \in Comments
    BY <1>2 DEF SendReturns, FindSucceeds, CompleteInv, SoundInv, TypeOK, Paying
  <2>2. Kept(db, SetPayoutTxid(db, cur))
    BY <1>0, <2>1, MethodsKeep
  <2> QED
    BY <1>2, <2>2 DEF SendReturns, FindSucceeds, CommitDurably, external
<1>3. CASE SendFails \/ GiveUpBatch
  <2>1. cur \in Comments
    BY <1>3 DEF SendFails, GiveUpBatch, CompleteInv, SoundInv, TypeOK, Paying
  <2>2. Kept(db, ClearPayout(db, cur))
    BY <1>0, <2>1, MethodsKeep
  <2> QED
    BY <1>3, <2>2 DEF SendFails, GiveUpBatch, Commit, external
<1>4. CASE DebitBatch
  <2>1. cur \in Comments
    BY <1>4 DEF DebitBatch, CompleteInv, SoundInv, TypeOK, Paying
  <2> QED
    BY <1>4, <2>1, DebitKeeps DEF DebitBatch, Commit, external
<1>5. ASSUME NEW c \in Comments,
             ReconcileKnown(c) \/ ReconcileFound(c) \/ ReconcileIndeterminate(c)
      PROVE  Kept(db, db') /\ disk' \in {disk, db'} /\ sent' = sent
  <2>1. CASE ReconcileIndeterminate(c)
    BY <1>0, <2>1 DEF ReconcileIndeterminate, external
  <2>2. CASE ReconcileKnown(c) \/ ReconcileFound(c)
    <3>1. todo[c].items = outputs[c]
      BY <2>2 DEF ReconcileKnown, ReconcileFound, CompleteInv, SoundInv, TaskSound
    <3> QED
      BY <2>2, <3>1, DebitKeeps DEF ReconcileKnown, ReconcileFound, Commit, external
  <2> QED
    BY <1>5, <2>1, <2>2
<1>6. ASSUME NEW c \in Comments, SendBatch(c)
      PROVE  Kept(db, db') /\ disk' \in {disk, db'} /\ sent' = sent
  <2>1. PICK S \in SUBSET {m \in Miners : cand[m] > 0} :
          db' = BeginPayout(db, c, [m \in Miners |-> IF m \in S THEN cand[m] ELSE 0])
    BY <1>6 DEF SendBatch
  <2>2. [m \in Miners |-> IF m \in S THEN cand[m] ELSE 0] \in [Miners -> Nat]
    BY DEF CompleteInv, SoundInv, TypeOK
  <2>3. Kept(db, db')
    BY <1>0, <2>1, <2>2, MethodsKeep
  <2> QED
    BY <1>6, <2>3 DEF SendBatch, CommitDurably
<1>7. ASSUME NEW c \in Comments, ResolvePaid(c) \/ ResolveUnpaid(c)
      PROVE  Kept(db, db') /\ disk' \in {disk, db'} /\ sent' = sent
  <2>1. CASE ResolvePaid(c)
    <3>1. db.pending[c].items = outputs[c]
      BY <2>1 DEF ResolvePaid, CompleteInv, SoundInv, Sound
    <3> QED
      BY <2>1, <3>1, DebitKeeps DEF ResolvePaid, Commit, external
  <2>2. CASE ResolveUnpaid(c)
    BY <1>0, <2>2, MethodsKeep DEF ResolveUnpaid, Commit, external
  <2> QED
    BY <1>7, <2>1, <2>2
<1>8. ASSUME NEW c \in Comments, WalletDrops(c)
      PROVE  Kept(db, db') /\ disk' \in {disk, db'} /\ sent' = sent
  BY <1>0, <1>8 DEF WalletDrops
<1> QED
  BY <1>1, <1>2, <1>3, <1>4, <1>5, <1>6, <1>7, <1>8 DEF Bookkeeping

\* The steps of the pool are those, and the five that IdealPayouts has too.
LEMMA StepKinds ==
  ASSUME Next
  PROVE  \/ Bookkeeping
         \/ Sweep
         \/ \E b \in Blocks : ApplyMaturity(b)
         \/ \E m \in Miners : AdjustOwed(m)
         \/ \E c \in Comments : WalletBroadcasts(c)
         \/ PowerCut
BY DEF Next, PayoutTask, Operator, Wallet, Bookkeeping

LEMMA InitIdeal == Init => IdealInv /\ Ideal!Init
<1> SUFFICES ASSUME Init PROVE IdealInv /\ Ideal!Init
  OBVIOUS
<1>1. SplitKept(FirstLedger)
  BY CreditsNat DEF SplitKept, FirstLedger, EmptyLedger
<1>2. Books(FirstLedger) = [credited |-> [m \in Miners |-> 0], settled |-> {}]
  BY DEF Books, FirstLedger, EmptyLedger, Nothing
<1>3. sent = [m \in Miners |-> 0]
  BY DEF Init, Nothing
<1> QED
  BY <1>1, <1>2, <1>3, InitComplete DEF Init, IdealInv, Ideal!Init

LEMMA NextSplitKept ==
  ASSUME IdealInv, [Next]_vars
  PROVE  SplitKept(db') /\ SplitKept(disk')
<1>0. db \in Ledger
  BY DEF IdealInv, CompleteInv, SoundInv, TypeOK
<1>1. ASSUME NEW d, NEW e, d.status = e.status, d.credits = e.credits, SplitKept(d)
      PROVE  SplitKept(e)
  BY <1>1 DEF SplitKept
<1>2. CASE UNCHANGED vars
  BY <1>2 DEF vars, IdealInv
<1>3. CASE Bookkeeping
  <2>1. Kept(db, db') /\ disk' \in {disk, db'}
    BY <1>3, BookkeepingKeeps DEF IdealInv
  <2> QED
    BY <1>1, <2>1 DEF Kept, IdealInv
<1>4. CASE Sweep
  <2>1. db'.status = db.status /\ db'.credits = db.credits /\ disk' = disk
    BY <1>0, <1>4 DEF Sweep, SweepStale, Commit, Ledger
  <2> QED
    BY <1>1, <2>1 DEF IdealInv
<1>5. ASSUME NEW m \in Miners, AdjustOwed(m)
      PROVE  SplitKept(db') /\ SplitKept(disk')
  <2>1. db'.status = db.status /\ db'.credits = db.credits /\ disk' = disk
    BY <1>0, <1>5 DEF AdjustOwed, AdjustBalance, Commit, Ledger
  <2> QED
    BY <1>1, <2>1 DEF IdealInv
<1>6. ASSUME NEW b \in Blocks, ApplyMaturity(b)
      PROVE  SplitKept(db') /\ SplitKept(disk')
  <2>1. disk' = disk /\ db'.status[b] # "immature"
    BY <1>0, <1>6 DEF ApplyMaturity, MatureBlock, OrphanBlock, Commit, Ledger
  <2>2. \A k \in Blocks \ {b} : /\ db'.status[k] = db.status[k]
                                /\ db'.credits[k] = db.credits[k]
    <3>1. CASE db' = MatureBlock(db, b)
      <4>1. /\ db'.status = [db.status EXCEPT ![b] = "matured"]
            /\ db'.credits = db.credits
        BY <1>0, <1>6, <3>1 DEF ApplyMaturity, MatureBlock, Ledger
      <4> QED
        BY <1>0, <4>1 DEF Ledger
    <3>2. CASE db' = OrphanBlock(db, b)
      <4>1. /\ db'.status = [db.status EXCEPT ![b] = "orphaned"]
            /\ db'.credits = [db.credits EXCEPT ![b] = Nothing]
        BY <1>0, <1>6, <3>2 DEF ApplyMaturity, OrphanBlock, Ledger
      <4> QED
        BY <1>0, <4>1 DEF Ledger
    <3> QED
      BY <1>6, <3>1, <3>2 DEF ApplyMaturity
  <2> QED
    BY <2>1, <2>2 DEF IdealInv, SplitKept
<1>7. ASSUME NEW c \in Comments, WalletBroadcasts(c)
      PROVE  SplitKept(db') /\ SplitKept(disk')
  BY <1>7 DEF WalletBroadcasts, IdealInv
<1>8. CASE PowerCut
  BY <1>8 DEF PowerCut, IdealInv
<1> QED
  BY <1>2, <1>3, <1>4, <1>5, <1>6, <1>7, <1>8, StepKinds

\* A miner that no intent names has been debited for all it has received.
LEMMA SweptIsPaid ==
  ASSUME CompleteInv, NEW idle \in SUBSET Miners, NEW m \in Swept(db, idle)
  PROVE  db.paid[m] = sent[m]
<1>1. m \in Miners /\ \A c \in Comments : ~Names(db, c, m)
  BY DEF Swept, PendingPayoutMinerIds
<1>2. sent[m] <= db.paid[m] /\ db.paid[m] <= sent[m]
  BY <1>1 DEF CompleteInv, SoundInv, Sound, Complete
<1>3. sent[m] \in Nat /\ db.paid[m] \in Nat
  BY <1>1, PendingType DEF CompleteInv, SoundInv, TypeOK
<1> QED
  BY <1>2, <1>3

LEMMA SettlesIdeally ==
  ASSUME IdealInv, NEW b \in Blocks, ApplyMaturity(b)
  PROVE  Ideal!Settle(b)
<1>1. db \in Ledger /\ db.status[b] = "immature" /\ db.credits[b] = Credits[b]
  BY DEF ApplyMaturity, IdealInv, CompleteInv, SoundInv, TypeOK, SplitKept
<1>2. b \notin Books(db).settled
  BY <1>1 DEF Books
<1>3. UNCHANGED <<Books(disk), sent>>
  BY DEF ApplyMaturity, Commit, external
<1>4. CASE db' = MatureBlock(db, b)
  <2>1. Books(db)' = [settled  |-> Books(db).settled \cup {b},
                      credited |-> [m \in Miners |->
                                      Books(db).credited[m] + Credits[b][m]]]
    BY <1>1, <1>4, MatureBlockBooks
  <2> QED
    BY <1>2, <1>3, <2>1 DEF Ideal!Settle
<1>5. CASE db' = OrphanBlock(db, b)
  <2>1. Books(db)' = [Books(db) EXCEPT !.settled = Books(db).settled \cup {b}]
    BY <1>1, <1>5, OrphanBlockBooks
  <2> QED
    BY <1>2, <1>3, <2>1 DEF Ideal!Settle
<1> QED
  BY <1>4, <1>5 DEF ApplyMaturity

LEMMA SweepsIdeally ==
  ASSUME CompleteInv, NEW idle \in SUBSET Miners,
         db' = SweepStale(db, idle), disk' = disk, sent' = sent
  PROVE  Ideal!Sweep(Swept(db, idle))
<1> DEFINE left == [m \in Miners |-> Books(db).credited[m] - sent[m]]
<1>1. db \in Ledger /\ sent \in [Miners -> Nat]
  BY DEF CompleteInv, SoundInv, TypeOK
<1>2. \A m \in Swept(db, idle) : db.paid[m] = sent[m]
  BY SweptIsPaid
<1>3. Books(db)' = [Books(db) EXCEPT !.credited =
                      [m \in Miners |->
                         CASE m \in Swept(db, idle) -> sent[m]
                           [] m = Faucet -> Books(db).credited[m]
                                            + Total(left, Swept(db, idle))
                           [] OTHER      -> Books(db).credited[m]]]
  BY <1>1, <1>2, SweepBooks
<1>4. Ideal!Total(left, Swept(db, idle)) = Total(left, Swept(db, idle))
  BY IdealTotal
<1>5. UNCHANGED <<Books(disk), sent>>
  OBVIOUS
<1> QED
  BY <1>3, <1>4, <1>5 DEF Ideal!Sweep

LEMMA AdjustsIdeally ==
  ASSUME CompleteInv, CompleteInv', NEW m \in Miners, AdjustOwed(m)
  PROVE  Ideal!Correct(m)
<1>1. PICK i \in Int : db' = AdjustBalance(db, m, i)
  BY AdjustmentsNat DEF AdjustOwed
<1>2. db \in Ledger /\ UNCHANGED <<disk, sent>>
  BY DEF CompleteInv, SoundInv, TypeOK, AdjustOwed, Commit, external
<1>3. /\ Books(db').settled = Books(db).settled
      /\ \A n \in Miners \ {m} : Books(db').credited[n] = Books(db).credited[n]
  BY <1>1, <1>2, AdjustBooks
<1>4. sent[m] <= Books(db').credited[m]
  <2>1. db' \in Ledger /\ sent' \in [Miners -> Nat] /\ Complete(db', wallet', sent')
    BY DEF CompleteInv, SoundInv, TypeOK
  <2>2. sent'[m] <= db'.owed[m] + db'.paid[m]
    BY <2>1, CompleteCovers
  <2> QED
    BY <1>2, <2>1, <2>2, CreditedSum
<1> QED
  BY <1>2, <1>3, <1>4 DEF Ideal!Correct

LEMMA PaysFromCredit ==
  ASSUME CompleteInv, CompleteInv', NEW c \in Comments, WalletBroadcasts(c)
  PROVE  Ideal!Pay
<1>1. UNCHANGED <<db, disk>>
  BY DEF WalletBroadcasts
<1>2. ASSUME NEW d \in {db', disk'}, NEW m \in Miners
      PROVE  sent'[m] <= Books(d).credited[m]
  <2>1. d \in Ledger /\ sent' \in [Miners -> Nat] /\ Complete(d, wallet', sent')
    BY <1>2 DEF CompleteInv, SoundInv, TypeOK
  <2> QED
    BY <1>2, <2>1, CompleteCovers, CreditedSum
<1>3. \A m \in Miners : sent[m] <= sent'[m]
  <2>1. \A m \in Miners : sent[m] \in Nat /\ outputs[c][m] \in Nat
    BY DEF CompleteInv, SoundInv, TypeOK
  <2> QED
    BY <2>1 DEF WalletBroadcasts
<1> QED
  BY <1>1, <1>2, <1>3 DEF Ideal!Pay

LEMMA NextIdeal ==
  ASSUME IdealInv, IdealInv', [Next]_vars
  PROVE  [Ideal!Next]_(Ideal!vars)
<1>1. CASE UNCHANGED vars
  BY <1>1 DEF vars, Ideal!vars
<1>2. CASE Bookkeeping
  <2>1. Books(db') = Books(db) /\ disk' \in {disk, db'} /\ sent' = sent
    BY <1>2, BookkeepingKeeps DEF IdealInv, Kept
  <2>2. CASE disk' = disk
    BY <2>1, <2>2 DEF Ideal!vars
  <2>3. CASE disk' = db'
    BY <2>1, <2>3 DEF Ideal!Next, Ideal!Save
  <2> QED
    BY <2>1, <2>2, <2>3
<1>3. CASE Sweep
  <2>1. sent' = sent /\ disk' = disk
    BY <1>3 DEF Sweep, external, Commit
  <2>2. ASSUME NEW idle \in SUBSET Miners, db' = SweepStale(db, idle)
        PROVE  Ideal!Next
    <3>1. Ideal!Sweep(Swept(db, idle))
      BY <2>1, <2>2, SweepsIdeally DEF IdealInv
    <3>2. Swept(db, idle) \in SUBSET (Miners \ {Faucet})
      BY DEF Swept
    <3> QED
      BY <3>1, <3>2 DEF Ideal!Next
  <2>3. CASE db' = db
    BY <2>1, <2>3 DEF Ideal!vars
  <2> QED
    BY <1>3, <2>2, <2>3 DEF Sweep
<1>4. ASSUME NEW b \in Blocks, ApplyMaturity(b) PROVE Ideal!Next
  BY <1>4, SettlesIdeally DEF Ideal!Next
<1>5. ASSUME NEW m \in Miners, AdjustOwed(m) PROVE Ideal!Next
  BY <1>5, AdjustsIdeally DEF Ideal!Next, IdealInv
<1>6. ASSUME NEW c \in Comments, WalletBroadcasts(c) PROVE Ideal!Next
  BY <1>6, PaysFromCredit DEF Ideal!Next, IdealInv
<1>7. CASE PowerCut
  BY <1>7 DEF PowerCut, Down, external, Ideal!Next, Ideal!FallBack
<1> QED
  BY <1>1, <1>2, <1>3, <1>4, <1>5, <1>6, <1>7, StepKinds

\* Without faults, the pool pays as IdealPayouts does: every payment is one
\* step out of durable credit, and the books never fall below what has been
\* paid (Payouts.PaysIdeally; pool.py: _do_payouts, accounting.py).
THEOREM PaysIdeallyHolds ==
  ASSUME Faults = {}
  PROVE  Spec => PaysIdeally
<1>1. IdealInv /\ [Next]_vars => IdealInv'
  BY NextComplete, NextSplitKept DEF IdealInv
<1>2. IdealInv /\ IdealInv' /\ [Next]_vars => [Ideal!Next]_(Ideal!vars)
  BY NextIdeal
<1> QED
  BY <1>1, <1>2, InitIdeal, PTL DEF Spec, PaysIdeally, Ideal!Spec
=============================================================================
