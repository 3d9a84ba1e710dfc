------------------------ MODULE MoneroPayoutsProofs ------------------------
(***************************************************************************)
(* Proofs about MoneroPayouts, for every value of its constants.           *)
(***************************************************************************)
EXTENDS MoneroPayouts, AccountingProofs, TLAPS

-----------------------------------------------------------------------------
(* Type correctness.                                                       *)

LEMMA FirstLedgerType == FirstLedger \in Ledger
<1>1. [b \in Blocks |-> "immature"] \in [Blocks -> BlockStatus]
  BY DEF BlockStatus
<1> QED
  BY <1>1, EmptyLedgerType, CreditsNat DEF FirstLedger, Ledger

LEMMA NoRowsType == NoRows \in [Comments -> Intent]
BY NoIntentType DEF NoRows

LEMMA ListedType == Listed \subseteq TxList /\ NoList \in TxList
<1>1. NoList \in TxList
  BY DEF NoList, TxList
<1>2. [known |-> TRUE, ids |-> Broadcasts] \in TxList
  BY DEF TxList, Broadcasts
<1> QED
  BY <1>1, <1>2 DEF Listed

LEMMA InitType == Init => TypeOK
BY FirstLedgerType, NoRowsType, ListedType
DEF Init, TypeOK, PcStates, Paying, WalletStates, Nothing

LEMMA RowsType ==
  ASSUME TypeOK, NEW c \in Comments
  PROVE  todo[c].items \in [Miners -> Nat] /\ db.pending[c].items \in [Miners -> Nat]
BY PendingType DEF TypeOK, Intent

LEMMA ReconcileType ==
  ASSUME TypeOK, NEW c \in Comments, Reconcile(c)
  PROVE  TypeOK'
<1>1. Done(c) => todo' \in [Comments -> Intent]
  BY NoIntentType DEF TypeOK, Done
<1>2. RecordPayouts(db, c, todo[c].items) \in Ledger /\ ClearPayout(db, c) \in Ledger
  BY RowsType, RecordPayoutsType, ClearPayoutType DEF TypeOK
<1>3. todo' \in [Comments -> Intent] /\ db' \in Ledger /\ after' \in TxList
  BY <1>1, <1>2, ListedType
  DEF Reconcile, ReconcileKnown, ReconcileUnverifiable, ReconcileAsks,
      ReconcileBlind, ReconcileDiffs, Resolve, TypeOK
<1>4. UNCHANGED <<snap, pc, round, external, crashes>>
  BY DEF Reconcile, ReconcileKnown, ReconcileUnverifiable, ReconcileAsks,
         ReconcileBlind, ReconcileDiffs
<1> QED
  BY <1>3, <1>4 DEF TypeOK, round, external

\* What the end of a batch leaves.
LEMMA EndBatchType ==
  ASSUME TypeOK, NEW d \in Ledger, EndBatch(d)
  PROVE  TypeOK'
BY ListedType DEF TypeOK, EndBatch, reconciler, external, PcStates, Paying

LEMMA ProvenType ==
  ASSUME TypeOK, pc \in Paying, Proven
  PROVE  TypeOK'
<1>1. SetPayoutTxid(db, cur) \in Ledger
  BY SetPayoutTxidType DEF TypeOK
<1> QED
  BY <1>1 DEF TypeOK, Proven, reconciler, round, external, PcStates, Paying

LEMMA SendBatchType ==
  ASSUME TypeOK, NEW c \in Comments, SendBatch(c)
  PROVE  TypeOK'
<1>1. db' \in Ledger
  BY BeginPayoutType DEF SendBatch, TypeOK
<1> QED
  BY <1>1, ListedType
  DEF SendBatch, TypeOK, reconciler, PcStates, Paying, WalletStates, Nothing

\* The ways a batch ends.
Ends == SendReturns \/ SendReturnsNothing \/ Check \/ DebitBatch

LEMMA EndsDo ==
  ASSUME Ends
  PROVE  /\ pc \in Paying
         /\ \/ Proven
            \/ EndBatch(db) \/ EndBatch(ClearPayout(db, cur))
            \/ EndBatch(RecordPayouts(db, cur, outputs[cur]))
BY DEF Ends, SendReturns, SendReturnsNothing, Check, DebitBatch, Paying

LEMMA EndsType == TypeOK /\ Ends => TypeOK'
<1> SUFFICES ASSUME TypeOK, Ends PROVE TypeOK'
  OBVIOUS
<1>1. cur \in Comments
  BY EndsDo DEF TypeOK
<1>2. db \in Ledger /\ ClearPayout(db, cur) \in Ledger
      /\ RecordPayouts(db, cur, outputs[cur]) \in Ledger
  BY <1>1, ClearPayoutType, RecordPayoutsType DEF TypeOK
<1> QED
  BY <1>2, EndsDo, EndBatchType, ProvenType

LEMMA NextType == TypeOK /\ [Next]_vars => TypeOK'
<1> SUFFICES ASSUME TypeOK, [Next]_vars PROVE TypeOK'
  OBVIOUS
<1>1. CASE UNCHANGED vars
  BY <1>1 DEF vars, reconciler, round, external, TypeOK
<1>2. CASE Wake \/ Restart
  BY <1>2, PendingType
  DEF Wake, Restart, round, external, TypeOK, PcStates, Paying
<1>3. ASSUME NEW c \in Comments, Reconcile(c) \/ SendBatch(c) PROVE TypeOK'
  BY <1>3, ReconcileType, SendBatchType
<1>4. CASE ReconcileEnds
  BY <1>4, ListedType
  DEF ReconcileEnds, Reconciling, round, external, TypeOK, PcStates, Paying
<1>5. CASE CollectPayable
  BY <1>5, PendingType
  DEF CollectPayable, reconciler, external, TypeOK, PcStates, Paying
<1>6. CASE Choose
  BY <1>6 DEF Choose, reconciler, external, TypeOK, PcStates, Paying
<1>7. CASE NothingToSend
  BY <1>7 DEF NothingToSend, reconciler, external, TypeOK, PcStates, Paying, Nothing
<1>8. CASE SendFails
  BY <1>8 DEF SendFails, reconciler, round, external, TypeOK, PcStates, Paying
<1>9. CASE Ends
  BY <1>9, EndsType
<1>10. CASE Sweep
  BY <1>10, SweepStaleType DEF Sweep, reconciler, round, external, TypeOK, PcStates, Paying
<1>11. ASSUME NEW c \in Comments, WalletBroadcasts(c) \/ WalletDrops(c) PROVE TypeOK'
  <2>1. wallet' \in [Comments -> WalletStates]
    BY <1>11 DEF WalletBroadcasts, WalletDrops, TypeOK, WalletStates
  <2>2. \A m \in Miners : sent[m] \in Nat /\ outputs[c][m] \in Nat
    BY DEF TypeOK
  <2>3. sent' \in [Miners -> Nat]
    BY <1>11, <2>2 DEF WalletBroadcasts, WalletDrops, TypeOK
  <2> QED
    BY <1>11, <2>1, <2>3 DEF WalletBroadcasts, WalletDrops, reconciler, round, TypeOK
<1>12. ASSUME NEW b \in Blocks, ApplyMaturity(b) PROVE TypeOK'
  BY <1>12, MatureBlockType, OrphanBlockType
  DEF ApplyMaturity, reconciler, round, external, TypeOK
<1>13. ASSUME NEW c \in Comments, Operator(c) PROVE TypeOK'
  BY <1>13, RowsType, RecordPayoutsType, ClearPayoutType
  DEF Operator, reconciler, round, external, TypeOK
<1>14. CASE Crash
  BY <1>14, NoRowsType, ListedType DEF Crash, external, TypeOK, PcStates, Paying, Nothing
<1> QED
  BY <1>1, <1>2, <1>3, <1>4, <1>5, <1>6, <1>7, <1>8, <1>9, <1>10, <1>11, <1>12,
     <1>13, <1>14
  DEF Next, PayoutTask, Wallet, Ends

\* Every variable keeps its type (MoneroPayouts.TypeOK): no debit and no sweep
\* makes a balance negative, whatever the races and failures.
THEOREM TypeCorrect == Spec => []TypeOK
<1> QED
  BY InitType, NextType, PTL DEF Spec

-----------------------------------------------------------------------------
(* One intent per miner, whatever the faults.                              *)

\* Between get_balance and the intent, the miners chosen are in no other batch.
Chosen ==
  pc \in {"balance", "listing"} =>
    \A m \in Miners, c \in Comments : cand[m] > 0 => ~Names(db, c, m)

OneInv == TypeOK /\ OneIntentPerMiner /\ Chosen

\* No batch of e names a miner that it does not name in d.
Fewer(d, e) == \A m \in Miners, c \in Comments : Names(e, c, m) => Names(d, c, m)

LEMMA MethodsName ==
  ASSUME NEW d \in Ledger
  PROVE  /\ \A b \in Blocks : Fewer(d, MatureBlock(d, b)) /\ Fewer(d, OrphanBlock(d, b))
         /\ \A idle \in SUBSET Miners : Fewer(d, SweepStale(d, idle))
         /\ \A c \in Comments : Fewer(d, SetPayoutTxid(d, c)) /\ Fewer(d, ClearPayout(d, c))
         /\ \A c \in Comments, items \in [Miners -> Nat] : Fewer(d, RecordPayouts(d, c, items))
<1>1. ASSUME NEW e, e.pending = d.pending PROVE Fewer(d, e)
  BY <1>1 DEF Fewer, Names, Pending
<1>2. ASSUME NEW e, NEW c \in Comments,
             \/ e.pending[c].txid = "absent"
             \/ /\ e.pending[c].items = d.pending[c].items
                /\ Pending(d, c) \/ e.pending[c].txid = "absent",
             \A k \in Comments \ {c} : e.pending[k] = d.pending[k]
      PROVE  Fewer(d, e)
  BY <1>2 DEF Fewer, Names, Pending
<1>3. ASSUME NEW c \in Comments PROVE Fewer(d, SetPayoutTxid(d, c))
  BY <1>2, SetPayoutTxidDoes
<1>4. ASSUME NEW c \in Comments PROVE Fewer(d, ClearPayout(d, c))
  BY <1>2, ClearPayoutDoes
<1>5. ASSUME NEW c \in Comments, NEW items \in [Miners -> Nat]
      PROVE  Fewer(d, RecordPayouts(d, c, items))
  <2> DEFINE e == RecordPayouts(d, c, items)
  <2>1. e.pending[c].txid = "absent" /\ \A k \in Comments \ {c} : e.pending[k] = d.pending[k]
    BY RecordPayoutsDoes
  <2> HIDE DEF e
  <2>2. Fewer(d, e)
    BY <1>2, <2>1
  <2> QED
    BY <2>2 DEF e
<1>6. ASSUME NEW b \in Blocks PROVE Fewer(d, MatureBlock(d, b)) /\ Fewer(d, OrphanBlock(d, b))
  BY <1>1, MaturityKeeps
<1>7. ASSUME NEW idle \in SUBSET Miners PROVE Fewer(d, SweepStale(d, idle))
  BY <1>1, SweepKeeps
<1> QED
  BY <1>3, <1>4, <1>5, <1>6, <1>7

LEMMA SameNames == Fewer(db, db)
BY DEF Fewer

\* No step but the start of a batch adds an intent.
LEMMA StepsName ==
  ASSUME TypeOK, [Next]_vars, \A c \in Comments : ~SendBatch(c)
  PROVE  Fewer(db, db')
<1>0. db \in Ledger
  BY DEF TypeOK
<1>1. ASSUME NEW c \in Comments, Reconcile(c) PROVE Fewer(db, db')
  BY <1>0, <1>1, RowsType, MethodsName, SameNames
  DEF Reconcile, ReconcileKnown, ReconcileUnverifiable, ReconcileAsks,
      ReconcileBlind, ReconcileDiffs, Resolve
<1>2. CASE Ends
  <2>1. cur \in Comments /\ outputs[cur] \in [Miners -> Nat]
    BY <1>2, EndsDo DEF TypeOK
  <2> QED
    BY <1>0, <1>2, <2>1, EndsDo, MethodsName, SameNames DEF Proven, EndBatch
<1>3. CASE Sweep
  BY <1>0, <1>3, MethodsName DEF Sweep
<1>4. ASSUME NEW b \in Blocks, ApplyMaturity(b) PROVE Fewer(db, db')
  BY <1>0, <1>4, MethodsName DEF ApplyMaturity
<1>5. ASSUME NEW c \in Comments, Operator(c) PROVE Fewer(db, db')
  BY <1>0, <1>5, RowsType, MethodsName DEF Operator
<1>6. \/ UNCHANGED vars \/ Wake \/ ReconcileEnds \/ CollectPayable \/ Choose
      \/ NothingToSend \/ SendFails \/ Wallet \/ Crash \/ Restart
      => db' = db
  BY DEF vars, Wake, ReconcileEnds, CollectPayable, Choose, NothingToSend, SendFails,
         Wallet, WalletBroadcasts, WalletDrops, Crash, Restart
<1> QED
  BY <1>1, <1>2, <1>3, <1>4, <1>5, <1>6, SameNames DEF Next, PayoutTask, Ends

LEMMA ChosenKept ==
  ASSUME OneInv, [Next]_vars, \A c \in Comments : ~SendBatch(c)
  PROVE  Chosen'
<1>1. Fewer(db, db')
  BY StepsName DEF OneInv
<1>2. CASE CollectPayable
  <2>1. \A m \in Miners, c \in Comments : m \in ToPay => ~Names(db, c, m)
    BY DEF ToPay, PendingPayoutMinerIds
  <2>2. pc' = "balance" =>
          cand' = [m \in Miners |-> IF m \in ToPay THEN db.owed[m] ELSE 0]
    BY <1>2 DEF CollectPayable
  <2>3. pc' \in {"balance", "sweep"} /\ db' = db
    BY <1>2 DEF CollectPayable
  <2> QED
    BY <2>1, <2>2, <2>3 DEF Chosen
<1>3. CASE Choose
  <2>1. \A m \in Miners : cand'[m] > 0 => cand[m] > 0
    BY <1>3 DEF Choose, OneInv, TypeOK
  <2>2. pc = "balance" /\ db' = db
    BY <1>3 DEF Choose
  <2> QED
    BY <2>1, <2>2 DEF OneInv, Chosen
<1>4. CASE UNCHANGED <<pc, cand>>
  BY <1>1, <1>4 DEF OneInv, Chosen, Fewer
<1>5. CASE pc' \notin {"balance", "listing"}
  BY <1>5 DEF Chosen
<1>6. CASE \E c \in Comments : Reconcile(c)
  BY <1>4, <1>6 DEF Reconcile, ReconcileKnown, ReconcileUnverifiable, ReconcileAsks,
                    ReconcileBlind, ReconcileDiffs, round
<1>7. CASE Ends
  BY <1>5, <1>7, EndsDo DEF Proven, EndBatch
<1>8. CASE Wallet \/ (\E b \in Blocks : ApplyMaturity(b)) \/ (\E c \in Comments : Operator(c))
  BY <1>4, <1>8 DEF Wallet, WalletBroadcasts, WalletDrops, ApplyMaturity, Operator, round
<1>9. CASE UNCHANGED vars
  BY <1>4, <1>9 DEF vars, round
<1> QED
  BY <1>2, <1>3, <1>5, <1>6, <1>7, <1>8, <1>9
  DEF Next, PayoutTask, Ends, Wake, ReconcileEnds, NothingToSend, SendFails, Sweep,
      Crash, Restart

LEMMA InitOne == Init => OneInv
<1> SUFFICES ASSUME Init PROVE OneInv
  OBVIOUS
<1>1. \A c \in Comments, m \in Miners : ~Names(db, c, m)
  BY DEF Init, FirstLedger, EmptyLedger, NoIntent, Names, Pending
<1> QED
  BY <1>1, InitType DEF Init, OneInv, OneIntentPerMiner, Chosen

LEMMA NextOne == OneInv /\ [Next]_vars => OneInv'
<1> SUFFICES ASSUME OneInv, [Next]_vars PROVE OneInv'
  OBVIOUS
<1>1. TypeOK'
  BY NextType DEF OneInv
<1>2. ASSUME NEW c \in Comments, SendBatch(c) PROVE OneInv'
  <2>1. /\ db'.pending[c].items = cand
        /\ \A k \in Comments \ {c} : db'.pending[k] = db.pending[k]
    <3>1. db' = BeginPayout(db, c, cand) /\ db \in Ledger /\ cand \in [Miners -> Nat]
      BY <1>2 DEF SendBatch, OneInv, TypeOK
    <3> QED
      BY <3>1, BeginPayoutDoes
  <2>2. \A k \in Comments \ {c}, m \in Miners : Names(db', k, m) <=> Names(db, k, m)
    BY <2>1 DEF Names, Pending
  <2>3. \A k \in Comments, m \in Miners : Names(db', c, m) => ~Names(db, k, m)
    BY <1>2, <2>1 DEF SendBatch, OneInv, Chosen, Names
  <2>4. OneIntentPerMiner'
    BY <2>2, <2>3 DEF OneInv, OneIntentPerMiner
  <2>5. pc' = "sending"
    BY <1>2 DEF SendBatch
  <2> QED
    BY <1>1, <2>4, <2>5 DEF OneInv, Chosen
<1>3. CASE \A c \in Comments : ~SendBatch(c)
  <2>1. Fewer(db, db')
    BY <1>3, StepsName DEF OneInv
  <2>2. OneIntentPerMiner'
    BY <2>1 DEF OneInv, OneIntentPerMiner, Fewer
  <2> QED
    BY <1>1, <1>3, <2>2, ChosenKept DEF OneInv
<1> QED
  BY <1>2, <1>3

LEMMA OneInvAlways == Spec => []OneInv
<1> QED
  BY InitOne, NextOne, PTL DEF Spec

\* Whatever fails, a batch that cannot be verified keeps its miners from being
\* in another one (MoneroPayouts.OneIntentPerMiner; monero_pool.py: in_flight in
\* _do_payouts).
THEOREM OneIntentPerMinerHolds == Spec => []OneIntentPerMiner
<1>1. OneInv => OneIntentPerMiner
  BY DEF OneInv
<1> QED
  BY <1>1, OneInvAlways, PTL
-----------------------------------------------------------------------------
(* Where the money of each batch is.  An intent with a list is alone with  *)
(* it: every other transaction of the wallet is in the list.               *)

Env(w, out, s) ==
  /\ w \in [Comments -> WalletStates]
  /\ out \in [Comments -> [Miners -> Nat]]
  /\ s \in [Miners -> Nat]

Apart(w, c, ids) ==
  /\ c \notin ids
  /\ \A k \in Comments \ {c} : w[k] # "queued" /\ (w[k] = "broadcast" => k \in ids)

Rows(d, sn, w, out) ==
  \A c \in Comments :
    /\ Pending(d, c) => d.pending[c].items = out[c] /\ w[c] # "idle"
    /\ d.pending[c].txid = "known" => w[c] = "broadcast"
    /\ w[c] = "queued" => Pending(d, c)
    /\ d.pending[c].txid = "null" /\ sn[c].known => Apart(w, c, sn[c].ids)

\* Batch c is on chain and still an intent that names m.
Doubtful(d, w, c, m) == w[c] = "broadcast" /\ Names(d, c, m)

Balanced(d, w, out, s) ==
  \A m \in Miners :
    /\ (\A c \in Comments : ~Doubtful(d, w, c, m)) => s[m] = d.paid[m]
    /\ \A c \in Comments : Doubtful(d, w, c, m) => s[m] = d.paid[m] + out[c][m]

Sound(d, sn, w, out, s) == Rows(d, sn, w, out) /\ Balanced(d, w, out, s)

\* No two intents of d name one miner.
Lone(d) ==
  \A m \in Miners, c1, c2 \in Comments : Names(d, c1, m) /\ Names(d, c2, m) => c1 = c2

LEMMA FrameSound ==
  ASSUME NEW sn, NEW w, NEW out, NEW s, NEW d \in Ledger, NEW e \in Ledger,
         e.pending = d.pending, e.paid = d.paid, Sound(d, sn, w, out, s)
  PROVE  Sound(e, sn, w, out, s)
BY DEF Sound, Rows, Balanced, Doubtful, Names, Pending

LEMMA SetPayoutTxidSound ==
  ASSUME NEW sn, NEW w, NEW out, NEW s, NEW d \in Ledger, NEW c \in Comments,
         w[c] = "broadcast", Sound(d, sn, w, out, s)
  PROVE  Sound(SetPayoutTxid(d, c), sn, w, out, s)
<1> DEFINE e == SetPayoutTxid(d, c)
<1>1. /\ e.paid = d.paid
      /\ e.pending[c].txid = IF Pending(d, c) THEN "known" ELSE "absent"
      /\ e.pending[c].items = d.pending[c].items
      /\ \A k \in Comments \ {c} : e.pending[k] = d.pending[k]
  BY SetPayoutTxidDoes
<1> HIDE DEF e
<1>2. \A k \in Comments : Pending(e, k) <=> Pending(d, k)
  BY <1>1 DEF Pending
<1>3. \A k \in Comments : e.pending[k].items = d.pending[k].items
  BY <1>1
<1>4. Balanced(e, w, out, s)
  BY <1>1, <1>2, <1>3 DEF Sound, Balanced, Doubtful, Names
<1>5. Rows(e, sn, w, out)
  BY <1>1, <1>2, <1>3 DEF Sound, Rows
<1> QED
  BY <1>4, <1>5 DEF Sound, e

\* An intent is cleared only when its transfer is dead.
LEMMA ClearPayoutSound ==
  ASSUME NEW sn, NEW w, NEW out, NEW s, NEW d \in Ledger, NEW c \in Comments,
         Pending(d, c) => w[c] = "dead", Sound(d, sn, w, out, s)
  PROVE  Sound(ClearPayout(d, c), sn, w, out, s)
<1> DEFINE e == ClearPayout(d, c)
<1>1. /\ e.paid = d.paid
      /\ e.pending[c].txid = "absent"
      /\ \A k \in Comments \ {c} : e.pending[k] = d.pending[k]
  BY ClearPayoutDoes
<1> HIDE DEF e
<1>2. \A k \in Comments : Pending(e, k) <=> k # c /\ Pending(d, k)
  BY <1>1 DEF Pending
<1>3. \A k \in Comments, m \in Miners : Doubtful(e, w, k, m) <=> Doubtful(d, w, k, m)
  BY <1>1, <1>2 DEF Doubtful, Names
<1>4. Balanced(e, w, out, s)
  BY <1>1, <1>3 DEF Sound, Balanced
<1>5. Rows(e, sn, w, out)
  BY <1>1, <1>2 DEF Sound, Rows
<1> QED
  BY <1>4, <1>5 DEF Sound, e

\* A batch is debited only when it is on chain.
LEMMA RecordPayoutsSound ==
  ASSUME NEW sn, NEW w, NEW out, NEW s, Env(w, out, s), NEW d \in Ledger,
         NEW c \in Comments, Pending(d, c) => w[c] = "broadcast", Lone(d),
         Sound(d, sn, w, out, s)
  PROVE  Sound(RecordPayouts(d, c, out[c]), sn, w, out, s)
<1> DEFINE e == RecordPayouts(d, c, out[c])
<1>1. CASE ~Pending(d, c)
  BY <1>1 DEF RecordPayouts
<1>2. CASE Pending(d, c)
  <2>0. out[c] \in [Miners -> Nat]
    BY DEF Env
  <2>1. /\ \A m \in Miners : e.paid[m] = d.paid[m] + out[c][m]
        /\ e.pending[c].txid = "absent"
        /\ \A k \in Comments \ {c} : e.pending[k] = d.pending[k]
    BY <1>2, <2>0, RecordPayoutsDoes
  <2> HIDE DEF e
  <2>2. \A k \in Comments : Pending(e, k) <=> k # c /\ Pending(d, k)
    BY <2>1 DEF Pending
  <2>3. \A k \in Comments, m \in Miners :
          Doubtful(e, w, k, m) <=> k # c /\ Doubtful(d, w, k, m)
    BY <2>1, <2>2 DEF Doubtful, Names
  <2>4. Rows(e, sn, w, out)
    BY <2>1, <2>2 DEF Sound, Rows
  <2>5. ASSUME NEW m \in Miners
        PROVE  /\ (\A k \in Comments : ~Doubtful(e, w, k, m)) => s[m] = e.paid[m]
               /\ \A k \in Comments : Doubtful(e, w, k, m) => s[m] = e.paid[m] + out[k][m]
    <3>1. e.paid[m] = d.paid[m] + out[c][m] /\ out[c][m] \in Nat /\ d.paid[m] \in Nat
      BY <2>0, <2>1, PendingType
    <3>2. Names(d, c, m) <=> out[c][m] > 0
      BY <1>2 DEF Sound, Rows, Names
    <3>3. CASE out[c][m] > 0
      <4>1. Doubtful(d, w, c, m)
        BY <1>2, <3>2, <3>3 DEF Doubtful
      <4>2. \A k \in Comments : ~Doubtful(e, w, k, m)
        BY <2>3, <3>2, <3>3 DEF Doubtful, Lone
      <4> QED
        BY <3>1, <4>1, <4>2 DEF Sound, Balanced
    <3>4. CASE out[c][m] = 0
      <4>1. \A k \in Comments : Doubtful(e, w, k, m) <=> Doubtful(d, w, k, m)
        BY <2>3, <3>2, <3>4 DEF Doubtful
      <4>2. e.paid[m] = d.paid[m]
        BY <3>1, <3>4
      <4> QED
        BY <4>1, <4>2 DEF Sound, Balanced
    <3> QED
      BY <3>1, <3>3, <3>4
  <2> QED
    BY <2>4, <2>5 DEF Sound, Balanced, e
<1> QED
  BY <1>1, <1>2

LEMMA BroadcastSound ==
  ASSUME NEW sn, NEW w, NEW out, NEW s, Env(w, out, s), NEW d \in Ledger,
         NEW c \in Comments, w[c] = "queued", Lone(d), Sound(d, sn, w, out, s)
  PROVE  Sound(d, sn, [w EXCEPT ![c] = "broadcast"], out,
               [m \in Miners |-> s[m] + out[c][m]])
<1> DEFINE x == [w EXCEPT ![c] = "broadcast"]
           t == [m \in Miners |-> s[m] + out[c][m]]
<1>1. /\ x[c] = "broadcast"
      /\ \A k \in Comments \ {c} : x[k] = w[k]
      /\ \A m \in Miners : t[m] = s[m] + out[c][m]
  BY DEF Env
<1>2. Pending(d, c) /\ d.pending[c].items = out[c]
  BY DEF Sound, Rows
<1> HIDE DEF x, t
<1>3. Rows(d, sn, x, out)
  BY <1>1, <1>2 DEF Sound, Rows, Apart
<1>4. ASSUME NEW m \in Miners
      PROVE  /\ (\A k \in Comments : ~Doubtful(d, x, k, m)) => t[m] = d.paid[m]
             /\ \A k \in Comments : Doubtful(d, x, k, m) => t[m] = d.paid[m] + out[k][m]
  <2>1. /\ t[m] = s[m] + out[c][m] /\ out[c][m] \in Nat /\ s[m] \in Nat
        /\ d.paid[m] \in Nat
    BY <1>1, PendingType DEF Env
  <2>2. Names(d, c, m) <=> out[c][m] > 0
    BY <1>2 DEF Names
  <2>3. CASE out[c][m] > 0
    <3>1. \A k \in Comments : Doubtful(d, x, k, m) => k = c
      BY <2>2, <2>3 DEF Doubtful, Lone
    <3>2. \A k \in Comments : ~Doubtful(d, w, k, m)
      BY <2>2, <2>3 DEF Doubtful, Lone
    <3>3. Doubtful(d, x, c, m)
      BY <1>1, <2>2, <2>3 DEF Doubtful
    <3>4. s[m] = d.paid[m]
      BY <3>2 DEF Sound, Balanced
    <3> QED
      BY <2>1, <3>1, <3>3, <3>4
  <2>4. CASE out[c][m] = 0
    <3>1. \A k \in Comments : Doubtful(d, x, k, m) <=> Doubtful(d, w, k, m)
      BY <1>1, <2>2, <2>4 DEF Doubtful
    <3>2. t[m] = s[m]
      BY <2>1, <2>4
    <3> QED
      BY <3>1, <3>2 DEF Sound, Balanced
  <2> QED
    BY <2>1, <2>3, <2>4
<1> QED
  BY <1>3, <1>4 DEF Sound, Balanced, x, t

LEMMA DropSound ==
  ASSUME NEW sn, NEW w, NEW out, NEW s, Env(w, out, s), NEW d \in Ledger,
         NEW c \in Comments, w[c] = "queued", Sound(d, sn, w, out, s)
  PROVE  Sound(d, sn, [w EXCEPT ![c] = "dead"], out, s)
<1> DEFINE x == [w EXCEPT ![c] = "dead"]
<1>1. x[c] = "dead" /\ \A k \in Comments \ {c} : x[k] = w[k]
  BY DEF Env
<1> HIDE DEF x
<1>2. Rows(d, sn, x, out)
  BY <1>1 DEF Sound, Rows, Apart
<1>3. \A k \in Comments, m \in Miners : Doubtful(d, x, k, m) <=> Doubtful(d, w, k, m)
  BY <1>1 DEF Doubtful
<1>4. Balanced(d, x, out, s)
  BY <1>3 DEF Sound, Balanced
<1> QED
  BY <1>2, <1>4 DEF Sound, x

\* A batch is begun when no intent could be told from it.
LEMMA BeginPayoutSound ==
  ASSUME NEW sn \in [Comments -> TxList], NEW w, NEW out, NEW s, Env(w, out, s),
         NEW d \in Ledger, NEW c \in Comments, NEW items \in [Miners -> Nat],
         NEW list \in TxList, w[c] = "idle", list.known => Apart(w, c, list.ids),
         \A k \in Comments : ~(d.pending[k].txid = "null" /\ sn[k].known),
         Sound(d, sn, w, out, s)
  PROVE  Sound(BeginPayout(d, c, items), [sn EXCEPT ![c] = list],
               [w EXCEPT ![c] = "queued"], [out EXCEPT ![c] = items], s)
<1> DEFINE e == BeginPayout(d, c, items)
           n == [sn EXCEPT ![c] = list]
           x == [w EXCEPT ![c] = "queued"]
           o == [out EXCEPT ![c] = items]
<1>1. /\ e.paid = d.paid
      /\ e.pending[c].txid = "null" /\ e.pending[c].items = items
      /\ \A k \in Comments \ {c} : e.pending[k] = d.pending[k]
  BY BeginPayoutDoes
<1>2. /\ x[c] = "queued" /\ o[c] = items /\ n[c] = list
      /\ \A k \in Comments \ {c} : x[k] = w[k] /\ o[k] = out[k] /\ n[k] = sn[k]
  BY DEF Env
<1> HIDE DEF e, n, x, o
<1>3. ~Pending(d, c)
  BY DEF Sound, Rows
<1>4. /\ Pending(e, c)
      /\ \A k \in Comments \ {c} : Pending(e, k) <=> Pending(d, k)
  BY <1>1 DEF Pending
<1>5. list.known => Apart(x, c, list.ids)
  BY <1>2 DEF Apart
<1>6. Rows(e, n, x, o)
  BY <1>1, <1>2, <1>4, <1>5 DEF Sound, Rows
<1>7. \A k \in Comments, m \in Miners :
        /\ Doubtful(e, x, k, m) <=> Doubtful(d, w, k, m)
        /\ Doubtful(d, w, k, m) => k # c
  BY <1>1, <1>2, <1>3, <1>4 DEF Doubtful, Names
<1>8. Balanced(e, x, o, s)
  BY <1>1, <1>2, <1>7 DEF Sound, Balanced
<1> QED
  BY <1>6, <1>8 DEF Sound, e, n, x, o

-----------------------------------------------------------------------------
(* What the task relies on across its awaits.                              *)

Quiet == \A c \in Comments : wallet[c] # "queued"

RowsRead ==
  \A c \in Comments : todo[c].txid # "absent" =>
    /\ Reconciling
    /\ todo[c].items = outputs[c] /\ wallet[c] # "idle"
    /\ todo[c].txid = "known" => wallet[c] = "broadcast"
    /\ Pending(db, c) => db.pending[c].txid = todo[c].txid

ListRead ==
  after.known => Reconciling /\ after.ids = Broadcasts /\ Quiet

BatchSent ==
  /\ pc = "listing" => ~Blind
  /\ before.known => pc \in Paying /\ Apart(wallet, cur, before.ids)
  /\ pc \in Paying => wallet[cur] # "idle"
  /\ pc = "debit" => wallet[cur] = "broadcast"

TaskInv == RowsRead /\ ListRead /\ BatchSent

IInv == OneInv /\ Sound(db, snap, wallet, outputs, sent) /\ TaskInv

LEMMA EnvHolds == TypeOK => Env(wallet, outputs, sent)
BY DEF TypeOK, Env

LEMMA LoneHolds == OneInv => Lone(db)
BY DEF OneInv, OneIntentPerMiner, Lone

LEMMA InitIInv == Init => IInv
<1> SUFFICES ASSUME Init PROVE IInv
  OBVIOUS
<1>1. \A c \in Comments : db.pending[c].txid = "absent" /\ ~Pending(db, c)
  BY DEF Init, FirstLedger, EmptyLedger, NoIntent, Pending
<1>2. Rows(db, snap, wallet, outputs)
  BY <1>1 DEF Init, Rows
<1>3. \A m \in Miners : sent[m] = 0 /\ db.paid[m] = 0
  BY DEF Init, FirstLedger, EmptyLedger, Nothing
<1>4. Balanced(db, wallet, outputs, sent)
  BY <1>1, <1>3 DEF Balanced, Doubtful, Names
<1>5. TaskInv
  BY DEF Init, TaskInv, RowsRead, ListRead, BatchSent, NoRows, NoIntent, NoList, Paying
<1> QED
  BY <1>2, <1>4, <1>5, InitOne DEF IInv, Sound

\* What is still an intent in e is the same in d.
Fading(d, e) ==
  \A c \in Comments : Pending(e, c) => Pending(d, c) /\ e.pending[c].txid = d.pending[c].txid

LEMMA MethodsFade ==
  ASSUME NEW d \in Ledger
  PROVE  /\ Fading(d, d)
         /\ \A b \in Blocks : Fading(d, MatureBlock(d, b)) /\ Fading(d, OrphanBlock(d, b))
         /\ \A idle \in SUBSET Miners : Fading(d, SweepStale(d, idle))
         /\ \A c \in Comments : Fading(d, ClearPayout(d, c))
         /\ \A c \in Comments, items \in [Miners -> Nat] : Fading(d, RecordPayouts(d, c, items))
<1>1. ASSUME NEW e, e.pending = d.pending PROVE Fading(d, e)
  BY <1>1 DEF Fading, Pending
<1>2. ASSUME NEW e, NEW c \in Comments, e.pending[c].txid = "absent",
             \A k \in Comments \ {c} : e.pending[k] = d.pending[k]
      PROVE  Fading(d, e)
  BY <1>2 DEF Fading, Pending
<1>3. ASSUME NEW c \in Comments PROVE Fading(d, ClearPayout(d, c))
  BY <1>2, ClearPayoutDoes
<1>4. ASSUME NEW c \in Comments, NEW items \in [Miners -> Nat]
      PROVE  Fading(d, RecordPayouts(d, c, items))
  <2> DEFINE e == RecordPayouts(d, c, items)
  <2>1. e.pending[c].txid = "absent" /\ \A k \in Comments \ {c} : e.pending[k] = d.pending[k]
    BY RecordPayoutsDoes
  <2> HIDE DEF e
  <2>2. Fading(d, e)
    BY <1>2, <2>1
  <2> QED
    BY <2>2 DEF e
<1>5. ASSUME NEW b \in Blocks
      PROVE  Fading(d, MatureBlock(d, b)) /\ Fading(d, OrphanBlock(d, b))
  BY <1>1, MaturityKeeps
<1>6. ASSUME NEW idle \in SUBSET Miners PROVE Fading(d, SweepStale(d, idle))
  BY <1>1, SweepKeeps
<1> QED
  BY <1>1, <1>3, <1>4, <1>5, <1>6

\* A step of another actor on the database leaves the task what it relies on.
LEMMA TaskKept ==
  ASSUME TaskInv, Fading(db, db'),
         UNCHANGED <<pc, todo, after, before, cur, snap, outputs, wallet>>
  PROVE  TaskInv'
<1>1. RowsRead'
  BY DEF TaskInv, RowsRead, Reconciling, Fading
<1>2. ListRead'
  BY DEF TaskInv, ListRead, Reconciling, Broadcasts, Quiet
<1>3. Blind' => Blind
  BY DEF Blind, Fading, Pending
<1>4. BatchSent'
  BY <1>3 DEF TaskInv, BatchSent
<1> QED
  BY <1>1, <1>2, <1>4 DEF TaskInv

\* Outside the reconciliation nothing of it is left.
LEMMA NothingRead ==
  ASSUME TaskInv, ~Reconciling
  PROVE  (\A c \in Comments : todo[c].txid = "absent") /\ ~after.known
BY DEF TaskInv, RowsRead, ListRead

LEMMA ReconcileStep ==
  ASSUME IInv, NEW c \in Comments, Reconcile(c), Faults = {}
  PROVE  IInv'
<1>0. OneInv' /\ TypeOK /\ db \in Ledger /\ Lone(db) /\ Env(wallet, outputs, sent)
  BY NextOne, LoneHolds, EnvHolds DEF IInv, OneInv, TypeOK, Next, PayoutTask
<1>1. /\ UNCHANGED <<snap, pc, cand, before, cur, outputs, wallet, sent>>
      /\ Reconciling
  BY DEF Reconcile, ReconcileKnown, ReconcileUnverifiable, ReconcileAsks,
         ReconcileBlind, ReconcileDiffs, round, external
<1>2. todo' = todo \/ todo' = [todo EXCEPT ![c] = NoIntent]
  BY DEF Reconcile, ReconcileKnown, ReconcileUnverifiable, ReconcileAsks,
         ReconcileBlind, ReconcileDiffs, Done
<1>3. todo[c].txid # "absent" /\ todo[c].items = outputs[c] /\ wallet[c] # "idle"
  <2>1. todo[c].txid # "absent"
    BY DEF Reconcile, ReconcileKnown, ReconcileUnverifiable, ReconcileAsks,
           ReconcileBlind, ReconcileDiffs, Verifiable
  <2> QED
    BY <2>1 DEF IInv, TaskInv, RowsRead
<1>4. \/ db' = db
      \/ db' = RecordPayouts(db, c, outputs[c]) /\ (Pending(db, c) => wallet[c] = "broadcast")
      \/ db' = ClearPayout(db, c) /\ (Pending(db, c) => wallet[c] = "dead")
  <2>1. CASE ReconcileKnown(c)
    BY <1>3, <2>1 DEF ReconcileKnown, IInv, TaskInv, RowsRead
  <2>2. CASE ReconcileUnverifiable(c) \/ ReconcileAsks(c) \/ ReconcileBlind(c)
    BY <2>2 DEF ReconcileUnverifiable, ReconcileAsks, ReconcileBlind
  <2>3. CASE ReconcileDiffs(c)
    <3>1. after.ids = Broadcasts /\ Quiet
      BY <2>3 DEF ReconcileDiffs, IInv, TaskInv, ListRead
    <3>2. Pending(db, c) => Apart(wallet, c, snap[c].ids)
      BY <2>3, <1>3 DEF ReconcileDiffs, Verifiable, IInv, TaskInv, RowsRead, Sound, Rows
    <3>3. CASE after.ids \ snap[c].ids # {}
      <4>1. Pending(db, c) => wallet[c] = "broadcast"
        BY <3>1, <3>2, <3>3 DEF Apart, Broadcasts
      <4> QED
        BY <1>3, <2>3, <3>3, <4>1 DEF ReconcileDiffs, Resolve
    <3>4. CASE after.ids \ snap[c].ids = {}
      <4>1. Pending(db, c) => wallet[c] # "broadcast"
        BY <3>1, <3>2, <3>4 DEF Apart, Broadcasts
      <4>2. Pending(db, c) => wallet[c] = "dead"
        BY <1>0, <1>3, <3>1, <4>1 DEF Quiet, TypeOK, WalletStates
      <4> QED
        BY <2>3, <3>4, <4>2 DEF ReconcileDiffs, Resolve
    <3> QED
      BY <3>3, <3>4
  <2> QED
    BY <2>1, <2>2, <2>3 DEF Reconcile
<1>5. Sound(db', snap', wallet', outputs', sent')
  BY <1>0, <1>1, <1>4, RecordPayoutsSound, ClearPayoutSound DEF IInv
<1>6. Fading(db, db')
  BY <1>0, <1>4, MethodsFade DEF TypeOK
<1>7. RowsRead'
  <2>1. \A k \in Comments : todo'[k].txid # "absent" => todo'[k] = todo[k]
    BY <1>0, <1>2 DEF TypeOK, NoIntent
  <2> QED
    BY <1>1, <1>6, <2>1 DEF IInv, TaskInv, RowsRead, Reconciling, Fading
<1>8. ListRead'
  <2>1. CASE after' = after
    BY <1>1, <2>1 DEF IInv, TaskInv, ListRead, Reconciling, Broadcasts, Quiet
  <2>2. CASE ReconcileAsks(c)
    <3>1. after' \in Listed /\ after'.known
      BY <2>2 DEF ReconcileAsks
    <3>2. after'.ids = Broadcasts /\ Free
      BY <3>1 DEF Listed, NoList
    <3>3. Quiet
      BY <3>2 DEF Free, Quiet
    <3> QED
      BY <1>1, <3>2, <3>3 DEF ListRead, Reconciling, Broadcasts, Quiet
  <2> QED
    BY <2>1, <2>2 DEF Reconcile, ReconcileKnown, ReconcileUnverifiable, ReconcileBlind,
                      ReconcileDiffs
<1>9. BatchSent'
  BY <1>1 DEF IInv, TaskInv, BatchSent, Reconciling, Paying
<1> QED
  BY <1>0, <1>5, <1>7, <1>8, <1>9 DEF IInv, TaskInv

LEMMA SendBatchStep ==
  ASSUME IInv, NEW c \in Comments, SendBatch(c), Faults = {}
  PROVE  IInv'
<1>0. OneInv' /\ TypeOK /\ Env(wallet, outputs, sent)
  BY NextOne, EnvHolds DEF IInv, OneInv, Next, PayoutTask
<1>1. before'.known => Apart(wallet, c, before'.ids)
  <2>1. ASSUME before'.known PROVE before'.ids = Broadcasts /\ Free
    BY <2>1 DEF SendBatch, Listed, NoList
  <2> QED
    BY <2>1 DEF SendBatch, Apart, Broadcasts, Free
<1>2. \A k \in Comments : ~(db.pending[k].txid = "null" /\ snap[k].known)
  BY DEF SendBatch, IInv, TaskInv, BatchSent, Blind
<1>3. before' \in TxList /\ cand \in [Miners -> Nat] /\ snap \in [Comments -> TxList]
      /\ db \in Ledger /\ wallet[c] = "idle"
  BY <1>0, ListedType DEF SendBatch, TypeOK
<1>4. Sound(BeginPayout(db, c, cand), [snap EXCEPT ![c] = before'],
            [wallet EXCEPT ![c] = "queued"], [outputs EXCEPT ![c] = cand], sent)
  BY <1>0, <1>1, <1>2, <1>3, BeginPayoutSound DEF IInv
<1>5. Sound(db', snap', wallet', outputs', sent')
  BY <1>4 DEF SendBatch
<1>6. (\A k \in Comments : todo[k].txid = "absent") /\ ~after.known
  BY NothingRead DEF IInv, SendBatch, Reconciling
<1>7. RowsRead' /\ ListRead'
  BY <1>6 DEF SendBatch, reconciler, RowsRead, ListRead
<1>8. BatchSent'
  <2>1. /\ wallet'[c] = "queued" /\ cur' = c /\ pc' = "sending"
        /\ \A k \in Comments \ {c} : wallet'[k] = wallet[k]
    BY <1>0 DEF SendBatch, TypeOK
  <2>2. before'.known => Apart(wallet', c, before'.ids)
    BY <1>1, <2>1 DEF Apart
  <2> QED
    BY <2>1, <2>2 DEF BatchSent, Paying
<1> QED
  BY <1>0, <1>5, <1>7, <1>8 DEF IInv, TaskInv

\* Without faults the lists tell what became of the batch.
LEMMA EndsSay ==
  ASSUME IInv, Ends, Faults = {}
  PROVE  /\ cur \in Comments /\ pc \in Paying
         /\ \/ Proven /\ wallet[cur] = "broadcast"
            \/ EndBatch(db)
            \/ EndBatch(ClearPayout(db, cur)) /\ wallet[cur] = "dead"
            \/ EndBatch(RecordPayouts(db, cur, outputs[cur])) /\ wallet[cur] = "broadcast"
<1>1. cur \in Comments /\ pc \in Paying /\ wallet[cur] \in WalletStates \ {"idle"}
  BY EndsDo DEF IInv, OneInv, TypeOK, TaskInv, BatchSent
<1>2. ASSUME NEW list \in Listed, before.known, list.known
      PROVE  wallet[cur] = IF Fresh(list) THEN "broadcast" ELSE "dead"
  <2>1. list.ids = Broadcasts /\ Quiet
    BY <1>2 DEF Listed, NoList, Free, Quiet
  <2>2. Apart(wallet, cur, before.ids)
    BY <1>2 DEF IInv, TaskInv, BatchSent
  <2>3. Fresh(list) <=> wallet[cur] = "broadcast"
    BY <1>1, <1>2, <2>1, <2>2 DEF Fresh, Apart, Broadcasts
  <2> QED
    BY <1>1, <2>1, <2>3 DEF Quiet, WalletStates
<1>3. CASE SendReturns
  BY <1>1, <1>3 DEF SendReturns
<1>4. CASE SendReturnsNothing
  BY <1>1, <1>2, <1>4 DEF SendReturnsNothing
<1>5. CASE Check
  <2>1. PICK list \in Listed :
          \/ EndBatch(db)
          \/ before.known /\ list.known /\ Fresh(list) /\ Proven
          \/ before.known /\ list.known /\ ~Fresh(list) /\ EndBatch(ClearPayout(db, cur))
    BY <1>5 DEF Check, Fresh
  <2> QED
    BY <1>1, <1>2, <2>1
<1>6. CASE DebitBatch
  BY <1>1, <1>6 DEF DebitBatch, IInv, TaskInv, BatchSent
<1> QED
  BY <1>3, <1>4, <1>5, <1>6 DEF Ends

LEMMA EndsStep ==
  ASSUME IInv, Ends, Faults = {}
  PROVE  IInv'
<1>0. OneInv' /\ TypeOK /\ db \in Ledger /\ Lone(db) /\ Env(wallet, outputs, sent)
  BY NextOne, LoneHolds, EnvHolds DEF IInv, OneInv, TypeOK, Next, PayoutTask, Ends
<1>1. /\ UNCHANGED <<snap, todo, after, outputs, wallet, sent>>
      /\ pc' \notin {"boot", "reconcile", "listing"}
      /\ ~Reconciling
  BY EndsSay DEF Proven, EndBatch, reconciler, external, Reconciling, Paying
<1>2. Sound(db', snap', wallet', outputs', sent')
  BY <1>0, <1>1, EndsSay, SetPayoutTxidSound, ClearPayoutSound, RecordPayoutsSound
  DEF IInv, Proven, EndBatch
<1>3. RowsRead' /\ ListRead'
  BY <1>1, NothingRead DEF IInv, RowsRead, ListRead
<1>4. BatchSent'
  BY <1>1, EndsSay
  DEF IInv, TaskInv, BatchSent, Proven, EndBatch, round, NoList, Paying
<1> QED
  BY <1>0, <1>2, <1>3, <1>4 DEF IInv, TaskInv

LEMMA WalletStep ==
  ASSUME IInv, NEW c \in Comments, WalletBroadcasts(c) \/ WalletDrops(c)
  PROVE  IInv'
<1>0. OneInv' /\ TypeOK /\ db \in Ledger /\ Lone(db) /\ Env(wallet, outputs, sent)
  BY NextOne, LoneHolds, EnvHolds DEF IInv, OneInv, TypeOK, Next, Wallet
<1>1. /\ UNCHANGED <<db, snap, pc, todo, after, cand, before, cur, outputs>>
      /\ wallet[c] = "queued" /\ wallet'[c] \in {"broadcast", "dead"}
      /\ \A k \in Comments \ {c} : wallet'[k] = wallet[k]
  BY <1>0 DEF WalletBroadcasts, WalletDrops, reconciler, round, TypeOK
<1>2. Sound(db', snap', wallet', outputs', sent')
  BY <1>0, <1>1, BroadcastSound, DropSound DEF WalletBroadcasts, WalletDrops, IInv
<1>3. RowsRead'
  BY <1>1 DEF IInv, TaskInv, RowsRead, Reconciling
<1>4. ~after.known
  BY <1>1 DEF IInv, TaskInv, ListRead, Quiet
<1>5. ASSUME before.known PROVE Apart(wallet', cur, before.ids)
  BY <1>1, <1>5 DEF IInv, TaskInv, BatchSent, Apart
<1>6. pc \in Paying => cur \in Comments
  BY <1>0 DEF TypeOK
<1>7. BatchSent'
  BY <1>1, <1>5, <1>6 DEF IInv, TaskInv, BatchSent, Blind, Paying
<1> QED
  BY <1>0, <1>1, <1>2, <1>3, <1>4, <1>7 DEF IInv, TaskInv, ListRead

\* The rows are read again.
LEMMA ReadStep ==
  ASSUME IInv, Wake \/ Restart
  PROVE  IInv'
<1>0. OneInv' /\ TypeOK
  BY NextOne DEF IInv, OneInv, Next, PayoutTask
<1>1. /\ UNCHANGED <<db, snap, after, before, cur, outputs, wallet, sent>>
      /\ todo' = db.pending /\ Reconciling'
      /\ pc \in {"sleep", "down"} /\ pc' \in {"reconcile", "boot"}
  BY DEF Wake, Restart, round, external, Reconciling
<1>2. RowsRead'
  BY <1>1 DEF IInv, Sound, Rows, RowsRead, Pending
<1>3. ~after.known /\ ~before.known
  BY <1>1, NothingRead DEF IInv, TaskInv, BatchSent, Reconciling, Paying
<1>4. ListRead' /\ BatchSent'
  BY <1>1, <1>3 DEF ListRead, BatchSent, Paying
<1> QED
  BY <1>0, <1>1, <1>2, <1>4 DEF IInv, TaskInv

\* The task moves on, and the books do not.
LEMMA MovesStep ==
  ASSUME IInv, Faults = {},
         ReconcileEnds \/ CollectPayable \/ Choose \/ NothingToSend \/ SendFails
  PROVE  IInv'
<1>0. OneInv' /\ TypeOK
  BY NextOne DEF IInv, OneInv, Next, PayoutTask
<1>1. UNCHANGED <<db, snap, todo, before, cur, outputs, wallet, sent>>
  BY DEF ReconcileEnds, CollectPayable, Choose, NothingToSend, SendFails,
         reconciler, round, external
<1>2. (\A c \in Comments : todo[c].txid = "absent") /\ ~after'.known
  BY NothingRead
  DEF IInv, ReconcileEnds, CollectPayable, Choose, NothingToSend, SendFails,
      reconciler, Reconciling, Todo, NoList
<1>3. RowsRead' /\ ListRead'
  BY <1>1, <1>2 DEF RowsRead, ListRead
<1>4. pc' = "listing" => ~Blind
  BY DEF ReconcileEnds, CollectPayable, Choose, NothingToSend, SendFails
<1>5. (pc' \in Paying <=> pc \in Paying) /\ pc' # "debit"
  BY DEF ReconcileEnds, CollectPayable, Choose, NothingToSend, SendFails, Reconciling, Paying
<1>6. BatchSent'
  BY <1>1, <1>4, <1>5 DEF IInv, TaskInv, BatchSent, Blind
<1> QED
  BY <1>0, <1>1, <1>3, <1>6 DEF IInv, TaskInv

LEMMA SweepStep ==
  ASSUME IInv, Sweep
  PROVE  IInv'
<1>0. OneInv' /\ db \in Ledger /\ db' \in Ledger
  BY NextOne DEF IInv, OneInv, TypeOK, Next, PayoutTask
<1>1. /\ UNCHANGED <<snap, todo, after, before, cur, outputs, wallet, sent>>
      /\ pc = "sweep" /\ pc' = "sleep"
  BY DEF Sweep, reconciler, round, external
<1>2. db'.pending = db.pending /\ db'.paid = db.paid
  BY <1>0, SweepKeeps DEF Sweep
<1>3. Sound(db', snap', wallet', outputs', sent')
  BY <1>0, <1>1, <1>2, FrameSound DEF IInv
<1>4. RowsRead' /\ ListRead'
  BY <1>1, NothingRead DEF IInv, RowsRead, ListRead, Reconciling
<1>5. BatchSent'
  BY <1>1 DEF IInv, TaskInv, BatchSent, Paying
<1> QED
  BY <1>0, <1>3, <1>4, <1>5 DEF IInv, TaskInv

LEMMA MaturityStep ==
  ASSUME IInv, NEW b \in Blocks, ApplyMaturity(b)
  PROVE  IInv'
<1>0. OneInv' /\ db \in Ledger /\ db' \in Ledger
  BY NextOne DEF IInv, OneInv, TypeOK, Next
<1>1. UNCHANGED <<snap, pc, todo, after, before, cur, outputs, wallet, sent>>
  BY DEF ApplyMaturity, reconciler, round, external
<1>2. db'.pending = db.pending /\ db'.paid = db.paid /\ Fading(db, db')
  BY <1>0, MaturityKeeps, MethodsFade DEF ApplyMaturity
<1>3. Sound(db', snap', wallet', outputs', sent')
  BY <1>0, <1>1, <1>2, FrameSound DEF IInv
<1> QED
  BY <1>0, <1>1, <1>2, <1>3, TaskKept DEF IInv

LEMMA OperatorStep ==
  ASSUME IInv, NEW c \in Comments, Operator(c)
  PROVE  IInv'
<1>0. OneInv' /\ TypeOK /\ db \in Ledger /\ Lone(db) /\ Env(wallet, outputs, sent)
  BY NextOne, LoneHolds, EnvHolds DEF IInv, OneInv, TypeOK, Next
<1>1. UNCHANGED <<snap, pc, todo, after, before, cur, outputs, wallet, sent>>
  BY DEF Operator, reconciler, round, external
<1>2. db.pending[c].items = outputs[c] /\ outputs[c] \in [Miners -> Nat]
  BY <1>0 DEF Operator, IInv, Sound, Rows, Env
<1>3. \/ db' = RecordPayouts(db, c, outputs[c]) /\ wallet[c] = "broadcast"
      \/ db' = ClearPayout(db, c) /\ wallet[c] = "dead"
  BY <1>2 DEF Operator
<1>4. Sound(db', snap', wallet', outputs', sent')
  BY <1>0, <1>1, <1>3, RecordPayoutsSound, ClearPayoutSound DEF IInv
<1>5. Fading(db, db')
  BY <1>0, <1>2, <1>3, MethodsFade
<1> QED
  BY <1>0, <1>1, <1>4, <1>5, TaskKept DEF IInv

LEMMA CrashStep ==
  ASSUME IInv, Crash
  PROVE  IInv'
<1>0. OneInv'
  BY NextOne DEF IInv, Next
<1>1. TaskInv'
  BY DEF Crash, TaskInv, RowsRead, ListRead, BatchSent, NoRows, NoIntent, NoList, Paying
<1> QED
  BY <1>0, <1>1 DEF Crash, IInv, external

LEMMA NextIInv ==
  ASSUME Faults = {}
  PROVE  IInv /\ [Next]_vars => IInv'
<1> SUFFICES ASSUME IInv, [Next]_vars PROVE IInv'
  OBVIOUS
<1>1. CASE UNCHANGED vars
  <2>1. UNCHANGED <<db, snap, pc, todo, after, before, cur, outputs, wallet, sent>>
    BY <1>1 DEF vars, reconciler, round, external
  <2>2. OneInv' /\ Fading(db, db')
    BY <2>1, NextOne, MethodsFade DEF IInv, OneInv, TypeOK
  <2> QED
    BY <2>1, <2>2, TaskKept DEF IInv
<1>2. CASE Next
  BY <1>2, ReconcileStep, SendBatchStep, EndsStep, WalletStep, ReadStep, MovesStep,
     SweepStep, MaturityStep, OperatorStep, CrashStep
  DEF Next, PayoutTask, Wallet, Ends
<1> QED
  BY <1>1, <1>2

LEMMA IInvAlways == ASSUME Faults = {} PROVE Spec => []IInv
<1> QED
  BY InitIInv, NextIInv, PTL DEF Spec

\* What the wallet has sent is what is debited and what is in flight.
LEMMA OnBooks ==
  ASSUME IInv, NEW m \in Miners
  PROVE  /\ sent[m] = db.paid[m] + InFlight(m)
         /\ sent[m] \in Nat
<1> DEFINE batches == {c \in Broadcasts : Names(db, c, m)}
<1>1. db.paid[m] \in Nat /\ sent[m] \in Nat
  BY PendingType DEF IInv, OneInv, TypeOK
<1>2. \A c \in Comments : c \in batches <=> Doubtful(db, wallet, c, m)
  BY DEF Broadcasts, Doubtful
<1>3. CASE batches = {}
  <2>1. \A c \in Comments : ~Doubtful(db, wallet, c, m)
    BY <1>2, <1>3
  <2>2. InFlight(m) = 0
    BY <1>3 DEF InFlight
  <2> QED
    BY <1>1, <2>1, <2>2 DEF IInv, Sound, Balanced
<1>4. CASE batches # {}
  <2> DEFINE b == CHOOSE c \in batches : TRUE
  <2>1. b \in batches /\ b \in Comments
    BY <1>4 DEF Broadcasts
  <2>2. InFlight(m) = db.pending[b].items[m]
    BY <1>4 DEF InFlight
  <2> HIDE DEF b
  <2>3. Doubtful(db, wallet, b, m)
    BY <1>2, <2>1
  <2>4. db.pending[b].items = outputs[b]
    BY <2>1, <2>3 DEF IInv, Sound, Rows, Doubtful, Names
  <2> QED
    BY <1>1, <2>1, <2>2, <2>3, <2>4 DEF IInv, Sound, Balanced
<1> QED
  BY <1>3, <1>4

\* A miner is debited only for a transfer that is on chain and pays it
\* (MoneroPayouts.DebitOnlyIfBroadcast; monero_pool.py, _do_payouts and
\* _reconcile_pending_payouts), provided that no list is taken while a transfer
\* is under way or missing where it is compared (Faults).
THEOREM DebitOnlyIfBroadcastHolds ==
  ASSUME Faults = {}
  PROVE  Spec => []DebitOnlyIfBroadcast
<1>1. IInv => DebitOnlyIfBroadcast
  BY OnBooks DEF DebitOnlyIfBroadcast
<1> QED
  BY <1>1, IInvAlways, PTL

\* What is on chain is debited or an intent that keeps its miners from another
\* batch (MoneroPayouts.BroadcastOnBooks; monero_pool.py, _do_payouts and
\* _reconcile_pending_payouts), under the same proviso.
THEOREM BroadcastOnBooksHolds ==
  ASSUME Faults = {}
  PROVE  Spec => []BroadcastOnBooks
<1>1. IInv => BroadcastOnBooks
  BY OnBooks DEF BroadcastOnBooks
<1> QED
  BY <1>1, IInvAlways, PTL

=============================================================================
