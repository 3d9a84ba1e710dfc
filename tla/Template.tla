------------------------------ MODULE Template ------------------------------
(***************************************************************************)
(* Blocks as the Bitcoin and Litecoin engine builds them (template.py,     *)
(* util.py): a template of the node becomes a job, and a job that was      *)
(* solved becomes the block submitted to the node.  The properties compare *)
(* that block with the rules the node judges it by.                        *)
(*                                                                         *)
(* A serialization is a sequence of fields in the order of the bytes, a    *)
(* hash a tuple that holds what was hashed.  A chain is "legacy" before    *)
(* segwit, "segwit" after it, and "mweb" once every block must carry an    *)
(* extension block.  Version, time, target and nonce of a header pass      *)
(* through as they came and are left out.                                  *)
(***************************************************************************)
EXTENDS Integers, SequencesExt, FiniteSetsExt

CONSTANTS
  Heights,      \* the heights a chain may start at
  Phases,       \* the chains there are
  Subsidy,      \* what a block pays besides its fees
  TagLengths,   \* lengths of the coinbase tag
  MaxTxs,       \* transactions of a template at most
  MaxTips,      \* blocks that come after the first tip at most
  MaxKept       \* MAX_RETAINED_JOBS

ASSUME PhasesKnown == Phases \subseteq {"legacy", "segwit", "mweb"}
ASSUME HeightsBelow2p23 == Heights \subseteq 0..(2^22)
ASSUME BoundsNat == {Subsidy, MaxTxs, MaxTips} \subseteq Nat /\ MaxKept \in Nat \ {0}

VARIABLES
  config,   \* the configuration, and the chain of the node
  tip,      \* how many blocks came after the first tip
  jobs,     \* the jobs kept, oldest first
  block     \* the block assembled last

vars == <<config, tip, jobs, block>>

Configs ==
  [base : Heights, phase : Phases, include : BOOLEAN,
   tag : TagLengths, extranonce2 : {1, 8}]

NoBlock == [prev |-> 0]

\* The height of a block on the tip number n.
Height(n) == config.base + n

Init ==
  /\ config \in Configs
  /\ tip = 0
  /\ jobs = <<>>
  /\ block = NoBlock

-----------------------------------------------------------------------------
(* Templates.                                                              *)

\* Once there are witnesses every other transaction has one.
Tx(i) == [id |-> <<"tx", i>>, fee |-> i,
          witness |-> config.phase # "legacy" /\ i % 2 = 0]

\* The transaction that ties the extension block to the block.
HogEx == [id |-> <<"hogex", 0>>, fee |-> 0, witness |-> FALSE]

Transactions(n) ==
  [i \in 1..n |-> Tx(i)] \o (IF config.phase = "mweb" THEN <<HogEx>> ELSE <<>>)

Ids(txs) == [i \in 1..Len(txs) |-> txs[i].id]

Fees(txs) == FoldLeft(LAMBDA sum, tx : sum + tx.fee, 0, txs)

Template(n) ==
  [prev |-> tip,
   height |-> Height(tip),
   transactions |-> Transactions(n),
   coinbasevalue |-> Subsidy + Fees(Transactions(n)),
   commitment |-> IF config.phase = "legacy" THEN <<>>
                  ELSE <<"commitment", Ids(Transactions(n))>>,
   mweb |-> IF config.phase = "mweb" THEN <<"mweb", tip>> ELSE <<>>]

\* A template that lacks the commitment its chain demands, and one that is
\* worth less than the fees it lists.
Malformed(n) ==
  IF config.phase = "mweb" THEN {[Template(n) EXCEPT !.commitment = <<>>]}
  ELSE IF config.include \/ n = 0 THEN {}
  ELSE {[Template(n) EXCEPT !.coinbasevalue = Fees(Transactions(n)) - 1]}

-----------------------------------------------------------------------------
(* Serialization.                                                          *)

\* 64 bits, here 16.
PackU64(n) == n % 2^16

RECURSIVE LittleEndian(_)
LittleEndian(n) ==
  IF n = 0 THEN <<>> ELSE <<n % 256>> \o LittleEndian(n \div 256)

\* A data push whose highest bit is no sign.
DataPush(n) ==
  LET bytes == LittleEndian(n)
      out == IF Last(bytes) >= 128 THEN Append(bytes, 0) ELSE bytes
  IN  <<Len(out)>> \o out

ScriptPushHeight(n) ==
  IF n = 0 THEN <<0>> ELSE IF n <= 16 THEN <<80 + n>> ELSE DataPush(n)

Hash(left, right) == <<"hash", left, right>>

\* Neighbours hashed together, the last of an odd number with itself.
Even(hashes) ==
  IF Len(hashes) % 2 = 1 THEN Append(hashes, Last(hashes)) ELSE hashes

NextLevel(hashes) ==
  [i \in 1..(Len(hashes) \div 2) |-> Hash(hashes[2 * i - 1], hashes[2 * i])]

RECURSIVE Siblings(_)
Siblings(hashes) ==
  IF Len(hashes) <= 1 THEN <<>>
  ELSE <<Even(hashes)[2]>> \o Siblings(NextLevel(Even(hashes)))

\* What a miner folds the coinbase through; its own hash is not known yet.
CoinbaseMerkleBranch(ids) == Siblings(<<<<"unknown", 0>>>> \o ids)

MerkleRootFromBranch(id, branch) == FoldLeft(Hash, id, branch)

-----------------------------------------------------------------------------
(* Building a job.                                                         *)

Full(t) == config.include \/ t.mweb # <<>>

Included(t) == IF Full(t) THEN t.transactions ELSE <<>>

\* Mutation: the value of the template is claimed as it is.
ValueWithFees(t) == t.coinbasevalue

\* Fees of transactions that are left out are not claimed.
Value(t) ==
  IF Full(t) THEN t.coinbasevalue ELSE t.coinbasevalue - Fees(t.transactions)

ExtranonceSize == 4 + config.extranonce2

\* The tag is cut to what the 100 bytes of the script leave it.
TagLength(t) ==
  Min({config.tag,
       Max({0, 100 - Len(ScriptPushHeight(t.height)) - ExtranonceSize})})

ScriptLength(t) ==
  Len(ScriptPushHeight(t.height)) + ExtranonceSize + TagLength(t)

Outputs(t) ==
  <<<<"value", PackU64(Value(t))>>>>
    \o (IF Full(t) /\ t.commitment # <<>> THEN <<t.commitment>> ELSE <<>>)

\* build raises, and no job is made.
Refused(t) ==
  \/ Value(t) < 0
  \/ ScriptLength(t) > 100
  \/ t.mweb # <<>> /\ ~(Full(t) /\ t.commitment # <<>>)

Job(t) ==
  [prev |-> t.prev,
   prefix |-> <<<<"version", 1>>, <<"input", 0>>, <<"length", ScriptLength(t)>>,
                <<"push", ScriptPushHeight(t.height)>>>>,
   tag |-> TagLength(t),
   outputs |-> <<<<"outputs", Len(Outputs(t))>>>> \o Outputs(t),
   branch |-> CoinbaseMerkleBranch(Ids(Included(t))),
   full |-> Full(t),
   txs |-> Included(t),
   mweb |-> IF Full(t) THEN t.mweb ELSE <<>>,
   committed |-> Len(Outputs(t)) > 1]

Kept(js) == SubSeq(js, Max({1, Len(js) - MaxKept + 1}), Len(js))

ApplyTemplate(t) ==
  /\ ~Refused(t)
  /\ jobs' = Kept(Append(jobs, Job(t)))
  /\ UNCHANGED <<config, tip, block>>

\* The node offers work on its tip.
GetTemplate ==
  \E n \in 0..MaxTxs : \E t \in {Template(n)} \cup Malformed(n) : ApplyTemplate(t)

NewTip ==
  /\ tip < MaxTips
  /\ tip' = tip + 1
  /\ UNCHANGED <<config, jobs, block>>

-----------------------------------------------------------------------------
(* Assembling a block.                                                     *)

CoinbaseTail(j) == <<<<"tag", j.tag>>, <<"sequence", 0>>>> \o j.outputs

Extranonces(e) == <<<<"extranonce1", e>>, <<"extranonce2", e>>>>

CoinbaseLegacy(j, e) == j.prefix \o Extranonces(e) \o CoinbaseTail(j) \o <<<<"locktime", 0>>>>

CoinbaseWitness(j, e) ==
  <<Head(j.prefix), <<"marker", 0>>>> \o SubSeq(j.prefix, 2, Len(j.prefix))
    \o Extranonces(e) \o CoinbaseTail(j) \o <<<<"reserved", 32>>, <<"locktime", 0>>>>

CoinbaseTxid(j, e) == <<"coinbase", CoinbaseLegacy(j, e)>>

\* Mutation: every full block has a witness in its coinbase.
CoinbaseByMode(j, e) ==
  IF j.full THEN CoinbaseWitness(j, e) ELSE CoinbaseLegacy(j, e)

Coinbase(j, e) ==
  IF j.full /\ j.committed THEN CoinbaseWitness(j, e) ELSE CoinbaseLegacy(j, e)

BuildBlock(j, e) ==
  [prev |-> j.prev,
   root |-> MerkleRootFromBranch(CoinbaseTxid(j, e), j.branch),
   count |-> IF j.full THEN 1 + Len(j.txs) ELSE 1,
   coinbase |-> Coinbase(j, e),
   txs |-> j.txs,
   mweb |-> IF j.mweb = <<>> THEN <<>> ELSE <<"present", j.mweb>>]

\* A miner solves a job that is kept, with an extranonce of its own.
Solve ==
  /\ \E j \in ToSet(jobs), e \in {1, 2} : block' = BuildBlock(j, e)
  /\ UNCHANGED <<config, tip, jobs>>

Next == GetTemplate \/ NewTip \/ Solve

Spec == Init /\ [][Next]_vars

-----------------------------------------------------------------------------
(* The rules of the node.                                                  *)

\* CScript() << n: the fewest bytes that leave the sign bit clear.
NodePush(n) ==
  LET size == CHOOSE k \in 1..3 : n < 2^(8*k - 1) /\ (k = 1 \/ n >= 2^(8*k - 9))
  IN  IF n = 0 THEN <<0>>
      ELSE IF n <= 16 THEN <<80 + n>>
      ELSE <<size>> \o [i \in 1..size |-> (n \div 256^(i - 1)) % 256]

\* The i-th hash, from 0, of a level of the tree over the leaves.
RECURSIVE NodeHash(_, _, _)
NodeHash(leaves, level, i) ==
  IF level = 0 THEN leaves[i + 1]
  ELSE LET width == (Len(leaves) + 2^(level - 1) - 1) \div 2^(level - 1)
       IN  Hash(NodeHash(leaves, level - 1, 2 * i),
                NodeHash(leaves, level - 1, Min({2 * i + 1, width - 1})))

NodeRoot(leaves) ==
  NodeHash(leaves, CHOOSE k \in 0..Len(leaves) :
                     2^k >= Len(leaves) /\ (k = 0 \/ 2^(k - 1) < Len(leaves)), 0)


Named(cb, name) == SelectSeq(cb, LAMBDA f : f[1] = name)

Sum(fields) == FoldLeft(LAMBDA n, f : n + f[2], 0, fields)

\* The fields of the coinbase that its id is taken over.
Stripped(cb) == SelectSeq(cb, LAMBDA f : f[1] \notin {"marker", "reserved"})

HasWitness(cb) == Len(cb) > 1 /\ cb[2][1] = "marker"

WellFormed(cb) ==
  LET s == Stripped(cb) IN
  /\ s[1][1] = "version" /\ s[2][1] = "input" /\ s[3][1] = "length"
  /\ Last(s)[1] = "locktime"
  /\ HasWitness(cb) => cb[Len(cb) - 1][1] = "reserved"
  /\ ~HasWitness(cb) => s = cb

\* The script begins with the height, and is as long as it says it is.
ScriptAccepted(cb, height) ==
  LET s == Stripped(cb)
      length == Len(s[4][2]) + 4 + config.extranonce2 + Sum(Named(s, "tag"))
  IN  /\ s[4] = <<"push", NodePush(height)>>
      /\ s[3][2] = length /\ length \in 2..100

Commitments(cb) == Named(cb, "commitment")

\* Witnesses are there if and only if they are committed to, all of them.
WitnessAccepted(b) ==
  /\ HasWitness(b.coinbase) <=> Commitments(b.coinbase) # <<>>
  /\ (\E i \in DOMAIN b.txs : b.txs[i].witness) => HasWitness(b.coinbase)
  /\ \A c \in ToSet(Commitments(b.coinbase)) : c[2] = Ids(b.txs)

OutputsAccepted(b) ==
  LET cb == b.coinbase IN
  /\ Sum(Named(cb, "outputs")) = Len(Named(cb, "value") \o Commitments(cb))
  /\ Sum(Named(cb, "value")) <= Subsidy + Fees(b.txs)

\* The extension block comes with the transaction that ties it in.
ExtensionAccepted(b) ==
  IF config.phase = "mweb"
  THEN b.mweb = <<"present", <<"mweb", b.prev>>>> /\ b.txs # <<>> /\ Last(b.txs) = HogEx
  ELSE b.mweb = <<>>

NodeAccepts(b) ==
  /\ WellFormed(b.coinbase)
  /\ b.count = 1 + Len(b.txs)
  /\ b.root = NodeRoot(<<<<"coinbase", Stripped(b.coinbase)>>>> \o Ids(b.txs))
  /\ ScriptAccepted(b.coinbase, Height(b.prev))
  /\ OutputsAccepted(b)
  /\ WitnessAccepted(b)
  /\ ExtensionAccepted(b)

-----------------------------------------------------------------------------
(* Properties.                                                             *)

\* Every block the pool submits obeys the rules of its chain, whatever the
\* template, the configuration and the age of the job: the header commits to
\* the transactions that follow it, the script, the witnesses and the
\* extension block are as the node wants them (TemplateBuilder.build,
\* Job.build_block_hex: a block that breaks one is lost).
BlocksAreValid == block # NoBlock => NodeAccepts(block)

\* A block claims its whole subsidy and the fees of all it includes, and of
\* nothing else (TemplateBuilder.build: coinbase value).
NothingUnclaimed ==
  block # NoBlock =>
    Sum(Named(block.coinbase, "value")) = Subsidy + Fees(block.txs)
=============================================================================
