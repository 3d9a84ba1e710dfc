------------------------------- MODULE Rounds -------------------------------
(***************************************************************************)
(* From a solved block to the miners' balances (pool.py:                   *)
(* handle_block_candidate, _ingest_template, _maturity_loop; stratum.py:   *)
(* the end of _on_submit; the prune of _payout_loop).                      *)
(*                                                                         *)
(* Actors: the connections that record shares and submit blocks, each a    *)
(* coroutine that waits for the node twice at most; the task that follows  *)
(* the node's templates; the maturity task; the prune; and the node, which *)
(* holds the best chain, executes submissions when it gets to them, and    *)
(* reorganises.                                                            *)
(*                                                                         *)
(* A chain is the sequence of the blocks above a fixed one: a block of the *)
(* pool stands for itself, a block of somebody else for the number of      *)
(* reorganisations that preceded it, so that two branches never agree on a *)
(* block they do not share.                                                *)
(*                                                                         *)
(* Faults names what may go wrong beyond crashes and refused submissions:  *)
(*   timeout         the client gives up waiting for submitblock when the  *)
(*                   node has executed it                                  *)
(*   late_execution  it gives up when the node has not                     *)
(*   lost_reply      the reply of an executed submitblock is cut off or    *)
(*                   garbled, which the client reports as RPCError         *)
(*   check_fails     getblockhash fails after a submission that timed out  *)
(*   slow_answer     templates are ingested while the maturity task waits  *)
(*                   for an answer of getblockhash that the node has given *)
(***************************************************************************)
EXTENDS Pplns, SequencesExt

CONSTANTS
  Reward,      \* the coinbase value of each block
  Maturity,    \* COINBASE_MATURITY
  Tolerance,   \* REORG_TOLERANCE
  MaxReorg,    \* how many blocks a reorganisation replaces at most
  Chunk,       \* PRUNE_CHUNK
  Faults,      \* the faults the environment may show
  MaxHeight,   \* bound: the length of the chain
  MaxReorgs,   \* bound: reorganisations in a behaviour
  MaxShares,   \* bound: shares in a behaviour
  MaxCrashes   \* bound: crashes in a behaviour

FaultKinds ==
  {"timeout", "late_execution", "lost_reply", "check_fails", "slow_answer"}

ASSUME RewardNat == Reward \in [Blocks -> Nat]
ASSUME DepthsNat == Maturity \in Nat /\ Tolerance \in Nat /\ MaxReorg \in Nat
ASSUME ReorgsShallow == MaxReorg < Maturity /\ MaxReorg + 2 <= Tolerance
ASSUME ChunkPositive == Chunk \in Nat \ {0}
ASSUME BlocksNotForeign == Blocks \cap Nat = {}
ASSUME FaultsKnown == Faults \subseteq FaultKinds
ASSUME BoundsNat == {MaxHeight, MaxReorgs, MaxShares, MaxCrashes} \subseteq Nat

VARIABLES
  db,        \* the database
  shares,    \* its shares table
  pruned,    \* how many rows were deleted from the front of it
  floor,     \* the prune under way deletes no id above this, 0: none is
  main,      \* the node's best chain
  job,       \* the chain the current template builds on
  jobs,      \* the chains of the jobs that still resolve, job among them
  prev,      \* the chain each block builds on
  finder,    \* the miner that solved each block
  sub,       \* where the coroutine that submits each block is
  node,      \* what the node made of each block
  asked,     \* the answer of getblockhash the maturity task is about to use
  reorgs,    \* reorganisations so far
  crashes    \* crashes so far

submission == <<prev, finder, sub, node>>
chain      == <<main, reorgs>>
template   == <<job, jobs>>
table      == <<shares, pruned, floor>>
vars == <<db, table, chain, template, submission, asked, crashes>>

NoAnswer == << >>

Height(b) == Len(prev[b]) + 1

\* The height that is mined on, one above the tip of the template.
CurrentHeight == Len(job) + 1

OnChain(b) == b \in Range(main)

Chains == Seq(Blocks \cup 0..MaxReorgs)

\* lost: the node turned the block down, or did not have it on its chain;
\* missed: the block was given up for an answer that did not tell what became of
\* it; dead: the coroutine died with the process.
SubStates == {"idle", "submitting", "checking", "done", "lost", "missed", "dead"}
NodeStates == {"none", "queued", "accepted", "inconclusive", "rejected", "refused"}

-----------------------------------------------------------------------------
Init ==
  /\ db = EmptyLedger
  /\ shares = << >>
  /\ pruned = 0
  /\ floor = 0
  /\ main = << >>
  /\ job = << >>
  /\ jobs = {<< >>}
  /\ prev = [b \in Blocks |-> << >>]
  /\ finder = [b \in Blocks |-> Faucet]
  /\ sub = [b \in Blocks |-> "idle"]
  /\ node = [b \in Blocks |-> "none"]
  /\ asked = NoAnswer
  /\ reorgs = 0
  /\ crashes = 0

-----------------------------------------------------------------------------
(* Shares and blocks from the miners.                                      *)

RecordShare(m, w) ==
  /\ pruned + Len(shares) < MaxShares
  /\ shares' = Append(shares, [miner |-> m, work |-> w])
  /\ UNCHANGED <<pruned, floor>>

\* A share that solves no block; a miner of another coin has its own pool.
Share(m, w) ==
  /\ RecordShare(m, w)
  /\ UNCHANGED <<db, chain, template, submission, asked, crashes>>

\* A share that solves a block, on the current job or on one that was kept:
\* a solve is never dropped as stale.  The share goes in first, then the block
\* is on its way to the node.
Solve(b, m, w) ==
  /\ sub[b] = "idle"
  /\ RecordShare(m, w)
  /\ \E parent \in jobs :
       /\ Len(parent) < MaxHeight
       /\ prev' = [prev EXCEPT ![b] = parent]
  /\ finder' = [finder EXCEPT ![b] = m]
  /\ sub' = [sub EXCEPT ![b] = "submitting"]
  /\ node' = [node EXCEPT ![b] = "queued"]
  /\ UNCHANGED <<db, chain, template, asked, crashes>>

\* credit_block, called with the shares as they are when the node has answered.
Credited(b) == CreditBlock(db, b, Split(shares, Reward[b]))

SubmissionEnds(b, end) ==
  /\ sub' = [sub EXCEPT ![b] = end]
  /\ UNCHANGED <<table, chain, template, prev, finder, asked, crashes>>

\* submitblock returns: an accepted block and one that may yet be adopted are
\* credited, a rejected one is not.
SubmitReturns(b) ==
  /\ sub[b] = "submitting"
  /\ \/ /\ node[b] \in {"accepted", "inconclusive"}
        /\ db' = Credited(b)
        /\ SubmissionEnds(b, "done")
     \/ /\ node[b] = "rejected"
        /\ SubmissionEnds(b, "lost")
        /\ UNCHANGED db
  /\ UNCHANGED node

\* RPCError: the node was not reached, or its reply was cut off.  The block is
\* given up in either case.
SubmitFails(b) ==
  /\ sub[b] = "submitting"
  /\ \/ /\ node[b] = "queued"
        /\ node' = [node EXCEPT ![b] = "refused"]
        /\ SubmissionEnds(b, "lost")
     \/ /\ node[b] # "queued"
        /\ "lost_reply" \in Faults
        /\ SubmissionEnds(b, "missed")
        /\ UNCHANGED node
  /\ UNCHANGED db

\* RPCTimeout: the outcome is unknown, and the chain is asked for it.
SubmitTimesOut(b) ==
  /\ sub[b] = "submitting"
  /\ (IF node[b] = "queued" THEN "late_execution" ELSE "timeout") \in Faults
  /\ sub' = [sub EXCEPT ![b] = "checking"]
  /\ UNCHANGED <<db, table, chain, template, prev, finder, node, asked, crashes>>

\* The check finds that the block is not there, or was asked too early.
NotFound(b) == SubmissionEnds(b, IF node[b] = "queued" THEN "missed" ELSE "lost")

\* Mutation: the check looks at the tip instead of the height of the block.
CheckAnswersForTip(b) ==
  /\ sub[b] = "checking"
  /\ \/ /\ main # << >> /\ Last(main) = b
        /\ db' = Credited(b)
        /\ SubmissionEnds(b, "done")
     \/ /\ ~(main # << >> /\ Last(main) = b)
        /\ NotFound(b)
        /\ UNCHANGED db
  /\ UNCHANGED node

\* The check: the block is credited when the chain has it at its height now.
CheckAnswers(b) ==
  /\ sub[b] = "checking"
  /\ \/ /\ Height(b) <= Len(main) /\ main[Height(b)] = b
        /\ db' = Credited(b)
        /\ SubmissionEnds(b, "done")
     \/ /\ ~(Height(b) <= Len(main) /\ main[Height(b)] = b)
        /\ NotFound(b)
        /\ UNCHANGED db
  /\ UNCHANGED node

CheckFails(b) ==
  /\ sub[b] = "checking"
  /\ "check_fails" \in Faults
  /\ SubmissionEnds(b, "missed")
  /\ UNCHANGED <<db, node>>

-----------------------------------------------------------------------------
(* The node.                                                               *)

\* A submission is executed, waited for or not.  A block on the tip extends
\* the chain; one on an earlier block, or on another branch, is kept aside.
NodeExecutes(b) ==
  /\ node[b] = "queued"
  /\ \/ /\ prev[b] = main
        /\ main' = Append(main, b)
        /\ node' = [node EXCEPT ![b] = "accepted"]
     \/ /\ prev[b] # main
        /\ node' = [node EXCEPT ![b] = "inconclusive"]
        /\ UNCHANGED main
     \/ /\ node' = [node EXCEPT ![b] = "rejected"]
        /\ UNCHANGED main
  /\ UNCHANGED <<db, table, reorgs, template, prev, finder, sub, asked, crashes>>

\* The part of the chain no reorganisation reaches.
Buried == SubSeq(main, 1, Clamp(Len(main) - MaxReorg))

NewChain(c) ==
  /\ Len(main) < MaxHeight
  /\ main' = c
  /\ UNCHANGED <<db, table, template, submission, asked, crashes>>

\* Somebody else's block extends the chain.
Extend ==
  /\ NewChain(Append(main, reorgs))
  /\ UNCHANGED reorgs

\* c grows by somebody else's blocks until it is one longer than the chain.
Outgrow(c) ==
  /\ Len(c) <= Len(main)
  /\ IsPrefix(Buried, c)
  /\ reorgs < MaxReorgs
  /\ reorgs' = reorgs + 1
  /\ NewChain(c \o [i \in 1..(Len(main) + 1 - Len(c)) |-> reorgs + 1])

\* A branch of other blocks overtakes the chain.
Reorganise == \E n \in 0..(Len(main) - 1) : Outgrow(SubSeq(main, 1, n))

\* A branch with a block of the pool on it overtakes the chain.
Adopt(b) ==
  /\ node[b] \in {"accepted", "inconclusive"}
  /\ ~OnChain(b)
  /\ Outgrow(Append(prev[b], b))

NewTip == Extend \/ Reorganise \/ \E b \in Blocks : Adopt(b)

-----------------------------------------------------------------------------
(* Templates and maturity.                                                 *)

\* A template is ingested, unless its height is below the current one; one on
\* the same tip changes nothing here.
Poll ==
  /\ Len(main) >= Len(job)
  /\ asked = NoAnswer \/ "slow_answer" \in Faults
  /\ job' = main
  /\ jobs' = jobs \cup {main}
  /\ UNCHANGED <<db, table, chain, submission, asked, crashes>>

\* The node answers the maturity task, for a block that is still immature.
\* There is no answer for a height above the tip.
Ask(b) ==
  /\ asked = NoAnswer
  /\ db.status[b] = "immature"
  /\ Height(b) <= Len(main)
  /\ asked' = <<b, main[Height(b)]>>
  /\ UNCHANGED <<db, table, chain, template, submission, crashes>>

Confs(b) == CurrentHeight - Height(b)

Depth(b) == Confs(b) + 1

\* Mutation: a mismatch at any depth orphans the block.
VerdictAtOnce(b, hash) ==
  CASE hash # b                          -> OrphanBlock(db, b)
    [] hash = b /\ Confs(b) >= Maturity  -> MatureBlock(db, b)
    [] OTHER                             -> db

\* Mutation: the block itself counts as a confirmation twice.
VerdictEarly(b, hash) ==
  CASE hash # b /\ Depth(b) >= Tolerance -> OrphanBlock(db, b)
    [] hash = b /\ Depth(b) >= Maturity  -> MatureBlock(db, b)
    [] OTHER                             -> db

\* Mutation: a block that is not on the chain is left alone.
VerdictNeverOrphans(b, hash) ==
  IF hash = b /\ Confs(b) >= Maturity THEN MatureBlock(db, b) ELSE db

\* What the maturity task makes of a block for the hash at its height.
Verdict(b, hash) ==
  CASE hash # b /\ Depth(b) >= Tolerance -> OrphanBlock(db, b)
    [] hash = b /\ Confs(b) >= Maturity  -> MatureBlock(db, b)
    [] OTHER                             -> db

Settle ==
  /\ asked # NoAnswer
  /\ db' = Verdict(asked[1], asked[2])
  /\ asked' = NoAnswer
  /\ UNCHANGED <<table, chain, template, submission, crashes>>

-----------------------------------------------------------------------------
(* The prune of the shares table.                                          *)

\* The floor is read once for all the chunks.
PruneStarts ==
  /\ floor = 0
  /\ BeyondFloor(shares) > 0
  /\ floor' = pruned + BeyondFloor(shares)
  /\ UNCHANGED <<db, shares, pruned, chain, template, submission, asked, crashes>>

\* A chunk of the oldest rows goes, as many as are old enough; a short read
\* ends the prune.
PruneChunk ==
  /\ floor > 0
  /\ \E n \in 0..Chunk :
       /\ pruned + n <= floor
       /\ shares' = SubSeq(shares, n + 1, Len(shares))
       /\ pruned' = pruned + n
       /\ floor' = IF n < Chunk THEN 0 ELSE floor
  /\ UNCHANGED <<db, chain, template, submission, asked, crashes>>

-----------------------------------------------------------------------------
\* The process dies and is started again: what it had in flight is gone, what
\* the node holds is not, and its first template is on the tip.
Crash ==
  /\ crashes < MaxCrashes
  /\ crashes' = crashes + 1
  /\ sub' = [b \in Blocks |->
               IF sub[b] \in {"submitting", "checking"} THEN "dead" ELSE sub[b]]
  /\ floor' = 0
  /\ asked' = NoAnswer
  /\ job' = main
  /\ jobs' = {main}
  /\ UNCHANGED <<db, shares, pruned, chain, prev, finder, node>>

Submission(b) ==
  \/ SubmitReturns(b) \/ SubmitFails(b) \/ SubmitTimesOut(b)
  \/ CheckAnswers(b) \/ CheckFails(b)

Next ==
  \/ \E m \in Miners \cup OtherCoin, w \in Works : Share(m, w)
  \/ \E b \in Blocks, m \in Miners, w \in Works : Solve(b, m, w)
  \/ \E b \in Blocks : Submission(b)
  \/ \E b \in Blocks : NodeExecutes(b)
  \/ NewTip
  \/ Poll
  \/ \E b \in Blocks : Ask(b)
  \/ Settle
  \/ PruneStarts
  \/ PruneChunk
  \/ Crash

\* The chain grows, templates follow it, and the maturity task looks at every
\* immature block once a minute, each of them again and again.  A poll does not
\* overtake an answer that the maturity task awaits, unless that is slow: hence
\* strong fairness.
Fairness ==
  /\ WF_vars(NewTip)
  /\ SF_vars(Poll)
  /\ WF_vars(Settle)
  /\ \A b \in Blocks : SF_vars(Ask(b))

Spec == Init /\ [][Next]_vars

FairSpec == Spec /\ Fairness

-----------------------------------------------------------------------------
(* Properties.                                                             *)

ChainTypeOK ==
  /\ main \in Chains
  /\ job \in Chains
  /\ jobs \subseteq Chains
  /\ prev \in [Blocks -> Chains]
  /\ sub \in [Blocks -> SubStates]
  /\ node \in [Blocks -> NodeStates]
  /\ asked = NoAnswer \/ asked \in Blocks \X (Blocks \cup 0..MaxReorgs)
  /\ reorgs \in 0..MaxReorgs
  /\ crashes \in 0..MaxCrashes

TypeOK ==
  /\ db \in Ledger
  /\ shares \in Seq(Row)
  /\ pruned \in Nat
  /\ floor \in Nat
  /\ finder \in [Blocks -> Miners]
  /\ ChainTypeOK

MaturedBlocks == {b \in Blocks : db.status[b] = "matured"}

\* The miners are owed the rewards of the matured blocks, to the last unit:
\* no split, no second verdict and no crash loses or makes money.
Solvent == Total(db.owed, Miners) = Total(Reward, MaturedBlocks)

\* A block whose credits reached the balances is on the chain for good
\* (_maturity_loop: matured blocks are not looked at again).
MaturedStaysOn == \A b \in MaturedBlocks : OnChain(b)

\* A block whose credits were dropped never comes back
\* (REORG_TOLERANCE: "orphan_block() is irreversible").
OrphanedStaysOff == \A b \in Blocks : db.status[b] = "orphaned" => ~OnChain(b)

\* The submission of b is not over.
Undecided(b) == sub[b] \in {"submitting", "checking"}

\* A reorganisation may have put b back on the chain: its branch goes on with
\* blocks that came with one.
PutBack(b) ==
  \E i, j \in DOMAIN main : i < j /\ main[i] = b /\ main[j] \in 1..reorgs

\* Every block of the pool on the chain is recorded once its submission is over,
\* whatever the pool took it for.  Three exceptions have no record: a block whose
\* submission died with the process; one given up for a reply that was cut off,
\* a check that failed, or one that came before the node was done; and one that
\* was off the chain when it was looked for, but that a reorganisation put back
\* (handle_block_candidate: "otherwise a block we actually won goes uncredited on
\* a slow node").
WonIsCredited ==
  \A b \in Blocks :
    OnChain(b) /\ db.status[b] = "none" =>
      \/ Undecided(b)
      \/ sub[b] \in {"missed", "dead"}
      \/ sub[b] = "lost" /\ PutBack(b)

\* The rows that a block found next would be split over, with their ids.
NextWindow == {<<pruned + i, shares[i]>> : i \in WindowRows(shares)}

\* A prune takes none of them (prune_shares: "ALWAYS keeps the keep_recent
\* most-recent rows (one full PPLNS window)").
PruneKeepsWindow == [][pruned' > pruned => NextWindow' = NextWindow]_vars

\* A block that is recorded low enough for the chain to bury it is matured or
\* orphaned in the end.
EventuallySettled ==
  \A b \in Blocks :
    (/\ db.status[b] = "immature"
     /\ Height(b) + Maturity <= MaxHeight + 1
     /\ Height(b) + Tolerance <= MaxHeight + 2)
      ~> db.status[b] \in {"matured", "orphaned"}
=============================================================================
