----------------------------- MODULE MoneroRounds -----------------------------
(***************************************************************************)
(* From a solved Monero block to the miners' balances (monero_pool.py:     *)
(* handle_block_candidate, _block_hash_at, _refresh_template,              *)
(* _maturity_loop; monero_stratum.py: the end of _on_submit).              *)
(*                                                                         *)
(* The pool cannot compute the hash of a Monero block.  It records a block *)
(* under the hash the node has at the block's height once the submission   *)
(* is over, and looks the height up again until the block is settled.      *)
(*                                                                         *)
(* Actors: a coroutine for each block submitted, the poll, the maturity    *)
(* task, and the node with its chain.  The coroutines and the poll fetch   *)
(* templates without a lock, and may apply them in another order than the  *)
(* node gave them.                                                         *)
(*                                                                         *)
(* A chain is a sequence of blocks: those of the pool, and numbers for the *)
(* blocks of others.  Faults names what may go wrong beyond crashes,       *)
(* refused submissions, timeouts and headers that cannot be read:          *)
(*   foreign_hash    the header read for a block after its submission is   *)
(*                   another block's                                       *)
(*   late_execution  the client gives up on a submission the node has not  *)
(*                   executed yet                                          *)
(*   lost_reply      the reply of an executed submission is cut off        *)
(*   check_fails     the header cannot be read after a timeout             *)
(*   empty_hash      a header comes without a hash                         *)
(*   slow_answer     templates are applied while the maturity task waits   *)
(*                   for a header that the node has answered               *)
(***************************************************************************)
EXTENDS Accounting, SequencesExt

CONSTANTS
  Own,         \* the blocks the pool's miners solve
  Credits,     \* the split of the reward of each of them
  Maturity,    \* MONERO.maturity
  Tolerance,   \* REORG_TOLERANCE
  MaxReorg,    \* how many blocks a reorganisation replaces at most
  Attempts,    \* attempts of _block_hash_at
  Faults,      \* the faults the environment may show
  MaxForeign,  \* bound: blocks of others
  MaxReorgs,   \* bound: reorganisations in a behaviour
  MaxCrashes   \* bound: crashes in a behaviour

FaultKinds == {"foreign_hash", "late_execution", "lost_reply", "check_fails",
               "empty_hash", "slow_answer"}

ASSUME ForeignBlocks == Blocks = Own \cup 1..MaxForeign /\ Own \cap Nat = {}
ASSUME CreditsNat == Credits \in [Own -> [Miners -> Nat]]
ASSUME DepthsNat == Maturity \in Nat /\ Tolerance \in Nat /\ MaxReorg \in Nat
ASSUME ReorgsShallow == MaxReorg < Maturity /\ MaxReorg < Tolerance
ASSUME FaultsKnown == Faults \subseteq FaultKinds
ASSUME AttemptsPositive == Attempts \in Nat \ {0}
ASSUME BoundsNat == {MaxForeign, MaxReorgs, MaxCrashes} \subseteq Nat

VARIABLES
  db,       \* the database
  height,   \* its blocks.height of each recorded block
  main,     \* the node's best chain
  mined,    \* how many blocks of others there are
  job,      \* the chain the template builds on, current_height its length
  jobs,     \* the chains of the jobs that still resolve, job among them
  fetched,  \* the chain of the template each task has fetched
  prev,     \* the chain each block of the pool builds on
  sub,      \* where the coroutine that submits each block is
  tries,    \* the attempts it has made to read the hash
  node,     \* what the node made of each block
  asked,    \* the header the maturity task is about to use: block and hash
  reorgs,   \* reorganisations so far
  crashes   \* crashes so far

chain      == <<main, mined, reorgs>>
template   == <<job, jobs, fetched>>
submission == <<prev, sub, tries, node>>
books      == <<db, height>>
vars == <<books, chain, template, submission, asked, crashes>>

Poller == "poll"
Tasks == Own \cup {Poller}

ASSUME PollerApart == Poller \notin Own

\* A header without a hash.
NoHash == 0

NoTemplate == <<NoHash>>

NoAnswer == << >>

Height(b) == Len(prev[b]) + 1

OnChain(b) == b \in Range(main)

Chains == Seq(Blocks)

Submitting == {"submitting", "checking", "hashing", "refreshing"}

\* skipped: accepted, with a hash that could not be read; dead: it died with
\* the process.
SubStates == {"idle", "done", "lost", "skipped", "dead"} \cup Submitting
NodeStates == {"none", "queued", "accepted", "rejected", "refused"}

-----------------------------------------------------------------------------
Init ==
  /\ db = EmptyLedger
  /\ height = [h \in Blocks |-> 0]
  /\ main = << >>
  /\ mined = 0
  /\ job = << >>
  /\ jobs = {<< >>}
  /\ fetched = [t \in Tasks |-> NoTemplate]
  /\ prev = [b \in Own |-> << >>]
  /\ sub = [b \in Own |-> "idle"]
  /\ tries = [b \in Own |-> 0]
  /\ node = [b \in Own |-> "none"]
  /\ asked = NoAnswer
  /\ reorgs = 0
  /\ crashes = 0

-----------------------------------------------------------------------------
(* Submission.                                                             *)

\* A result meets the network difficulty of the current template or of one
\* that was kept, and the block is on its way to the node.
Solve(b) ==
  /\ sub[b] = "idle"
  /\ \E parent \in jobs : prev' = [prev EXCEPT ![b] = parent]
  /\ sub' = [sub EXCEPT ![b] = "submitting"]
  /\ node' = [node EXCEPT ![b] = "queued"]
  /\ UNCHANGED <<books, chain, template, tries, asked, crashes>>

Goes(b, to) ==
  /\ sub' = [sub EXCEPT ![b] = to]
  /\ UNCHANGED <<chain, template, prev, asked, crashes>>

SubmitReturns(b) ==
  /\ sub[b] = "submitting"
  /\ node[b] \in {"accepted", "rejected"}
  /\ Goes(b, IF node[b] = "accepted" THEN "hashing" ELSE "lost")
  /\ UNCHANGED <<books, tries, node>>

\* MoneroRPCError: the node was not reached, or its reply was cut off.
SubmitFails(b) ==
  /\ sub[b] = "submitting"
  /\ \/ node[b] = "queued" /\ node' = [node EXCEPT ![b] = "refused"]
     \/ node[b] = "rejected" /\ UNCHANGED node
     \/ node[b] = "accepted" /\ "lost_reply" \in Faults /\ UNCHANGED node
  /\ Goes(b, "lost")
  /\ UNCHANGED <<books, tries>>

\* Mutation: a timeout counts as a refusal.
TimeoutIsLoss(b) ==
  /\ sub[b] = "submitting"
  /\ node[b] # "queued"
  /\ Goes(b, "lost")
  /\ UNCHANGED <<books, tries, node>>

SubmitTimesOut(b) ==
  /\ sub[b] = "submitting"
  /\ node[b] # "queued" \/ "late_execution" \in Faults
  /\ Goes(b, "checking")
  /\ UNCHANGED <<books, tries, node>>

\* get_block_header_by_height answers for the height of b, with whatever block
\* the chain has there: the answer that it is another's block is a fault.
Header(b) ==
  /\ Height(b) <= Len(main)
  /\ main[Height(b)] = b \/ "foreign_hash" \in Faults

\* credit_block, under the hash of the header.
Credit(b) ==
  /\ LET h == main[Height(b)]
     IN  /\ db' = CreditBlock(db, h, Credits[b])
         /\ height' = [height EXCEPT ![h] = Height(b)]
  /\ Goes(b, "refreshing")
  /\ UNCHANGED <<tries, node>>

\* After a timeout whatever the chain has at the height counts as the block.
CheckAnswers(b) ==
  /\ sub[b] = "checking"
  /\ Header(b)
  /\ Credit(b)

\* The chain does not reach the height, or the header cannot be read.
CheckFails(b) ==
  /\ sub[b] = "checking"
  /\ Height(b) > Len(main) \/ "check_fails" \in Faults
  /\ Goes(b, "lost")
  /\ UNCHANGED <<books, tries, node>>

HashAnswers(b) ==
  /\ sub[b] = "hashing"
  /\ Header(b)
  /\ Credit(b)

\* The header cannot be read; after the last attempt the block is left out of
\* the books, and no template is fetched.
HashMissing(b) ==
  /\ sub[b] = "hashing"
  /\ tries' = [tries EXCEPT ![b] = tries[b] + 1]
  /\ Goes(b, IF tries[b] + 1 < Attempts THEN "hashing" ELSE "skipped")
  /\ UNCHANGED <<books, node>>

-----------------------------------------------------------------------------
(* The node.                                                               *)

\* A block on the tip extends the chain; another is not accepted.
NodeExecutes(b) ==
  /\ node[b] = "queued"
  /\ \/ /\ prev[b] = main
        /\ main' = Append(main, b)
        /\ node' = [node EXCEPT ![b] = "accepted"]
     \/ /\ node' = [node EXCEPT ![b] = "rejected"]
        /\ UNCHANGED main
  /\ UNCHANGED <<books, mined, reorgs, template, prev, sub, tries, asked, crashes>>

\* c grows by n blocks of others.
Mine(c, n) ==
  /\ mined + n <= MaxForeign
  /\ mined' = mined + n
  /\ main' = c \o [i \in 1..n |-> mined + i]
  /\ UNCHANGED <<books, template, submission, asked, crashes>>

Extend == Mine(main, 1) /\ UNCHANGED reorgs

\* Where another branch may start: below the tip, or on a block of the pool
\* that was replaced.
Branches ==
  {SubSeq(main, 1, n) : n \in 0..(Len(main) - 1)}
    \cup {Append(prev[b], b) : b \in {o \in Own : node[o] = "accepted" /\ ~OnChain(o)}}

\* The part of the chain no reorganisation reaches.
Buried == SubSeq(main, 1, Clamp(Len(main) - MaxReorg))

\* Another branch overtakes the chain.
Reorganise ==
  /\ reorgs < MaxReorgs
  /\ reorgs' = reorgs + 1
  /\ \E c \in Branches :
       /\ IsPrefix(Buried, c)
       /\ Len(c) <= Len(main)
       /\ Mine(c, Len(main) + 1 - Len(c))

NewTip == Extend \/ Reorganise

-----------------------------------------------------------------------------
(* Templates.                                                              *)

Fetching(t) == IF t = Poller THEN TRUE ELSE sub[t] = "refreshing"

\* The node answers get_block_template.
Fetch(t) ==
  /\ Fetching(t)
  /\ fetched[t] = NoTemplate
  /\ fetched' = [fetched EXCEPT ![t] = main]
  /\ UNCHANGED <<books, chain, job, jobs, submission, asked, crashes>>

\* The monotonic guard.
Outdated(t) == Len(fetched[t]) < Len(job)

\* The coroutine that submitted a block ends with its refresh.
EndRefresh(t) ==
  /\ fetched' = [fetched EXCEPT ![t] = NoTemplate]
  /\ sub' = IF t = Poller THEN sub ELSE [sub EXCEPT ![t] = "done"]

Ingest(t) ==
  /\ fetched[t] # NoTemplate
  /\ asked = NoAnswer \/ "slow_answer" \in Faults
  /\ IF Outdated(t)
     THEN UNCHANGED <<job, jobs>>
     ELSE /\ job' = fetched[t]
          /\ jobs' = jobs \cup {fetched[t]}
  /\ EndRefresh(t)
  /\ UNCHANGED <<books, chain, prev, tries, node, asked, crashes>>

\* get_block_template fails; the poll tries again.
RefreshFails(b) ==
  /\ sub[b] = "refreshing"
  /\ fetched[b] = NoTemplate
  /\ Goes(b, "done")
  /\ UNCHANGED <<books, tries, node>>

-----------------------------------------------------------------------------
(* Maturity.                                                               *)

Depth(h) == Len(job) - height[h] + 1

\* Mutation: a mismatch at any depth orphans the block.
VerdictAtOnce(h, hash) ==
  CASE hash \notin {h, NoHash}                     -> OrphanBlock(db, h)
    [] hash \in {h, NoHash} /\ Depth(h) >= Maturity -> MatureBlock(db, h)
    [] OTHER                                        -> db

\* Mutation: a block matures on its depth alone.
VerdictByDepth(h, hash) == IF Depth(h) >= Maturity THEN MatureBlock(db, h) ELSE db

\* Mutation: a block that is not on the chain is left alone.
VerdictNeverOrphans(h, hash) ==
  IF hash \in {h, NoHash} /\ Depth(h) >= Maturity THEN MatureBlock(db, h) ELSE db

\* What the maturity task makes of block h for the hash at its height.
Verdict(h, hash) ==
  CASE hash \notin {h, NoHash} /\ Depth(h) >= Tolerance -> OrphanBlock(db, h)
    [] hash \in {h, NoHash} /\ Depth(h) >= Maturity      -> MatureBlock(db, h)
    [] OTHER                                             -> db

\* The node answers the maturity task with the header of the height of block h.
\* There is none for a height above the tip.
Ask(h) ==
  /\ asked = NoAnswer
  /\ db.status[h] = "immature"
  /\ height[h] <= Len(main)
  /\ \E hash \in {main[height[h]]} \cup IF "empty_hash" \in Faults THEN {NoHash} ELSE {} :
       asked' = <<h, hash>>
  /\ UNCHANGED <<books, chain, template, submission, crashes>>

\* It goes on with the current_height of that moment.
Settle ==
  /\ asked # NoAnswer
  /\ db' = Verdict(asked[1], asked[2])
  /\ asked' = NoAnswer
  /\ UNCHANGED <<height, chain, template, submission, crashes>>

-----------------------------------------------------------------------------
\* The process dies and is started again, with a template on the tip.
Crash ==
  /\ crashes < MaxCrashes
  /\ crashes' = crashes + 1
  /\ sub' = [b \in Own |-> IF sub[b] \in Submitting THEN "dead" ELSE sub[b]]
  /\ fetched' = [t \in Tasks |-> NoTemplate]
  /\ job' = main
  /\ jobs' = {main}
  /\ asked' = NoAnswer
  /\ UNCHANGED <<books, chain, prev, tries, node>>

Submission(b) ==
  \/ SubmitReturns(b) \/ SubmitFails(b) \/ SubmitTimesOut(b)
  \/ CheckAnswers(b) \/ CheckFails(b)
  \/ HashAnswers(b) \/ HashMissing(b)
  \/ RefreshFails(b)

Next ==
  \/ \E b \in Own : Solve(b) \/ Submission(b) \/ NodeExecutes(b)
  \/ NewTip
  \/ \E t \in Tasks : Fetch(t) \/ Ingest(t)
  \/ \E h \in Blocks : Ask(h)
  \/ Settle
  \/ Crash

\* The chain grows, every call is answered or times out, and the maturity task
\* looks at every immature block every 30 seconds, each of them again and
\* again.  A poll does not overtake a header that the maturity task awaits,
\* unless that is slow: hence strong fairness.
Fairness ==
  /\ WF_vars(NewTip)
  /\ WF_vars(Fetch(Poller)) /\ SF_vars(Ingest(Poller))
  /\ \A b \in Own : SF_vars(Ask(b))
  /\ WF_vars(Settle)

Spec == Init /\ [][Next]_vars

FairSpec == Spec /\ Fairness

-----------------------------------------------------------------------------
(* Properties.                                                             *)

TypeOK ==
  /\ db \in Ledger
  /\ height \in [Blocks -> Nat]
  /\ {main, job} \cup jobs \subseteq Chains
  /\ fetched \in [Tasks -> Chains \cup {NoTemplate}]
  /\ prev \in [Own -> Chains]
  /\ sub \in [Own -> SubStates]
  /\ tries \in [Own -> 0..Attempts]
  /\ node \in [Own -> NodeStates]
  /\ asked = NoAnswer \/ asked \in Blocks \X (Blocks \cup {NoHash})
  /\ <<mined, reorgs, crashes>> \in (0..MaxForeign) \X (0..MaxReorgs) \X (0..MaxCrashes)

\* What the miners are owed are the rewards of blocks the pool has on the
\* chain: no block of others, no block that was replaced and no block twice,
\* although blocks are told apart by heights (handle_block_candidate,
\* _maturity_loop).
OwedIsEarned ==
  \A m \in Miners :
    db.owed[m] <= Total([b \in Own |-> Credits[b][m]], {b \in Own : OnChain(b)})

\* A block that was orphaned is not on the chain, nor will it be
\* (_maturity_loop: "orphan_block irreversibly drops the won round's PPLNS
\* credits").
OrphanedStaysOff == \A h \in Blocks : db.status[h] = "orphaned" => ~OnChain(h)

\* The submission of b is not over.
Undecided(b) == sub[b] \in {"submitting", "checking", "hashing"}

\* Every block of the pool on the chain, now or after a reorganisation, is
\* recorded under its own hash once its submission is over.  Two exceptions have
\* no record: a block whose submission died with the process, and one whose hash
\* could not be read (handle_block_candidate: "Verify the chain reached this
\* height before treating it as lost").
WonIsCredited ==
  \A b \in Own :
    OnChain(b) /\ db.status[b] = "none" =>
      Undecided(b) \/ sub[b] \in {"skipped", "dead"}

\* A block that is recorded and that the chain can bury is settled in the end
\* (_maturity_loop).
EventuallySettled ==
  \A b \in Own :
    (db.status[b] = "immature" /\ Height(b) + Max({Maturity, Tolerance}) <= Len(main) + 1)
      ~> db.status[b] # "immature"
=============================================================================
