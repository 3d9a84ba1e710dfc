# testnetpool in TLA+

TLA+ modules, TLC runs and TLAPS proofs for the mining pool in
`src/testnetpool`.  Line numbers are those of `src/testnetpool/*.py`.

## 1. The system

testnetpool is a public mining pool for Bitcoin, Litecoin and Monero test
networks.  One asyncio process runs one pool per coin; a pool talks to its node
by JSON-RPC, to its miners by Stratum, and keeps shares, blocks, balances and
payout intents in SQLite.  All code between two `await`s runs without
interruption, so an interleaving is a choice of which coroutine continues at an
`await`; the admin CLI is a second process on the same database.

| component | state | operations | interacts with | what is hard | what makes it correct |
|---|---|---|---|---|---|
| Accounting (`accounting.py`) | miners, shares, blocks, credits, balances, payouts, pending_payouts; a cache of miner ids | record_share, credit_block, mature_block, orphan_block, begin/set/clear/record payout, sweep_stale, adjust_balance, prune_shares | called by everything below; by the admin CLI from another process | WAL with synchronous=NORMAL: a commit is not on disk; two processes | a transaction is atomic and idempotent: a block is applied once, an intent debited once |
| Payout task (`pool.py` 634-768) | the batch in its locals, the rows it reconciles | reconcile, collect, send, debit, sweep, prune | Accounting, the wallet behind `rpc.py`, the maturity task, the admin CLI | a reply that never comes, an answer that is stale, a crash between broadcast and debit | nobody is paid twice, nobody is debited without a payment, every payment is debited in the end |
| Admin CLI (`admin.py`) | none | resolve, adjust-balance, listings | Accounting, while the pool runs | acts between any two steps of the payout task | resolves what the pool cannot, and nothing it still works on |
| Block rounds (`pool.py` 161-258, 587-632) | blocks and credits; the coroutine of each submission | submit, check the chain after a timeout, credit, mature, orphan | Stratum (the solve), the node (submission, chain), Accounting | timeouts, reorganisations, answers read before and used after an `await` | a block that is won is credited, one that is matured stays on the chain, one that is orphaned stays off |
| Shares and PPLNS (`accounting.py` 188-296, 500-534) | the shares table | record, window, split, prune | Stratum, block rounds, payout task (prune) | integer division, a prune in chunks while shares arrive | the split of a reward adds up to the reward; no row of the window is pruned |
| Job delivery (`pool.py` 290-562, `zmq_listener.py`) | jobs, current job and height, the broadcast sequence, three flags of the ZMQ refresh | poll, long poll, ZMQ refresh, ingest, broadcast, initial work | node, every connection | fetches overtake each other, broadcasts queue at a lock, a burst of notifications | miners end up on the newest job, and never go back to an older one |
| Blocks (`template.py`, `util.py`) | the kept jobs | coinbase, commitment, merkle branch, assembly | node (template, submission), miners (extranonces) | one coinbase in two forms, optional parts, a job older than the current one | the node accepts what the pool submits, and it claims all that the template offers |
| Stratum (`stratum.py`) | per connection: handshake flags, difficulty, duplicate window | subscribe, authorize, suggest, submit, idle check | pool jobs, Accounting, BanManager | an old job that still resolves, work resubmitted under another job, a difficulty that changes while shares are on their way | a solution counts once, and only for the live tip; a difficulty asked for is kept |
| BanManager (`stratum.py`) | slots, strikes, bans | allow, register, unregister, strike | listeners | counts that must be given back whichever way a handler ends | what is counted is what is open |
| HTTP server (`stats.py`) | connections, request times by client | admit, read, limit, answer | browsers, a proxy | sliding windows with a prune and an eviction; peers that stall | no client is answered beyond its limit; every connection ends |
| Monero payouts (`monero_pool.py` 328-525) | as the payout task, and a list of transactions with each intent | as the payout task | the wallet RPC | a send is recognised only by being new in a list | as the payout task, and a batch with a list is resolved |
| Monero rounds (`monero_pool.py` 105-249, 298-326) | blocks under the hash the node has at their height | submit, look the hash up, mature, orphan | monerod | the pool cannot hash its own block | what is owed is on the chain |
| Monero stratum (`monero_stratum.py`) | per connection: jobs; per pool: the duplicate window | login, getjob, submit, broadcast | Monero pool | a result is believed; the same one comes under other jobs and connections | a result is paid once, each miner has the newest work |
| Hub (`hub.py`, `__main__.py`) | a task per coin | start, stop, cancel, clean up | every pool, signals | cancellation at any `await`, a close that waits for miners | coins do not take each other down, nothing is closed under a task that uses it |
| Encodings, config, pages, webhook, QR, self-test | display state | parse, format, notify | pools | formats | no feedback into money |

`PROJECT.json` lists each part with what is modelled of it, and under `hazards`
each place where the code is hard to test, with the properties that watch it.

## 2. The modules

    Sums                                     Sums: amounts over a finite set
      |
    Accounting ----- IdealPayouts            Accounting: one coin's ledger
      |    |  |           :                  IdealPayouts: what payouts promise
      |    |  Payouts ....:                  (refinement mapping in Payouts)
      |    |   |-- MCPayouts
      |    |   `-- PayoutsProofs
      |    |-- MoneroPayouts -- MCMoneroPayouts, MoneroPayoutsProofs
      |    |-- MoneroRounds --- MCMoneroRounds, MoneroRoundsProofs
      |    `-- AccountingProofs              used by these proofs and RoundsProofs
     Pplns                                   Pplns: shares, window, split
      |
     Rounds -- MCRounds
        `----- RoundsProofs

     Delivery ----- DeliveryProofs           templates, broadcasts, handshake
     Shares ------- ServerProofs             one Bitcoin miner's shares
     MoneroShares - MCMoneroShares, MoneroSharesProofs
     Template                                blocks and their parts
     Service ------ MCService, ServerProofs  hub, startup and stop, slots and bans
     Dashboard ---- MCDashboard, ServerProofs  HTTP connections and rate limit

An `MC` module gives constants of a run values that a .cfg cannot express; it
defines nothing else.  Some modules contain operators marked "Mutation": a
definition changed the way a plausible bug would change it, which no other
definition uses.  `PROJECT.json` says which property each of them breaks.

`Shares`, `Service` and `Dashboard` share no state.  One module, `ServerProofs`,
has the proofs about the three, which is why their definitions have different
names (`ServiceSpec`, `DashboardSpec`).

**Accounting** is the ledger of one coin: block status, credits, balances,
amounts paid, and intents.  Each method of class `Accounting` that writes is
one transaction, and one operator from ledgers to ledgers.

**Payouts** is the payout task with everything that acts around it.

| model | code |
|---|---|
| `db`, `disk` | the database as other processes see it, and as a power cut would leave it (WAL, synchronous=NORMAL); `CommitDurably` is a commit with the checkpoint of `_fsync_durable`, `Writeback` the kernel's own |
| `pc` and the task's locals | the `await`s of `_payout_loop`, `_do_payouts` and `_reconcile_pending_payouts`; one action per stretch between two of them |
| `WalletBroadcasts`, `WalletDrops` | the node's wallet, which works off a `sendmany` whether or not the client still waits |
| `ResolvePaid`, `ResolveUnpaid`, `AdjustOwed` | the admin CLI, at any moment |
| `ApplyMaturity` | the maturity task |
| `Crash`, `PowerCut`, `Restart` | the process dies; the machine does; `run` reconciles first |

**IdealPayouts** is the promise: money a miner has earned moves once, from
owed to paid, or to the faucet if it is idle, and never more than was earned.
`Payouts` is shown to implement it (`PaysIdeally`).

**Pplns** has the shares as the sequence of the table's rows and the split as
the code computes it: truncated parts, the fee and the rest to the faucet.

**Rounds** follows a block from its solve to the balances.

| model | code |
|---|---|
| `shares`, `pruned`, `floor` | the shares table; how many rows the prune took; the floor it read once |
| `job`, `jobs` | what the current template builds on, and the templates whose jobs still resolve (`_ingest_template`, `JOB_RETENTION`) |
| `prev`, `finder`, `sub` | per block of the pool: parent, finder, and where its `handle_block_candidate` waits |
| `main`, `node`, `reorgs` | the node: best chain, what became of each submission, reorganisations |
| `asked` | the answer of `getblockhash` the maturity task holds when it continues |
| `Solve`, `SubmitReturns`, `SubmitFails`, `SubmitTimesOut`, `CheckAnswers`, `CheckFails` | `_on_submit` up to the submission, and each way `handle_block_candidate` goes on |
| `Ask`, `Settle` | `_maturity_loop` before and after its `await` |
| `PruneStarts`, `PruneChunk` | `shares_keep_floor`, and one `prune_shares` between two yields |

A chain is a sequence of blocks above a fixed one.  A foreign block is named by
the number of reorganisations before it, so that branches differ where they
part.  A reorganisation replaces at most `MaxReorg` blocks.

**Delivery** follows a tip of the node's chain to the miners.

| model | code |
|---|---|
| `heights`, `notes` | the node: the height of each tip it has had, the present one last; ZMQ messages not yet read |
| `task`, `answer` | where the poll loop and the ZMQ listener are, and the template each has in hand; the long poll is a poll the node answers when it likes |
| `counter`, `current`, `best` | `_job_counter`, the current job, `_best_hash`; `SolveEnds` resets the last |
| `staged`, `queue`, `last` | the job each task is to broadcast, the queue of `_broadcast_lock`, `_last_broadcast_seq` |
| `starting`, `unsent` | the sends `_broadcast` has gathered that are not begun, or not done |
| `handler`, `out`, `sent` | where the coroutine of a connection is, the queue of its `_write_lock`, the last job that went out |
| `IngestDrops`, `IngestBroadcasts`, `IngestQueues` | the three ways `_ingest_template` goes: too old, lock free, lock taken |
| `BroadcastEnds` | the gather is over, at the latest after `SEND_JOB_TIMEOUT`, and closes who was not served |
| `Watch` | the head of `_maturity_loop`: the greatest height, and the alarm |

The template lock is held across no `await`, so that nobody ever waits for it,
and the broadcast lock is reached in the order of the jobs: the test for a
superseded broadcast (`pool.py` 435) never succeeds.  A login that is refused is
answered and changes nothing; it is left out.  `_jobs_sent` and the display
fields are left out too.

**Shares** is a Bitcoin or Litecoin miner between the pool's jobs and the
ledger.  A header is what is hashed: the work of a job and the difficulty its
hash comes out at.

| model | code |
|---|---|
| `jobs`, `made`, `works` | the jobs `_apply_template` keeps; an unchanged template is a new job on the same work |
| `vardiff` | `Vardiff`: the difficulty, the previous one, `_fixed`, the floor of the password, the shares since it was set |
| `quiet`, `IdleCheck` | the time since the last share, as ticks, and `_vardiff_loop` |
| `RetargetTo`, `SetFixed`, `Authorize`, `SuggestDifficulty` | what changes a difficulty; a retarget may come to any difficulty of the band |
| `knows`, `news`, `Learns` | the difficulty the miner's shares are aimed at, which it learns some time after it was sent |
| `seen`, `entered` | the duplicate window of `_on_submit`; the history of all that went in |
| `SubmitUnknown` ... `SubmitBlock`, `SolveEnds` | every way `_on_submit` ends, in the order of its checks; a block waits for `handle_block_candidate` |
| `Reject`, `Flooding` | `MinerConnection.reject` and the flood guard |

**MoneroPayouts** is `Payouts` with the other wallet: the list of transactions
that is kept with an intent (`snap`), the list after (`after`), and the
attribution of what is new to the batch.  Durability is the subject of
`Payouts`; here a commit is final.

| model | code |
|---|---|
| `ReconcileKnown`, `ReconcileAsks`, `ReconcileDiffs` and the rows that stay | `_reconcile_pending_payouts`: a txid, the list it fetches at the first row that needs it, the difference |
| `before`, `cand`, `cur` and the stages of `pc` | `_do_payouts` between its `await`s |
| `Listed` | `_outgoing_txids`, which may fail at any time |
| `WalletBroadcasts`, `WalletDrops` | the wallet, which takes one request at a time |

**MoneroRounds** is `Rounds` with a block the pool cannot hash: `sub` is where
the coroutine of a submission is, the chain check after a timeout and the
retries for the hash of the height included; `fetched` is the template that each
task (the poll, and each submission that refreshes) has in hand; `Ask` and
`Settle` are the maturity task before and after its `await` for the header
(`asked`), with the verdict by hash and depth.

**MoneroShares** has several connections, their jobs, and the pool's one
duplicate window, keyed on template and result.  `NewTemplate` is
`_refresh_template` with the broadcast, `Login`, `GetJob`, `IdleCheck` and the
`Submit` actions are the handlers of `MoneroConnection`, `CoolsDown` is the end
of the block cooldown.

**Template** compares the blocks of `template.py` with what the node judges them
by.  `ApplyTemplate` is the construction of a job, `Refused` its guards,
`BuildBlock` the assembly; `NodeAccepts` is the reference: a
merkle root computed from the leaves by their positions, the rule for the height in the script, the
witness commitment, the values, and the extension block of Litecoin.  Bytes are
fields and hashes are terms that hold what was hashed, so that two are equal
only if what was hashed is.

**Service** is the process: `stage` is where `run()` of each pool stands,
`Launch`, `Begin`, `ProbeAnswers`, `Template`, `Open`, `Reconcile` lead up,
`PollStops`, `TasksUnwind`, `CloseListener`, `CloseLedger` lead down, `Raise` is
a start that fails; `Stop`, `TimesOut`, `Exit` are `_run` of `__main__.py` with
its five seconds.  Connections come, flood, are dropped and leave
(`StratumServer`, `MinerConnection.handle`), and `held`, `total`, `strikes`,
`banned` are the counts of `BanManager`.

**Dashboard** is the HTTP side: `Admit` lets a socket in, `Request` (which is
`Answer` or `Refuse`), `Probe` and `Malformed` are what `_handle` does with a
request, `Meter` is `HttpRateLimiter.allow` with its prune and its eviction,
`Expires` are the deadlines.  `hits` is the dictionary, its domain the keys it
holds; `order` says which of two of them entered first, for it is the first that is
evicted.

`Payouts`, `Rounds`, `MoneroPayouts`, `MoneroRounds` and `Service` have a
constant `Faults`.  A property is checked, and proved, for the faults it
survives; section 6 says what refutes it under the others.

## 3. Runs

| run | question | result |
|---|---|---|
| `payouts` | two miners, two batches, two blocks, one crash or power cut, one correction; no wallet fault | a payment on chain is on the books, nothing is paid twice, what was sent is debited in the end, and `Payouts` implements `IdealPayouts` |
| `payouts_faults` | one block, with every fault | no two intents name a miner, and nothing is debited that was not broadcast |
| `payouts_find_error` | the query after a timeout fails (`rpc.py` 235) | violation: the intent of a batch on chain is dropped |
| `rounds` | a block, a reorganisation, a crash, a node that is slow, loses replies and fails the check | balances are matured rewards; matured stays on, orphaned stays off; a block on the chain has its record, but for the exceptions below; a recorded block is settled |
| `delivery` | a connection that comes and goes, two tips, two refreshes or solves, fetches that overtake each other | no miner is forgotten, a new tip is told as clean, and every miner ends up on the node's tip |
| `shares` | two jobs, four shares of any luck, two requests, retargets and idle checks between | no header counts twice, pins hold, shares in flight are good, credit moves on with the height, and a miner gone quiet comes down to what it can reach |
| `monero_payouts` | two miners, two batches, failed sends, a wallet out of reach, the operator, a crash | the difference of two lists attributes every transfer, and a batch that can be verified is resolved |
| `monero_rounds` | a block through timeouts and retries, on a chain with two reorganisations and a crash | what is owed is on the chain, orphaned is off it, a block on the chain has its record, and every recorded block is settled |
| `monero_shares` | two connections, two templates, results that come again | a result is paid once, the window is the last results accepted, every miner has the newest job |
| `service` | a Bitcoin and a Monero pool started, failing, stopped; three sockets of two addresses | slots are what is open, nothing is closed under a task, pools come up, a stop ends |
| `template` | zero to five transactions, chains before and after segwit and MWEB, both modes, heights at the edges of the push, old jobs | the node accepts every block, and none leaves money behind |
| `dashboard` | three sockets, one behind a proxy, two slots, two keys | no client is answered beyond its limit, every connection ends |

`payouts_find_error` is the one run that ends in a counterexample.
`find_wallet_tx` answers "" when `listtransactions` fails, as when it finds
nothing (`rpc.py` 235), and `_do_payouts` takes that for "did not broadcast"
(`pool.py` 719-723); `tests/payout.py` 3 says that "a sendmany whose RPC reply
times out must NOT cause a double-pay".

Bounds.

  - *Payouts*: two miners are needed for the faucet to be swept to and for two
    batches to name different miners; two comments for an old intent beside a
    new one; two blocks so that a miner is credited while its batch is in
    flight; one crash, because each restart begins by reconciling every row, so
    that a second one repeats the first from a state it reached.  The budget of 3
    is enough for both miners, for one of them, or for none, by what they are
    owed; `payouts_faults` has one block and budgets of nothing, of part and of all.
  - *Rounds*: `Maturity` 2, `Tolerance` 3 and `MaxReorg` 1 stand in the relation
    of 100, 6 and what the code takes for a "shallow" reorganisation; the chain is
    long enough (4) for a block at height 1 to be matured or orphaned with room
    above it; a window of 2 against 3 shares; a reward that neither the fee nor
    the works divide.  A second block of the pool, sibling or child of the
    first, makes the liveness check too long, and so do the five shares that a
    prune of several chunks with a share in between takes: `PruneKeepsWindow` is
    in no run, and is proved.  The safety properties are proved for any number of
    blocks and shares.
  - *Delivery*: a second tip is enough for an old template to arrive after a new
    one, and it may have the height of the first or the next; two further jobs
    (`MaxExtras`) put one task's broadcast in the queue while the other ingests
    again.  Connections share nothing but the lock, which one that does not read
    holds up like many do.  `MaxDrop` is 0: the height of the chain does not
    decrease (section 6).
  - *Shares*: requests below, in and above the band; lucks below, at and above
    the difficulties and a block; a window of two and four shares, so that one
    returns after it was pushed out and one does not; two jobs, so that one is
    old.  Retention is `MinKept` 1, so that jobs are dropped.
  - *MoneroPayouts*: as *Payouts*, with one crash; the operator may act on any
    batch that the pool left unverifiable.
  - *MoneroRounds*: `Maturity` and `Tolerance` 3, a reorganisation of two blocks,
    so that the block is replaced by another of its height while it is
    immature, and put back; two attempts of five to read the hash.
  - *MoneroShares*: two interchangeable connections (`SYMMETRY`; no property is a
    liveness property), one result of a share and one of a block, three submissions, a window
    of one, so that a result returns after it was pushed out.
  - *Service*: one address with one socket and one with two, a limit of one for
    each and of two for all; each fault occurs in one of the pools or in both,
    except that the startup reconciliation of a `MoneroPool` fails (section 6);
    Python with and without a `wait_closed` that waits.
  - *Template*: the heights 16, 127, 255 and 32767, and the one after each, are
    where the height push changes its form; the tags are one that fits and one
    that is trimmed; up to five transactions give levels of even and odd length
    down to the root.
  - *Dashboard*: two requests per window of two ticks; a third client evicts the
    first.

Deadlock is checked except in `shares`, `monero_shares` and `service`: a
connection that was dropped stays so, and a process ends.  Elsewhere the chain
can stop at its bound, but the maturity tasks, the polls, the payout tasks and
the clock go on.

Fairness.

  - `Payouts`, `MoneroPayouts`: weak fairness of the payout task's steps, of the
    wallet and of a restart, because asyncio runs every ready coroutine, an RPC
    call has a timeout, and the service is restarted by systemd; strong fairness
    of the reconciliation's success, which may fail to come but not for ever.  For
    `Payouts` this presumes that the query finds a transaction that is there,
    while `listtransactions` is asked for the last 100 entries only (`rpc.py`
    225-240): an intent whose transaction is older waits for the operator.
    Nothing is assumed of the operator, of faults, crashes or power cuts.
  - `Rounds`: weak fairness of the chain's growth and of the maturity task's
    verdict; strong fairness of `Ask` for each block, because the task visits
    every immature block once a minute, so that none is passed over for another,
    and of the poll, which another task's template may make needless but not
    for ever.
  - `MoneroRounds`: as `Rounds`, with the poll in two steps, of which the second
    has strong fairness.  Nothing is assumed of submissions.
  - `Delivery`: weak fairness of every ready coroutine, of the next poll and of
    the lock; of the sends of a broadcast and of its end, which
    `SEND_JOB_TIMEOUT` brings about, and of a connection's next line, since one
    that does not read is dropped; strong fairness of the node's answer, because
    a fetch may fail but is tried again.
  - `Shares`: weak fairness of the clock, of the idle check and of the end of a
    block submission, which has a timeout.  Nothing is assumed of the miner.
  - `Service`: weak fairness of the start of the tasks, of each pool's way up
    and down, of the five seconds and of the exit.  Nothing is assumed of
    signals, faults, or peers: they need never disconnect.
  - `Dashboard`: weak fairness of the clock and of the deadlines.

## 4. Theorems

All theorems hold for every value of the constants that satisfies the named
assumptions (`ASSUME`s of the modules, which TLC evaluates in the runs).

`PayoutsProofs`: type correctness, and the six safety properties of `Payouts`.
`OneIntentPerMiner` and `DebitOnlyIfBroadcast` need no assumption about faults;
the others assume `Faults = {}`.  The inductive invariant says where the money
of each batch is: for every comment whether its batch is with the wallet, on
chain, named by an intent, or recorded, and that the database and the disk
agree on it up to what a power cut may take back.  It is needed because the
properties speak of the database alone, and a step of the task acts on locals
that it read before an `await`.

`PaysIdeally`, the refinement, is proved step by step for `Faults = {}`.  The
mapping forgets intents, locals and wallet, and keeps what each miner has been
credited (`Books`: owed and paid together) and which blocks are settled, once in
the database and once on the disk, and what was sent to each miner.  The steps that only move an amount
between an intent, a debit and a balance keep the books, and are stutters; a
broadcast is a step of `IdealPayouts` because the batch is still covered by the
credit on the disk, which `Complete` says of every batch with the wallet; the
sweep takes from an idle miner exactly what it has not been paid.  `IdealInv` adds to the
inductive invariant that an immature block still has the credits it was recorded
with, so that maturity credits what the abstract block was worth.

`MoneroPayoutsProofs`: type correctness and `OneIntentPerMiner` whatever the
faults; `DebitOnlyIfBroadcast` and `BroadcastOnBooks` assume `Faults = {}`.  The
inductive invariant `IInv` adds:

  - `Rows`: an intent names the amounts of a transfer that was handed over, a
    txid is known only of one that is on chain, and a transfer under way has an
    intent.  An intent that came with a list is `Apart`: every other transfer
    on chain is in the list, none is under way, and its own is not in it.  This
    is what makes the difference of two lists tell the one from the other;
  - `Balanced`: what was sent to a miner is what was debited, plus the one batch
    on chain, if any, that is still an intent and names it;
  - `TaskInv`: what the task holds across its awaits is still true: the rows it
    read are resolved to nothing but what they said, the list of the
    reconciliation is what is on chain, and a batch is begun only when no intent
    is left that a list could have resolved.

What the methods of `Accounting` do to a ledger is stated once, in
`AccountingProofs`, for the four proof modules about a ledger.  It also has the
laws of `Total`: that a sum of amounts is an amount, follows its summands, adds
up over the parts of a set, and is bounded by the sum over a larger one.  The
provers cannot use a rule of induction; each law is proved from a smallest
finite set that it fails for, from which one element is taken.  This needs
`TablesFinite`: the tables of a database have finitely many miners and blocks.

`RoundsProofs`: type correctness, `WonIsCredited`, `Solvent`, `MaturedStaysOn`,
`OrphanedStaysOff` and `PruneKeepsWindow`.  The two about a verdict assume that
`slow_answer` is not among the faults, and the last that no other coin writes to
the table (`OtherCoin = {}`); both exceptions are real (section 6).  The verdicts
rest on `MaxReorg < Maturity` and
`MaxReorg + 2 <= Tolerance`: a reorganisation is shallower than a verdict is
deep.  The inductive invariant `IInv`:

  - `Shaped`: the ledger is a record of the right form, with a status for every
    block;
  - `Known`: a block is with the node, or in the database, only once it was
    submitted;
  - `Ordered`: in the chain of the node, in every template and below every
    block of the pool, a block of the pool stands at its own height;
  - `Behind`: the template is not ahead of the chain;
  - `Fresh`: the answer the maturity task holds is about a recorded block, and
    without slow answers it is still true wherever the height is out of reach
    of a reorganisation;
  - `SettledDeep`: without slow answers a verdict was given about a height that
    is buried, and the chain has there what the verdict says.

`Fresh` is the point of the argument, and is what a slow answer breaks.

`WonIsCredited` speaks of the chain, not of what the pool believes, and needs
`LostPutBack`: a block that the node turned down, or did not have on its chain
when it was asked, is off the chain, or a reorganisation put it back.
`OnChainTaken` says that a block on the chain is one the node took, so that the
check found it if it was there; `Placed` and `OutgrowPutsBack` that it comes back
only below blocks that came with a reorganisation, and `PutBackKept` that these
stay as long as the block does.  The theorem needs no assumption about faults,
because the property names what they cost: a block that was given up for a reply
that was cut off, for a check that failed, or for one that came before the node was
done (`missed`), and one whose submission died with the process (`dead`), may
be on the chain without a record.

Money and shares hardly touch the chain, and have an invariant of their own:

  - `Balanced`: the credits of an immature block share out its reward exactly, and
    what is owed is the sum of the rewards that matured.  Its core is
    `SplitPays`: truncated parts of the payable amount never add up to more than
    it, whatever the works are, and the rest goes to the faucet once;
  - `TableInv`: while a prune runs, the floor that it read once leaves a whole
    window: `floor + Window <= pruned + Len(shares)`.  Shares that arrive
    meanwhile only make this easier, which is why a floor that is stale does no
    harm.

`DeliveryProofs`: type correctness, `NoneForgotten`, `CleanOnNewTip`, and
`NoneSuperseded`, which says that the test for a superseded broadcast never
succeeds.  Nothing is assumed but the bounds.  The inductive invariant is
`DeliveryInv`:

  - `LockInv`: the queue of the broadcast lock holds exactly the jobs after the
    last one broadcast, in the order of their numbers, and one task at most has
    the lock;
  - `JobsInv`: of two jobs in a row that anything refers to, the second is clean
    unless it has the tip of the first;
  - `BroadcastsInv` and `HandlerInv`: what may stand in the line of one
    connection, namely one send of the present broadcast and one line of its
    own coroutine;
  - `FollowInv`: behind every job in a subscribed connection's line, and behind
    the one it is at work on, there come the broadcast of the next and the
    current one, be they in the line, in a broadcast or in the queue of the lock.

`NoneForgotten` is the last of these at the head of the line.  It has to be
stated for every position, because the handshake reads the current job before
an `await`, and its line may then stand before or behind a broadcast's.

`MoneroRoundsProofs`: type correctness whatever the faults; `OrphanedStaysOff`
without `slow_answer`; `WonIsCredited` without `late_execution`, `lost_reply`,
`check_fails` and `foreign_hash`; `OwedIsEarned` when headers are of the blocks
they are asked for (without `foreign_hash`, `empty_hash` and `slow_answer`).  The
inductive invariant `IInv`:

  - `Known`: a block is with the node, or in the database, only once it was
    submitted;
  - `Ordered`: each block has one height in every chain that the node or a task of
    the pool holds;
  - `Behind`, `Refreshing`: no template is ahead of the chain; a submission holds
    one only while it refreshes;
  - `Trying`: a coroutine that may still read the hash has an attempt left;
  - `Fresh`: as in `RoundsProofs`, of the header the maturity task holds;
  - `SettledDeep`: without slow answers a verdict was given about a height that
    is buried, and the chain has there what the verdict says;
  - `Accounted`: a block the node took is on record under its own hash, or its
    coroutine is still at it, died, or could not read the hash.  A check that fails
    needs `NewTipLonger` and the heights: the chain never gets shorter, so that
    a height it has reached has a header, and a block that was not executed
    is not the one there.

`Ordered` is what allows the pool to tell its blocks apart by heights, and
`OrphanedStaysOff` holds even if the hash a block was recorded under is
another's.  `OwedIsEarned` adds `Earned`, that what is owed is the credit of
blocks that matured and are the pool's own, and these are on the chain.

`ServerProofs`, about `Shares`: type correctness, `NoDoubleCredit`, `PinHolds`,
`InFlightTolerated` and `CreditMovesOn`.

  - `VardiffInv`: a pin holds; the difficulty the miner aims at is the one in force
    if it has heard of every change, and the previous one if it has missed one
    retarget.
  - `JobsInv`: no job that is kept, and no share that was credited, is for a height
    above the present one.
  - `WindowInv`: the duplicate window is the end of the history of what entered it.

`MoneroSharesProofs`: type correctness, `ResultPaysOnce`, `WindowIsAccepted`,
`NewestJobCurrent` and `CreditMovesOn`, from the same two invariants: `JobsInv`
with the jobs of every connection, and `WindowInv`, in which the window is the end
of the sequence of what was accepted, key by key.

`ServerProofs`, about `Service`: type correctness, `SlotsAreHeld`, and
`CleanlyClosed` if no startup reconciliation of a `MoneroPool` raises
(`Reconciles`), which is the exception of section 6.

  - `SlotInv` counts the handlers of each listener and of each address.  A
    connection that was dropped is still one of them, and every way a handler ends
    takes it out once: this is all that keeps the clamp at 0 in `unregister`
    from hiding a slot that was given back twice.  Nothing is assumed of `Conns`; the
    invariant says that the handlers are finitely many.
  - `StagesInv` says in which stages of `run()` a coin has no task and no listener.
    `CleanlyClosed` alone is not inductive: that nothing is left where the
    database is closed needs that nothing was left when the wait for the miners
    began, and that a start which fails before the clean-up covers it (`Guarded`) has
    nothing to clean up.  A cancellation may bring a coin down with all it has; then
    its database is still open, and stays so.

`ServerProofs`, about `Dashboard`: type correctness, with both caps and the
deadlines; `LimitHolds`, `SocketsCounted` and `KeysBounded`.

  - `LimiterInv` relates what was answered under a key to the hits that count
    (`Covers`): counted from the newest, each answered request has a hit that is no
    older.  It is not enough that there are no fewer hits than answers, because
    time takes them out of the window from the other end; and the two do not
    agree one to one, because a malformed request leaves a hit and no answer.  What a
    prune forgets has no hit in the window, hence no answer (`AgesOfCounts`).
  - `KeyInv` says that `order` is a strict order in which any two keys that are held
    compare.  Among finitely many there is then a first to evict, so that a new
    key never makes the dictionary larger than `MAX_KEYS`.

## 5. What is only model-checked

  - Liveness: `EventuallyDebited`, `EventuallySettled` (two modules),
    `MinersFollowTip`, `QuietHeals`, `EventuallyResolved`, `ComesUp`, `StopEnds`,
    `ConnectionsEnd`.  The proof system has no rule for fairness.
  - `BlocksAreValid` and `NothingUnclaimed`: merkle trees, pushes and sums are built
    over sequences of any length, whose results need induction over data, and the
    provers have no rule for it.

Every other property of the runs is a theorem.

## 6. What the code does beyond what the runs show

What refutes a property under a fault that the passing runs leave out, or what
the code does although a comment says otherwise.

Payouts.  `OneIntentPerMiner` and `DebitOnlyIfBroadcast` hold under every fault.
Each fault refutes `NoDoublePay` and `PaysIdeally`; besides,

| fault | refutes |
|---|---|
| `find_error`, `lost_reply` | `BroadcastOnBooks`, `EventuallyDebited` |
| `late_send`, `hasty_operator`, `checkpoint_fails` | `BroadcastOnBooks`, `IntentBeforeSend`, `EventuallyDebited` |
| `racing_debit` | `IntentCovered` |

  - A batch that the wallet has not executed yet when its send times out
    (`late_send`) is not found by the query, its intent is cleared (`pool.py`
    720-723), and the wallet pays it later.
  - `adjust-balance` debits whatever the payout task does: `admin.py` 8-9
    says that "running them with the pool stopped is cleanest", and no code refuses
    it.  `Settled` is therefore an assumption about
    the operator.  A debit while a round holds the balance (`racing_debit`) leaves
    an intent that the balance no longer covers, so that the miner is paid more
    than it is debited for.
  - An `RPCError` of `sendmany` counts as a rejection (`pool.py` 726-731: "it did
    NOT broadcast").  If the connection breaks after the node executed the call,
    it did (`lost_reply`).
  - An intent that the operator clears as unpaid while its send is in flight
    (`admin.py` 111) is not debited when the send returns: `record_payouts`
    takes the missing intent for a sign that somebody else debited it, although
    `accounting.py` 440-442 says that "the first writer always finds rowcount==1".
    This is `hasty_operator`.
  - `_fsync_durable` swallows a checkpoint that fails or does not finish, and the
    batch is sent all the same (`accounting.py` 377, fault `checkpoint_fails`),
    although `accounting.py` 390 says "intent must be on disk before the caller
    broadcasts".
  - Monero: when the reconciliation cannot reach the wallet but the round that
    follows it can (fault `blind_round`), the next batch is sent beside an
    unresolved one.  Its transaction is then new in the list of the older
    intent too, which is debited for it (`monero_pool.py` 498-500), although the
    docstring (464) says that it "never debits on an UNVERIFIABLE snapshot":
    `DebitOnlyIfBroadcast` fails.

Rounds.

  - A submission that timed out is looked up once (`pool.py` 187).  If the node
    connects the block after that (`late_execution`), or the lookup fails
    (`check_fails`), a block that is won is taken for lost, although the comment
    (174-177) wants to verify "rather than assuming a loss".  So it is after an
    `RPCError` of `submitblock`, though its reply may be all that is missing
    (`lost_reply`).  A block that the node keeps aside is not on the chain when it
    is checked either, hence lost, also if its branch wins later.  These are
    exceptions in `WonIsCredited`.
  - The depth of a block is computed from `current_height` after the `await` for
    its hash (`pool.py` 614).  If templates come in between (fault
    `slow_answer`), an answer from before a reorganisation is judged by a depth
    from after it, and `OrphanedStaysOff` fails.  The Monero pool has the same
    order (`monero_pool.py` 306-310), and `OwedIsEarned` fails with it.
  - A crash between the node's acceptance and `credit_block` leaves no record
    of the block, the other exception.
  - Shares of other connections may be recorded while `submitblock` is awaited;
    with enough of them the finder's own share leaves the window that is split,
    although `stratum.py` 814-815 says that it is in it.
  - The prune counts the most recent rows over all coins in the table
    (`accounting.py` 506), the window over one (263-268).  With two pools on one
    database a quiet coin can lose rows of its window: `PruneKeepsWindow` fails
    for an `OtherCoin` that is not empty.
  - Monero: after a timeout any block at the height counts as the pool's own
    (`monero_pool.py` 184-194), until the maturity task compares hashes with the
    chain's; if that block was a competitor's, they are equal for ever and it is
    credited (fault `foreign_hash`), and the pool's own, if it comes back, has no
    record: `OwedIsEarned` and `WonIsCredited` fail.  The latter also fails under
    `late_execution`, `lost_reply` and `check_fails`, for the reasons above.  A header without a hash falls through to
    the branch that matures a deep block (311, 322; fault `empty_hash`).  A block
    whose hash cannot be read five times is accepted, and not split (203-213).

Shares.

  - `record_share` may raise; the error is caught and logged (`stratum.py` 823-829,
    `monero_stratum.py` 294-298), and the share was accepted before.  It stays in
    the duplicate window and is not in the shares table.  The histories of
    `Shares` and `MoneroShares` are of the shares accepted; what is claimed of them is
    an upper bound of what is paid.
  - A share for a competing block of the current height passes the stale gate,
    which compares heights (`stratum.py` 780-792).  A block is credited at the
    difficulty in force, also if the share was aimed at the previous one.
  - The flood guard looks at the code of the last reject only (`stratum.py` 471),
    although the comment speaks of a "STALE-dominated" flood: one low share
    after many stale ones gets the address a strike, one stale share after
    many duplicates saves it.
  - "A pin happens at authorize/suggest before any work is in flight"
    (`stratum.py` 348-350) does not hold for a suggestion sent later: shares in
    flight are refused.  `InFlightTolerated` therefore counts a pin as news the
    miner has missed more of than one retarget.
  - The idle check halves a difficulty that is above the start, and takes one
    that is pinned below it up to the start (`stratum.py` 296-320).
  - Monero: a second block of one connection within the cooldown is not
    submitted, and its result stays in the duplicate window, so that it cannot
    be submitted again (`monero_stratum.py` 304-306).  The low-difficulty check
    comes before the block check, so that a block below a job's difficulty is
    refused.  `getjob` is answered before a login.

Delivery.

  - When the node's chain is replaced by a shorter one with more work, every
    template is dropped until the new chain outgrows the old height (`pool.py`
    414): the miners stay on the dead tip.  `MinersFollowTip` is therefore
    checked for `MaxDrop = 0`.  For the same reason the alarm for a chain that
    drops deep below the greatest height (`pool.py` 600) never sounds: the
    height it watches cannot fall.
  - A broadcast reaches every subscribed connection, so that one that has not
    authorized is sent work, which `stratum.py` 434-437 says is withheld.
  - Between a broadcast's turn at the lock and the start of its sends, only the
    time that an RPC takes keeps a newer job from being made and given to a
    connection as its first work.  The miner would then go back to the older
    job until the newer one's own broadcast reaches it; `NoneForgotten` says
    that it does.
  - ZMQ notifications are worked off one at a time (`zmq_listener.py` 126), so
    that `_zmq_busy` is never found set and a burst is not coalesced.

Process.

  - If the startup reconciliation of a `MoneroPool` raises, `run` ends before the
    `try` that cleans up, and its listener and its vardiff task stay
    (`monero_pool.py` 579-584): `CleanlyClosed` fails with the fault
    `reconcile_fails` for a Monero coin.
  - Since Python 3.12 `wait_closed` waits for the miners.  A pool that the five
    seconds find in its clean-up skips the rest of it, so that its database is
    not closed.  One that they find in its poll loop only begins to clean up, and
    its wait for the miners has no timeout: the process does not end while they
    stay, the second disjunct of `StopEnds`.  `Hub.run` ends with the first
    cancelled pool, and `asyncio.run` cancels the others once more, in the middle
    of their clean-up.
  - `writer.close()` on a peer that does not read leaves what was not sent, the
    handler and the slot until the peer goes (`pool.py` 579-581, whose comment
    says that it frees the slot).
  - A handler that is waiting when the pool is torn down goes on after the
    database is closed; its error is caught and logged.  A stop that comes
    before `run` has set `_running` is lost.  A first template that a
    `MoneroPool` cannot read ends the coin, where a `Pool` tries again.

Blocks and pages.

  - A template with witness transactions but without a commitment is refused on
    a chain with MWEB only; elsewhere the block would be built, and rejected.
    The guard for a script of more than 100 bytes cannot be reached with the
    lengths the configuration allows.
  - Evicting a client at `MAX_KEYS` forgives its requests; `LimitHolds` speaks
    of the time since.  A limit of zero disables the limiter and is not modelled.

## 7. Not modelled

  - Byte-level encodings and hashes (`coin.py`, `address.py`, `cryptonote.py`,
    `keccak.py`), transport (JSON-RPC, ZMTP frames, HTTP syntax), configuration
    parsing: functions without state, for which tests with vectors say more.  In
    `Template` the value 2^64 of the wrap-around is smaller, and the fields of
    the header that pass through as they came are left out.
  - The pages and statistics (`stats.py` but for its server), webhook, QR codes:
    nothing reads them back into work or money.
  - The cache of miner ids and single statements inside a transaction
    (`accounting.py` 185, 218, 481): a transaction is one step of the ledger.
    Worker rows and best shares are display state.
  - `--force-unpaid` of the admin CLI, which overrides the checks it names.
  - A login that is refused, keepalives, and requests that change nothing.
  - Self-test, tests and tools.

## 8. Open

1. An abstract specification of job delivery, implemented by `Delivery`.  It must
   allow the one step back that section 6 describes (a miner given the newest job
   by its own handshake, and then an older broadcast).
2. The cache of miner ids against transactions that roll back, with two
   processes.
3. `CleanlyClosed` for a `MoneroPool` whose startup reconciliation raises, once its
   clean-up covers it.
