------------------------------- MODULE Service -------------------------------
(***************************************************************************)
(* The process around the coins: how each comes up, serves its miners and  *)
(* goes down (__main__.py: _run; hub.py; rpc.py: await_node_ready;         *)
(* pool.py and monero_pool.py: run, stop), and who holds a connection slot *)
(* of its Stratum listener (stratum.py: BanManager, StratumServer,         *)
(* MinerConnection.handle and reject; monero_stratum.py: the same).        *)
(*                                                                         *)
(* A step is what a coroutine does from one await to the next.  A task     *)
(* that is cancelled sees it at the await it stands at: where each stage   *)
(* of run() goes from there is Cancelled.                                  *)
(*                                                                         *)
(* waits says whether Server.wait_closed waits for the connections of the  *)
(* listener: it does since Python 3.12 and did not in 3.11, and the        *)
(* project runs on both.                                                   *)
(*                                                                         *)
(* Faults names, for each coin, what may go wrong beyond a node that is    *)
(* slow to come up:                                                        *)
(*   wrong_chain      the node is of another chain than the configuration  *)
(*   bad_template     the first template cannot be read                    *)
(*   port_taken       the listener cannot be opened                        *)
(*   reconcile_fails  the database fails the reconciliation at startup     *)
(*   poll_raises      the template task ends with an unexpected exception  *)
(***************************************************************************)
EXTENDS Integers, Sequences, FiniteSets

CONSTANTS
  Coins,         \* the coins of the hub
  Monero,        \* those run by MoneroPool
  Conns,         \* bound: the connections that may be open at a time
  Ips,           \* the addresses they come from
  CoinOf, IpOf,  \* the listener and the address of each connection
  MaxPerIp,      \* max_conns_per_ip, 0: no limit
  MaxTotal,      \* max_conns, 0: no limit
  BanThreshold,  \* ban_threshold, 0: never ban
  BanTime,       \* ban_seconds
  StrikeWindow,  \* strike_window
  Builds,        \* the values waits may have
  Faults         \* the faults of each coin

FaultKinds == {"wrong_chain", "bad_template", "port_taken", "reconcile_fails", "poll_raises"}

ASSUME MoneroIsCoin == Monero \subseteq Coins
ASSUME ConnsPlaced == CoinOf \in [Conns -> Coins] /\ IpOf \in [Conns -> Ips]
ASSUME SlotLimitsNat == {MaxPerIp, MaxTotal, BanThreshold, BanTime, StrikeWindow} \subseteq Nat
ASSUME TimesPositive == BanTime > 0 /\ StrikeWindow > 0
ASSUME BuildsKnown == Builds \subseteq BOOLEAN /\ Builds # {}
ASSUME FaultsKnown == Faults \in [Coins -> SUBSET FaultKinds]

VARIABLES
  main,       \* the process: "serving", asked to stop, cancelled, gone
  waits,      \* whether closing a listener waits for its connections
  hit,        \* the coins the cancellation found at work
  stage,      \* where run() of each coin stands
  running,    \* _running of each coin
  failed,     \* the coins whose run() ended with an exception of its own
  tasks,      \* the background tasks of each coin
  listening,  \* whether the listener of each coin is open
  ledger,     \* whether the database of each coin is open
  conn,       \* the handler of each connection
  held,       \* bans._conns: the slots of each address at each listener
  total,      \* bans._total: the slots of each listener
  strikes,    \* bans._strikes, as the ages of the strikes, oldest first
  banned      \* bans._banned, as the time that is left

process == <<main, waits, hit>>
coins   == <<stage, running, failed, tasks, listening, ledger>>
slots   == <<conn, held, total>>
bans    == <<strikes, banned>>
serviceVars == <<process, coins, slots, bans>>

\* down: run() has returned or raised.
Stages == {"waiting", "new", "probing", "template", "opening", "reconciling",
           "polling", "closing", "draining", "down"}

\* vardiff: only the vardiff task; all: every task asleep; busy: one waits for
\* an answer it will use on the database; cancelled: all are unwinding.
TaskStates == {"none", "vardiff", "all", "busy", "cancelled"}

\* dropped: the pool has closed the transport and forgotten the connection, but
\* what was not sent yet keeps it, and its handler, until the peer takes it.
ConnStates == {"none", "open", "dropped"}

-----------------------------------------------------------------------------
ServiceInit ==
  /\ main = "serving"
  /\ waits \in Builds
  /\ hit = {}
  /\ stage = [c \in Coins |-> "waiting"]
  /\ running = [c \in Coins |-> FALSE]
  /\ failed = {}
  /\ tasks = [c \in Coins |-> "none"]
  /\ listening = [c \in Coins |-> FALSE]
  /\ ledger = [c \in Coins |-> TRUE]
  /\ conn = [k \in Conns |-> "none"]
  /\ held = [c \in Coins |-> [i \in Ips |-> 0]]
  /\ total = [c \in Coins |-> 0]
  /\ strikes = [c \in Coins |-> [i \in Ips |-> << >>]]
  /\ banned = [c \in Coins |-> [i \in Ips |-> 0]]

-----------------------------------------------------------------------------
(* A coin comes up.                                                        *)

Reaches(c, s) == stage' = [stage EXCEPT ![c] = s]

\* The dashboard is up: one task is made for every coin.
Launch ==
  /\ main \in {"serving", "stopping"}
  /\ stage = [c \in Coins |-> "waiting"]
  /\ stage' = [c \in Coins |-> "new"]
  /\ UNCHANGED <<process, running, failed, tasks, listening, ledger, slots, bans>>

\* run() declares the coin running, a stop() that came before it or not.
Begin(c) ==
  /\ stage[c] = "new"
  /\ running' = [running EXCEPT ![c] = TRUE]
  /\ Reaches(c, "probing")
  /\ UNCHANGED <<process, failed, tasks, listening, ledger, slots, bans>>

\* An exception leaves run(): Pool cleans up from the template on, MoneroPool
\* from the template task on.
Guarded(c) ==
  stage[c] \in IF c \in Monero THEN {"polling"}
               ELSE {"template", "opening", "reconciling", "polling"}

\* The finally of run(): no longer running, and the tasks are cancelled.
CleanUp(c) ==
  /\ running' = [running EXCEPT ![c] = FALSE]
  /\ tasks' = [tasks EXCEPT ![c] = IF @ = "none" THEN @ ELSE "cancelled"]
  /\ Reaches(c, "closing")

Raise(c) ==
  /\ failed' = failed \cup {c}
  /\ IF Guarded(c) THEN CleanUp(c)
     ELSE Reaches(c, "down") /\ UNCHANGED <<running, tasks>>
  /\ UNCHANGED <<listening, ledger>>

\* The node answers; until it does, an RPC error is retried for ever.
ProbeAnswers(c) ==
  /\ stage[c] = "probing"
  /\ \/ /\ Reaches(c, "template")
        /\ UNCHANGED <<running, failed, tasks, listening, ledger>>
     \/ "wrong_chain" \in Faults[c] /\ Raise(c)
  /\ UNCHANGED <<process, slots, bans>>

\* await_node_ready repeats an attempt that failed while the coin is running, and
\* gives up between two of them when it was stopped.
GivesUp(c) == stage[c] = "probing" \/ (stage[c] = "template" /\ c \in Monero)

\* Mutation: await_node_ready does not retry.
ProbeGivesUpAtOnce(c) ==
  /\ GivesUp(c)
  /\ Reaches(c, "down")
  /\ UNCHANGED <<process, running, failed, tasks, listening, ledger, slots, bans>>

ProbeGivesUp(c) ==
  /\ GivesUp(c)
  /\ ~running[c]
  /\ Reaches(c, "down")
  /\ UNCHANGED <<process, running, failed, tasks, listening, ledger, slots, bans>>

\* The first template: Pool makes do without it, MoneroPool does not, and looks
\* whether it was stopped meanwhile.
Template(c) ==
  /\ stage[c] = "template"
  /\ \/ /\ Reaches(c, IF c \in Monero /\ ~running[c] THEN "down" ELSE "opening")
        /\ UNCHANGED <<running, failed, tasks, listening, ledger>>
     \/ c \in Monero /\ "bad_template" \in Faults[c] /\ Raise(c)
  /\ UNCHANGED <<process, slots, bans>>

\* The listener, and then the vardiff task.
Open(c) ==
  /\ stage[c] = "opening"
  /\ \/ /\ listening' = [listening EXCEPT ![c] = TRUE]
        /\ tasks' = [tasks EXCEPT ![c] = "vardiff"]
        /\ Reaches(c, "reconciling")
        /\ UNCHANGED <<running, failed, ledger>>
     \/ "port_taken" \in Faults[c] /\ Raise(c)
  /\ UNCHANGED <<process, slots, bans>>

\* The payouts a crash left pending are reconciled, then the maturity and the
\* payout task start.  Pool goes on when that fails.
Reconcile(c) ==
  /\ stage[c] = "reconciling"
  /\ \/ /\ tasks' = [tasks EXCEPT ![c] = "all"]
        /\ Reaches(c, "polling")
        /\ UNCHANGED <<running, failed, listening, ledger>>
     \/ c \in Monero /\ "reconcile_fails" \in Faults[c] /\ Raise(c)
  /\ UNCHANGED <<process, slots, bans>>

-----------------------------------------------------------------------------
(* A coin goes down.                                                       *)

\* The template task sees that the coin was stopped.
PollStops(c) ==
  /\ stage[c] = "polling"
  /\ ~running[c]
  /\ CleanUp(c)
  /\ UNCHANGED <<process, failed, listening, ledger, slots, bans>>

PollRaises(c) ==
  /\ stage[c] = "polling"
  /\ "poll_raises" \in Faults[c]
  /\ Raise(c)
  /\ UNCHANGED <<process, slots, bans>>

\* A background task asks its node or its wallet, and goes on with the answer.
TaskWaits(c) ==
  /\ tasks[c] = "all"
  /\ tasks' = [tasks EXCEPT ![c] = "busy"]
  /\ UNCHANGED <<process, stage, running, failed, listening, ledger, slots, bans>>

TaskGoesOn(c) ==
  /\ tasks[c] = "busy"
  /\ tasks' = [tasks EXCEPT ![c] = "all"]
  /\ UNCHANGED <<process, stage, running, failed, listening, ledger, slots, bans>>

\* The cancelled tasks have unwound, each rolling back what it had under way.
TasksUnwind(c) ==
  /\ tasks[c] = "cancelled"
  /\ tasks' = [tasks EXCEPT ![c] = "none"]
  /\ UNCHANGED <<process, stage, running, failed, listening, ledger, slots, bans>>

Handlers(c) == {k \in Conns : CoinOf[k] = c /\ conn[k] # "none"}

\* Mutation: run() does not wait for the tasks it has cancelled.
CloseListenerAtOnce(c) ==
  /\ stage[c] = "closing"
  /\ listening' = [listening EXCEPT ![c] = FALSE]
  /\ Reaches(c, "draining")
  /\ UNCHANGED <<process, running, failed, tasks, ledger, slots, bans>>

\* gather() has seen the tasks end: the listener is closed.
CloseListener(c) ==
  /\ stage[c] = "closing"
  /\ tasks[c] = "none"
  /\ listening' = [listening EXCEPT ![c] = FALSE]
  /\ Reaches(c, "draining")
  /\ UNCHANGED <<process, running, failed, tasks, ledger, slots, bans>>

\* wait_closed() returns: the database is closed.
CloseLedger(c) ==
  /\ stage[c] = "draining"
  /\ waits => Handlers(c) = {}
  /\ ledger' = [ledger EXCEPT ![c] = FALSE]
  /\ Reaches(c, "down")
  /\ UNCHANGED <<process, running, failed, tasks, listening, slots, bans>>

-----------------------------------------------------------------------------
(* The process goes down.                                                  *)

\* The signal: a coin that has not begun does not notice.
Stop ==
  /\ main = "serving"
  /\ main' = "stopping"
  /\ running' = [c \in Coins |-> FALSE]
  /\ UNCHANGED <<waits, hit, stage, failed, tasks, listening, ledger, slots, bans>>

\* A coin that is cleaning up already skips the rest of it.
Cancelled(c) == IF Guarded(c) THEN "closing" ELSE "down"

\* Mutation: the process waits for the hub without a timeout.
NeverTimesOut == FALSE /\ UNCHANGED serviceVars

\* wait_for gives up on the hub, which passes the cancellation on.
TimesOut ==
  /\ main = "stopping"
  /\ \E c \in Coins : stage[c] # "down"
  /\ main' = "cancelled"
  /\ hit' = {c \in Coins : stage[c] # "down"}
  /\ stage' = [c \in Coins |-> Cancelled(c)]
  /\ running' = [c \in Coins |-> running[c] /\ ~Guarded(c)]
  /\ tasks' = [c \in Coins |->
                 IF Guarded(c) /\ tasks[c] # "none" THEN "cancelled" ELSE tasks[c]]
  /\ UNCHANGED <<waits, failed, listening, ledger, slots, bans>>

\* The hub is done when every coin is, or with the first that the cancellation
\* brought down; asyncio.run then cancels whatever is left and waits for it.
HubDone ==
  \/ \A c \in Coins : stage[c] = "down"
  \/ main = "cancelled" /\ \E c \in hit : stage[c] = "down"

Exit ==
  /\ main # "gone"
  /\ HubDone
  /\ main' = "gone"
  /\ stage' = [c \in Coins |-> "down"]
  /\ tasks' = [c \in Coins |-> "none"]
  /\ listening' = [c \in Coins |-> FALSE]
  /\ conn' = [k \in Conns |-> "none"]
  /\ held' = [c \in Coins |-> [i \in Ips |-> 0]]
  /\ total' = [c \in Coins |-> 0]
  /\ UNCHANGED <<waits, hit, running, failed, ledger, bans>>

-----------------------------------------------------------------------------
(* The connections of a listener.                                          *)

\* BanManager.allow
Allowed(c, i) ==
  /\ banned[c][i] = 0
  /\ MaxTotal > 0 => total[c] < MaxTotal
  /\ MaxPerIp > 0 => held[c][i] < MaxPerIp

\* BanManager.register
Register(c, i) ==
  /\ held' = [held EXCEPT ![c][i] = @ + 1]
  /\ total' = [total EXCEPT ![c] = @ + 1]

\* BanManager.unregister
Unregister(c, i) ==
  /\ held' = [held EXCEPT ![c][i] = IF @ > 0 THEN @ - 1 ELSE 0]
  /\ total' = [total EXCEPT ![c] = IF @ > 0 THEN @ - 1 ELSE 0]

\* _on_client
Connect(k) ==
  /\ conn[k] = "none"
  /\ listening[CoinOf[k]]
  /\ Allowed(CoinOf[k], IpOf[k])
  /\ conn' = [conn EXCEPT ![k] = "open"]
  /\ Register(CoinOf[k], IpOf[k])
  /\ UNCHANGED <<process, coins, bans>>

\* The handler ends: the peer has gone, or stalled in its handshake, or sent a
\* line too long, or nothing but stale shares.
Leave(k) ==
  /\ conn[k] # "none"
  /\ conn' = [conn EXCEPT ![k] = "none"]
  /\ Unregister(CoinOf[k], IpOf[k])
  /\ UNCHANGED <<process, coins, bans>>

\* Mutation: the broadcast gives the slot of a connection it drops back.
DropFreeing(k) ==
  /\ conn[k] = "open"
  /\ tasks[CoinOf[k]] \in {"vardiff", "all", "busy"}
  /\ conn' = [conn EXCEPT ![k] = "dropped"]
  /\ Unregister(CoinOf[k], IpOf[k])
  /\ UNCHANGED <<process, coins, bans>>

\* A job, or a new difficulty, could not be sent in time.
Drop(k) ==
  /\ conn[k] = "open"
  /\ tasks[CoinOf[k]] \in {"vardiff", "all", "busy"}
  /\ conn' = [conn EXCEPT ![k] = "dropped"]
  /\ UNCHANGED <<process, coins, held, total, bans>>

\* BanManager.strike; a strike leaves the list at the end of the window.
Strike(c, i) ==
  LET recent == Append(strikes[c][i], 0)
      full == Len(recent) >= BanThreshold
  IN IF BanThreshold = 0 THEN UNCHANGED bans
     ELSE /\ strikes' = [strikes EXCEPT ![c][i] = IF full THEN << >> ELSE recent]
          /\ banned' = [banned EXCEPT ![c][i] = IF full THEN BanTime ELSE @]

\* A flood of rejected shares that are not stale ends the handler.
Flood(k) ==
  /\ conn[k] = "open"
  /\ Strike(CoinOf[k], IpOf[k])
  /\ conn' = [conn EXCEPT ![k] = "none"]
  /\ Unregister(CoinOf[k], IpOf[k])
  /\ UNCHANGED <<process, coins>>

\* Strikes stand oldest first, so that those that leave the window are in front.
Older(ages) ==
  LET older == [n \in DOMAIN ages |-> ages[n] + 1]
      gone == {n \in DOMAIN older : older[n] >= StrikeWindow}
  IN  SubSeq(older, Cardinality(gone) + 1, Len(older))

BansAge ==
  /\ main # "gone"
  /\ strikes' = [c \in Coins |-> [i \in Ips |-> Older(strikes[c][i])]]
  /\ banned' = [c \in Coins |-> [i \in Ips |->
                  IF banned[c][i] > 0 THEN banned[c][i] - 1 ELSE 0]]
  /\ UNCHANGED <<process, coins, slots>>

-----------------------------------------------------------------------------
Rises(c) ==
  \/ Begin(c) \/ ProbeAnswers(c) \/ ProbeGivesUp(c)
  \/ Template(c) \/ Open(c) \/ Reconcile(c)

\* No fairness for these.
Works(c) == PollRaises(c) \/ TaskWaits(c) \/ TaskGoesOn(c)

CleansUp(c) == PollStops(c) \/ TasksUnwind(c) \/ CloseListener(c) \/ CloseLedger(c)

Serves(k) == Connect(k) \/ Leave(k) \/ Drop(k) \/ Flood(k)

ServiceNext ==
  \/ Launch \/ Stop \/ TimesOut \/ Exit \/ BansAge
  \/ \E c \in Coins : Rises(c) \/ Works(c) \/ CleansUp(c)
  \/ \E k \in Conns : Serves(k)

ServiceSpec == ServiceInit /\ [][ServiceNext]_serviceVars

\* The event loop runs what is ready, the timer of wait_for fires, and every
\* node answers in the end.  Nobody has to stop the process or to disconnect.
ServiceFairness ==
  /\ WF_serviceVars(Launch) /\ WF_serviceVars(TimesOut) /\ WF_serviceVars(Exit)
  /\ \A c \in Coins : WF_serviceVars(Rises(c)) /\ WF_serviceVars(CleansUp(c))

ServiceFairSpec == ServiceSpec /\ ServiceFairness

-----------------------------------------------------------------------------
(* Properties.                                                             *)

ServiceTypeOK ==
  /\ main \in {"serving", "stopping", "cancelled", "gone"}
  /\ waits \in Builds
  /\ hit \subseteq Coins /\ failed \subseteq Coins
  /\ stage \in [Coins -> Stages]
  /\ tasks \in [Coins -> TaskStates]
  /\ {running, listening, ledger} \subseteq [Coins -> BOOLEAN]
  /\ conn \in [Conns -> ConnStates]
  /\ held \in [Coins -> [Ips -> Nat]]
  /\ total \in [Coins -> Nat]
  /\ strikes \in [Coins -> [Ips -> Seq(Nat)]]
  /\ \A c \in Coins, i \in Ips : Len(strikes[c][i]) < BanThreshold \/ strikes[c][i] = << >>
  /\ banned \in [Coins -> [Ips -> 0..BanTime]]

\* A slot of a listener is held by a handler that has not ended, a dropped one
\* included, and the limits hold for all of them (stratum.py: _on_client, whose
\* finally gives the slot back whichever way the handler ends).
SlotsAreHeld ==
  \A c \in Coins :
    /\ total[c] = Cardinality(Handlers(c))
    /\ MaxTotal > 0 => total[c] <= MaxTotal
    /\ \A i \in Ips :
         /\ held[c][i] = Cardinality({k \in Handlers(c) : IpOf[k] = i})
         /\ MaxPerIp > 0 => held[c][i] <= MaxPerIp

\* No task is left to find the database closed, and a coin that failed while the
\* process serves the others leaves no listener and no task behind (pool.py:
\* "instead of leaking a half-started coin", "otherwise it resumes after close()
\* on a dead connection").
CleanlyClosed ==
  \A c \in Coins :
    \/ tasks[c] = "none" /\ ~listening[c]
    \/ ledger[c] /\ (main = "serving" => stage[c] # "down")

\* A coin whose node answers in the end comes up and keeps mining, whatever
\* happens to the other coins, unless it fails itself or the process is asked to
\* stop (hub.py: "One coin's node being down doesn't take the others down").
ComesUp ==
  \A c \in Coins :
    <>[](stage[c] = "polling") \/ <>(c \in failed \/ main = "stopping")

\* A process that was asked to stop ends, unless miners that stay connected keep
\* wait_closed waiting (__main__.py: wait_for with its five seconds).
StopEnds ==
  (main = "stopping" ~> main = "gone")
    \/ []<>(waits /\ \E k \in Conns : conn[k] # "none")
=============================================================================
