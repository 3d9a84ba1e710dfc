------------------------------ MODULE Delivery ------------------------------
(***************************************************************************)
(* How a new tip of the node's chain becomes the work of every miner       *)
(* (pool.py: _apply_template, _broadcast, _ingest_template, _on_zmq_block, *)
(* _poll_loop, and the head of _maturity_loop; stratum.py: _on_subscribe,  *)
(* _on_authorize, _send_initial_work, _send; zmq_listener.py: run).        *)
(*                                                                         *)
(* Two tasks fetch templates, the poll loop and the ZMQ listener, and each *)
(* carries its own template through: it asks the node, ingests what comes  *)
(* back, and broadcasts the job it made of it, one broadcast at a time.    *)
(* Meanwhile connections come, shake hands, are given their first work by  *)
(* their own coroutine, and go.  Ingesting holds the template lock across  *)
(* no await, so that the lock is never seen taken; the broadcast lock is   *)
(* held while the miners read, and hands over in the order of arrival.     *)
(*                                                                         *)
(* A tip is the number of tips the node had before it, plus one: tips that *)
(* compete at one height have different numbers.  A long poll is a poll    *)
(* that the node answers when it likes.                                    *)
(***************************************************************************)
EXTENDS Naturals, Sequences, SequencesExt

CONSTANTS
  Conns,       \* connections that may be open at once
  AlarmDepth,  \* COINBASE_MATURITY
  MaxDrop,     \* how far a new tip may lie below the old one
  MaxTips,     \* bound: tips in a behaviour
  MaxExtras    \* bound: refreshes of an unchanged tip, and solved blocks

ASSUME DepthNat == AlarmDepth \in Nat /\ MaxDrop \in Nat
ASSUME TipsPositive == MaxTips \in Nat \ {0}
ASSUME ExtrasNat == MaxExtras \in Nat

Tasks == {"poll", "zmq"}

VARIABLES
  heights,    \* the height of each tip the node has had, the present one last
  notes,      \* hashblock notifications the listener has not read
  extras,     \* refreshes and solves so far
  counter,    \* _job_counter, and _broadcast_seq, which advances with it
  current,    \* the current job
  best,       \* _best_hash, 0 for ""
  task,       \* where each fetching task is
  answer,     \* the tip of the template each task was given
  staged,     \* the job each task has to broadcast
  queue,      \* the tasks that wait for the broadcast lock
  last,       \* _last_broadcast_seq
  starting,   \* connections whose send in the present broadcast is not begun
  unsent,     \* connections whose send is not finished
  open,       \* the registered connections
  subscribed,
  authorized,
  handler,    \* where the coroutine of each connection is
  out,        \* what waits for each connection's write lock, in order
  sent,       \* the last job each connection was sent
  seen,       \* _max_height_seen
  alarm       \* the operator was warned of a deep reorganisation

nodeVars  == <<heights, notes>>
jobVars   == <<counter, current, best>>
fetchVars == <<task, answer, staged, queue, last>>
castVars  == <<starting, unsent>>
connVars  == <<open, subscribed, authorized, handler>>
lineVars  == <<out, sent>>
watchVars == <<seen, alarm>>
vars == <<nodeVars, extras, jobVars, fetchVars, castVars, connVars, lineVars, watchVars>>

Tip == Len(heights)

\* A job mines on top of its tip.
Job == [id : Nat, tip : Nat, height : Nat, clean : BOOLEAN]
NoJob == [id |-> 0, tip |-> 0, height |-> 0, clean |-> FALSE]

\* An answer to the miner carries no job.
Line == [by : {"handler", "broadcast"}, job : Job]
Answer == [by |-> "handler", job |-> NoJob]

TaskStates == {"asleep", "fetching", "answered", "queued", "broadcasting"}
HandlerStates == {"idle", "subscribing", "authorizing", "difficulty", "work"}

\* run: the first fetch is made before the listener opens.
Init ==
  /\ heights = <<MaxDrop * MaxTips>>
  /\ notes = 0
  /\ extras = 0
  /\ counter = 0
  /\ current = NoJob
  /\ best = 0
  /\ task = [poll |-> "fetching", zmq |-> "asleep"]
  /\ answer = [t \in Tasks |-> 0]
  /\ staged = [t \in Tasks |-> NoJob]
  /\ queue = << >>
  /\ last = 0
  /\ starting = {}
  /\ unsent = {}
  /\ open = {}
  /\ subscribed = {}
  /\ authorized = {}
  /\ handler = [c \in Conns |-> "idle"]
  /\ out = [c \in Conns |-> << >>]
  /\ sent = [c \in Conns |-> NoJob]
  /\ seen = 0
  /\ alarm = FALSE

-----------------------------------------------------------------------------
(* The node.                                                               *)

\* The chain gets a new tip: one block more, or a branch with more work, which
\* need not be longer.  A publisher's message can be lost.
NewTip ==
  /\ Tip < MaxTips
  /\ \E h \in 0..(heights[Tip] + 1) :
       /\ h + MaxDrop >= heights[Tip]
       /\ heights' = Append(heights, h)
  /\ notes' \in {notes, notes + 1}
  /\ UNCHANGED <<extras, jobVars, fetchVars, castVars, connVars, lineVars, watchVars>>

-----------------------------------------------------------------------------
(* The tasks that fetch templates.                                         *)

Fetches(t) ==
  /\ task[t] = "asleep"
  /\ task' = [task EXCEPT ![t] = "fetching"]
  /\ UNCHANGED <<heights, jobVars, answer, staged, queue, last,
                 castVars, connVars, lineVars, watchVars>>

\* The poll finds another best block than that of the last template.
PollFinds ==
  /\ best # Tip
  /\ Fetches("poll")
  /\ UNCHANGED <<notes, extras>>

\* Nothing is new, but ntime and fees are to be refreshed.
PollRefreshes ==
  /\ extras < MaxExtras
  /\ extras' = extras + 1
  /\ Fetches("poll")
  /\ UNCHANGED notes

\* The listener reads a notification, and the next one when it has seen to it.
Notified ==
  /\ notes > 0
  /\ notes' = notes - 1
  /\ Fetches("zmq")
  /\ UNCHANGED extras

NodeAnswers(t) ==
  /\ task[t] = "fetching"
  /\ task' = [task EXCEPT ![t] = "answered"]
  /\ answer' = [answer EXCEPT ![t] = Tip]
  /\ UNCHANGED <<nodeVars, extras, jobVars, staged, queue, last,
                 castVars, connVars, lineVars, watchVars>>

\* RPCError, or a template that cannot be parsed: the task waits for the next
\* occasion.
FetchFails(t) ==
  /\ task[t] = "fetching"
  /\ task' = [task EXCEPT ![t] = "asleep"]
  /\ UNCHANGED <<nodeVars, extras, jobVars, answer, staged, queue, last,
                 castVars, connVars, lineVars, watchVars>>

\* The end of handle_block_candidate: the next poll is to fetch.
SolveEnds ==
  /\ extras < MaxExtras
  /\ extras' = extras + 1
  /\ best' = 0
  /\ UNCHANGED <<nodeVars, counter, current, fetchVars,
                 castVars, connVars, lineVars, watchVars>>

-----------------------------------------------------------------------------
(* Templates and broadcasts.                                               *)

\* Mutation: a template for the same height is out of date, too.
OutdatedOrLevel(tip) == current # NoJob /\ heights[tip] + 1 <= current.height

\* A template is out of date when the one in use is for a greater height.
Outdated(tip) == current # NoJob /\ heights[tip] + 1 < current.height

IngestDrops(t) ==
  /\ task[t] = "answered"
  /\ Outdated(answer[t])
  /\ task' = [task EXCEPT ![t] = "asleep"]
  /\ UNCHANGED <<nodeVars, extras, jobVars, answer, staged, queue, last,
                 castVars, connVars, lineVars, watchVars>>

\* A job is made of the template; it is clean when the tip is another one than
\* that of the last template.
NewJob(tip) ==
  [id |-> counter + 1, tip |-> tip, height |-> heights[tip] + 1, clean |-> tip # best]

Apply(tip) ==
  /\ counter' = counter + 1
  /\ current' = NewJob(tip)
  /\ best' = tip

\* Nobody holds the broadcast lock, and nobody is about to get it.
LockFree == queue = << >> /\ \A t \in Tasks : task[t] # "broadcasting"

\* Task t has the lock and broadcasts job j: to every subscribed connection, or
\* to none and is done.
Broadcast(t, j) ==
  /\ last' = j.id
  /\ starting' = subscribed
  /\ unsent' = subscribed
  /\ task' = [task EXCEPT ![t] = IF subscribed = {} THEN "asleep" ELSE "broadcasting"]

\* The lock is had at once; a job just made is superseded by none.
IngestBroadcasts(t) ==
  /\ task[t] = "answered"
  /\ ~Outdated(answer[t])
  /\ LockFree
  /\ Apply(answer[t])
  /\ staged' = [staged EXCEPT ![t] = NewJob(answer[t])]
  /\ Broadcast(t, NewJob(answer[t]))
  /\ UNCHANGED <<nodeVars, extras, answer, queue, connVars, lineVars, watchVars>>

IngestQueues(t) ==
  /\ task[t] = "answered"
  /\ ~Outdated(answer[t])
  /\ ~LockFree
  /\ Apply(answer[t])
  /\ staged' = [staged EXCEPT ![t] = NewJob(answer[t])]
  /\ task' = [task EXCEPT ![t] = "queued"]
  /\ queue' = Append(queue, t)
  /\ UNCHANGED <<nodeVars, extras, answer, last, castVars, connVars, lineVars, watchVars>>

\* Mutation: a broadcast is superseded by the next one that is staged.
SupersededByStaged(j) == j.id < counter

\* A broadcast is superseded by a later one that has begun.  None ever is: jobs
\* are numbered in the order in which their tasks come to the lock.
Superseded(j) == j.id < last

\* The lock goes to the task that has waited longest.
TakesLock ==
  /\ queue # << >>
  /\ \A t \in Tasks : task[t] # "broadcasting"
  /\ queue' = Tail(queue)
  /\ LET t == Head(queue)
     IN  IF Superseded(staged[t])
         THEN task' = [task EXCEPT ![t] = "asleep"] /\ UNCHANGED <<last, castVars>>
         ELSE Broadcast(t, staged[t])
  /\ UNCHANGED <<nodeVars, extras, jobVars, answer, staged, connVars, lineVars, watchVars>>

\* A send of task t's broadcast begins: it waits for the write lock of the
\* connection behind whatever waits there.
SendStarts(t, c) ==
  /\ task[t] = "broadcasting"
  /\ c \in starting
  /\ starting' = starting \ {c}
  /\ out' = [out EXCEPT ![c] = Append(@, [by |-> "broadcast", job |-> staged[t]])]
  /\ UNCHANGED <<nodeVars, extras, jobVars, fetchVars, unsent, connVars, sent, watchVars>>

\* The connections in s are dropped, with what waited for them.
Close(s) ==
  /\ open' = open \ s
  /\ subscribed' = subscribed \ s
  /\ authorized' = authorized \ s
  /\ handler' = [c \in Conns |-> IF c \in s THEN "idle" ELSE handler[c]]
  /\ out' = [c \in Conns |-> IF c \in s THEN << >> ELSE out[c]]
  /\ sent' = [c \in Conns |-> IF c \in s THEN NoJob ELSE sent[c]]
  /\ starting' = starting \ s
  /\ unsent' = unsent \ s

\* All sends are done, or SEND_JOB_TIMEOUT has run out and those that are not
\* lose their connection.
BroadcastEnds(t) ==
  /\ task[t] = "broadcasting"
  /\ starting = {}
  /\ task' = [task EXCEPT ![t] = "asleep"]
  /\ Close(unsent)
  /\ UNCHANGED <<nodeVars, extras, jobVars, answer, staged, queue, last, watchVars>>

-----------------------------------------------------------------------------
(* The connections.                                                        *)

Connect(c) ==
  /\ c \notin open
  /\ open' = open \cup {c}
  /\ UNCHANGED <<nodeVars, extras, jobVars, fetchVars, castVars,
                 subscribed, authorized, handler, lineVars, watchVars>>

Disconnect(c) ==
  /\ c \in open
  /\ Close({c})
  /\ UNCHANGED <<nodeVars, extras, jobVars, fetchVars, watchVars>>

\* The coroutine of connection c goes on to s, and waits to send line.
Says(c, s, line) ==
  /\ handler' = [handler EXCEPT ![c] = s]
  /\ out' = [out EXCEPT ![c] = Append(@, line)]

Subscribe(c) ==
  /\ c \in open
  /\ handler[c] = "idle"
  /\ Says(c, "subscribing", Answer)
  /\ UNCHANGED <<nodeVars, extras, jobVars, fetchVars, castVars,
                 open, subscribed, authorized, sent, watchVars>>

Authorize(c) ==
  /\ c \in open
  /\ handler[c] = "idle"
  /\ authorized' = authorized \cup {c}
  /\ Says(c, "authorizing", Answer)
  /\ UNCHANGED <<nodeVars, extras, jobVars, fetchVars, castVars,
                 open, subscribed, sent, watchVars>>

\* The first line that waits for connection c is sent; it is by the handler or
\* by a broadcast.
Sends(c, by) ==
  /\ out[c] # << >>
  /\ Head(out[c]).by = by
  /\ UNCHANGED <<nodeVars, extras, jobVars, fetchVars, starting,
                 open, authorized, watchVars>>

BroadcastSent(c) ==
  /\ Sends(c, "broadcast")
  /\ sent' = [sent EXCEPT ![c] = Head(out[c]).job]
  /\ out' = [out EXCEPT ![c] = Tail(@)]
  /\ unsent' = unsent \ {c}
  /\ UNCHANGED <<subscribed, handler>>

\* The coroutine goes on to s, with lines to send after what waits already.
GoesOn(c, s, lines) ==
  /\ handler' = [handler EXCEPT ![c] = s]
  /\ out' = [out EXCEPT ![c] = Tail(@) \o lines]

\* Subscribed or authorized, whichever comes last is given work, the
\* difficulty first.
Welcome(c, complete) ==
  IF complete THEN GoesOn(c, "difficulty", <<Answer>>) ELSE GoesOn(c, "idle", << >>)

\* Mutation: only authorize gives work.
SubscribeReplySentOnly(c) ==
  /\ handler[c] = "subscribing"
  /\ Sends(c, "handler")
  /\ subscribed' = subscribed \cup {c}
  /\ GoesOn(c, "idle", << >>)
  /\ UNCHANGED <<unsent, sent>>

SubscribeReplySent(c) ==
  /\ handler[c] = "subscribing"
  /\ Sends(c, "handler")
  /\ subscribed' = subscribed \cup {c}
  /\ Welcome(c, c \in authorized)
  /\ UNCHANGED <<unsent, sent>>

AuthorizeReplySent(c) ==
  /\ handler[c] = "authorizing"
  /\ Sends(c, "handler")
  /\ Welcome(c, c \in subscribed)
  /\ UNCHANGED <<unsent, sent, subscribed>>

\* The current job is read when the difficulty is out; the work is clean.
DifficultySent(c) ==
  /\ handler[c] = "difficulty"
  /\ Sends(c, "handler")
  /\ IF current = NoJob
     THEN GoesOn(c, "idle", << >>)
     ELSE GoesOn(c, "work",
                 <<[by |-> "handler", job |-> [current EXCEPT !.clean = TRUE]]>>)
  /\ UNCHANGED <<unsent, sent, subscribed>>

WorkSent(c) ==
  /\ handler[c] = "work"
  /\ Sends(c, "handler")
  /\ sent' = [sent EXCEPT ![c] = Head(out[c]).job]
  /\ GoesOn(c, "idle", << >>)
  /\ UNCHANGED <<unsent, subscribed>>

LineSent(c) ==
  \/ BroadcastSent(c) \/ SubscribeReplySent(c) \/ AuthorizeReplySent(c)
  \/ DifficultySent(c) \/ WorkSent(c)

-----------------------------------------------------------------------------
\* The maturity task, before it looks at the blocks: it keeps the greatest
\* height it has seen, and warns when the current one is far below.
Watch ==
  /\ current # NoJob
  /\ \/ /\ current.height > seen
        /\ seen' = current.height
        /\ UNCHANGED alarm
     \/ /\ seen > current.height + AlarmDepth
        /\ alarm' = TRUE
        /\ UNCHANGED seen
  /\ UNCHANGED <<nodeVars, extras, jobVars, fetchVars, castVars, connVars, lineVars>>

Ingest(t) == IngestDrops(t) \/ IngestBroadcasts(t) \/ IngestQueues(t)

Next ==
  \/ NewTip
  \/ PollFinds
  \/ PollRefreshes
  \/ Notified
  \/ SolveEnds
  \/ \E t \in Tasks : NodeAnswers(t)
  \/ \E t \in Tasks : FetchFails(t)
  \/ \E t \in Tasks : Ingest(t)
  \/ TakesLock
  \/ \E t \in Tasks, c \in Conns : SendStarts(t, c)
  \/ \E t \in Tasks : BroadcastEnds(t)
  \/ \E c \in Conns : Connect(c)
  \/ \E c \in Conns : Disconnect(c)
  \/ \E c \in Conns : Subscribe(c)
  \/ \E c \in Conns : Authorize(c)
  \/ \E c \in Conns : LineSent(c)
  \/ Watch

\* Ready coroutines run; the node is polled again and again, and its answers
\* do not fail for ever; a miner reads, or is dropped.
Fairness ==
  /\ WF_vars(PollFinds)
  /\ WF_vars(Notified)
  /\ \A t \in Tasks :
       /\ SF_vars(NodeAnswers(t))
       /\ WF_vars(Ingest(t))
       /\ WF_vars(BroadcastEnds(t))
       /\ WF_vars(\E c \in Conns : SendStarts(t, c))
  /\ WF_vars(TakesLock)
  /\ \A c \in Conns : WF_vars(LineSent(c))
  /\ WF_vars(Watch)

Spec == Init /\ [][Next]_vars

FairSpec == Spec /\ Fairness

-----------------------------------------------------------------------------
(* Properties.                                                             *)

TypeOK ==
  /\ heights \in Seq(Nat)
  /\ {notes, extras, counter, best, last, seen} \subseteq Nat
  /\ current \in Job
  /\ task \in [Tasks -> TaskStates]
  /\ answer \in [Tasks -> Nat]
  /\ staged \in [Tasks -> Job]
  /\ queue \in Seq(Tasks)
  /\ starting \subseteq unsent
  /\ unsent \subseteq subscribed
  /\ subscribed \subseteq open
  /\ authorized \subseteq open
  /\ open \subseteq Conns
  /\ handler \in [Conns -> HandlerStates]
  /\ out \in [Conns -> Seq(Line)]
  /\ sent \in [Conns -> Job]
  /\ alarm \in BOOLEAN

\* A connection that has shaken hands and was given its first work.
Ready(c) == c \in subscribed \cap authorized /\ handler[c] = "idle"

\* The current job is with connection c, or on its way there.
Served(c) ==
  \/ sent[c].id = current.id
  \/ \E i \in DOMAIN out[c] : out[c][i].job.id = current.id
  \/ \E t \in Tasks :
       /\ staged[t] = current
       /\ task[t] = "queued" \/ (task[t] = "broadcasting" /\ c \in starting)

\* No miner is forgotten: whatever the handshake and the broadcasts did to each
\* other, one that is not on the current job has it coming (_send_initial_work,
\* _broadcast: a connection that subscribes after the miners of a broadcast
\* were counted must find the job by itself).
NoneForgotten == \A c \in Conns : Ready(c) => Served(c)

\* When the tip under a miner's work changes, the miner is told to drop its
\* work for the old one, although a refresh of the new tip may be staged
\* before the broadcast that says so goes out (_apply_template, _broadcast).
CleanOnNewTip ==
  [][\A c \in Conns :
       /\ sent[c].id > 0
       /\ sent'[c].id > sent[c].id
       /\ sent'[c].tip # sent[c].tip
       => sent'[c].clean]_vars

\* In the end every miner works on the node's tip, for good, also when the last
\* change was between tips of one height (_poll_loop, _ingest_template).
MinersFollowTip == <>[](\A c \in Conns : Ready(c) => sent[c].tip = Tip)
=============================================================================
