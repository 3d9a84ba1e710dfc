--------------------------- MODULE DeliveryProofs ---------------------------
(***************************************************************************)
(* Proofs about Delivery, for every value of its constants.                *)
(***************************************************************************)
EXTENDS Delivery, SequenceTheorems, TLAPS

-----------------------------------------------------------------------------
(* The inductive invariants behind NoneForgotten and CleanOnNewTip.        *)

\* The broadcast lock: the jobs made are broadcast in the order of their
\* numbers, the waiting ones next, so that none is superseded.
LockInv ==
  /\ current.id = counter
  /\ counter = 0 => current = NoJob
  /\ best \in {0, current.tip}
  /\ heights # << >>
  /\ counter = last + Len(queue)
  /\ \A i \in DOMAIN queue : task[queue[i]] = "queued" /\ staged[queue[i]].id = last + i
  /\ \A t \in Tasks :
       /\ task[t] = "answered" => answer[t] \in 1..Tip
       /\ task[t] = "queued" => \E i \in DOMAIN queue : queue[i] = t
       /\ task[t] = "broadcasting" => staged[t].id = last /\ last > 0
  /\ \A t, u \in Tasks : task[t] = "broadcasting" /\ task[u] = "broadcasting" => t = u
  /\ unsent # {} => \E t \in Tasks : task[t] = "broadcasting"

\* The jobs that anything still refers to.
Known ==
  {current} \cup {staged[t] : t \in Tasks} \cup {sent[c] : c \in Conns}
    \cup UNION {{out[c][i].job : i \in DOMAIN out[c]} : c \in Conns}

\* y may be sent to a miner at work on x.
Succeeds(x, y) == y.tip = x.tip \/ y.clean

\* A job is clean unless it has the tip of the job before.
JobsInv ==
  /\ \A x \in Known : x.id <= counter /\ (x.id = counter => x.tip = current.tip)
  /\ \A x, y \in Known : x.id > 0 /\ y.id = x.id + 1 => Succeeds(x, y)
  /\ \A t \in Tasks : staged[t].id = counter => staged[t] = current

IsBroadcast(line) == line.by = "broadcast"

\* Job number n is still to be broadcast, and connection c is to have it.
ToCome(c, n) ==
  \E t \in Tasks : /\ staged[t].id = n
                   /\ task[t] = "queued" \/ (task[t] = "broadcasting" /\ c \in starting)

\* After position i of its line, connection c has a broadcast of job n coming.
BroadcastAfter(c, i, n) ==
  \/ ToCome(c, n)
  \/ \E k \in DOMAIN out[c] : k > i /\ IsBroadcast(out[c][k]) /\ out[c][k].job.id = n

\* After position i of its line, connection c has job n coming, broadcast or not.
JobAfter(c, i, n) ==
  \/ ToCome(c, n)
  \/ \E k \in DOMAIN out[c] : k > i /\ out[c][k].job.id = n

\* What follows a job at position i of connection c's line, or before it: the
\* broadcast of the next one, and the current one.
Followed(c, i, job) ==
  0 < job.id /\ job.id < counter =>
    BroadcastAfter(c, i, job.id + 1) /\ JobAfter(c, i, counter)

\* One send of the present broadcast may wait for connection c, and none of an
\* earlier one does: those that were not finished lost their connection.
BroadcastsInv(c) ==
  /\ \A i, j \in DOMAIN out[c] : IsBroadcast(out[c][i]) /\ IsBroadcast(out[c][j]) => i = j
  /\ \A i \in DOMAIN out[c] :
       IsBroadcast(out[c][i]) => /\ c \in unsent \ starting
                                 /\ out[c][i].job.id = last
                                 /\ last > 0

\* The coroutine of connection c has at most one line waiting, the work when
\* it is at that; it is clean, and there is none before the subscription.
HandlerInv(c) ==
  /\ \A i, j \in DOMAIN out[c] : ~IsBroadcast(out[c][i]) /\ ~IsBroadcast(out[c][j]) => i = j
  /\ \A i \in DOMAIN out[c] :
       ~IsBroadcast(out[c][i]) =>
         /\ handler[c] # "idle"
         /\ out[c][i].job.id > 0 => out[c][i].job.clean
         /\ handler[c] = "work" <=> out[c][i].job.id > 0
  /\ handler[c] \in {"difficulty", "work"} => c \in subscribed
  /\ c \notin open => handler[c] = "idle" /\ out[c] = << >>
  /\ c \notin subscribed => /\ sent[c].id = 0
                            /\ \A i \in DOMAIN out[c] : out[c][i].job.id = 0

FollowInv(c) ==
  c \in subscribed =>
    /\ Followed(c, 0, sent[c])
    /\ \A i \in DOMAIN out[c] : Followed(c, i, out[c][i].job)

DeliveryInv ==
  /\ TypeOK
  /\ LockInv
  /\ JobsInv
  /\ \A c \in Conns : BroadcastsInv(c) /\ HandlerInv(c) /\ FollowInv(c)
  /\ NoneForgotten

-----------------------------------------------------------------------------
(* Lines of messages.                                                      *)

LEMMA NoJobType == NoJob \in Job /\ Answer \in Line
BY DEF NoJob, Answer, Job, Line

\* One more at the end.
LEMMA Appended ==
  ASSUME NEW S, NEW s \in Seq(S), NEW x \in S
  PROVE  /\ Append(s, x) \in Seq(S)
         /\ DOMAIN s = 1..Len(s) /\ Len(s) \in Nat
         /\ Len(Append(s, x)) = Len(s) + 1
         /\ DOMAIN Append(s, x) = 1..(Len(s) + 1)
         /\ \A i \in DOMAIN s : Append(s, x)[i] = s[i]
         /\ Append(s, x)[Len(s) + 1] = x
BY LenProperties, AppendProperties

\* One less at the head.
LEMMA Popped ==
  ASSUME NEW S, NEW s \in Seq(S), s # << >>
  PROVE  /\ Tail(s) \in Seq(S)
         /\ DOMAIN s = 1..Len(s) /\ Len(s) \in Nat \ {0}
         /\ Len(Tail(s)) = Len(s) - 1
         /\ DOMAIN Tail(s) = 1..(Len(s) - 1)
         /\ \A i \in DOMAIN Tail(s) : Tail(s)[i] = s[i + 1]
         /\ Head(s) = s[1] /\ Head(s) \in S
BY LenProperties, HeadTailProperties, EmptySeq

\* The coroutine's own line goes out, and nothing or one more is put behind.
LEMMA GoesOnLine ==
  ASSUME NEW c \in Conns, out \in [Conns -> Seq(Line)], handler \in [Conns -> HandlerStates],
         out[c] # << >>, NEW s \in HandlerStates, NEW x \in Line
  PROVE  /\ GoesOn(c, s, << >>) =>
              /\ out' = [out EXCEPT ![c] = Tail(out[c])]
              /\ handler' = [handler EXCEPT ![c] = s]
         /\ GoesOn(c, s, <<x>>) =>
              /\ out' = [out EXCEPT ![c] = Append(Tail(out[c]), x)]
              /\ handler' = [handler EXCEPT ![c] = s]
<1>1. Tail(out[c]) \in Seq(Line)
  BY Popped
<1>2. Tail(out[c]) \o << >> = Tail(out[c])
  BY <1>1, ConcatEmptySeq
<1>3. Tail(out[c]) \o <<x>> = Append(Tail(out[c]), x)
  BY <1>1, AppendIsConcat
<1> QED
  BY <1>2, <1>3 DEF GoesOn

-----------------------------------------------------------------------------
(* Type correctness.                                                       *)

LEMMA InitType == Init => TypeOK
<1> SUFFICES ASSUME Init PROVE TypeOK
  OBVIOUS
<1>1. heights \in Seq(Nat)
  <2>1. MaxDrop * MaxTips \in Nat
    BY DepthNat, TipsPositive
  <2> QED
    BY <2>1 DEF Init
<1>2. task \in [Tasks -> TaskStates] /\ answer \in [Tasks -> Nat] /\ staged \in [Tasks -> Job]
  BY NoJobType DEF Init, Tasks, TaskStates
<1>3. /\ handler \in [Conns -> HandlerStates]
      /\ out \in [Conns -> Seq(Line)]
      /\ sent \in [Conns -> Job]
  BY NoJobType DEF Init, HandlerStates
<1>4. queue \in Seq(Tasks) /\ current \in Job
  BY NoJobType DEF Init
<1>5. {notes, extras, counter, best, last, seen} \subseteq Nat
  BY DEF Init
<1>6. /\ starting \subseteq unsent /\ unsent \subseteq subscribed
      /\ subscribed \subseteq open /\ authorized \subseteq open
      /\ open \subseteq Conns /\ alarm \in BOOLEAN
  BY DEF Init
<1> QED
  BY <1>1, <1>2, <1>3, <1>4, <1>5, <1>6 DEF TypeOK

\* A job made of a template is one.
LEMMA NewJobType ==
  ASSUME TypeOK, NEW tip \in 1..Tip
  PROVE  NewJob(tip) \in Job
<1>1. heights[tip] \in Nat
  BY DEF TypeOK, Tip
<1>2. (tip # best) \in BOOLEAN /\ tip \in Nat /\ counter + 1 \in Nat
  BY DEF TypeOK
<1> DEFINE clean == tip # best
<1>3. NewJob(tip) = [id |-> counter + 1, tip |-> tip, height |-> heights[tip] + 1,
                     clean |-> clean]
  BY DEF NewJob
<1> HIDE DEF clean
<1> QED
  BY <1>1, <1>2, <1>3 DEF Job, clean

LEMMA CloseType ==
  ASSUME TypeOK, NEW s \in SUBSET Conns, Close(s)
  PROVE  /\ starting' \subseteq unsent' /\ unsent' \subseteq subscribed'
         /\ subscribed' \subseteq open' /\ authorized' \subseteq open'
         /\ open' \subseteq Conns
         /\ handler' \in [Conns -> HandlerStates]
         /\ out' \in [Conns -> Seq(Line)]
         /\ sent' \in [Conns -> Job]
<1>1. << >> \in Seq(Line)
  OBVIOUS
<1>2. starting' \subseteq unsent' /\ unsent' \subseteq subscribed'
      /\ subscribed' \subseteq open' /\ authorized' \subseteq open'
      /\ open' \subseteq Conns
  BY DEF Close, TypeOK
<1>3. handler' \in [Conns -> HandlerStates]
  BY DEF Close, TypeOK, HandlerStates
<1>4. out' \in [Conns -> Seq(Line)]
  BY <1>1 DEF Close, TypeOK
<1>5. sent' \in [Conns -> Job]
  BY NoJobType DEF Close, TypeOK
<1> QED
  BY <1>2, <1>3, <1>4, <1>5

\* What the coroutine of a connection has it do keeps the types.
LEMMA LineSentType ==
  ASSUME TypeOK, NEW c \in Conns, LineSent(c), HandlerInv(c), BroadcastsInv(c)
  PROVE  TypeOK'
<1>0. out[c] # << >>
  BY DEF LineSent, BroadcastSent, SubscribeReplySent, AuthorizeReplySent,
         DifficultySent, WorkSent, Sends
<1>1. /\ Tail(out[c]) \in Seq(Line) /\ Head(out[c]) \in Line /\ Head(out[c]).job \in Job
      /\ Append(Tail(out[c]), Answer) \in Seq(Line)
      /\ Answer \in Line
  <2>1. Tail(out[c]) \in Seq(Line) /\ Head(out[c]) \in Line
    BY <1>0, Popped DEF TypeOK
  <2> QED
    BY <2>1, NoJobType, Appended DEF Line
<1>2. CASE BroadcastSent(c)
  <2>1. c \notin starting
    <3>1. 1 \in DOMAIN out[c] /\ out[c][1] = Head(out[c])
      BY <1>0, Popped DEF TypeOK
    <3> QED
      BY <1>2, <3>1 DEF BroadcastSent, Sends, BroadcastsInv, IsBroadcast
  <2>2. out' \in [Conns -> Seq(Line)] /\ sent' \in [Conns -> Job]
    BY <1>1, <1>2 DEF BroadcastSent, TypeOK
  <2> QED
    BY <1>2, <2>1, <2>2
    DEF BroadcastSent, Sends, TypeOK, nodeVars, jobVars, fetchVars, watchVars
<1>3. ASSUME Sends(c, "handler"), NEW s \in HandlerStates, NEW x \in Line,
             GoesOn(c, s, << >>) \/ GoesOn(c, s, <<x>>)
      PROVE  out' \in [Conns -> Seq(Line)] /\ handler' \in [Conns -> HandlerStates]
  <2>1. out \in [Conns -> Seq(Line)] /\ handler \in [Conns -> HandlerStates]
    BY DEF TypeOK
  <2>2. Append(Tail(out[c]), x) \in Seq(Line)
    BY <1>1, Appended
  <2>3. /\ \/ out' = [out EXCEPT ![c] = Tail(out[c])]
           \/ out' = [out EXCEPT ![c] = Append(Tail(out[c]), x)]
        /\ handler' = [handler EXCEPT ![c] = s]
    BY <1>0, <1>3, <2>1, GoesOnLine
  <2> HIDE DEF HandlerStates
  <2> QED
    BY <1>1, <2>1, <2>2, <2>3
<1>4. ASSUME NEW complete, Welcome(c, complete), Sends(c, "handler")
      PROVE  out' \in [Conns -> Seq(Line)] /\ handler' \in [Conns -> HandlerStates]
  BY <1>1, <1>3, <1>4 DEF Welcome, HandlerStates
<1>5. CASE SubscribeReplySent(c)
  <2>1. c \in open
    BY <1>5 DEF SubscribeReplySent, HandlerInv
  <2>2. out' \in [Conns -> Seq(Line)] /\ handler' \in [Conns -> HandlerStates]
    BY <1>4, <1>5 DEF SubscribeReplySent
  <2> QED
    BY <1>5, <2>1, <2>2
    DEF SubscribeReplySent, Sends, TypeOK, nodeVars, jobVars, fetchVars, watchVars
<1>6. CASE AuthorizeReplySent(c)
  <2>1. out' \in [Conns -> Seq(Line)] /\ handler' \in [Conns -> HandlerStates]
    BY <1>4, <1>6 DEF AuthorizeReplySent
  <2> QED
    BY <1>6, <2>1
    DEF AuthorizeReplySent, Sends, TypeOK, nodeVars, jobVars, fetchVars, watchVars
<1>7. CASE DifficultySent(c)
  <2>1. [by |-> "handler", job |-> [current EXCEPT !.clean = TRUE]] \in Line
    BY DEF TypeOK, Line, Job
  <2>2. out' \in [Conns -> Seq(Line)] /\ handler' \in [Conns -> HandlerStates]
    BY <1>1, <1>3, <1>7, <2>1 DEF DifficultySent, HandlerStates
  <2> QED
    BY <1>7, <2>2
    DEF DifficultySent, Sends, TypeOK, nodeVars, jobVars, fetchVars, watchVars
<1>8. CASE WorkSent(c)
  <2>1. out' \in [Conns -> Seq(Line)] /\ handler' \in [Conns -> HandlerStates]
    BY <1>1, <1>3, <1>8 DEF WorkSent, HandlerStates
  <2> QED
    BY <1>1, <1>8, <2>1
    DEF WorkSent, Sends, TypeOK, nodeVars, jobVars, fetchVars, watchVars
<1> QED
  BY <1>2, <1>5, <1>6, <1>7, <1>8 DEF LineSent

\* A step changes little else than what it is about.
LEMMA NextType ==
  ASSUME TypeOK, LockInv, \A c \in Conns : HandlerInv(c) /\ BroadcastsInv(c), [Next]_vars
  PROVE  TypeOK'
<1> USE DEF nodeVars, jobVars, fetchVars, castVars, connVars, lineVars, watchVars
<1>1. CASE UNCHANGED vars
  BY <1>1 DEF vars, TypeOK
<1>2. CASE NewTip
  <2>1. PICK h \in Nat : heights' = Append(heights, h)
    BY <1>2 DEF NewTip
  <2>2. heights' \in Seq(Nat)
    BY <2>1 DEF TypeOK
  <2>3. notes' \in Nat
    BY <1>2 DEF NewTip, TypeOK
  <2> QED
    BY <1>2, <2>2, <2>3 DEF NewTip, TypeOK
<1>3. CASE PollFinds \/ PollRefreshes \/ Notified
  <2>1. ASSUME NEW t \in Tasks, Fetches(t)
        PROVE  task' \in [Tasks -> TaskStates]
    BY <2>1 DEF Fetches, TypeOK, TaskStates
  <2>2. task' \in [Tasks -> TaskStates]
    BY <1>3, <2>1 DEF PollFinds, PollRefreshes, Notified, Tasks
  <2>3. extras' \in Nat /\ notes' \in Nat
    BY <1>3 DEF PollFinds, PollRefreshes, Notified, TypeOK
  <2> QED
    BY <1>3, <2>2, <2>3 DEF PollFinds, PollRefreshes, Notified, Fetches, TypeOK
<1>4. CASE SolveEnds
  BY <1>4 DEF SolveEnds, TypeOK
<1>5. ASSUME NEW t \in Tasks, NodeAnswers(t) \/ FetchFails(t) \/ IngestDrops(t)
      PROVE  TypeOK'
  <2>1. Tip \in Nat
    BY LenProperties DEF TypeOK, Tip
  <2>2. task' \in [Tasks -> TaskStates] /\ answer' \in [Tasks -> Nat]
    BY <1>5, <2>1 DEF NodeAnswers, FetchFails, IngestDrops, TypeOK, TaskStates
  <2> QED
    BY <1>5, <2>2 DEF NodeAnswers, FetchFails, IngestDrops, TypeOK
<1>6. ASSUME NEW t \in Tasks, IngestBroadcasts(t) \/ IngestQueues(t)
      PROVE  TypeOK'
  <2>1. NewJob(answer[t]) \in Job /\ answer[t] \in Nat
    BY <1>6, NewJobType DEF IngestBroadcasts, IngestQueues, LockInv, TypeOK
  <2>2. /\ counter' \in Nat /\ current' \in Job /\ best' \in Nat
        /\ staged' \in [Tasks -> Job]
    <3>1. /\ counter' = counter + 1 /\ current' = NewJob(answer[t]) /\ best' = answer[t]
          /\ staged' = [staged EXCEPT ![t] = NewJob(answer[t])]
      BY <1>6 DEF IngestBroadcasts, IngestQueues, Apply
    <3> QED
      BY <2>1, <3>1 DEF TypeOK
  <2>3. CASE IngestBroadcasts(t)
    <3>1. NewJob(answer[t]).id \in Nat
      BY <2>1 DEF Job
    <3>2. last' \in Nat /\ starting' = subscribed /\ unsent' = subscribed
          /\ task' \in [Tasks -> TaskStates]
      BY <2>3, <3>1 DEF IngestBroadcasts, Broadcast, TypeOK, TaskStates
    <3> QED
      BY <2>2, <2>3, <3>2 DEF IngestBroadcasts, TypeOK
  <2>4. CASE IngestQueues(t)
    <3>1. queue' \in Seq(Tasks) /\ task' \in [Tasks -> TaskStates]
      BY <2>4 DEF IngestQueues, TypeOK, TaskStates
    <3> QED
      BY <2>2, <2>4, <3>1 DEF IngestQueues, TypeOK
  <2> QED
    BY <1>6, <2>3, <2>4
<1>7. CASE TakesLock
  <2>1. Head(queue) \in Tasks /\ Tail(queue) \in Seq(Tasks)
    BY <1>7, Popped DEF TakesLock, TypeOK
  <2>2. staged[Head(queue)].id \in Nat
    BY <2>1 DEF TypeOK, Job
  <2>3. /\ last' \in Nat /\ task' \in [Tasks -> TaskStates]
        /\ starting' \subseteq unsent' /\ unsent' \subseteq subscribed
    BY <1>7, <2>1, <2>2 DEF TakesLock, Broadcast, TypeOK, TaskStates
  <2> QED
    BY <1>7, <2>1, <2>3 DEF TakesLock, TypeOK
<1>8. ASSUME NEW t \in Tasks, NEW c \in Conns, SendStarts(t, c)
      PROVE  TypeOK'
  <2>1. [by |-> "broadcast", job |-> staged[t]] \in Line
    BY DEF TypeOK, Line
  <2>2. Append(out[c], [by |-> "broadcast", job |-> staged[t]]) \in Seq(Line)
    BY <2>1, Appended DEF TypeOK
  <2>3. out' \in [Conns -> Seq(Line)]
    BY <1>8, <2>2 DEF SendStarts, TypeOK
  <2> QED
    BY <1>8, <2>3 DEF SendStarts, TypeOK
<1>9. ASSUME NEW t \in Tasks, BroadcastEnds(t)
      PROVE  TypeOK'
  <2>1. unsent \in SUBSET Conns /\ Close(unsent)
    BY <1>9 DEF BroadcastEnds, TypeOK
  <2>2. task' \in [Tasks -> TaskStates]
    BY <1>9 DEF BroadcastEnds, TypeOK, TaskStates
  <2> QED
    BY <1>9, <2>1, <2>2, CloseType DEF BroadcastEnds, TypeOK
<1>10. ASSUME NEW c \in Conns, Connect(c)
       PROVE  TypeOK'
  BY <1>10 DEF Connect, TypeOK
<1>11. ASSUME NEW c \in Conns, Disconnect(c)
       PROVE  TypeOK'
  <2>1. {c} \in SUBSET Conns /\ Close({c})
    BY <1>11 DEF Disconnect
  <2> QED
    BY <1>11, <2>1, CloseType DEF Disconnect, TypeOK
<1>12. ASSUME NEW c \in Conns, Subscribe(c) \/ Authorize(c)
       PROVE  TypeOK'
  <2>1. Append(out[c], Answer) \in Seq(Line)
    BY NoJobType, Appended DEF TypeOK
  <2>2. out' \in [Conns -> Seq(Line)] /\ handler' \in [Conns -> HandlerStates]
    BY <1>12, <2>1 DEF Subscribe, Authorize, Says, TypeOK, HandlerStates
  <2> QED
    BY <1>12, <2>2 DEF Subscribe, Authorize, TypeOK
<1>13. ASSUME NEW c \in Conns, LineSent(c)
       PROVE  TypeOK'
  BY <1>13, LineSentType
<1>14. CASE Watch
  <2>1. current.height \in Nat
    BY DEF TypeOK, Job
  <2> QED
    BY <1>14, <2>1 DEF Watch, TypeOK
<1> QED
  BY <1>1, <1>2, <1>3, <1>4, <1>5, <1>6, <1>7, <1>8, <1>9, <1>10, <1>11, <1>12,
     <1>13, <1>14 DEF Next, Ingest
-----------------------------------------------------------------------------
(* The broadcast lock.                                                     *)

LEMMA InitLock == Init => LockInv
<1> SUFFICES ASSUME Init PROVE LockInv
  OBVIOUS
<1>1. /\ queue = << >> /\ Len(queue) = 0 /\ DOMAIN queue = {}
      /\ heights # << >>
      /\ current = NoJob /\ counter = 0 /\ best = 0 /\ last = 0 /\ unsent = {}
      /\ \A t \in Tasks : task[t] \in {"fetching", "asleep"}
  BY DEF Init, Tasks
<1> QED
  BY <1>1 DEF LockInv, NoJob

\* The queue, as a sequence.
LEMMA QueueIs ==
  ASSUME TypeOK
  PROVE  DOMAIN queue = 1..Len(queue) /\ Len(queue) \in Nat
BY LenProperties DEF TypeOK

\* The job that is made next, and what is known of it.
LEMMA Made ==
  ASSUME TypeOK, LockInv, NEW t \in Tasks, IngestBroadcasts(t) \/ IngestQueues(t)
  PROVE  /\ counter' = counter + 1
         /\ current' = NewJob(answer[t])
         /\ NewJob(answer[t]) \in Job
         /\ NewJob(answer[t]).id = counter + 1
         /\ NewJob(answer[t]).tip = answer[t]
         /\ best' = answer[t]
         /\ answer[t] \in 1..Tip
         /\ NewJob(answer[t]).clean \/ answer[t] = current.tip
         /\ staged' = [staged EXCEPT ![t] = NewJob(answer[t])]
<1>1. answer[t] \in 1..Tip
  BY DEF IngestBroadcasts, IngestQueues, LockInv
<1>2. Tip \in Nat
  BY LenProperties DEF TypeOK, Tip
<1>3. NewJob(answer[t]).clean \/ answer[t] = current.tip
  <2>1. CASE answer[t] = best
    BY <1>1, <1>2, <2>1 DEF LockInv
  <2>2. CASE answer[t] # best
    BY <2>2 DEF NewJob
  <2> QED
    BY <2>1, <2>2
<1>4. NewJob(answer[t]).id = counter + 1 /\ NewJob(answer[t]).tip = answer[t]
  BY DEF NewJob
<1> QED
  BY <1>1, <1>3, <1>4, NewJobType DEF IngestBroadcasts, IngestQueues, Apply

\* A task that neither waits for the lock nor has it.
Outside(state) == state \in {"asleep", "fetching", "answered"}

LEMMA NextLock ==
  ASSUME TypeOK, TypeOK', LockInv, [Next]_vars
  PROVE  LockInv'
<1> USE DEF nodeVars, jobVars, fetchVars, castVars, connVars, lineVars, watchVars
<1>0. DOMAIN queue = 1..Len(queue) /\ Len(queue) \in Nat /\ last \in Nat /\ counter \in Nat
  BY QueueIs DEF TypeOK
<1>1. ASSUME UNCHANGED <<heights, current, counter, queue, staged, last>>,
             best' \in {0, best}, unsent' \subseteq unsent,
             \A t \in Tasks :
               \/ task'[t] = task[t] /\ answer'[t] = answer[t]
               \/ /\ Outside(task[t]) /\ Outside(task'[t])
                  /\ task'[t] = "answered" => answer'[t] \in 1..Tip
      PROVE  LockInv'
  <2>1. Tip' = Tip
    BY <1>1 DEF Tip
  <2>2. \A i \in DOMAIN queue : queue[i] \in Tasks /\ task'[queue[i]] = "queued"
    <3>1. \A i \in DOMAIN queue : queue[i] \in Tasks /\ task[queue[i]] = "queued"
      BY <1>0 DEF LockInv, TypeOK
    <3> QED
      BY <1>1, <3>1 DEF Outside
  <2>3. \A t \in Tasks : /\ task'[t] \in {"queued", "broadcasting"} => task'[t] = task[t]
                         /\ task[t] = "broadcasting" => task'[t] = "broadcasting"
                         /\ task'[t] = "answered" => answer'[t] \in 1..Tip
    BY <1>1 DEF LockInv, Outside
  <2> QED
    BY <1>1, <2>1, <2>2, <2>3 DEF LockInv
<1>2. CASE \/ UNCHANGED vars \/ Watch \/ SolveEnds
           \/ \E c \in Conns : Connect(c) \/ Subscribe(c) \/ Authorize(c) \/ LineSent(c)
           \/ \E c \in Conns : Disconnect(c)
           \/ \E t \in Tasks, c \in Conns : SendStarts(t, c)
  <2>1. /\ UNCHANGED <<heights, current, counter, queue, staged, last, task, answer>>
        /\ best' \in {0, best} /\ unsent' \subseteq unsent
    BY <1>2 DEF vars, Watch, SolveEnds, Connect, Subscribe, Authorize, LineSent, BroadcastSent,
       SubscribeReplySent, AuthorizeReplySent, DifficultySent, WorkSent, Sends,
       Disconnect, Close, SendStarts
  <2> QED
    BY <1>1, <2>1
<1>3. CASE NewTip
  <2>1. PICK h \in Nat : heights' = Append(heights, h)
    BY <1>3 DEF NewTip
  <2>2. heights' # << >> /\ Tip \in Nat /\ Tip' = Tip + 1
    <3>1. heights \in Seq(Nat)
      BY DEF TypeOK
    <3>2. /\ Append(heights, h) # << >> /\ Len(heights) \in Nat
          /\ Len(Append(heights, h)) = Len(heights) + 1
      BY <3>1, Appended, AppendProperties
    <3> QED
      BY <2>1, <3>2 DEF Tip
  <2>3. \A t \in Tasks : answer[t] \in 1..Tip => answer[t] \in 1..Tip'
    BY <2>2
  <2> QED
    BY <1>3, <2>2, <2>3 DEF NewTip, LockInv
<1>4. CASE PollFinds \/ PollRefreshes \/ Notified
  <2>1. PICK t \in Tasks : Fetches(t)
    BY <1>4 DEF PollFinds, PollRefreshes, Notified, Tasks
  <2>2. \A u \in Tasks : task'[u] = task[u] \/ (Outside(task[u]) /\ task'[u] = "fetching")
    BY <2>1 DEF Fetches, TypeOK, Outside
  <2> QED
    BY <1>1, <1>4, <2>1, <2>2 DEF PollFinds, PollRefreshes, Notified, Fetches, Outside
<1>5. ASSUME NEW t \in Tasks, NodeAnswers(t) \/ FetchFails(t) \/ IngestDrops(t)
      PROVE  LockInv'
  <2>1. Tip \in 1..Tip
    BY LenProperties, EmptySeq DEF TypeOK, LockInv, Tip
  <2>2. \A u \in Tasks :
          \/ task'[u] = task[u] /\ answer'[u] = answer[u]
          \/ /\ Outside(task[u]) /\ Outside(task'[u])
             /\ task'[u] = "answered" => answer'[u] \in 1..Tip
    BY <1>5, <2>1 DEF NodeAnswers, FetchFails, IngestDrops, Outside, TypeOK
  <2> QED
    BY <1>1, <1>5, <2>2 DEF NodeAnswers, FetchFails, IngestDrops
<1>6. ASSUME NEW t \in Tasks, IngestBroadcasts(t)
      PROVE  LockInv'
  <2>1. queue = << >> /\ Len(queue) = 0 /\ \A u \in Tasks : task[u] \notin {"queued", "broadcasting"}
    BY <1>0, <1>6 DEF IngestBroadcasts, LockFree, LockInv
  <2>2. /\ task' = [task EXCEPT ![t] = IF subscribed = {} THEN "asleep" ELSE "broadcasting"]
        /\ last' = counter + 1 /\ unsent' = subscribed
        /\ UNCHANGED <<heights, queue, answer>>
    BY <1>6, Made DEF IngestBroadcasts, Broadcast
  <2>3. \A u \in Tasks : /\ task'[u] \notin {"queued", "broadcasting"} \/ u = t
                         /\ task'[u] = "answered" => task[u] = "answered"
    BY <2>1, <2>2 DEF TypeOK
  <2>4. task'[t] # "queued" /\ (unsent' # {} => task'[t] = "broadcasting")
    BY <2>2 DEF TypeOK
  <2>5. staged'[t].id = last' /\ last' > 0
    BY <1>0, <1>6, <2>2, Made DEF TypeOK
  <2>6. Tip' = Tip /\ current'.id = counter' /\ counter' # 0 /\ best' = current'.tip
        /\ counter' = last' + Len(queue')
    BY <1>0, <1>6, <2>1, <2>2, Made DEF Tip
  <2>7. DOMAIN queue' = {}
    BY <2>1, <2>2
  <2> QED
    BY <2>2, <2>3, <2>4, <2>5, <2>6, <2>7 DEF LockInv
<1>7. ASSUME NEW t \in Tasks, IngestQueues(t)
      PROVE  LockInv'
  <2>1. /\ task' = [task EXCEPT ![t] = "queued"]
        /\ queue' = Append(queue, t)
        /\ UNCHANGED <<heights, answer, last, unsent>>
        /\ task[t] = "answered"
    BY <1>7 DEF IngestQueues
  <2>2. /\ Len(queue') = Len(queue) + 1 /\ DOMAIN queue' = 1..(Len(queue) + 1)
        /\ \A i \in DOMAIN queue : queue'[i] = queue[i]
        /\ queue'[Len(queue) + 1] = t
    BY <2>1, Appended DEF TypeOK
  <2>3. \A u \in Tasks : u # t => task'[u] = task[u] /\ staged'[u] = staged[u]
    BY <1>7, <2>1, Made DEF TypeOK
  <2>4. task'[t] = "queued" /\ staged'[t].id = counter + 1
    BY <1>7, <2>1, Made DEF TypeOK
  <2>5. \A i \in DOMAIN queue : queue[i] # t /\ queue[i] \in Tasks
    BY <1>0, <2>1 DEF LockInv, TypeOK
  <2>6. \A i \in DOMAIN queue' : task'[queue'[i]] = "queued" /\ staged'[queue'[i]].id = last' + i
    <3>1. \A i \in DOMAIN queue : task'[queue'[i]] = "queued" /\ staged'[queue'[i]].id = last + i
      BY <2>2, <2>3, <2>5 DEF LockInv
    <3>2. staged'[queue'[Len(queue) + 1]].id = last + (Len(queue) + 1)
      BY <1>0, <2>2, <2>4 DEF LockInv
    <3>3. \A i \in DOMAIN queue' : i \in DOMAIN queue \/ i = Len(queue) + 1
      BY <1>0, <2>2
    <3> QED
      BY <2>1, <2>2, <2>4, <3>1, <3>2, <3>3
  <2>7. \A u \in Tasks : task'[u] = "queued" => \E i \in DOMAIN queue' : queue'[i] = u
    <3>1. Len(queue) + 1 \in DOMAIN queue' /\ DOMAIN queue \subseteq DOMAIN queue'
      BY <1>0, <2>2
    <3> QED
      BY <2>2, <2>3, <3>1 DEF LockInv
  <2>8. Tip' = Tip /\ current'.id = counter' /\ counter' # 0 /\ best' = current'.tip
        /\ counter' = last' + Len(queue')
    BY <1>0, <1>7, <2>1, <2>2, Made DEF Tip, LockInv
  <2>9. \A u \in Tasks : /\ task'[u] = "broadcasting" => task[u] = "broadcasting"
                         /\ task[u] = "broadcasting" => task'[u] = "broadcasting" /\ u # t
                         /\ task'[u] = "answered" => task[u] = "answered"
    BY <2>1 DEF TypeOK
  <2>10. \A u \in Tasks :
           /\ task'[u] = "answered" => answer'[u] \in 1..Tip'
           /\ task'[u] = "broadcasting" => staged'[u].id = last' /\ last' > 0
    BY <2>1, <2>3, <2>8, <2>9 DEF LockInv
  <2>11. /\ \A u, v \in Tasks : task'[u] = "broadcasting" /\ task'[v] = "broadcasting" => u = v
         /\ unsent' # {} => \E u \in Tasks : task'[u] = "broadcasting"
         /\ heights' # << >>
    BY <2>1, <2>9 DEF LockInv
  <2> QED
    BY <2>6, <2>7, <2>8, <2>10, <2>11 DEF LockInv
<1>8. CASE TakesLock
  <2> DEFINE h == Head(queue)
  <2>1. /\ h = queue[1] /\ h \in Tasks /\ Len(queue) \in Nat \ {0}
        /\ queue' = Tail(queue) /\ Len(queue') = Len(queue) - 1
        /\ DOMAIN queue' = 1..(Len(queue) - 1)
        /\ \A i \in DOMAIN queue' : queue'[i] = queue[i + 1]
    BY <1>8, Popped DEF TakesLock, TypeOK
  <2>2. task[h] = "queued" /\ staged[h].id = last + 1
    BY <1>0, <2>1 DEF LockInv
  <2>3. ~Superseded(staged[h])
    BY <1>0, <2>2 DEF Superseded
  <2>4. /\ last' = last + 1 /\ unsent' = subscribed
        /\ task' = [task EXCEPT ![h] = IF subscribed = {} THEN "asleep" ELSE "broadcasting"]
        /\ UNCHANGED <<heights, counter, current, best, answer, staged>>
        /\ \A u \in Tasks : task[u] # "broadcasting"
    BY <1>8, <2>2, <2>3 DEF TakesLock, Broadcast
  <2> HIDE DEF h
  <2>5. \A i, j \in DOMAIN queue : i # j => queue[i] # queue[j]
    BY <1>0 DEF LockInv
  <2>6. \A i \in DOMAIN queue' :
          /\ i + 1 \in DOMAIN queue /\ queue'[i] # h /\ queue'[i] \in Tasks
          /\ task[queue'[i]] = "queued" /\ staged[queue'[i]].id = last + (i + 1)
    <3>1. \A i \in DOMAIN queue' : i + 1 \in DOMAIN queue /\ i + 1 # 1 /\ 1 \in DOMAIN queue
      BY <1>0, <2>1
    <3>2. \A i \in DOMAIN queue : queue[i] \in Tasks
      BY <1>0 DEF TypeOK
    <3> QED
      BY <2>1, <2>5, <3>1, <3>2 DEF LockInv
  <2>7. \A i \in DOMAIN queue' : task'[queue'[i]] = "queued" /\ staged'[queue'[i]].id = last' + i
    <3>1. \A i \in DOMAIN queue' : last + (i + 1) = last' + i
      BY <1>0, <2>1, <2>4
    <3> QED
      BY <2>4, <2>6, <3>1 DEF TypeOK
  <2>8. \A u \in Tasks : u # h => task'[u] = task[u]
    BY <2>4 DEF TypeOK
  <2>9. /\ task'[h] # "queued" /\ task'[h] # "answered"
        /\ task'[h] = "broadcasting" => staged'[h].id = last' /\ last' > 0
        /\ unsent' # {} => task'[h] = "broadcasting"
    BY <1>0, <2>1, <2>2, <2>4 DEF TypeOK
  <2>10. \A u \in Tasks : task'[u] = "queued" => \E i \in DOMAIN queue' : queue'[i] = u
    <3> SUFFICES ASSUME NEW u \in Tasks, task'[u] = "queued"
                 PROVE  \E i \in DOMAIN queue' : queue'[i] = u
      OBVIOUS
    <3>1. u # h /\ task[u] = "queued"
      BY <2>8, <2>9
    <3>2. PICK i \in DOMAIN queue : queue[i] = u
      BY <3>1 DEF LockInv
    <3>3. i # 1 /\ i - 1 \in DOMAIN queue' /\ (i - 1) + 1 = i
      BY <1>0, <2>1, <3>1, <3>2
    <3> QED
      BY <2>1, <3>2, <3>3
  <2>11. counter' = last' + Len(queue') /\ Tip' = Tip
    BY <1>0, <2>1, <2>4 DEF LockInv, Tip
  <2>12. \A u \in Tasks : /\ task'[u] = "answered" => answer'[u] \in 1..Tip'
                          /\ task'[u] = "broadcasting" => u = h
    BY <2>4, <2>8, <2>9, <2>11 DEF LockInv
  <2> QED
    BY <2>1, <2>4, <2>7, <2>9, <2>10, <2>11, <2>12 DEF LockInv
<1>9. ASSUME NEW t \in Tasks, BroadcastEnds(t)
      PROVE  LockInv'
  <2>1. /\ task' = [task EXCEPT ![t] = "asleep"] /\ unsent' = {} /\ task[t] = "broadcasting"
        /\ UNCHANGED <<heights, current, counter, best, queue, staged, last, answer>>
    BY <1>9 DEF BroadcastEnds, Close
  <2>2. \A u \in Tasks : IF u = t THEN task'[u] = "asleep" ELSE task'[u] = task[u]
    BY <2>1 DEF TypeOK
  <2>3. \A i \in DOMAIN queue : queue[i] \in Tasks /\ queue[i] # t
    BY <1>0, <2>1 DEF LockInv, TypeOK
  <2>4. Tip' = Tip
    BY <2>1 DEF Tip
  <2> QED
    BY <2>1, <2>2, <2>3, <2>4 DEF LockInv
<1> QED
  BY <1>2, <1>3, <1>4, <1>5, <1>6, <1>7, <1>8, <1>9 DEF Next, Ingest
-----------------------------------------------------------------------------
(* What the sending of a line does to the line of its connection.          *)

\* The work that the coroutine of a connection finds at this moment.
Work == [by |-> "handler", job |-> [current EXCEPT !.clean = TRUE]]

\* The head of connection c's line goes, and the rest moves up.
Shorter(c) ==
  /\ DOMAIN out'[c] = 1..(Len(out[c]) - 1)
  /\ \A i \in 1..(Len(out[c]) - 1) : out'[c][i] = out[c][i + 1]

\* The same, and x comes to the end.
Renewed(c, x) ==
  /\ DOMAIN out'[c] = 1..Len(out[c])
  /\ \A i \in 1..(Len(out[c]) - 1) : out'[c][i] = out[c][i + 1]
  /\ out'[c][Len(out[c])] = x

\* A broadcast is out; the coroutine has had its say and rests; it has, and
\* goes on to give work; it offers the work; the work is out.
TakesBroadcast(c) ==
  /\ Shorter(c)
  /\ IsBroadcast(out[c][1])
  /\ sent'[c] = out[c][1].job
  /\ unsent' = unsent \ {c}
  /\ handler'[c] = handler[c]
  /\ subscribed' = subscribed

Rests(c) ==
  /\ Shorter(c)
  /\ ~IsBroadcast(out[c][1])
  /\ sent'[c] = sent[c]
  /\ unsent' = unsent
  /\ handler'[c] = "idle"
  /\ subscribed' \in {subscribed, subscribed \cup {c}}
  /\ handler[c] \notin {"idle", "work"}
  /\ c \in subscribed' \cap authorized => current = NoJob

Greets(c) ==
  /\ Renewed(c, Answer)
  /\ ~IsBroadcast(out[c][1])
  /\ sent'[c] = sent[c]
  /\ unsent' = unsent
  /\ handler'[c] = "difficulty"
  /\ subscribed' = subscribed \cup {c}
  /\ handler[c] \in {"subscribing", "authorizing"}

OffersWork(c) ==
  /\ Renewed(c, Work)
  /\ ~IsBroadcast(out[c][1])
  /\ sent'[c] = sent[c]
  /\ unsent' = unsent
  /\ handler'[c] = "work"
  /\ subscribed' = subscribed
  /\ handler[c] = "difficulty"
  /\ current # NoJob

TakesWork(c) ==
  /\ Shorter(c)
  /\ ~IsBroadcast(out[c][1])
  /\ sent'[c] = out[c][1].job
  /\ unsent' = unsent
  /\ handler'[c] = "idle"
  /\ subscribed' = subscribed
  /\ handler[c] = "work"

LEMMA LineSentKinds ==
  ASSUME TypeOK, NEW c \in Conns, LineSent(c), HandlerInv(c)
  PROVE  /\ TakesBroadcast(c) \/ Rests(c) \/ Greets(c) \/ OffersWork(c) \/ TakesWork(c)
         /\ Len(out[c]) \in Nat \ {0} /\ DOMAIN out[c] = 1..Len(out[c])
         /\ UNCHANGED <<counter, current, task, staged, queue, last, starting, open, authorized>>
         /\ \A k \in Conns : k # c => /\ out'[k] = out[k] /\ sent'[k] = sent[k]
                                      /\ handler'[k] = handler[k]
<1>0. out[c] # << >>
  BY DEF LineSent, BroadcastSent, SubscribeReplySent, AuthorizeReplySent,
         DifficultySent, WorkSent, Sends
<1> DEFINE n == Len(out[c])
<1>1. /\ n \in Nat \ {0} /\ DOMAIN out[c] = 1..n
      /\ Tail(out[c]) \in Seq(Line) /\ Head(out[c]) = out[c][1]
      /\ Head(out[c]) \in Line
      /\ DOMAIN Tail(out[c]) = 1..(n - 1) /\ Len(Tail(out[c])) = n - 1
      /\ \A i \in 1..(n - 1) : Tail(out[c])[i] = out[c][i + 1]
  BY <1>0, Popped DEF TypeOK
<1>2. ASSUME NEW x \in Line
      PROVE  /\ DOMAIN Append(Tail(out[c]), x) = 1..n
             /\ \A i \in 1..(n - 1) : Append(Tail(out[c]), x)[i] = out[c][i + 1]
             /\ Append(Tail(out[c]), x)[n] = x
  <2>1. /\ DOMAIN Append(Tail(out[c]), x) = 1..((n - 1) + 1)
        /\ \A i \in 1..(n - 1) : Append(Tail(out[c]), x)[i] = Tail(out[c])[i]
        /\ Append(Tail(out[c]), x)[(n - 1) + 1] = x
    BY <1>1, Appended
  <2>2. (n - 1) + 1 = n
    BY <1>1
  <2> QED
    BY <1>1, <2>1, <2>2
<1>3. out \in [Conns -> Seq(Line)] /\ handler \in [Conns -> HandlerStates] /\ sent \in [Conns -> Job]
  BY DEF TypeOK
<1>4. ASSUME NEW s \in HandlerStates, GoesOn(c, s, << >>)
      PROVE  /\ Shorter(c) /\ handler'[c] = s
             /\ \A k \in Conns : k # c => out'[k] = out[k] /\ handler'[k] = handler[k]
  <2>1. out' = [out EXCEPT ![c] = Tail(out[c])] /\ handler' = [handler EXCEPT ![c] = s]
    BY <1>0, <1>3, <1>4, NoJobType, GoesOnLine
  <2> QED
    BY <1>1, <1>3, <2>1 DEF Shorter
<1>5. ASSUME NEW s \in HandlerStates, NEW x \in Line, GoesOn(c, s, <<x>>)
      PROVE  /\ Renewed(c, x) /\ handler'[c] = s
             /\ \A k \in Conns : k # c => out'[k] = out[k] /\ handler'[k] = handler[k]
  <2>1. out' = [out EXCEPT ![c] = Append(Tail(out[c]), x)] /\ handler' = [handler EXCEPT ![c] = s]
    BY <1>0, <1>3, <1>5, GoesOnLine
  <2> QED
    BY <1>2, <1>3, <2>1 DEF Renewed
<1> HIDE DEF n
<1>6. /\ UNCHANGED <<counter, current, task, staged, queue, last, starting, open, authorized>>
  BY DEF LineSent, BroadcastSent, SubscribeReplySent, AuthorizeReplySent,
         DifficultySent, WorkSent, Sends, jobVars, fetchVars
<1>7. "idle" \in HandlerStates /\ "difficulty" \in HandlerStates /\ "work" \in HandlerStates
  BY DEF HandlerStates
<1>8. CASE BroadcastSent(c)
  <2>1. /\ out' = [out EXCEPT ![c] = Tail(out[c])] /\ sent' = [sent EXCEPT ![c] = out[c][1].job]
        /\ UNCHANGED <<subscribed, handler>> /\ unsent' = unsent \ {c}
        /\ IsBroadcast(out[c][1])
    BY <1>1, <1>8 DEF BroadcastSent, Sends, IsBroadcast
  <2>2. Shorter(c) /\ sent'[c] = out[c][1].job
    BY <1>1, <1>3, <2>1 DEF Shorter, n
  <2> QED
    BY <1>1, <1>3, <1>6, <2>1, <2>2 DEF TakesBroadcast, n
<1>9. CASE SubscribeReplySent(c) \/ AuthorizeReplySent(c)
  <2>1. /\ ~IsBroadcast(out[c][1]) /\ unsent' = unsent /\ sent' = sent
        /\ handler[c] \in {"subscribing", "authorizing"}
    BY <1>1, <1>9 DEF SubscribeReplySent, AuthorizeReplySent, Sends, IsBroadcast
  <2>2. PICK complete :
          /\ Welcome(c, complete)
          /\ \/ subscribed' = subscribed \cup {c} /\ complete = (c \in authorized)
             \/ subscribed' = subscribed /\ complete = (c \in subscribed)
    BY <1>9 DEF SubscribeReplySent, AuthorizeReplySent
  <2>3. CASE complete
    <3>1. GoesOn(c, "difficulty", <<Answer>>)
      BY <2>2, <2>3 DEF Welcome
    <3>2. subscribed' = subscribed \cup {c}
      BY <2>2, <2>3
    <3> QED
      BY <1>1, <1>5, <1>6, <1>7, <2>1, <3>1, <3>2, NoJobType DEF Greets, n
  <2>4. CASE ~complete
    <3>1. GoesOn(c, "idle", << >>)
      BY <2>2, <2>4 DEF Welcome
    <3>2. subscribed' \in {subscribed, subscribed \cup {c}} /\ c \notin subscribed' \cap authorized
      BY <2>2, <2>4
    <3> QED
      BY <1>1, <1>4, <1>6, <1>7, <2>1, <3>1, <3>2 DEF Rests, n
  <2> QED
    BY <2>3, <2>4
<1>10. CASE DifficultySent(c)
  <2>1. /\ ~IsBroadcast(out[c][1]) /\ unsent' = unsent /\ sent' = sent
        /\ handler[c] = "difficulty" /\ subscribed' = subscribed
    BY <1>1, <1>10 DEF DifficultySent, Sends, IsBroadcast
  <2>2. CASE current = NoJob
    <3>1. GoesOn(c, "idle", << >>)
      BY <1>10, <2>2 DEF DifficultySent
    <3> QED
      BY <1>1, <1>4, <1>6, <1>7, <2>1, <2>2, <3>1 DEF Rests, n
  <2>3. CASE current # NoJob
    <3>1. GoesOn(c, "work", <<Work>>)
      BY <1>10, <2>3 DEF DifficultySent, Work
    <3>2. Work \in Line
      BY DEF TypeOK, Line, Job, Work
    <3> QED
      BY <1>1, <1>5, <1>6, <1>7, <2>1, <2>3, <3>1, <3>2 DEF OffersWork, n
  <2> QED
    BY <2>2, <2>3
<1>11. CASE WorkSent(c)
  <2>1. /\ ~IsBroadcast(out[c][1]) /\ unsent' = unsent
        /\ sent' = [sent EXCEPT ![c] = out[c][1].job]
        /\ handler[c] = "work" /\ subscribed' = subscribed
        /\ GoesOn(c, "idle", << >>)
    BY <1>1, <1>11 DEF WorkSent, Sends, IsBroadcast
  <2> QED
    BY <1>1, <1>3, <1>4, <1>6, <1>7, <2>1 DEF TakesWork, n
<1> QED
  BY <1>8, <1>9, <1>10, <1>11 DEF LineSent
-----------------------------------------------------------------------------
(* The jobs that are about.                                                *)

LEMMA KnownIs ==
  ASSUME TypeOK
  PROVE  /\ Known \subseteq Job
         /\ current \in Known
         /\ \A t \in Tasks : staged[t] \in Known
         /\ \A c \in Conns : /\ sent[c] \in Known
                             /\ \A i \in DOMAIN out[c] : out[c][i].job \in Known
<1>1. \A c \in Conns : \A i \in DOMAIN out[c] : out[c][i] \in Line /\ out[c][i].job \in Job
  <2>1. ASSUME NEW c \in Conns, NEW i \in DOMAIN out[c]
        PROVE  out[c][i] \in Line
    BY LenProperties, ElementOfSeq DEF TypeOK
  <2> QED
    BY <2>1 DEF Line
<1> QED
  BY <1>1 DEF Known, TypeOK

LEMMA InitJobs == Init => JobsInv
<1> SUFFICES ASSUME Init PROVE JobsInv
  OBVIOUS
<1>1. Known \subseteq {NoJob}
  <2>1. \A c \in Conns : DOMAIN out[c] = {} /\ sent[c] = NoJob
    BY DEF Init
  <2>2. current = NoJob /\ \A t \in Tasks : staged[t] = NoJob
    BY DEF Init
  <2> QED
    BY <2>1, <2>2 DEF Known
<1>2. counter = 0 /\ current = NoJob /\ \A t \in Tasks : staged[t] = NoJob
  BY DEF Init
<1> QED
  BY <1>1, <1>2 DEF JobsInv, NoJob

\* Nothing but the making of a job brings one about that was not, apart from
\* the work for a connection, which is the current job and clean.
LEMMA NoneMade ==
  ASSUME TypeOK, LockInv, JobsInv, UNCHANGED <<counter, current, staged>>,
         \A c \in Conns : sent'[c] \in Known \cup {NoJob},
         \A c \in Conns : \A i \in DOMAIN out'[c] :
           out'[c][i].job \in Known \cup {NoJob, Work.job}
  PROVE  JobsInv'
<1> DEFINE w == Work.job
<1>1. /\ w.id = current.id /\ w.tip = current.tip /\ w.clean
      /\ NoJob.id = 0 /\ NoJob.tip = 0
  BY DEF Work, NoJob, TypeOK, Job
<1>2. current \in Known /\ Known \subseteq Job /\ counter \in Nat
  BY KnownIs DEF TypeOK
<1>3. Known' \subseteq Known \cup {NoJob, w}
  <2>1. current' \in Known /\ \A t \in Tasks : staged'[t] \in Known
    BY KnownIs
  <2> QED
    BY <2>1 DEF Known
<1> HIDE DEF w
<1>4. \A x \in Known : /\ x.id \in Nat /\ x.id <= counter
                       /\ x.id = counter => x.tip = current.tip
  BY <1>2 DEF JobsInv, Job
<1>5. counter = 0 => current.tip = 0
  BY <1>1 DEF LockInv
<1>6. \A x \in Known \cup {NoJob, w} : x.id <= counter /\ (x.id = counter => x.tip = current.tip)
  BY <1>1, <1>2, <1>4, <1>5 DEF LockInv
<1>7. ASSUME NEW x \in Known \cup {NoJob, w}, NEW y \in Known \cup {NoJob, w},
             x.id > 0, y.id = x.id + 1
      PROVE  Succeeds(x, y)
  <2>1. CASE y = w
    BY <1>1, <2>1 DEF Succeeds
  <2>2. CASE y \in Known /\ x \in Known
    BY <1>7, <2>2 DEF JobsInv
  <2>3. CASE y \in Known /\ x = w
    BY <1>1, <1>2, <1>7, <2>3 DEF JobsInv, Succeeds
  <2>4. y # NoJob /\ x # NoJob
    BY <1>1, <1>2, <1>4, <1>7 DEF LockInv
  <2> QED
    BY <1>7, <2>1, <2>2, <2>3, <2>4
<1> QED
  BY <1>3, <1>6, <1>7 DEF JobsInv, Succeeds

LEMMA NextJobs ==
  ASSUME TypeOK, LockInv, JobsInv, \A c \in Conns : HandlerInv(c), [Next]_vars
  PROVE  JobsInv'
<1> USE DEF nodeVars, jobVars, fetchVars, castVars, connVars, lineVars, watchVars
<1>1. CASE \/ UNCHANGED vars \/ Watch \/ SolveEnds \/ NewTip \/ PollFinds \/ PollRefreshes
           \/ Notified \/ TakesLock
           \/ \E c \in Conns : Connect(c)
           \/ \E t \in Tasks : NodeAnswers(t) \/ FetchFails(t) \/ IngestDrops(t)
  <2>1. UNCHANGED <<counter, current, staged, out, sent>>
    BY <1>1 DEF vars, Watch, SolveEnds, NewTip, PollFinds, PollRefreshes, Notified, Fetches,
       TakesLock, Connect, NodeAnswers, FetchFails, IngestDrops
  <2> QED
    BY <2>1, KnownIs, NoneMade
<1>2. ASSUME NEW t \in Tasks, IngestBroadcasts(t) \/ IngestQueues(t)
      PROVE  JobsInv'
  <2> DEFINE j == NewJob(answer[t])
  <2>1. /\ j.id = counter + 1 /\ j.tip = answer[t] /\ (j.clean \/ answer[t] = current.tip)
        /\ counter' = counter + 1 /\ current' = j
        /\ \A u \in Tasks : staged'[u] = IF u = t THEN j ELSE staged[u]
        /\ UNCHANGED <<out, sent>>
    BY <1>2, Made DEF IngestBroadcasts, IngestQueues, TypeOK
  <2> HIDE DEF j
  <2>2. Known' \subseteq Known \cup {j}
    BY <2>1 DEF Known
  <2>3. counter \in Nat /\ \A x \in Known : x.id \in Nat /\ x.id <= counter
    BY KnownIs DEF JobsInv, TypeOK, Job
  <2>4. \A x \in Known \cup {j} :
          x.id <= counter' /\ (x.id = counter' => x.tip = current'.tip)
    BY <2>1, <2>3
  <2>5. ASSUME NEW x \in Known \cup {j}, NEW y \in Known \cup {j}, x.id > 0, y.id = x.id + 1
        PROVE  Succeeds(x, y)
    <3>1. CASE x \in Known /\ y \in Known
      BY <2>5, <3>1 DEF JobsInv
    <3>2. CASE x \in Known /\ y = j
      <4>1. x.id = counter
        BY <2>1, <2>3, <2>5, <3>2
      <4>2. x.tip = current.tip
        BY <3>2, <4>1 DEF JobsInv
      <4> QED
        BY <2>1, <3>2, <4>2 DEF Succeeds
    <3>3. x # j
      BY <2>1, <2>3, <2>5
    <3> QED
      BY <2>5, <3>1, <3>2, <3>3
  <2>6. \A u \in Tasks : staged'[u].id = counter' => staged'[u] = current'
    BY <2>1, <2>3, KnownIs
  <2> QED
    BY <2>2, <2>4, <2>5, <2>6 DEF JobsInv, Succeeds
<1>3. ASSUME NEW t \in Tasks, NEW c \in Conns, SendStarts(t, c)
      PROVE  JobsInv'
  <2> DEFINE line == [by |-> "broadcast", job |-> staged[t]]
  <2>1. /\ out' = [out EXCEPT ![c] = Append(out[c], line)]
        /\ UNCHANGED <<counter, current, staged, sent>>
    BY <1>3 DEF SendStarts
  <2>2. line \in Line /\ line.job \in Known
    BY KnownIs DEF TypeOK, Line
  <2> HIDE DEF line
  <2>3. \A i \in DOMAIN out'[c] : (i \in DOMAIN out[c] /\ out'[c][i] = out[c][i]) \/ out'[c][i] = line
    BY <2>1, <2>2, Appended DEF TypeOK
  <2>4. \A k \in Conns : k # c => out'[k] = out[k]
    BY <2>1 DEF TypeOK
  <2>5. \A k \in Conns : \A i \in DOMAIN out'[k] : out'[k][i].job \in Known
    BY <2>2, <2>3, <2>4, KnownIs
  <2> QED
    BY <2>1, <2>5, KnownIs, NoneMade
<1>4. ASSUME NEW s \in SUBSET Conns, Close(s), UNCHANGED <<counter, current, staged>>
      PROVE  JobsInv'
  <2>1. \A k \in Conns : /\ sent'[k] \in {sent[k], NoJob}
                         /\ out'[k] = out[k] \/ out'[k] = << >>
    BY <1>4 DEF Close
  <2>2. DOMAIN << >> = {}
    OBVIOUS
  <2>3. \A k \in Conns : \A i \in DOMAIN out'[k] : out'[k][i].job \in Known
    BY <2>1, <2>2, KnownIs
  <2> QED
    BY <1>4, <2>1, <2>3, KnownIs, NoneMade
<1>5. ASSUME NEW c \in Conns, Disconnect(c)
      PROVE  JobsInv'
  BY <1>4, <1>5 DEF Disconnect
<1>6. ASSUME NEW t \in Tasks, BroadcastEnds(t)
      PROVE  JobsInv'
  BY <1>4, <1>6 DEF BroadcastEnds, TypeOK
<1>7. ASSUME NEW c \in Conns, Subscribe(c) \/ Authorize(c)
      PROVE  JobsInv'
  <2>1. /\ out' = [out EXCEPT ![c] = Append(out[c], Answer)]
        /\ UNCHANGED <<counter, current, staged, sent>>
    BY <1>7 DEF Subscribe, Authorize, Says
  <2>2. \A i \in DOMAIN out'[c] :
          (i \in DOMAIN out[c] /\ out'[c][i] = out[c][i]) \/ out'[c][i] = Answer
    BY <2>1, NoJobType, Appended DEF TypeOK
  <2>3. \A k \in Conns : k # c => out'[k] = out[k]
    BY <2>1 DEF TypeOK
  <2>4. \A k \in Conns : \A i \in DOMAIN out'[k] : out'[k][i].job \in Known \cup {NoJob}
    BY <2>2, <2>3, KnownIs DEF Answer
  <2> QED
    BY <2>1, <2>4, KnownIs, NoneMade
<1>8. ASSUME NEW c \in Conns, LineSent(c)
      PROVE  JobsInv'
  <2> DEFINE n == Len(out[c])
  <2>1. /\ n \in Nat \ {0} /\ DOMAIN out[c] = 1..n
        /\ UNCHANGED <<counter, current, staged>>
        /\ \A k \in Conns : k # c => out'[k] = out[k] /\ sent'[k] = sent[k]
        /\ TakesBroadcast(c) \/ Rests(c) \/ Greets(c) \/ OffersWork(c) \/ TakesWork(c)
    BY <1>8, LineSentKinds
  <2>2. /\ \A i \in 1..(n - 1) : i + 1 \in DOMAIN out[c]
        /\ 1 \in DOMAIN out[c]
        /\ \A i \in 1..n : i \in 1..(n - 1) \/ i = n
    BY <2>1
  <2>3. sent'[c] \in Known
    BY <2>1, <2>2, KnownIs DEF TakesBroadcast, Rests, Greets, OffersWork, TakesWork
  <2>4. CASE Shorter(c)
    <3>1. \A i \in DOMAIN out'[c] : out'[c][i].job \in Known
      BY <2>2, <2>4, KnownIs DEF Shorter
    <3> QED
      BY <2>1, <2>3, <3>1, KnownIs, NoneMade
  <2>5. ASSUME NEW x \in {Answer, Work}, Renewed(c, x)
        PROVE  JobsInv'
    <3>1. \A i \in DOMAIN out'[c] : out'[c][i].job \in Known \cup {NoJob, Work.job}
      BY <2>2, <2>5, KnownIs DEF Renewed, Answer
    <3> QED
      BY <2>1, <2>3, <3>1, KnownIs, NoneMade
  <2> QED
    BY <2>1, <2>4, <2>5 DEF TakesBroadcast, Rests, Greets, OffersWork, TakesWork
<1> QED
  BY <1>1, <1>2, <1>3, <1>5, <1>6, <1>7, <1>8 DEF Next, Ingest
-----------------------------------------------------------------------------
(* The lines of the connections.                                           *)

LEMMA InitLines ==
  ASSUME Init, NEW c \in Conns
  PROVE  BroadcastsInv(c) /\ HandlerInv(c) /\ FollowInv(c)
<1>1. /\ out[c] = << >> /\ DOMAIN out[c] = {} /\ handler[c] = "idle" /\ sent[c].id = 0
      /\ open = {} /\ subscribed = {}
  BY DEF Init, NoJob
<1> QED
  BY <1>1 DEF BroadcastsInv, HandlerInv, FollowInv

\* After a line is sent, what waits stands one place further on.
LEMMA MovesUp ==
  ASSUME TypeOK, NEW c \in Conns, Len(out[c]) \in Nat \ {0}, DOMAIN out[c] = 1..Len(out[c])
  PROVE  /\ 1 \in DOMAIN out[c]
         /\ Shorter(c) =>
              \A i \in DOMAIN out'[c] : /\ i \in Nat \ {0} /\ i + 1 \in DOMAIN out[c]
                                        /\ out'[c][i] = out[c][i + 1]
         /\ \A x : Renewed(c, x) =>
              \A i \in DOMAIN out'[c] :
                \/ /\ i \in Nat \ {0} /\ i + 1 \in DOMAIN out[c]
                   /\ out'[c][i] = out[c][i + 1]
                \/ i = Len(out[c]) /\ out'[c][i] = x
<1>1. \A i \in 1..(Len(out[c]) - 1) : i \in Nat \ {0} /\ i + 1 \in DOMAIN out[c]
  OBVIOUS
<1>2. \A i \in 1..Len(out[c]) : i \in 1..(Len(out[c]) - 1) \/ i = Len(out[c])
  OBVIOUS
<1> QED
  BY <1>1, <1>2 DEF Shorter, Renewed

\* The line of connection c gets one more at its end.
Longer(c, x) ==
  /\ \A i \in DOMAIN out'[c] :
       \/ i \in DOMAIN out[c] /\ out'[c][i] = out[c][i]
       \/ i = Len(out[c]) + 1 /\ out'[c][i] = x
  /\ \A i \in DOMAIN out[c] : i \in DOMAIN out'[c] /\ out'[c][i] = out[c][i] /\ i < Len(out[c]) + 1
  /\ Len(out[c]) + 1 \in DOMAIN out'[c] /\ out'[c][Len(out[c]) + 1] = x

LEMMA LineAppended ==
  ASSUME TypeOK, NEW c \in Conns, NEW x \in Line, out' = [out EXCEPT ![c] = Append(out[c], x)]
  PROVE  /\ Longer(c, x)
         /\ \A k \in Conns : k # c => out'[k] = out[k]
<1>1. /\ DOMAIN out[c] = 1..Len(out[c]) /\ Len(out[c]) \in Nat
      /\ DOMAIN Append(out[c], x) = 1..(Len(out[c]) + 1)
      /\ \A i \in DOMAIN out[c] : Append(out[c], x)[i] = out[c][i]
      /\ Append(out[c], x)[Len(out[c]) + 1] = x
  BY Appended DEF TypeOK
<1>2. out'[c] = Append(out[c], x) /\ \A k \in Conns : k # c => out'[k] = out[k]
  BY DEF TypeOK
<1>3. \A i \in 1..(Len(out[c]) + 1) : i \in 1..Len(out[c]) \/ i = Len(out[c]) + 1
  BY <1>1
<1>4. \A i \in 1..Len(out[c]) : i \in 1..(Len(out[c]) + 1) /\ i < Len(out[c]) + 1
  BY <1>1
<1>5. Len(out[c]) + 1 \in 1..(Len(out[c]) + 1)
  BY <1>1
<1> QED
  BY <1>1, <1>2, <1>3, <1>4, <1>5 DEF Longer

SendLine(t) == [by |-> "broadcast", job |-> staged[t]]

LEMMA SendStartsDoes ==
  ASSUME TypeOK, LockInv, NEW t \in Tasks, NEW c \in Conns, SendStarts(t, c)
  PROVE  /\ Longer(c, SendLine(t)) /\ IsBroadcast(SendLine(t))
         /\ SendLine(t).job = staged[t] /\ staged[t].id = last /\ last > 0
         /\ \A k \in Conns : k # c => out'[k] = out[k]
         /\ c \in starting /\ starting' = starting \ {c}
         /\ task[t] = "broadcasting"
         /\ UNCHANGED <<counter, current, task, staged, queue, last, unsent, open, subscribed,
                        authorized, handler, sent>>
<1>1. SendLine(t) \in Line
  BY DEF SendLine, TypeOK, Line
<1>2. out' = [out EXCEPT ![c] = Append(out[c], SendLine(t))]
  BY DEF SendStarts, SendLine
<1>3. Longer(c, SendLine(t)) /\ \A k \in Conns : k # c => out'[k] = out[k]
  BY <1>1, <1>2, LineAppended
<1> QED
  BY <1>3 DEF SendStarts, SendLine, IsBroadcast, LockInv, jobVars, fetchVars, connVars

LEMMA HandshakeDoes ==
  ASSUME TypeOK, NEW c \in Conns, Subscribe(c) \/ Authorize(c)
  PROVE  /\ Longer(c, Answer) /\ ~IsBroadcast(Answer) /\ Answer.job.id = 0
         /\ \A k \in Conns : k # c => out'[k] = out[k] /\ handler'[k] = handler[k]
         /\ c \in open /\ handler[c] = "idle" /\ handler'[c] \in {"subscribing", "authorizing"}
         /\ UNCHANGED <<counter, current, task, staged, queue, last, starting, unsent, open,
                        subscribed, sent>>
         /\ authorized \subseteq authorized' /\ authorized' \subseteq authorized \cup {c}
<1>1. out' = [out EXCEPT ![c] = Append(out[c], Answer)]
  BY DEF Subscribe, Authorize, Says
<1>2. Longer(c, Answer) /\ \A k \in Conns : k # c => out'[k] = out[k]
  BY <1>1, NoJobType, LineAppended
<1>3. \A k \in Conns : k # c => handler'[k] = handler[k]
  BY DEF Subscribe, Authorize, Says, TypeOK
<1>4. handler'[c] \in {"subscribing", "authorizing"}
  BY DEF Subscribe, Authorize, Says, TypeOK
<1> QED
  BY <1>2, <1>3, <1>4
  DEF Subscribe, Authorize, Answer, NoJob, IsBroadcast, jobVars, fetchVars, castVars

LEMMA CloseDoes ==
  ASSUME TypeOK, NEW s \in SUBSET Conns, Close(s)
  PROVE  /\ \A k \in s : /\ out'[k] = << >> /\ DOMAIN out'[k] = {} /\ sent'[k].id = 0
                         /\ handler'[k] = "idle"
                         /\ k \notin open' /\ k \notin subscribed'
         /\ \A k \in Conns \ s :
              /\ out'[k] = out[k] /\ sent'[k] = sent[k] /\ handler'[k] = handler[k]
              /\ k \in open <=> k \in open'
              /\ k \in subscribed <=> k \in subscribed'
              /\ k \in authorized <=> k \in authorized'
              /\ k \in starting <=> k \in starting'
              /\ k \in unsent <=> k \in unsent'
<1>1. DOMAIN << >> = {}
  OBVIOUS
<1> QED
  BY <1>1 DEF Close, TypeOK, NoJob

\* The steps that leave the lines and the sends of a broadcast alone.
Aside ==
  \/ UNCHANGED vars \/ Watch \/ SolveEnds \/ NewTip
  \/ PollFinds \/ PollRefreshes \/ Notified
  \/ \E t \in Tasks : NodeAnswers(t) \/ FetchFails(t) \/ IngestDrops(t)

LEMMA AsideKeeps ==
  ASSUME TypeOK, LockInv, Aside
  PROVE  /\ UNCHANGED <<counter, current, staged, queue, last, starting, unsent, open,
                        subscribed, authorized, handler, out, sent>>
         /\ \A t \in Tasks : task[t] \in {"queued", "broadcasting"} => task'[t] = task[t]
<1> USE DEF nodeVars, jobVars, fetchVars, castVars, connVars, lineVars, watchVars
<1>1. UNCHANGED <<counter, current, staged, queue, last, starting, unsent, open,
                  subscribed, authorized, handler, out, sent>>
  BY DEF Aside, vars, Watch, SolveEnds, NewTip, PollFinds, PollRefreshes, Notified, Fetches,
     NodeAnswers, FetchFails, IngestDrops
<1>2. CASE \/ UNCHANGED vars \/ Watch \/ SolveEnds \/ NewTip
  BY <1>1, <1>2 DEF vars, Watch, SolveEnds, NewTip
<1>3. CASE PollFinds \/ PollRefreshes \/ Notified
  BY <1>1, <1>3 DEF PollFinds, PollRefreshes, Notified, Fetches, TypeOK
<1>4. CASE \E t \in Tasks : NodeAnswers(t) \/ FetchFails(t) \/ IngestDrops(t)
  BY <1>1, <1>4 DEF NodeAnswers, FetchFails, IngestDrops, TypeOK
<1> QED
  BY <1>1, <1>2, <1>3, <1>4 DEF Aside

\* A broadcast begins while none is under way, for every subscriber.
LEMMA BroadcastBegins ==
  ASSUME TypeOK, LockInv, TakesLock \/ \E t \in Tasks : IngestBroadcasts(t)
  PROVE  /\ starting = {} /\ unsent = {}
         /\ starting' = subscribed /\ unsent' = subscribed
         /\ UNCHANGED <<open, subscribed, authorized, handler, out, sent>>
<1>1. \A t \in Tasks : task[t] # "broadcasting"
  BY DEF TakesLock, IngestBroadcasts, LockFree
<1>2. starting = {} /\ unsent = {}
  BY <1>1 DEF LockInv, TypeOK
<1>3. UNCHANGED <<open, subscribed, authorized, handler, out, sent>>
  BY DEF TakesLock, IngestBroadcasts, connVars, lineVars
<1>4. ASSUME NEW t \in Tasks, IngestBroadcasts(t)
      PROVE  starting' = subscribed /\ unsent' = subscribed
  BY <1>4 DEF IngestBroadcasts, Broadcast
<1>5. CASE TakesLock
  <2>1. /\ Len(queue) \in Nat \ {0} /\ Head(queue) = queue[1] /\ 1 \in DOMAIN queue
    BY <1>5, Popped DEF TakesLock, TypeOK
  <2>2. ~Superseded(staged[Head(queue)])
    BY <2>1 DEF LockInv, Superseded, TypeOK
  <2> QED
    BY <1>2, <1>3, <1>5, <2>2 DEF TakesLock, Broadcast
<1> QED
  BY <1>2, <1>3, <1>4, <1>5

\* The steps of the fetching tasks, of the broadcasts and of the connections.
LEMMA StepKinds ==
  ASSUME [Next]_vars
  PROVE  \/ Aside
         \/ TakesLock \/ \E t \in Tasks : IngestBroadcasts(t)
         \/ \E t \in Tasks : IngestQueues(t)
         \/ \E t \in Tasks, c \in Conns : SendStarts(t, c)
         \/ \E t \in Tasks : BroadcastEnds(t)
         \/ \E c \in Conns : Disconnect(c)
         \/ \E c \in Conns : Connect(c)
         \/ \E c \in Conns : Subscribe(c) \/ Authorize(c)
         \/ \E c \in Conns : LineSent(c)
BY DEF Next, Ingest, Aside

LEMMA NextBroadcasts ==
  ASSUME TypeOK, LockInv, \A c \in Conns : BroadcastsInv(c) /\ HandlerInv(c), [Next]_vars,
         NEW k \in Conns
  PROVE  BroadcastsInv(k)'
<1>1. ASSUME out'[k] = out[k], last' = last,
             k \in unsent \ starting => k \in unsent' \ starting'
      PROVE  BroadcastsInv(k)'
  BY <1>1 DEF BroadcastsInv
<1>2. CASE Aside
  BY <1>1, <1>2, AsideKeeps
<1>3. CASE TakesLock \/ \E t \in Tasks : IngestBroadcasts(t)
  <2>1. out' = out /\ unsent = {}
    BY <1>3, BroadcastBegins
  <2> QED
    BY <2>1 DEF BroadcastsInv
<1>4. CASE \/ \E t \in Tasks : IngestQueues(t)
           \/ \E c \in Conns : Connect(c)
  BY <1>1, <1>4 DEF IngestQueues, Connect, lineVars, castVars, fetchVars
<1>5. ASSUME NEW t \in Tasks, NEW c \in Conns, SendStarts(t, c)
      PROVE  BroadcastsInv(k)'
  <2>1. CASE k # c
    <3>1. out'[k] = out[k] /\ last' = last /\ starting' = starting \ {c} /\ unsent' = unsent
      BY <1>5, <2>1, SendStartsDoes
    <3> QED
      BY <1>1, <3>1
  <2>2. CASE k = c
    <3>1. /\ Longer(c, SendLine(t)) /\ SendLine(t).job.id = last /\ last > 0
          /\ c \in starting /\ starting' = starting \ {c} /\ unsent' = unsent /\ last' = last
      BY <1>5, SendStartsDoes
    <3>2. \A i \in DOMAIN out[c] : ~IsBroadcast(out[c][i])
      BY <3>1 DEF BroadcastsInv
    <3>3. \A i \in DOMAIN out'[c] :
            IsBroadcast(out'[c][i]) => i = Len(out[c]) + 1 /\ out'[c][i] = SendLine(t)
      BY <3>1, <3>2 DEF Longer
    <3>4. c \in unsent' \ starting'
      BY <3>1 DEF TypeOK
    <3>5. \A i \in DOMAIN out'[c] : IsBroadcast(out'[c][i]) => out'[c][i].job.id = last'
      BY <3>1, <3>3
    <3> QED
      BY <2>2, <3>1, <3>3, <3>4, <3>5 DEF BroadcastsInv
  <2> QED
    BY <2>1, <2>2
<1>6. ASSUME NEW s \in SUBSET Conns, Close(s), last' = last
      PROVE  BroadcastsInv(k)'
  <2>1. CASE k \in s
    <3>1. DOMAIN out'[k] = {}
      BY <1>6, <2>1, CloseDoes
    <3> QED
      BY <3>1 DEF BroadcastsInv
  <2>2. CASE k \notin s
    <3>1. out'[k] = out[k] /\ (k \in starting <=> k \in starting')
          /\ (k \in unsent <=> k \in unsent')
      BY <1>6, <2>2, CloseDoes
    <3> QED
      BY <1>1, <1>6, <3>1
  <2> QED
    BY <2>1, <2>2
<1>7. CASE \/ \E t \in Tasks : BroadcastEnds(t)
           \/ \E c \in Conns : Disconnect(c)
  BY <1>6, <1>7 DEF BroadcastEnds, Disconnect, fetchVars, TypeOK
<1>8. ASSUME NEW c \in Conns, Subscribe(c) \/ Authorize(c)
      PROVE  BroadcastsInv(k)'
  <2>1. /\ Longer(c, Answer) /\ ~IsBroadcast(Answer)
        /\ \A j \in Conns : j # c => out'[j] = out[j]
        /\ UNCHANGED <<last, starting, unsent>>
    BY <1>8, HandshakeDoes
  <2>2. CASE k # c
    BY <1>1, <2>1, <2>2
  <2>3. CASE k = c
    <3>1. \A i \in DOMAIN out'[c] :
            IsBroadcast(out'[c][i]) => i \in DOMAIN out[c] /\ out'[c][i] = out[c][i]
      BY <2>1 DEF Longer
    <3> QED
      BY <2>1, <2>3, <3>1 DEF BroadcastsInv
  <2> QED
    BY <2>2, <2>3
<1>9. ASSUME NEW c \in Conns, LineSent(c)
      PROVE  BroadcastsInv(k)'
  <2>1. /\ Len(out[c]) \in Nat \ {0} /\ DOMAIN out[c] = 1..Len(out[c])
        /\ UNCHANGED <<last, starting>>
        /\ \A j \in Conns : j # c => out'[j] = out[j]
        /\ TakesBroadcast(c) \/ Rests(c) \/ Greets(c) \/ OffersWork(c) \/ TakesWork(c)
    BY <1>9, LineSentKinds
  <2>2. unsent' = unsent \/ (TakesBroadcast(c) /\ unsent' = unsent \ {c})
    BY <2>1 DEF TakesBroadcast, Rests, Greets, OffersWork, TakesWork
  <2>3. CASE k # c
    BY <1>1, <2>1, <2>2, <2>3
  <2>4. CASE k = c /\ TakesBroadcast(c)
    <3>1. \A i \in DOMAIN out'[c] : /\ i \in Nat \ {0} /\ i + 1 \in DOMAIN out[c]
                                    /\ out'[c][i] = out[c][i + 1]
      BY <2>1, <2>4, MovesUp DEF TakesBroadcast
    <3>2. 1 \in DOMAIN out[c] /\ IsBroadcast(out[c][1])
      BY <2>1, <2>4, MovesUp DEF TakesBroadcast
    <3>3. \A i \in DOMAIN out'[c] : ~IsBroadcast(out'[c][i])
      <4>1. ASSUME NEW i \in DOMAIN out'[c], IsBroadcast(out'[c][i])
            PROVE  FALSE
        <5>1. i + 1 = 1
          BY <3>1, <3>2, <4>1 DEF BroadcastsInv
        <5> QED
          BY <3>1, <5>1
      <4> QED
        BY <4>1
    <3> QED
      BY <2>4, <3>3 DEF BroadcastsInv
  <2>5. CASE k = c /\ ~TakesBroadcast(c)
    <3>1. unsent' = unsent
      BY <2>2, <2>5
    <3>2. \A i \in DOMAIN out'[c] :
            IsBroadcast(out'[c][i]) => /\ i \in Nat \ {0} /\ i + 1 \in DOMAIN out[c]
                                       /\ out'[c][i] = out[c][i + 1]
      <4>1. ~IsBroadcast(Answer) /\ ~IsBroadcast(Work)
        BY DEF Answer, Work, IsBroadcast
      <4>2. Shorter(c) \/ Renewed(c, Answer) \/ Renewed(c, Work)
        BY <2>1, <2>5 DEF Rests, Greets, OffersWork, TakesWork
      <4> QED
        BY <2>1, <4>1, <4>2, MovesUp
    <3>3. \A i, j \in DOMAIN out'[c] : IsBroadcast(out'[c][i]) /\ IsBroadcast(out'[c][j]) => i = j
      <4>1. ASSUME NEW i \in DOMAIN out'[c], NEW j \in DOMAIN out'[c],
                   IsBroadcast(out'[c][i]), IsBroadcast(out'[c][j])
            PROVE  i = j
        <5>1. i + 1 = j + 1 /\ i \in Nat /\ j \in Nat
          BY <3>2, <4>1 DEF BroadcastsInv
        <5> QED
          BY <5>1
      <4> QED
        BY <4>1
    <3> QED
      BY <2>1, <2>5, <3>1, <3>2, <3>3 DEF BroadcastsInv
  <2> QED
    BY <2>3, <2>4, <2>5
<1> QED
  BY <1>2, <1>3, <1>4, <1>5, <1>7, <1>8, <1>9, StepKinds

LEMMA NextHandler ==
  ASSUME TypeOK, LockInv, \A c \in Conns : BroadcastsInv(c) /\ HandlerInv(c), [Next]_vars,
         JobsInv, NEW k \in Conns
  PROVE  HandlerInv(k)'
<1>1. ASSUME out'[k] = out[k], sent'[k] = sent[k], handler'[k] = handler[k],
             k \in open => k \in open', k \in subscribed <=> k \in subscribed'
      PROVE  HandlerInv(k)'
  BY <1>1 DEF HandlerInv
<1>2. CASE Aside
  BY <1>1, <1>2, AsideKeeps
<1>3. CASE TakesLock \/ \E t \in Tasks : IngestBroadcasts(t)
  BY <1>1, <1>3, BroadcastBegins
<1>4. CASE \/ \E t \in Tasks : IngestQueues(t)
           \/ \E c \in Conns : Connect(c)
  BY <1>1, <1>4 DEF IngestQueues, Connect, lineVars, connVars
<1>5. ASSUME NEW t \in Tasks, NEW c \in Conns, SendStarts(t, c)
      PROVE  HandlerInv(k)'
  <2>1. /\ Longer(c, SendLine(t)) /\ IsBroadcast(SendLine(t))
        /\ \A j \in Conns : j # c => out'[j] = out[j]
        /\ UNCHANGED <<open, subscribed, handler, sent>> /\ c \in starting
    BY <1>5, SendStartsDoes
  <2>2. CASE k # c
    BY <1>1, <2>1, <2>2
  <2>3. CASE k = c
    <3>1. \A i \in DOMAIN out'[c] :
            ~IsBroadcast(out'[c][i]) => i \in DOMAIN out[c] /\ out'[c][i] = out[c][i]
      BY <2>1 DEF Longer
    <3>2. c \in subscribed /\ c \in open
      BY <2>1 DEF TypeOK
    <3> QED
      BY <2>1, <2>3, <3>1, <3>2 DEF HandlerInv
  <2> QED
    BY <2>2, <2>3
<1>6. ASSUME NEW s \in SUBSET Conns, Close(s)
      PROVE  HandlerInv(k)'
  <2>1. CASE k \in s
    BY <1>6, <2>1, CloseDoes DEF HandlerInv
  <2>2. CASE k \notin s
    BY <1>1, <1>6, <2>2, CloseDoes
  <2> QED
    BY <2>1, <2>2
<1>7. CASE \/ \E t \in Tasks : BroadcastEnds(t)
           \/ \E c \in Conns : Disconnect(c)
  BY <1>6, <1>7 DEF BroadcastEnds, Disconnect, TypeOK
<1>8. ASSUME NEW c \in Conns, Subscribe(c) \/ Authorize(c)
      PROVE  HandlerInv(k)'
  <2>1. /\ Longer(c, Answer) /\ Answer.job.id = 0
        /\ \A j \in Conns : j # c => out'[j] = out[j] /\ handler'[j] = handler[j]
        /\ c \in open /\ handler[c] = "idle" /\ handler'[c] \in {"subscribing", "authorizing"}
        /\ UNCHANGED <<open, subscribed, sent>>
    BY <1>8, HandshakeDoes
  <2>2. CASE k # c
    BY <1>1, <2>1, <2>2
  <2>3. CASE k = c
    <3>1. \A i \in DOMAIN out[c] : IsBroadcast(out[c][i])
      BY <2>1 DEF HandlerInv
    <3>2. \A i \in DOMAIN out'[c] :
            ~IsBroadcast(out'[c][i]) => i = Len(out[c]) + 1 /\ out'[c][i] = Answer
      BY <2>1, <3>1 DEF Longer
    <3>3. c \notin subscribed => \A i \in DOMAIN out'[c] : out'[c][i].job.id = 0
      BY <2>1 DEF Longer, HandlerInv
    <3> QED
      BY <2>1, <2>3, <3>2, <3>3 DEF HandlerInv
  <2> QED
    BY <2>2, <2>3
<1>9. ASSUME NEW c \in Conns, LineSent(c)
      PROVE  HandlerInv(k)'
  <2>1. /\ Len(out[c]) \in Nat \ {0} /\ DOMAIN out[c] = 1..Len(out[c])
        /\ UNCHANGED <<current, counter, open>>
        /\ \A j \in Conns : j # c => /\ out'[j] = out[j] /\ sent'[j] = sent[j]
                                     /\ handler'[j] = handler[j]
        /\ TakesBroadcast(c) \/ Rests(c) \/ Greets(c) \/ OffersWork(c) \/ TakesWork(c)
    BY <1>9, LineSentKinds
  <2>2. 1 \in DOMAIN out[c] /\ c \in open
    BY <2>1 DEF HandlerInv
  <2>3. /\ subscribed' \in {subscribed, subscribed \cup {c}}
        /\ TakesBroadcast(c) \/ ~IsBroadcast(out[c][1])
    BY <2>1 DEF TakesBroadcast, Rests, Greets, OffersWork, TakesWork
  <2>4. CASE k # c
    BY <1>1, <2>1, <2>3, <2>4
  <2>5. CASE k = c /\ TakesBroadcast(c)
    <3>1. \A i \in DOMAIN out'[c] : /\ i \in Nat \ {0} /\ i + 1 \in DOMAIN out[c]
                                    /\ out'[c][i] = out[c][i + 1]
      BY <2>1, <2>5, MovesUp DEF TakesBroadcast
    <3>2. \A i, j \in DOMAIN out'[c] :
            ~IsBroadcast(out'[c][i]) /\ ~IsBroadcast(out'[c][j]) => i = j
      <4>1. ASSUME NEW i \in DOMAIN out'[c], NEW j \in DOMAIN out'[c],
                   ~IsBroadcast(out'[c][i]), ~IsBroadcast(out'[c][j])
            PROVE  i = j
        <5>1. i + 1 = j + 1 /\ i \in Nat /\ j \in Nat
          BY <3>1, <4>1 DEF HandlerInv
        <5> QED
          BY <5>1
      <4> QED
        BY <4>1
    <3>3. handler'[c] = handler[c] /\ subscribed' = subscribed /\ sent'[c] = out[c][1].job
      BY <2>5 DEF TakesBroadcast
    <3> QED
      BY <2>1, <2>2, <2>5, <3>1, <3>2, <3>3 DEF HandlerInv
  <2>6. CASE k = c /\ ~TakesBroadcast(c)
    <3>1. \A i \in DOMAIN out[c] : i # 1 => IsBroadcast(out[c][i])
      BY <2>2, <2>3, <2>6 DEF HandlerInv
    <3>2. CASE Rests(c) \/ TakesWork(c)
      <4>1. \A i \in DOMAIN out'[c] : /\ i \in Nat \ {0} /\ i + 1 \in DOMAIN out[c]
                                      /\ out'[c][i] = out[c][i + 1]
        BY <2>1, <3>2, MovesUp DEF Rests, TakesWork
      <4>2. \A i \in Nat \ {0} : i + 1 # 1
        OBVIOUS
      <4>3. \A i \in DOMAIN out'[c] : IsBroadcast(out'[c][i])
        BY <3>1, <4>1, <4>2
      <4>4. handler'[c] = "idle"
        BY <3>2 DEF Rests, TakesWork
      <4>5. c \notin subscribed' => c \notin subscribed /\ sent'[c].id = 0
        BY <2>2, <2>3, <3>2 DEF Rests, TakesWork, HandlerInv
      <4> QED
        BY <2>1, <2>2, <2>6, <4>1, <4>3, <4>4, <4>5 DEF HandlerInv
    <3>3. ASSUME NEW x \in {Answer, Work}, Renewed(c, x), c \in subscribed',
                 handler'[c] = IF x = Work THEN "work" ELSE "difficulty",
                 x = Work => current # NoJob
          PROVE  HandlerInv(c)'
      <4>1. \A i \in DOMAIN out'[c] :
              \/ /\ i \in Nat \ {0} /\ i + 1 \in DOMAIN out[c]
                 /\ out'[c][i] = out[c][i + 1]
              \/ i = Len(out[c]) /\ out'[c][i] = x
        BY <2>1, <3>3, MovesUp
      <4>2. \A i \in Nat \ {0} : i + 1 # 1
        OBVIOUS
      <4>3. \A i \in DOMAIN out'[c] :
              ~IsBroadcast(out'[c][i]) => i = Len(out[c]) /\ out'[c][i] = x
        BY <3>1, <4>1, <4>2
      <4>4. /\ Answer.job.id = 0
            /\ Work.job.clean /\ Work.job.id = current.id
        BY DEF Answer, NoJob, Work, TypeOK, Job
      <4>5. current # NoJob => current.id > 0
        BY DEF LockInv, TypeOK
      <4>6. x.job.id > 0 => x.job.clean
        BY <3>3, <4>4
      <4>7. handler'[c] = "work" <=> x.job.id > 0
        BY <3>3, <4>4, <4>5
      <4>8. handler'[c] # "idle"
        BY <3>3
      <4> QED
        BY <2>1, <2>2, <3>3, <4>3, <4>6, <4>7, <4>8 DEF HandlerInv
    <3>4. CASE Greets(c)
      <4>1. Answer # Work \/ current = NoJob
        BY DEF Answer, Work, NoJob, TypeOK, Job
      <4>2. CASE Answer # Work
        BY <2>6, <3>3, <3>4, <4>2 DEF Greets
      <4>3. Answer # Work
        BY DEF Answer, Work, NoJob, TypeOK, Job
      <4> QED
        BY <4>2, <4>3
    <3>5. CASE OffersWork(c)
      BY <2>6, <3>3, <3>5 DEF OffersWork, HandlerInv
    <3> QED
      BY <2>1, <2>6, <3>2, <3>4, <3>5
  <2> QED
    BY <2>4, <2>5, <2>6
<1> QED
  BY <1>2, <1>3, <1>4, <1>5, <1>7, <1>8, <1>9, StepKinds
-----------------------------------------------------------------------------
(* What follows a job.                                                     *)

\* What is to come stays so, until its send begins.
LEMMA NextToCome ==
  ASSUME TypeOK, LockInv, [Next]_vars, NEW k \in subscribed, k \in subscribed', NEW n,
         ToCome(k, n)
  PROVE  ToCome(k, n)' \/ \E t \in Tasks : SendStarts(t, k) /\ staged[t].id = n
<1> USE DEF nodeVars, jobVars, fetchVars, castVars, connVars, lineVars, watchVars
<1>1. PICK u \in Tasks :
        /\ staged[u].id = n
        /\ task[u] = "queued" \/ (task[u] = "broadcasting" /\ k \in starting)
  BY DEF ToCome
<1>2. ASSUME staged'[u] = staged[u],
             \/ task'[u] = task[u] /\ (k \in starting => k \in starting')
             \/ task'[u] = "broadcasting" /\ k \in starting'
      PROVE  ToCome(k, n)'
  BY <1>1, <1>2 DEF ToCome
<1>3. CASE Aside
  BY <1>1, <1>2, <1>3, AsideKeeps
<1>4. CASE TakesLock
  <2>1. /\ starting' = subscribed /\ task[u] # "broadcasting" /\ ~Superseded(staged[Head(queue)])
    <3>1. /\ Len(queue) \in Nat \ {0} /\ Head(queue) = queue[1] /\ 1 \in DOMAIN queue
      BY <1>4, Popped DEF TakesLock, TypeOK
    <3>2. staged[Head(queue)].id = last + 1 /\ last \in Nat
      BY <3>1 DEF LockInv, TypeOK
    <3>3. ~(last + 1 < last)
      BY <3>2
    <3> QED
      BY <1>4, <3>2, <3>3, BroadcastBegins DEF TakesLock, Superseded
  <2>2. task' = [task EXCEPT ![Head(queue)] = "broadcasting"] /\ staged' = staged
    BY <1>4, <2>1 DEF TakesLock, Broadcast
  <2> QED
    BY <1>1, <1>2, <2>1, <2>2 DEF TypeOK
<1>5. CASE \E t \in Tasks : IngestBroadcasts(t)
  BY <1>1, <1>5 DEF IngestBroadcasts, LockFree, LockInv
<1>6. ASSUME NEW t \in Tasks, IngestQueues(t)
      PROVE  ToCome(k, n)'
  <2>1. /\ task[t] = "answered" /\ task' = [task EXCEPT ![t] = "queued"] /\ starting' = starting
        /\ staged' = [staged EXCEPT ![t] = NewJob(answer[t])]
    BY <1>6 DEF IngestQueues
  <2>2. u # t
    BY <1>1, <2>1
  <2> QED
    BY <1>2, <2>1, <2>2 DEF TypeOK
<1>7. ASSUME NEW t \in Tasks, NEW c \in Conns, SendStarts(t, c)
      PROVE  ToCome(k, n)' \/ \E v \in Tasks : SendStarts(v, k) /\ staged[v].id = n
  <2>1. /\ task[t] = "broadcasting" /\ starting' = starting \ {c}
        /\ UNCHANGED <<task, staged>>
    BY <1>7, SendStartsDoes
  <2>2. CASE c # k \/ task[u] = "queued"
    BY <1>1, <1>2, <2>1, <2>2 DEF ToCome
  <2>3. CASE c = k /\ task[u] = "broadcasting"
    <3>1. u = t
      BY <2>1, <2>3 DEF LockInv
    <3> QED
      BY <1>1, <1>7, <2>3, <3>1
  <2> QED
    BY <1>1, <2>2, <2>3
<1>8. ASSUME NEW t \in Tasks, BroadcastEnds(t)
      PROVE  ToCome(k, n)'
  <2>1. starting = {} /\ task[t] = "broadcasting" /\ task' = [task EXCEPT ![t] = "asleep"]
        /\ staged' = staged
    BY <1>8 DEF BroadcastEnds
  <2>2. task[u] = "queued" /\ u # t
    BY <1>1, <2>1
  <2> QED
    BY <1>2, <2>1, <2>2 DEF TypeOK
<1>9. ASSUME NEW c \in Conns, Disconnect(c)
      PROVE  ToCome(k, n)'
  <2>1. UNCHANGED <<task, staged>> /\ starting' = starting \ {c} /\ k # c
    BY <1>9 DEF Disconnect, Close
  <2> QED
    BY <1>2, <2>1
<1>10. ASSUME NEW c \in Conns, Connect(c) \/ Subscribe(c) \/ Authorize(c)
       PROVE  ToCome(k, n)'
  <2>1. UNCHANGED <<task, staged, starting>>
    BY <1>10 DEF Connect, Subscribe, Authorize
  <2> QED
    BY <1>2, <2>1
<1>11. ASSUME NEW c \in Conns, LineSent(c)
       PROVE  ToCome(k, n)'
  <2>1. UNCHANGED <<task, staged, starting>>
    BY <1>11 DEF LineSent, BroadcastSent, SubscribeReplySent, AuthorizeReplySent,
       DifficultySent, WorkSent, Sends
  <2> QED
    BY <1>2, <2>1
<1> QED
  BY <1>3, <1>4, <1>5, <1>6, <1>7, <1>8, <1>9, <1>10, <1>11, StepKinds

\* A job that is made is to come to every subscriber.
LEMMA NextCounter ==
  ASSUME TypeOK, LockInv, [Next]_vars, NEW k \in subscribed, k \in subscribed'
  PROVE  counter' = counter \/ (counter' = counter + 1 /\ ToCome(k, counter)')
<1>1. ASSUME NEW t \in Tasks, IngestBroadcasts(t) \/ IngestQueues(t)
      PROVE  counter' = counter + 1 /\ ToCome(k, counter)'
  <2>1. staged'[t].id = counter' /\ counter' = counter + 1
    BY <1>1, Made DEF TypeOK
  <2>2. \/ task'[t] = "queued"
        \/ task'[t] = "broadcasting" /\ k \in starting'
    BY <1>1 DEF IngestBroadcasts, IngestQueues, Broadcast, TypeOK
  <2> QED
    BY <2>1, <2>2 DEF ToCome
<1>2. ASSUME NEW c \in Conns, LineSent(c)
      PROVE  counter' = counter
  BY <1>2 DEF LineSent, BroadcastSent, SubscribeReplySent, AuthorizeReplySent,
       DifficultySent, WorkSent, Sends, jobVars
<1>3. CASE \/ TakesLock
           \/ \E t \in Tasks, c \in Conns : SendStarts(t, c)
           \/ \E t \in Tasks : BroadcastEnds(t)
           \/ \E c \in Conns : Disconnect(c)
           \/ \E c \in Conns : Connect(c)
           \/ \E c \in Conns : Subscribe(c) \/ Authorize(c)
  BY <1>3 DEF TakesLock, SendStarts, BroadcastEnds, Disconnect, Connect, Subscribe, Authorize,
     jobVars
<1> QED
  BY <1>1, <1>2, <1>3, StepKinds, AsideKeeps

\* What waits for connection k goes on to wait, and behind it comes an answer
\* or a send of the present broadcast, if anything.
Lasts(k) ==
  /\ sent'[k] = sent[k]
  /\ handler'[k] = "idle" /\ k \in authorized' => handler[k] = "idle" /\ k \in authorized
  /\ \A i \in DOMAIN out[k] : i \in DOMAIN out'[k] /\ out'[k][i] = out[k][i]
  /\ \A i \in DOMAIN out'[k] : i \in DOMAIN out[k] \/ out'[k][i].job.id \in {0, last'}

LEMMA NextLine ==
  ASSUME TypeOK, LockInv, \A c \in Conns : HandlerInv(c), [Next]_vars,
         NEW k \in Conns, k \in subscribed'
  PROVE  (k \in subscribed /\ Lasts(k)) \/ LineSent(k)
<1>1. ASSUME out'[k] = out[k], sent'[k] = sent[k], handler'[k] = handler[k],
             k \in authorized <=> k \in authorized'
      PROVE  Lasts(k)
  BY <1>1 DEF Lasts
<1>2. CASE Aside
  BY <1>1, <1>2, AsideKeeps
<1>3. CASE TakesLock \/ \E t \in Tasks : IngestBroadcasts(t)
  BY <1>1, <1>3, BroadcastBegins
<1>4. CASE \/ \E t \in Tasks : IngestQueues(t)
           \/ \E c \in Conns : Connect(c)
  <2>1. UNCHANGED <<subscribed, authorized, handler, out, sent>>
    BY <1>4 DEF IngestQueues, Connect, lineVars, connVars
  <2> QED
    BY <1>1, <2>1
<1>5. ASSUME NEW t \in Tasks, NEW c \in Conns, SendStarts(t, c)
      PROVE  k \in subscribed /\ Lasts(k)
  <2>1. /\ Longer(c, SendLine(t)) /\ SendLine(t).job.id = last /\ last' = last
        /\ \A j \in Conns : j # c => out'[j] = out[j]
        /\ UNCHANGED <<subscribed, authorized, handler, sent>>
    BY <1>5, SendStartsDoes
  <2>2. CASE k # c
    BY <1>1, <2>1, <2>2
  <2>3. CASE k = c
    BY <2>1, <2>3 DEF Longer, Lasts
  <2> QED
    BY <2>1, <2>2, <2>3
<1>6. ASSUME NEW s \in SUBSET Conns, Close(s)
      PROVE  k \in subscribed /\ Lasts(k)
  BY <1>1, <1>6, CloseDoes
<1>7. CASE \/ \E t \in Tasks : BroadcastEnds(t)
           \/ \E c \in Conns : Disconnect(c)
  BY <1>6, <1>7 DEF BroadcastEnds, Disconnect, TypeOK
<1>8. ASSUME NEW c \in Conns, Subscribe(c) \/ Authorize(c)
      PROVE  k \in subscribed /\ Lasts(k)
  <2>1. /\ Longer(c, Answer) /\ Answer.job.id = 0
        /\ \A j \in Conns : j # c => out'[j] = out[j] /\ handler'[j] = handler[j]
        /\ handler'[c] # "idle"
        /\ UNCHANGED <<subscribed, sent>>
        /\ authorized \subseteq authorized' /\ authorized' \subseteq authorized \cup {c}
    BY <1>8, HandshakeDoes
  <2>2. CASE k # c
    BY <1>1, <2>1, <2>2
  <2>3. CASE k = c
    BY <2>1, <2>3 DEF Longer, Lasts
  <2> QED
    BY <2>1, <2>2, <2>3
<1>9. ASSUME NEW c \in Conns, LineSent(c), c # k
      PROVE  k \in subscribed /\ Lasts(k)
  <2>1. /\ TakesBroadcast(c) \/ Rests(c) \/ Greets(c) \/ OffersWork(c) \/ TakesWork(c)
        /\ UNCHANGED authorized
        /\ out'[k] = out[k] /\ sent'[k] = sent[k] /\ handler'[k] = handler[k]
    BY <1>9, LineSentKinds
  <2>2. subscribed' \subseteq subscribed \cup {c}
    BY <2>1 DEF TakesBroadcast, Rests, Greets, OffersWork, TakesWork
  <2> QED
    BY <1>1, <1>9, <2>1, <2>2
<1> QED
  BY <1>2, <1>3, <1>4, <1>5, <1>7, <1>8, <1>9, StepKinds

\* What comes after a position of the line goes on to come after it.
LEMMA AfterKept ==
  ASSUME TypeOK, LockInv, [Next]_vars, NEW k \in subscribed, k \in subscribed', Lasts(k),
         NEW i \in {0} \cup DOMAIN out[k], NEW n
  PROVE  /\ BroadcastAfter(k, i, n) => BroadcastAfter(k, i, n)'
         /\ JobAfter(k, i, n) => JobAfter(k, i, n)'
<1>1. \A j \in DOMAIN out[k] : j \in DOMAIN out'[k] /\ out'[k][j] = out[k][j]
  BY DEF Lasts
<1>2. ASSUME NEW t \in Tasks, SendStarts(t, k), staged[t].id = n
      PROVE  \E j \in DOMAIN out'[k] :
               j > i /\ IsBroadcast(out'[k][j]) /\ out'[k][j].job.id = n
  <2>1. Longer(k, SendLine(t)) /\ IsBroadcast(SendLine(t)) /\ SendLine(t).job.id = n
    BY <1>2, SendStartsDoes DEF TypeOK
  <2>2. Len(out[k]) + 1 > i
    <3>1. DOMAIN out[k] = 1..Len(out[k]) /\ Len(out[k]) \in Nat
      BY LenProperties DEF TypeOK
    <3> QED
      BY <3>1
  <2> QED
    BY <2>1, <2>2 DEF Longer
<1>3. ToCome(k, n) => \/ ToCome(k, n)'
                      \/ \E j \in DOMAIN out'[k] :
                           j > i /\ IsBroadcast(out'[k][j]) /\ out'[k][j].job.id = n
  BY <1>2, NextToCome
<1> QED
  BY <1>1, <1>3 DEF BroadcastAfter, JobAfter

\* When a line is sent, what comes after a position comes after the one before.
LEMMA AfterMoved ==
  ASSUME TypeOK, LockInv, [Next]_vars, NEW k \in subscribed, k \in subscribed', LineSent(k),
         HandlerInv(k), NEW i \in Nat, NEW n
  PROVE  /\ BroadcastAfter(k, i + 1, n) => BroadcastAfter(k, i, n)'
         /\ JobAfter(k, i + 1, n) => JobAfter(k, i, n)'
<1>1. /\ Len(out[k]) \in Nat \ {0} /\ DOMAIN out[k] = 1..Len(out[k])
      /\ Shorter(k) \/ Renewed(k, Answer) \/ Renewed(k, Work)
      /\ UNCHANGED <<task, staged, starting>>
  BY LineSentKinds DEF TypeOK, TakesBroadcast, Rests, Greets, OffersWork, TakesWork
<1>2. ASSUME NEW j \in DOMAIN out[k], j > i + 1
      PROVE  j - 1 \in DOMAIN out'[k] /\ j - 1 > i /\ out'[k][j - 1] = out[k][j]
  <2>1. j - 1 \in 1..(Len(out[k]) - 1) /\ j - 1 \in 1..Len(out[k]) /\ (j - 1) + 1 = j /\ j - 1 > i
    BY <1>1, <1>2
  <2> QED
    BY <1>1, <2>1 DEF Shorter, Renewed
<1>3. ToCome(k, n) => ToCome(k, n)'
  BY <1>1 DEF ToCome
<1> QED
  BY <1>2, <1>3 DEF BroadcastAfter, JobAfter

\* The jobs after the one that was broadcast last wait for the lock.
LEMMA NextQueued ==
  ASSUME TypeOK', LockInv', last' < counter', NEW k
  PROVE  ToCome(k, last + 1)' /\ ToCome(k, counter)'
<1>1. DOMAIN queue' = 1..Len(queue') /\ Len(queue') \in Nat /\ last' \in Nat /\ counter' \in Nat
      /\ queue' \in Seq(Tasks)
  BY LenProperties DEF TypeOK
<1>2. counter' = last' + Len(queue')
  BY DEF LockInv
<1>3. 1 \in DOMAIN queue' /\ Len(queue') \in DOMAIN queue'
  BY <1>1, <1>2
<1>4. \A i \in DOMAIN queue' : queue'[i] \in Tasks
  BY <1>1
<1>5. \A i \in DOMAIN queue' : task'[queue'[i]] = "queued" /\ staged'[queue'[i]].id = last' + i
  BY DEF LockInv
<1>6. \A i \in DOMAIN queue' : ToCome(k, last + i)'
  BY <1>4, <1>5 DEF ToCome
<1> QED
  BY <1>2, <1>3, <1>5, <1>4, <1>6 DEF ToCome

LEMMA NextFollow ==
  ASSUME TypeOK, LockInv, JobsInv, \A c \in Conns : HandlerInv(c), [Next]_vars,
         TypeOK', LockInv', NEW k \in Conns, FollowInv(k)
  PROVE  FollowInv(k)'
<1> SUFFICES ASSUME k \in subscribed'
             PROVE  /\ Followed(k, 0, sent[k])'
                    /\ \A i \in DOMAIN out'[k] : Followed(k, i, out[k][i].job)'
  BY DEF FollowInv
<1>1. /\ counter \in Nat /\ last' \in Nat /\ counter' \in Nat
      /\ sent[k].id \in Nat /\ sent[k].id <= counter
      /\ \A i \in DOMAIN out[k] : out[k][i].job.id \in Nat /\ out[k][i].job.id <= counter
  BY KnownIs DEF TypeOK, JobsInv, Job
<1>2. CASE k \in subscribed /\ Lasts(k)
  <2>1. /\ Followed(k, 0, sent[k])
        /\ \A i \in DOMAIN out[k] : Followed(k, i, out[k][i].job)
    BY <1>2 DEF FollowInv
  <2>2. ASSUME NEW i \in {0} \cup DOMAIN out[k], NEW n \in Nat, 0 < n, n <= counter,
               0 < n /\ n < counter => BroadcastAfter(k, i, n + 1) /\ JobAfter(k, i, counter),
               n < counter'
        PROVE  BroadcastAfter(k, i, n + 1)' /\ JobAfter(k, i, counter)'
    <3>1. CASE n < counter
      <4>1. BroadcastAfter(k, i, n + 1)'
        BY <1>2, <2>2, <3>1, AfterKept
      <4>2. CASE counter' = counter
        <5>1. PICK m : m = counter
          OBVIOUS
        <5>2. JobAfter(k, i, m) /\ JobAfter(k, i, m)'
          BY <1>2, <2>2, <3>1, <5>1, AfterKept
        <5> QED
          BY <4>1, <4>2, <5>1, <5>2 DEF JobAfter, ToCome
      <4>3. CASE ToCome(k, counter)'
        BY <4>1, <4>3 DEF JobAfter
      <4> QED
        BY <1>2, <4>2, <4>3, NextCounter
    <3>2. CASE n = counter
      <4>1. counter' = n + 1 /\ ToCome(k, counter)'
        BY <1>1, <1>2, <2>2, <3>2, NextCounter
      <4> QED
        BY <4>1 DEF BroadcastAfter, JobAfter, ToCome
    <3> QED
      BY <1>1, <2>2, <3>1, <3>2
  <2>3. Followed(k, 0, sent[k])'
    BY <1>1, <1>2, <2>1, <2>2 DEF Lasts, Followed
  <2>4. ASSUME NEW i \in DOMAIN out'[k]
        PROVE  Followed(k, i, out[k][i].job)'
    <3>1. CASE i \in DOMAIN out[k]
      BY <1>1, <1>2, <2>1, <2>2, <3>1 DEF Lasts, Followed
    <3>2. CASE out'[k][i].job.id \in {0, last'}
      <4>1. last' < counter' => ToCome(k, last + 1)' /\ ToCome(k, counter)'
        BY NextQueued
      <4> QED
        BY <1>1, <3>2, <4>1 DEF Followed, BroadcastAfter, JobAfter, ToCome
    <3> QED
      BY <1>2, <3>1, <3>2 DEF Lasts
  <2> QED
    BY <2>3, <2>4
<1>3. CASE LineSent(k)
  <2>1. /\ Len(out[k]) \in Nat \ {0} /\ DOMAIN out[k] = 1..Len(out[k])
        /\ UNCHANGED <<counter, current>>
        /\ TakesBroadcast(k) \/ Rests(k) \/ Greets(k) \/ OffersWork(k) \/ TakesWork(k)
    BY <1>3, LineSentKinds
  <2>2. /\ 1 \in DOMAIN out[k]
        /\ \A i \in DOMAIN out'[k] :
             \/ /\ i \in Nat \ {0} /\ i + 1 \in DOMAIN out[k]
                /\ out'[k][i] = out[k][i + 1]
             \/ out'[k][i].job.id = 0
             \/ OffersWork(k) /\ out'[k][i].job.id = counter'
    <3>1. Answer.job.id = 0 /\ Work.job.id = counter
      BY DEF Answer, NoJob, Work, TypeOK, Job, LockInv
    <3> QED
      BY <2>1, <3>1, MovesUp DEF TakesBroadcast, Rests, Greets, OffersWork, TakesWork
  <2>3. CASE k \notin subscribed
    <3>1. sent[k].id = 0 /\ \A i \in DOMAIN out[k] : out[k][i].job.id = 0
      BY <2>3 DEF HandlerInv
    <3>2. sent'[k].id = 0 /\ ~OffersWork(k)
      BY <2>1, <2>2, <2>3, <3>1 DEF TakesBroadcast, Rests, Greets, OffersWork, TakesWork
    <3>3. \A i \in DOMAIN out'[k] : out'[k][i].job.id = 0
      BY <2>2, <3>1, <3>2
    <3> QED
      BY <3>2, <3>3 DEF Followed
  <2>4. CASE k \in subscribed
    <3>1. /\ Followed(k, 0, sent[k])
          /\ \A i \in DOMAIN out[k] : Followed(k, i, out[k][i].job)
      BY <2>4 DEF FollowInv
    <3>2. ASSUME NEW i \in Nat, NEW n \in Nat, 0 < n, n < counter,
                 BroadcastAfter(k, i + 1, n + 1) /\ JobAfter(k, i + 1, counter)
          PROVE  BroadcastAfter(k, i, n + 1)' /\ JobAfter(k, i, counter)'
      <4>1. BroadcastAfter(k, i, n + 1)'
        BY <1>3, <2>4, <3>2, AfterMoved
      <4>2. PICK m : m = counter
        OBVIOUS
      <4>3. JobAfter(k, i + 1, m) /\ JobAfter(k, i, m)'
        BY <1>3, <2>4, <3>2, <4>2, AfterMoved
      <4> QED
        BY <2>1, <4>1, <4>2, <4>3 DEF JobAfter, ToCome
    <3>3. ASSUME NEW i \in DOMAIN out'[k]
          PROVE  Followed(k, i, out[k][i].job)'
      <4>1. CASE /\ i \in Nat \ {0} /\ i + 1 \in DOMAIN out[k]
                 /\ out'[k][i] = out[k][i + 1]
        BY <1>1, <2>1, <3>1, <3>2, <4>1 DEF Followed
      <4>2. CASE out'[k][i].job.id \in {0, counter'}
        BY <1>1, <4>2 DEF Followed
      <4> QED
        BY <2>2, <4>1, <4>2
    <3>4. CASE TakesBroadcast(k) \/ TakesWork(k)
      <4>1. sent'[k] = out[k][1].job
        BY <3>4 DEF TakesBroadcast, TakesWork
      <4>2. Followed(k, 0, sent[k])'
        BY <1>1, <2>1, <2>2, <3>1, <3>2, <4>1 DEF Followed
      <4> QED
        BY <3>3, <4>2
    <3>5. CASE Rests(k) \/ Greets(k) \/ OffersWork(k)
      <4>1. sent'[k] = sent[k] /\ ~IsBroadcast(out[k][1]) /\ handler[k] # "work"
        BY <3>5 DEF Rests, Greets, OffersWork
      <4>2. out[k][1].job.id = 0
        BY <1>1, <2>2, <4>1 DEF HandlerInv
      <4>3. \A j \in DOMAIN out[k] : j > 0 /\ j # 1 => j > 1
        BY <2>1
      <4>4. ASSUME NEW n \in Nat
            PROVE  BroadcastAfter(k, 0, n) => BroadcastAfter(k, 1, n)
        BY <4>1, <4>3 DEF BroadcastAfter
      <4>5. counter # 0 /\ JobAfter(k, 0, counter) => JobAfter(k, 1, counter)
        BY <4>2, <4>3 DEF JobAfter
      <4>6. Followed(k, 0, sent[k])'
        BY <1>1, <2>1, <3>1, <3>2, <4>1, <4>4, <4>5 DEF Followed
      <4> QED
        BY <3>3, <4>6
    <3> QED
      BY <2>1, <3>4, <3>5
  <2> QED
    BY <2>3, <2>4
<1> QED
  BY <1>2, <1>3, NextLine
-----------------------------------------------------------------------------
(* No miner is forgotten.                                                  *)

\* A miner that was sent a job, of whatever number, has the current one coming
\* by what follows the job; so it is enough to look at those that were sent none.
LEMMA NextServed ==
  ASSUME TypeOK, LockInv, JobsInv, \A c \in Conns : BroadcastsInv(c) /\ HandlerInv(c),
         NoneForgotten, [Next]_vars, TypeOK', LockInv', JobsInv', NEW k \in Conns, FollowInv(k)', Ready(k)'
  PROVE  Served(k)'
<1>1. /\ k \in subscribed' /\ k \in authorized' /\ handler'[k] = "idle"
  BY DEF Ready
<1>2. /\ counter \in Nat /\ counter' \in Nat /\ sent'[k].id \in Nat /\ sent'[k].id <= counter'
      /\ current.id = counter /\ current'.id = counter'
  <2>1. sent'[k] \in Job /\ sent'[k] \in Known'
    BY DEF TypeOK, Known
  <2> QED
    BY <2>1 DEF TypeOK, JobsInv, Job, LockInv
<1>3. ASSUME sent'[k].id = counter' \/ JobAfter(k, 0, counter)'
      PROVE  Served(k)'
  <2>1. \A t \in Tasks : staged'[t].id = counter' => staged'[t] = current'
    BY DEF JobsInv
  <2> QED
    BY <1>2, <1>3, <2>1 DEF Served, JobAfter, ToCome
<1>4. CASE sent'[k].id > 0
  BY <1>1, <1>2, <1>3, <1>4 DEF FollowInv, Followed
<1>5. CASE sent'[k].id = 0 /\ k \in subscribed /\ Lasts(k)
  <2>1. /\ Ready(k) /\ sent[k].id = 0
    BY <1>1, <1>5 DEF Lasts, Ready
  <2>2. Served(k)
    BY <2>1 DEF NoneForgotten
  <2>3. DOMAIN out[k] = 1..Len(out[k])
    BY LenProperties DEF TypeOK
  <2>4. counter = 0 \/ JobAfter(k, 0, counter)
    BY <1>2, <2>1, <2>2, <2>3 DEF Served, JobAfter, ToCome
  <2>5. CASE counter' = counter
    <3>1. PICK m : m = counter
      OBVIOUS
    <3>2. JobAfter(k, 0, m) => JobAfter(k, 0, m)'
      BY <1>1, <1>5, AfterKept
    <3>3. counter' = 0 \/ JobAfter(k, 0, counter)'
      BY <2>4, <2>5, <3>1, <3>2 DEF JobAfter, ToCome
    <3> QED
      BY <1>3, <1>5, <3>3
  <2>6. CASE ToCome(k, counter)'
    BY <1>3, <2>6 DEF JobAfter
  <2> QED
    BY <1>1, <1>5, <2>5, <2>6, NextCounter
<1>6. CASE sent'[k].id = 0 /\ LineSent(k)
  <2>1. /\ Len(out[k]) \in Nat \ {0} /\ DOMAIN out[k] = 1..Len(out[k])
        /\ UNCHANGED <<counter, current, authorized>>
        /\ TakesBroadcast(k) \/ Rests(k) \/ Greets(k) \/ OffersWork(k) \/ TakesWork(k)
    BY <1>6, LineSentKinds
  <2>2. 1 \in DOMAIN out[k]
    BY <2>1
  <2>3. CASE Rests(k)
    <3>1. current = NoJob
      BY <1>1, <2>1, <2>3 DEF Rests
    <3> QED
      BY <1>2, <1>3, <1>6, <2>1, <3>1 DEF NoJob
  <2>4. ~TakesWork(k)
    <3>1. TakesWork(k) => sent'[k].id > 0
      BY <2>2 DEF TakesWork, HandlerInv
    <3> QED
      BY <1>6, <3>1
  <2>5. ~TakesBroadcast(k)
    <3>1. TakesBroadcast(k) => sent'[k].id > 0
      BY <2>2 DEF TakesBroadcast, BroadcastsInv, TypeOK
    <3> QED
      BY <1>6, <3>1
  <2> QED
    BY <1>1, <2>1, <2>3, <2>4, <2>5 DEF Greets, OffersWork
<1> QED
  BY <1>1, <1>2, <1>4, <1>5, <1>6, NextLine
-----------------------------------------------------------------------------
(* The theorems.                                                           *)

LEMMA InitDelivery == Init => DeliveryInv
<1>1. Init => NoneForgotten
  BY DEF Init, NoneForgotten, Served
<1> QED
  BY <1>1, InitType, InitLock, InitJobs, InitLines DEF DeliveryInv

LEMMA NextDelivery == DeliveryInv /\ [Next]_vars => DeliveryInv'
<1> SUFFICES ASSUME DeliveryInv, [Next]_vars
             PROVE  DeliveryInv'
  OBVIOUS
<1>1. /\ TypeOK /\ LockInv /\ JobsInv /\ NoneForgotten
      /\ \A c \in Conns : BroadcastsInv(c) /\ HandlerInv(c) /\ FollowInv(c)
  BY DEF DeliveryInv
<1>2. TypeOK'
  BY <1>1, NextType
<1>3. LockInv'
  BY <1>1, <1>2, NextLock
<1>4. JobsInv'
  BY <1>1, NextJobs
<1>5. \A c \in Conns : BroadcastsInv(c)' /\ HandlerInv(c)'
  BY <1>1, NextBroadcasts, NextHandler
<1>6. \A c \in Conns : FollowInv(c)'
  BY <1>1, <1>2, <1>3, NextFollow
<1>7. \A c \in Conns : Ready(c)' => Served(c)'
  BY <1>1, <1>2, <1>3, <1>4, <1>6, NextServed
<1>8. NoneForgotten'
  BY <1>7 DEF NoneForgotten
<1> QED
  BY <1>2, <1>3, <1>4, <1>5, <1>6, <1>8 DEF DeliveryInv

\* The lock, the jobs, the lines of the connections and what follows in them
\* are as the inductive invariant says in every reachable state.
THEOREM DeliveryAlways == Spec => []DeliveryInv
<1>1. Init => DeliveryInv
  BY InitDelivery
<1>2. DeliveryInv /\ [Next]_vars => DeliveryInv'
  BY NextDelivery
<1> QED
  BY <1>1, <1>2, PTL DEF Spec

\* Every variable keeps its type, whatever connects, and when.
THEOREM TypeCorrect == Spec => []TypeOK
<1>1. DeliveryInv => TypeOK
  BY DEF DeliveryInv
<1> QED
  BY <1>1, DeliveryAlways, PTL

\* A miner that has shaken hands always has the current job, or has it coming:
\* no order of the handshake, the broadcasts and the new templates leaves it out.
THEOREM NoneForgottenAlways == Spec => []NoneForgotten
<1>1. DeliveryInv => NoneForgotten
  BY DEF DeliveryInv
<1> QED
  BY <1>1, DeliveryAlways, PTL

\* No job is ever dropped as superseded: the tasks come to the lock in the
\* order in which their jobs were numbered, so that the test never succeeds.
THEOREM NoneSuperseded ==
  Spec => [](queue # << >> => ~Superseded(staged[Head(queue)]))
<1>1. DeliveryInv => (queue # << >> => ~Superseded(staged[Head(queue)]))
  <2> SUFFICES ASSUME DeliveryInv, queue # << >>
               PROVE  ~Superseded(staged[Head(queue)])
    OBVIOUS
  <2>1. 1 \in DOMAIN queue /\ Head(queue) = queue[1] /\ last \in Nat
    BY Popped DEF DeliveryInv, TypeOK
  <2>2. staged[Head(queue)].id = last + 1
    BY <2>1 DEF DeliveryInv, LockInv
  <2> QED
    BY <2>1, <2>2 DEF Superseded
<1> QED
  BY <1>1, DeliveryAlways, PTL

\* A miner is sent the next job by broadcast, which is clean unless its tip is
\* that of the job before, or the current one by its coroutine, which is clean.
LEMMA NextClean ==
  ASSUME DeliveryInv, [Next]_vars, NEW c \in Conns,
         sent[c].id > 0, sent'[c].id > sent[c].id
  PROVE  Succeeds(sent[c], sent'[c])
<1>1. /\ TypeOK /\ LockInv /\ JobsInv
      /\ \A k \in Conns : BroadcastsInv(k) /\ HandlerInv(k) /\ FollowInv(k)
  BY DEF DeliveryInv
<1>2. c \in subscribed
  BY <1>1 DEF HandlerInv, TypeOK, Job
<1>3. sent[c].id \in Nat /\ sent'[c] # sent[c]
  BY <1>1 DEF TypeOK, Job
<1>4. c \in subscribed'
  <2>1. ASSUME NEW s \in SUBSET Conns, Close(s)
        PROVE  c \in subscribed'
    <3>1. c \notin s
      BY <1>1, <1>3, <2>1, CloseDoes
    <3> QED
      BY <1>1, <1>2, <2>1, <3>1, CloseDoes
  <2>2. CASE (\E t \in Tasks : BroadcastEnds(t)) \/ \E k \in Conns : Disconnect(k)
    BY <1>1, <2>1, <2>2 DEF BroadcastEnds, Disconnect, TypeOK
  <2>3. CASE \E k \in Conns : LineSent(k)
    <3>1. PICK k \in Conns : TakesBroadcast(k) \/ Rests(k) \/ Greets(k) \/ OffersWork(k) \/ TakesWork(k)
      BY <1>1, <2>3, LineSentKinds
    <3> QED
      BY <1>2, <3>1 DEF TakesBroadcast, Rests, Greets, OffersWork, TakesWork
  <2>4. CASE \E t \in Tasks, k \in Conns : SendStarts(t, k)
    BY <1>1, <1>2, <2>4, SendStartsDoes
  <2>5. CASE \E k \in Conns : Subscribe(k) \/ Authorize(k)
    BY <1>1, <1>2, <2>5, HandshakeDoes
  <2>6. CASE \/ TakesLock \/ \E t \in Tasks : IngestBroadcasts(t)
             \/ Aside
    BY <1>1, <1>2, <2>6, AsideKeeps, BroadcastBegins
  <2>7. CASE (\E k \in Conns : Connect(k)) \/ \E t \in Tasks : IngestQueues(t)
    BY <1>2, <2>7 DEF Connect, IngestQueues, connVars
  <2> QED
    BY <2>2, <2>3, <2>4, <2>5, <2>6, <2>7, StepKinds
<1>5. LineSent(c)
  BY <1>1, <1>3, <1>4, NextLine DEF Lasts
<1>6. /\ Len(out[c]) \in Nat \ {0} /\ DOMAIN out[c] = 1..Len(out[c])
      /\ TakesBroadcast(c) \/ Rests(c) \/ Greets(c) \/ OffersWork(c) \/ TakesWork(c)
  BY <1>1, <1>5, LineSentKinds
<1>7. 1 \in DOMAIN out[c] /\ out[c][1].job.id \in Nat
  BY <1>1, <1>6, KnownIs DEF Job
<1>8. CASE TakesWork(c)
  BY <1>1, <1>3, <1>7, <1>8 DEF TakesWork, HandlerInv, Succeeds
<1>9. CASE TakesBroadcast(c)
  <2> DEFINE x == sent[c]
             y == out[c][1].job
  <2>1. sent'[c] = y /\ y.id = last /\ y.id > x.id /\ c \notin starting /\ IsBroadcast(out[c][1])
    BY <1>1, <1>7, <1>9 DEF TakesBroadcast, BroadcastsInv
  <2>2. x \in Known /\ y \in Known /\ last \in Nat /\ counter \in Nat /\ last <= counter
    BY <1>1, <1>7, KnownIs, QueueIs DEF LockInv, TypeOK
  <2>3. BroadcastAfter(c, 0, x.id + 1)
    BY <1>1, <1>2, <1>3, <2>1, <2>2 DEF FollowInv, Followed
  <2>4. ~ToCome(c, x.id + 1)
    <3>1. \A t \in Tasks : task[t] = "queued" => staged[t].id > last
      <4>1. ASSUME NEW t \in Tasks, task[t] = "queued"
            PROVE  staged[t].id > last
        <5>1. PICK i \in DOMAIN queue : queue[i] = t
          BY <1>1, <4>1 DEF LockInv
        <5>2. staged[t].id = last + i /\ i \in Nat /\ i > 0
          BY <1>1, <5>1, QueueIs DEF LockInv
        <5> QED
          BY <2>2, <5>2
      <4> QED
        BY <4>1
    <3>2. x.id + 1 <= last
      BY <1>3, <2>1, <2>2
    <3> QED
      BY <1>3, <2>1, <2>2, <3>1, <3>2 DEF ToCome
  <2>5. y.id = x.id + 1
    BY <1>1, <2>1, <2>3, <2>4 DEF BroadcastAfter, BroadcastsInv
  <2> QED
    BY <1>1, <2>1, <2>2, <2>5 DEF JobsInv
<1>10. sent'[c] = sent[c] \/ TakesBroadcast(c) \/ TakesWork(c)
  BY <1>6 DEF Rests, Greets, OffersWork
<1> QED
  BY <1>3, <1>8, <1>9, <1>10

\* When the tip under a miner's work changes, the new work tells the miner to
\* drop the old: each job is broadcast after the one before, or given as clean.
THEOREM CleanOnNewTipAlways == Spec => CleanOnNewTip
<1>1. DeliveryInv /\ [Next]_vars =>
        [\A c \in Conns :
           /\ sent[c].id > 0
           /\ sent'[c].id > sent[c].id
           /\ sent'[c].tip # sent[c].tip
           => sent'[c].clean]_vars
  BY NextClean DEF Succeeds
<1> QED
  BY <1>1, DeliveryAlways, PTL DEF Spec, CleanOnNewTip
=============================================================================
