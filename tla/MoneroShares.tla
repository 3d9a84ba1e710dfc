----------------------------- MODULE MoneroShares -----------------------------
(***************************************************************************)
(* What becomes of the shares of Monero miners (monero_stratum.py:         *)
(* MoneroConnection, broadcast; monero_pool.py: the end of                 *)
(* _refresh_template).                                                     *)
(*                                                                         *)
(* A share is a result, taken at its word: nobody recomputes it.  So the   *)
(* duplicate window belongs to the pool and is keyed on the template and   *)
(* the result, whatever job of whatever connection the result comes with.  *)
(* A result is named by the difficulty it meets.                           *)
(*                                                                         *)
(* The pool takes templates and gives every miner that has logged in a job *)
(* for each new height; connections log in, ask for jobs, submit and are   *)
(* dropped; the idle check changes difficulties.  A handler that submits a *)
(* block to the node waits for it, and the others go on.  What a retarget  *)
(* comes to is left open.                                                  *)
(***************************************************************************)
EXTENDS Naturals, SequencesExt

CONSTANTS
  Conns,         \* connections
  Band,          \* the difficulties vardiff may come to
  Start,         \* start_difficulty
  Results,       \* results, by the difficulty they meet
  NetDiff,       \* the difficulty of the network
  JobsRetained,  \* JOBS_RETAINED
  MaxSeen,       \* MAX_SEEN_SHARES
  FloodMin,      \* REJECT_FLOOD_MIN
  MaxTemplates,  \* bound: templates
  MaxJobs,       \* bound: jobs a connection gets
  MaxSubmits     \* bound: submissions, of all connections

ASSUME BandPositive == Band \subseteq Nat \ {0} /\ Start \in Band
ASSUME ResultsPositive == Results \subseteq Nat \ {0} /\ NetDiff \in Nat
ASSUME LimitsPositive == {JobsRetained, MaxSeen, FloodMin} \subseteq Nat \ {0}

VARIABLES
  template,  \* the pool's template
  made,      \* templates so far
  conns,     \* what the pool knows of each connection
  jobs,      \* the jobs each connection keeps, oldest first
  given,     \* how many jobs it was given
  counts,    \* its shares accepted and rejected
  solving,   \* its handler waits for handle_block_candidate
  hot,       \* a block was submitted for it in the last seconds
  seen,      \* the pool's duplicate window, oldest first
  submits,   \* submissions so far
  history    \* history: the shares that were accepted, oldest first

pool == <<template, made>>
vars == <<pool, conns, jobs, given, counts, solving, hot, seen, submits, history>>

\* id stands for the blob.
Template == [id : Nat, height : Nat]
Job == [tmpl : Template, diff : Band]
Key == [id : Nat, result : Results]

Opened == [open |-> TRUE, authorized |-> FALSE, diff |-> Start, struck |-> FALSE]

Init ==
  /\ template = [id |-> 1, height |-> 1]
  /\ made = 1
  /\ conns = [c \in Conns |-> Opened]
  /\ jobs = [c \in Conns |-> << >>]
  /\ given = [c \in Conns |-> 0]
  /\ counts = [c \in Conns |-> [accepted |-> 0, rejected |-> 0]]
  /\ solving = [c \in Conns |-> FALSE]
  /\ hot = [c \in Conns |-> FALSE]
  /\ seen = << >>
  /\ submits = 0
  /\ history = << >>

-----------------------------------------------------------------------------
(* Jobs.                                                                   *)

\* The oldest job goes when there are too many.
Keep(kept, job) ==
  LET all == Append(kept, job)
  IN  IF Len(all) > JobsRetained THEN Tail(all) ELSE all

\* _make_job, for the connections of S, with template t and difficulties d.
MakeJobs(S, t, d) ==
  /\ \A c \in S : given[c] < MaxJobs
  /\ given' = [c \in Conns |-> IF c \in S THEN given[c] + 1 ELSE given[c]]
  /\ jobs' = [c \in Conns |-> IF c \in S THEN Keep(jobs[c], [tmpl |-> t, diff |-> d[c]])
                                         ELSE jobs[c]]

Diffs == [c \in Conns |-> conns[c].diff]

Close(S) == [c \in Conns |-> IF c \in S THEN [conns[c] EXCEPT !.open = FALSE] ELSE conns[c]]

\* Mutation: only the miners whose shares are accepted.
ListenersWithWork == {c \in Conns : conns[c].open /\ conns[c].authorized /\ counts[c].accepted > 0}

\* The connections a broadcast reaches.
Listeners == {c \in Conns : conns[c].open /\ conns[c].authorized}

\* A template of the same height is kept for the next job, one of a new height
\* is broadcast, and the miners that do not take it in time are dropped.
NewTemplate ==
  /\ made < MaxTemplates
  /\ made' = made + 1
  /\ \E h \in {template.height, template.height + 1} :
       /\ template' = [id |-> made + 1, height |-> h]
       /\ IF h = template.height
          THEN UNCHANGED <<conns, jobs, given>>
          ELSE \E S \in SUBSET Listeners :
                 /\ MakeJobs(Listeners, template', Diffs)
                 /\ conns' = Close(S)
  /\ UNCHANGED <<counts, solving, hot, seen, submits, history>>

\* A handler takes the next line when it is done with the last.
Handles(c) == conns[c].open /\ ~solving[c]

\* login, with an address that is valid.  Logging in twice is possible.
Login(c) ==
  /\ Handles(c)
  /\ conns' = [conns EXCEPT ![c].authorized = TRUE]
  /\ MakeJobs({c}, template, Diffs)
  /\ UNCHANGED <<pool, counts, solving, hot, seen, submits, history>>

\* getjob, before or after login.
GetJob(c) ==
  /\ Handles(c)
  /\ MakeJobs({c}, template, Diffs)
  /\ UNCHANGED <<pool, conns, counts, solving, hot, seen, submits, history>>

\* vardiff has a new difficulty for c; a miner that has logged in is sent a job
\* with it.
Retargets(c, d) ==
  /\ conns' = [conns EXCEPT ![c].diff = d]
  /\ IF conns[c].authorized
     THEN MakeJobs({c}, template, [Diffs EXCEPT ![c] = d])
     ELSE UNCHANGED <<jobs, given>>

IdleCheck(c) ==
  /\ conns[c].open
  /\ \E d \in Band : d < conns[c].diff /\ Retargets(c, d)
  /\ UNCHANGED <<pool, counts, solving, hot, seen, submits, history>>

Disconnect(c) ==
  /\ Handles(c)
  /\ conns' = Close({c})
  /\ UNCHANGED <<pool, jobs, given, counts, solving, hot, seen, submits, history>>

-----------------------------------------------------------------------------
(* Submissions.                                                            *)

Submits(c) ==
  /\ Handles(c)
  /\ conns[c].authorized
  /\ submits < MaxSubmits
  /\ submits' = submits + 1
  /\ UNCHANGED pool

\* Nine in ten shares are bad, and there are enough to judge.
Flooding(c) ==
  LET rejected == counts[c].rejected + 1
      total == counts[c].accepted + rejected
  IN  total >= FloodMin /\ 10 * rejected >= 9 * total

\* _reject: a flood ends the connection; it is held against the address unless
\* the last share was stale.
Reject(c, reason) ==
  /\ counts' = [counts EXCEPT ![c].rejected = @ + 1]
  /\ conns' = [conns EXCEPT ![c].open = ~Flooding(c),
                            ![c].struck = Flooding(c) /\ reason # "stale"]
  /\ UNCHANGED <<jobs, given, solving, hot, history>>

\* A job that is not kept, or something that is no result.
SubmitUnusable(c) ==
  /\ Submits(c)
  /\ \E reason \in {"stale", "other"} : Reject(c, reason)
  /\ UNCHANGED seen

\* Mutation: the result is looked up with the job it came with.
KeyOfJob(c, i, r) == [id |-> given[c] - Len(jobs[c]) + i, result |-> r]

\* What a result is remembered by.
KeyOf(c, i, r) == [id |-> jobs[c][i].tmpl.id, result |-> r]

Known(c, i, r) == KeyOf(c, i, r) \in ToSet(seen)

SubmitDuplicate(c, i, r) ==
  /\ Submits(c)
  /\ Known(c, i, r)
  /\ Reject(c, "duplicate")
  /\ UNCHANGED seen

Remember(c, i, r) ==
  LET all == Append(seen, KeyOf(c, i, r))
  IN  IF Len(all) > MaxSeen THEN Tail(all) ELSE all

Low(c, i, r) == r < jobs[c][i].diff

IsBlock(r) == r >= NetDiff

\* The job is not for the height that is mined now.
Stale(c, i) == jobs[c][i].tmpl.height # template.height

\* Mutation: the result is remembered before it is judged.
SubmitBadRemembering(c, i, r) ==
  /\ Submits(c)
  /\ ~Known(c, i, r)
  /\ \/ Low(c, i, r) /\ Reject(c, "low_diff")
     \/ ~Low(c, i, r) /\ ~IsBlock(r) /\ Stale(c, i) /\ Reject(c, "stale")
  /\ seen' = Remember(c, i, r)

\* A result that is too weak, or too late and no block, leaves no trace.
SubmitBad(c, i, r) ==
  /\ Submits(c)
  /\ ~Known(c, i, r)
  /\ \/ Low(c, i, r) /\ Reject(c, "low_diff")
     \/ ~Low(c, i, r) /\ ~IsBlock(r) /\ Stale(c, i) /\ Reject(c, "stale")
  /\ UNCHANGED seen

\* The share is accepted, with the difficulty of its job.  record_share is then
\* called for it, once; when that raises, the exception is caught, and the share
\* stays accepted and in the window without being credited.  So what is said of
\* the shares accepted here is said of those credited.
Accepts(c, i, r) ==
  /\ Submits(c)
  /\ ~Known(c, i, r)
  /\ ~Low(c, i, r)
  /\ seen' = Remember(c, i, r)
  /\ counts' = [counts EXCEPT ![c].accepted = @ + 1]
  /\ history' = Append(history, [tmpl |-> jobs[c][i].tmpl, result |-> r,
                                 diff |-> jobs[c][i].diff])

\* Vardiff.record_share, the last thing a submission does.
RecordShare(c) ==
  \/ UNCHANGED <<conns, jobs, given>>
  \/ \E d \in Band \ {conns[c].diff} : Retargets(c, d)

\* A share, or a block from a connection that has just submitted another: that
\* one is not submitted.
SubmitShare(c, i, r) ==
  /\ Accepts(c, i, r)
  /\ \/ ~IsBlock(r) /\ ~Stale(c, i)
     \/ IsBlock(r) /\ hot[c]
  /\ RecordShare(c)
  /\ UNCHANGED <<solving, hot>>

\* A block, stale or not, goes to the node.
SubmitBlock(c, i, r) ==
  /\ Accepts(c, i, r)
  /\ IsBlock(r)
  /\ ~hot[c]
  /\ solving' = [solving EXCEPT ![c] = TRUE]
  /\ hot' = [hot EXCEPT ![c] = TRUE]
  /\ UNCHANGED <<conns, jobs, given>>

\* The node has answered, or the client has given up.
SolveEnds(c) ==
  /\ solving[c]
  /\ solving' = [solving EXCEPT ![c] = FALSE]
  /\ RecordShare(c)
  /\ UNCHANGED <<pool, counts, hot, seen, submits, history>>

\* BLOCK_SUBMIT_COOLDOWN has passed.
CoolsDown(c) ==
  /\ hot[c]
  /\ hot' = [hot EXCEPT ![c] = FALSE]
  /\ UNCHANGED <<pool, conns, jobs, given, counts, solving, seen, submits, history>>

Submit(c, i, r) ==
  \/ SubmitDuplicate(c, i, r) \/ SubmitBad(c, i, r)
  \/ SubmitShare(c, i, r) \/ SubmitBlock(c, i, r)

-----------------------------------------------------------------------------
Next ==
  \/ NewTemplate
  \/ \E c \in Conns :
       \/ Login(c)
       \/ GetJob(c)
       \/ IdleCheck(c)
       \/ Disconnect(c)
       \/ SubmitUnusable(c)
       \/ \E i \in DOMAIN jobs[c], r \in Results : Submit(c, i, r)
       \/ SolveEnds(c)
       \/ CoolsDown(c)

Spec == Init /\ [][Next]_vars

-----------------------------------------------------------------------------
(* Properties.                                                             *)

TypeOK ==
  /\ template \in Template
  /\ {made, submits} \subseteq Nat
  /\ conns \in [Conns -> [open : BOOLEAN, authorized : BOOLEAN, diff : Band, struck : BOOLEAN]]
  /\ jobs \in [Conns -> Seq(Job)]
  /\ \A c \in Conns : Len(jobs[c]) <= JobsRetained
  /\ given \in [Conns -> Nat]
  /\ counts \in [Conns -> [accepted : Nat, rejected : Nat]]
  /\ {solving, hot} \subseteq [Conns -> BOOLEAN]
  /\ seen \in Seq(Key)
  /\ Len(seen) <= MaxSeen
  /\ history \in Seq([tmpl : Template, result : Results, diff : Band])

\* One result pays once for one template: it is not accepted again under
\* another job, another connection or another difficulty before
\* MAX_SEEN_SHARES others have been, and a share is credited only when it is
\* accepted (_on_submit: "One valid result per template = one share").
ResultPaysOnce ==
  \A i, j \in DOMAIN history :
    /\ i < j
    /\ history[i].tmpl.id = history[j].tmpl.id
    /\ history[i].result = history[j].result
    => j - i > MaxSeen

\* The window is the last MAX_SEEN_SHARES results that were accepted, in their
\* order, over all connections, credited or not.  None is missing, so none can
\* be replayed; no other is there, so a result that was turned down is not a
\* duplicate when it comes back with an easier job (_on_submit: "a rejected
\* low-diff submit would poison the pool-global set").
WindowIsAccepted ==
  LET n == Len(history)
      m == Len(seen)
  IN  /\ m = IF n <= MaxSeen THEN n ELSE MaxSeen
      /\ \A i \in 1..m : /\ seen[i].id = history[n - m + i].tmpl.id
                        /\ seen[i].result = history[n - m + i].result

\* The last job a miner was given is for the height the pool mines at, after
\* logins, retargets and broadcasts in any order (_refresh_template: only a new
\* height is broadcast).
NewestJobCurrent ==
  \A c \in Conns :
    conns[c].open /\ conns[c].authorized =>
      jobs[c] # << >> /\ Last(jobs[c]).tmpl.height = template.height

\* Once a share of one height is accepted, none of a lower height is, from any
\* miner, unless it is a block (_on_submit: the dead-tip gate).
CreditMovesOn ==
  [][\/ history' = history
     \/ IsBlock(Last(history').result)
     \/ \A i \in DOMAIN history : history[i].tmpl.height <= Last(history').tmpl.height]_vars
=============================================================================
