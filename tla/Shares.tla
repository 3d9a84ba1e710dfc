-------------------------------- MODULE Shares --------------------------------
(***************************************************************************)
(* What becomes of the shares of one miner (stratum.py: Vardiff, reject,   *)
(* _on_authorize, _on_suggest_difficulty, _on_submit; pool.py: the jobs    *)
(* that _apply_template keeps).                                            *)
(*                                                                         *)
(* The pool makes jobs while the miner submits shares for any of them,     *)
(* asks for a difficulty, goes quiet and is cut off; another connection    *)
(* hashes other headers and starts afresh.  A header is what is hashed:    *)
(* the work of the job and the miner's own choice, of which only the       *)
(* difficulty that the hash comes out at matters: its luck.  Two jobs may  *)
(* hold the same work: an unchanged template is given a new job id.        *)
(*                                                                         *)
(* The clock is what the rules compare: ticks without an accepted share.   *)
(* What a retarget makes of the times of the shares is any difficulty that *)
(* it may come to.  The miner learns of a difficulty some time after it    *)
(* was sent.                                                               *)
(***************************************************************************)
EXTENDS Naturals, Sequences, SequencesExt, FiniteSets

CONSTANTS
  Band,          \* the difficulties from min_difficulty to max_difficulty
  Start,         \* start_difficulty
  MaxRequested,  \* MAX_REQUESTED_DIFF
  Requests,      \* difficulties a miner asks for
  Lucks,         \* what hashes come out at
  NetDiff,       \* the difficulty of a block
  QuietWindow,   \* ticks after which a miner counts as quiet
  Grace,         \* RELAX_PIN_GRACE_SHARES
  MaxSeen,       \* MAX_SEEN_SHARES
  MinKept,       \* MIN_RETAINED_JOBS
  MaxKept,       \* MAX_RETAINED_JOBS
  FloodMin,      \* REJECT_FLOOD_MIN
  MaxJobs,       \* bound: jobs made
  MaxWorks,      \* bound: different works
  MaxShares,     \* bound: submissions
  MaxAsks        \* bound: requests for a difficulty

ASSUME BandOfDifficulties ==
  /\ Band \subseteq Nat \ {0}
  /\ \E low, high \in Band : Band = low..high
  /\ Start \in Band
ASSUME RequestsPositive == Requests \cup {MaxRequested} \subseteq Nat \ {0}
ASSUME LimitsOrdered == MinKept \in Nat \ {0} /\ MaxKept \in Nat /\ MinKept <= MaxKept
ASSUME LimitsNat == {QuietWindow, Grace, MaxSeen, FloodMin} \subseteq Nat
ASSUME LucksNat == Lucks \subseteq Nat /\ NetDiff \in Nat

VARIABLES
  jobs,      \* the jobs kept, oldest first
  made,      \* jobs made
  works,     \* different works made
  alive,     \* the connection is not dropped
  vardiff,   \* the connection's Vardiff
  quiet,     \* ticks since _last_share
  seen,      \* the headers the connection remembers, oldest first
  counts,    \* shares accepted and rejected
  struck,    \* the drop counted against the miner's address
  solving,   \* the handler waits for handle_block_candidate
  age,       \* ticks since the block in hand was submitted
  knows,     \* the difficulty the miner's shares are aimed at
  news,      \* what has changed that the miner does not know of
  asks,      \* requests so far
  entered,   \* history: the headers that were taken for new
  credited   \* history: the last share accepted, and what it counts for

poolVars  == <<jobs, made, works>>
minerVars == <<knows, news>>
handVars  == <<solving, age>>
vars == <<poolVars, alive, vardiff, quiet, seen, counts, struck, handVars,
          minerVars, asks, entered, credited>>

MinDiff == Min(Band)
MaxDiff == Max(Band)

Job    == [id : Nat, work : Nat, height : Nat]
Header == [work : Nat, luck : Lucks]

Newest == Last(jobs)

\* current_height.
Height == Newest.height

Fresh == [difficulty |-> Start, previous |-> Start, fixed |-> FALSE, floor |-> 0, produced |-> 0]

NoCredit == [height |-> 0, luck |-> 0, credit |-> 0, block |-> FALSE]

Init ==
  /\ jobs = <<[id |-> 1, work |-> 1, height |-> 1]>>
  /\ made = 1
  /\ works = 1
  /\ alive = TRUE
  /\ vardiff = Fresh
  /\ quiet = 0
  /\ seen = << >>
  /\ counts = [accepted |-> 0, rejected |-> 0]
  /\ struck = FALSE
  /\ solving = FALSE
  /\ age = 0
  /\ knows = Start
  /\ news = "none"
  /\ asks = 0
  /\ entered = << >>
  /\ credited = NoCredit

-----------------------------------------------------------------------------
(* The pool's jobs.                                                        *)

\* _ingest_template drops a template that comes too late.
Outdated(height) == height < Height

\* The jobs that are kept with the new one: the oldest go when they are old
\* enough, down to a floor, and when there are too many.
Kept(job) ==
  LET all == Append(jobs, job)
  IN  {SubSeq(all, n + 1, Len(all)) : n \in {k \in 0..Len(jobs) :
         /\ Len(all) - k <= MaxKept
         /\ Len(all) - k >= MinKept \/ k = 0}}

ApplyTemplate(work, height) ==
  /\ made < MaxJobs
  /\ ~Outdated(height)
  /\ made' = made + 1
  /\ jobs' \in Kept([id |-> made + 1, work |-> work, height |-> height])
  /\ works' = IF work > works THEN work ELSE works
  /\ UNCHANGED <<alive, vardiff, quiet, seen, counts, struck, handVars,
                 minerVars, asks, entered, credited>>

\* Nothing is new but the job id.
Refresh == ApplyTemplate(Newest.work, Height)

\* Other transactions, another block at the same height, the next height, or
\* an answer that was under way when the tip changed.
NewWork ==
  /\ works < MaxWorks
  /\ \E height \in (Height - 1)..(Height + 1) : ApplyTemplate(works + 1, height)

-----------------------------------------------------------------------------
(* Vardiff.                                                                *)

\* The difficulty changes to d, with previous to be tolerated; the miner is
\* told.
Tells(d, previous) ==
  /\ vardiff' = [vardiff EXCEPT !.difficulty = d, !.previous = previous]
  /\ news' = IF news = "none" THEN "retarget" ELSE "more"

\* Mutation: only the new difficulty is tolerated.
RetargetAbrupt(d) == Tells(d, d)

RetargetTo(d) == Tells(d, vardiff.difficulty)

\* What a retarget may come to.
Targets ==
  {d \in Band : d <= 4 * vardiff.difficulty /\ vardiff.difficulty <= 4 * d}

\* record_share, for a share that was accepted some ticks ago.
RecordShare(ticks) ==
  /\ quiet' = ticks
  /\ IF vardiff.fixed
     THEN /\ vardiff' = [vardiff EXCEPT !.produced = IF @ > Grace THEN @ ELSE @ + 1]
          /\ UNCHANGED news
     ELSE \E d \in Targets :
            IF d = vardiff.difficulty THEN UNCHANGED <<vardiff, news>> ELSE RetargetTo(d)

\* A pin, or the end of one: the difficulty changes at once.
Sets(d, fixed, floor) ==
  /\ vardiff' = [difficulty |-> d, previous |-> d, fixed |-> fixed, floor |-> floor,
                 produced |-> 0]
  /\ news' = "more"

Ceiling == Min({MaxRequested, MaxDiff})

\* Mutation: a later request may go below the floor.
PinnedAtUndercut(d, floor) == Max({MinDiff, Min({Ceiling, d})})

\* The difficulty a request for d comes to.
PinnedAt(d, floor) == Max({MinDiff, floor, Min({Ceiling, d})})

\* set_fixed, asked by suggest_difficulty or, as a floor, by the password.
SetFixed(d, isFloor) ==
  LET floor == IF isFloor THEN Max({MinDiff, Min({Ceiling, d})}) ELSE vardiff.floor
  IN  Sets(PinnedAt(d, floor), TRUE, floor)

\* Mutation: a pin is never let go.
LetsGoNever == FALSE

\* A pin that bore hardly a share before the miner went quiet is let go.
LetsGo == vardiff.produced <= Grace

IsQuiet == quiet >= QuietWindow

\* vardiff_idle_check, by the pool's own task.
IdleRelaxes ==
  /\ vardiff.fixed
  /\ LetsGo
  /\ Sets(Start, FALSE, 0)

IdleHalves ==
  /\ ~vardiff.fixed
  /\ vardiff.difficulty > MinDiff
  /\ RetargetTo(Max({MinDiff, vardiff.difficulty \div 2}))

IdleCheck ==
  /\ alive
  /\ IsQuiet
  /\ IdleRelaxes \/ IdleHalves
  /\ quiet' = 0
  /\ UNCHANGED <<poolVars, alive, seen, counts, struck, handVars,
                 knows, asks, entered, credited>>

-----------------------------------------------------------------------------
(* The miner's requests.                                                   *)

\* Lines are handled one after the other.
Handles == alive /\ ~solving

Asks(isFloor) ==
  /\ Handles
  /\ asks < MaxAsks
  /\ asks' = asks + 1
  /\ \E d \in Requests : SetFixed(d, isFloor)
  /\ UNCHANGED <<poolVars, alive, quiet, seen, counts, struck, handVars,
                 knows, entered, credited>>

Authorize == Asks(TRUE)
SuggestDifficulty == Asks(FALSE)

\* The miner has had all it was sent.
Learns ==
  /\ news # "none"
  /\ knows' = vardiff.difficulty
  /\ news' = "none"
  /\ UNCHANGED <<poolVars, alive, vardiff, quiet, seen, counts, struck, handVars,
                 asks, entered, credited>>

Tick ==
  /\ quiet < QuietWindow
  /\ quiet' = quiet + 1
  /\ age' = IF solving THEN age + 1 ELSE age
  /\ UNCHANGED <<poolVars, alive, vardiff, seen, counts, struck, solving,
                 minerVars, asks, entered, credited>>

-----------------------------------------------------------------------------
(* Submissions.                                                            *)

Submits ==
  /\ Handles
  /\ counts.accepted + counts.rejected < MaxShares

\* Nine in ten shares are bad, and there are enough to judge.
Flooding ==
  LET rejected == counts.rejected + 1
      total == counts.accepted + rejected
  IN  total >= FloodMin /\ 10 * rejected >= 9 * total

\* reject: the last bad share's code says whether the drop is held against the
\* address.
Reject(code) ==
  /\ counts' = [counts EXCEPT !.rejected = @ + 1]
  /\ alive' = ~Flooding
  /\ struck' = (Flooding /\ code # "stale")
  /\ UNCHANGED <<poolVars, vardiff, quiet, handVars, minerVars, asks, credited>>

\* The job is not kept any more, or never was.
SubmitUnknown ==
  /\ Submits
  /\ Reject("stale")
  /\ UNCHANGED <<seen, entered>>

SubmitMalformed ==
  /\ Submits
  /\ Reject("other")
  /\ UNCHANGED <<seen, entered>>

HeaderOf(job, luck) == [work |-> job.work, luck |-> luck]

SubmitDuplicate(job, luck) ==
  /\ Submits
  /\ HeaderOf(job, luck) \in ToSet(seen)
  /\ Reject("duplicate")
  /\ UNCHANGED <<seen, entered>>

\* Mutation: the headers are forgotten when there are too many.
RememberAnew(header) ==
  IF Len(seen) + 1 > MaxSeen THEN <<header>> ELSE Append(seen, header)

\* The oldest header goes when there are too many.
Remember(header) ==
  IF Len(seen) + 1 > MaxSeen THEN Tail(Append(seen, header)) ELSE Append(seen, header)

\* A header that is not remembered is, whatever comes of it.
Enters(job, luck) ==
  /\ Submits
  /\ HeaderOf(job, luck) \notin ToSet(seen)
  /\ seen' = Remember(HeaderOf(job, luck))
  /\ entered' = Append(entered, HeaderOf(job, luck))

IsBlock(luck) == luck >= NetDiff

\* Mutation: a job that is kept is good enough.
NeverStale(job) == FALSE

\* The job is for a height that is past.
Stale(job) == job.height < Height

SubmitStale(job, luck) ==
  /\ Enters(job, luck)
  /\ ~IsBlock(luck)
  /\ Stale(job)
  /\ Reject("stale")

\* What a share must meet.
AcceptDiff == Min({vardiff.difficulty, vardiff.previous})

SubmitLow(job, luck) ==
  /\ Enters(job, luck)
  /\ ~IsBlock(luck)
  /\ ~Stale(job)
  /\ luck < AcceptDiff
  /\ Reject("low")

\* What a share counts for: the difficulty it was held to, and a block the
\* difficulty of the day.
Credit(luck) == IF IsBlock(luck) THEN vardiff.difficulty ELSE AcceptDiff

\* The share is accepted, and record_share is called for it, once.  When that
\* raises, the exception is caught, and the share stays accepted and remembered
\* without being credited: what is said of the shares accepted here is said of
\* those credited.
Accepts(job, luck) ==
  /\ Enters(job, luck)
  /\ counts' = [counts EXCEPT !.accepted = @ + 1]
  /\ credited' = [height |-> job.height, luck |-> luck, credit |-> Credit(luck),
                  block |-> IsBlock(luck)]
  /\ UNCHANGED <<poolVars, alive, struck, knows, asks>>

SubmitShare(job, luck) ==
  /\ ~IsBlock(luck)
  /\ ~Stale(job)
  /\ luck >= AcceptDiff
  /\ Accepts(job, luck)
  /\ RecordShare(0)
  /\ UNCHANGED handVars

\* The share is credited, then the block goes to the node.
SubmitBlock(job, luck) ==
  /\ IsBlock(luck)
  /\ Accepts(job, luck)
  /\ solving' = TRUE
  /\ age' = 0
  /\ UNCHANGED <<vardiff, quiet, news>>

\* The node has answered; the share is dated at its submission.
SolveEnds ==
  /\ solving
  /\ solving' = FALSE
  /\ age' = 0
  /\ RecordShare(age)
  /\ UNCHANGED <<poolVars, alive, seen, counts, struck, knows, asks, entered, credited>>

Submit(job, luck) ==
  \/ SubmitDuplicate(job, luck) \/ SubmitStale(job, luck) \/ SubmitLow(job, luck)
  \/ SubmitShare(job, luck) \/ SubmitBlock(job, luck)

-----------------------------------------------------------------------------
Next ==
  \/ Refresh
  \/ NewWork
  \/ Authorize
  \/ SuggestDifficulty
  \/ Learns
  \/ Tick
  \/ IdleCheck
  \/ SubmitUnknown
  \/ SubmitMalformed
  \/ \E i \in DOMAIN jobs, luck \in Lucks : Submit(jobs[i], luck)
  \/ SolveEnds

\* Time passes, the pool's task comes round, and a submission to the node ends,
\* with an answer or with a timeout.
Fairness == WF_vars(Tick) /\ WF_vars(IdleCheck) /\ WF_vars(SolveEnds)

Spec == Init /\ [][Next]_vars

FairSpec == Spec /\ Fairness

-----------------------------------------------------------------------------
(* Properties.                                                             *)

TypeOK ==
  /\ jobs \in Seq(Job)
  /\ Len(jobs) \in 1..MaxKept
  /\ {made, works, quiet, age, asks} \subseteq Nat
  /\ {alive, struck, solving} \subseteq BOOLEAN
  /\ vardiff \in [difficulty : Band, previous : Band, fixed : BOOLEAN,
                  floor : Band \cup {0}, produced : 0..(Grace + 1)]
  /\ seen \in Seq(Header)
  /\ Len(seen) <= MaxSeen
  /\ counts \in [accepted : Nat, rejected : Nat]
  /\ knows \in Band
  /\ news \in {"none", "retarget", "more"}
  /\ entered \in Seq(Header)
  /\ credited \in [height : Nat, luck : Lucks \cup {0}, credit : Band \cup {0},
                   block : BOOLEAN]

\* A header is not accepted again before MAX_SEEN_SHARES newer ones have come,
\* under whatever job it is sent and however jobs came and went in between
\* (_on_submit: the window is keyed on the header and slides).
NoDoubleCredit ==
  \A i, j \in DOMAIN entered :
    i < j /\ entered[i] = entered[j] => j - i > MaxSeen

\* While a difficulty is pinned it is the only one in force, and it is not below
\* the miner's password, whatever was suggested since (set_fixed).
PinHolds ==
  vardiff.fixed =>
    /\ vardiff.previous = vardiff.difficulty
    /\ vardiff.difficulty >= vardiff.floor

\* A share aimed at the difficulty that the miner knows is not turned down for a
\* retarget it could not know of (_on_submit: accept_diff).  Pins, the end of a
\* pin and a second retarget on the heels of the first are not tolerated.
InFlightTolerated == news # "more" => AcceptDiff <= knows

\* Once a share of one height is accepted, none of a lower height is, unless
\* it is a block (_ingest_template, _on_submit: the stale gate).
CreditMovesOn ==
  [][credited' # credited /\ ~credited'.block => credited'.height >= credited.height]_vars

\* In the end the difficulty of a miner that has gone quiet is as low as it gets,
\* unless it holds a pin that bore shares (idle_retarget).
QuietHeals ==
  <>[](\/ ~alive
       \/ vardiff.difficulty = MinDiff /\ ~vardiff.fixed
       \/ vardiff.fixed /\ vardiff.produced > Grace)
=============================================================================
