---------------------------- MODULE ServerProofs ----------------------------
(***************************************************************************)
(* Proofs about the pool's servers, for every value of their constants:    *)
(* the shares of a Stratum connection (Shares), the slots of a listener    *)
(* and the coming up and going down of a coin (Service), and the rate      *)
(* limiter of the HTTP server (Dashboard).                                 *)
(***************************************************************************)
EXTENDS Shares, Service, Dashboard, SequenceTheorems, FiniteSetTheorems,
        WellFoundedInduction, TLAPS

-----------------------------------------------------------------------------
(* Difficulties.                                                           *)

LEMMA MinOfTwo ==
  ASSUME NEW a \in Nat, NEW b \in Nat
  PROVE  Min({a, b}) \in {a, b} /\ Min({a, b}) <= a /\ Min({a, b}) <= b
<1>1. \E x \in {a, b} : \A y \in {a, b} : x <= y
  OBVIOUS
<1> QED
  BY <1>1 DEF Min

LEMMA MaxOfTwo ==
  ASSUME NEW a \in Nat, NEW b \in Nat
  PROVE  Max({a, b}) \in {a, b} /\ Max({a, b}) >= a /\ Max({a, b}) >= b
<1>1. \E x \in {a, b} : \A y \in {a, b} : x >= y
  OBVIOUS
<1> QED
  BY <1>1 DEF Max

LEMMA MaxOfThree ==
  ASSUME NEW a \in Nat, NEW b \in Nat, NEW c \in Nat
  PROVE  /\ Max({a, b, c}) \in {a, b, c}
         /\ Max({a, b, c}) >= a /\ Max({a, b, c}) >= b /\ Max({a, b, c}) >= c
<1>1. \E x \in {a, b, c} : \A y \in {a, b, c} : x >= y
  OBVIOUS
<1> QED
  BY <1>1 DEF Max

LEMMA BandEnds ==
  /\ MinDiff \in Nat \ {0} /\ MaxDiff \in Nat \ {0} /\ MinDiff <= MaxDiff
  /\ Band = MinDiff..MaxDiff
  /\ Start \in Band
<1>1. PICK low, high \in Band : Band = low..high
  BY BandOfDifficulties
<1>2. low \in Nat \ {0} /\ high \in Nat \ {0}
  BY <1>1, BandOfDifficulties
<1>3. MinDiff = low
  <2>1. \E x \in Band : \A y \in Band : x <= y
    BY <1>1, <1>2
  <2>2. MinDiff \in Band /\ \A y \in Band : MinDiff <= y
    BY <2>1 DEF MinDiff, Min
  <2> QED
    BY <1>1, <1>2, <2>2
<1>4. MaxDiff = high
  <2>1. \E x \in Band : \A y \in Band : x >= y
    BY <1>1, <1>2
  <2>2. MaxDiff \in Band /\ \A y \in Band : MaxDiff >= y
    BY <2>1 DEF MaxDiff, Max
  <2> QED
    BY <1>1, <1>2, <2>2
<1> QED
  BY <1>1, <1>2, <1>3, <1>4, BandOfDifficulties

\* What a request is cut to.
LEMMA CutRequest ==
  ASSUME NEW d \in Requests
  PROVE  Min({Ceiling, d}) \in Nat /\ Min({Ceiling, d}) <= MaxDiff
<1>1. d \in Nat /\ MaxRequested \in Nat /\ MaxDiff \in Nat
  BY RequestsPositive, BandEnds
<1>2. Ceiling \in Nat /\ Ceiling <= MaxDiff
  BY <1>1, MinOfTwo DEF Ceiling
<1> QED
  BY <1>1, <1>2, MinOfTwo

LEMMA FloorInBand ==
  ASSUME NEW d \in Requests
  PROVE  Max({MinDiff, Min({Ceiling, d})}) \in Band
BY CutRequest, BandEnds, MaxOfTwo

LEMMA PinInBand ==
  ASSUME NEW d \in Requests, NEW floor \in Band \cup {0}
  PROVE  PinnedAt(d, floor) \in Band /\ PinnedAt(d, floor) >= floor
<1>1. floor \in Nat /\ floor <= MaxDiff
  BY BandEnds
<1> QED
  BY <1>1, CutRequest, BandEnds, MaxOfThree DEF PinnedAt

LEMMA HalfInBand ==
  ASSUME NEW d \in Band
  PROVE  Max({MinDiff, d \div 2}) \in Band
<1>1. d \in Nat /\ d \div 2 \in Nat /\ d \div 2 <= d /\ d <= MaxDiff
  BY BandEnds
<1> QED
  BY <1>1, BandEnds, MaxOfTwo

-----------------------------------------------------------------------------
(* What a step does to the difficulty, to the jobs and to the window.      *)

VardiffType == [difficulty : Band, previous : Band, fixed : BOOLEAN,
                floor : Band \cup {0}, produced : 0..(Grace + 1)]

VardiffTypeOK ==
  /\ vardiff \in VardiffType
  /\ knows \in Band
  /\ news \in {"none", "retarget", "more"}

vardiffVars == <<vardiff, news, knows>>

\* A retarget: the difficulty that goes is still tolerated.
Retargeted ==
  /\ ~vardiff.fixed
  /\ \E d \in Band : RetargetTo(d)
  /\ UNCHANGED knows

\* A pin, or the end of one.
Pinned ==
  /\ \E d \in Band, fixed \in BOOLEAN, floor \in Band \cup {0} :
       d >= floor /\ Sets(d, fixed, floor)
  /\ UNCHANGED knows

\* A share under a pin is counted.
Produced ==
  /\ vardiff' = [vardiff EXCEPT !.produced = IF @ > Grace THEN @ ELSE @ + 1]
  /\ UNCHANGED <<news, knows>>

Learned ==
  /\ knows' = vardiff.difficulty
  /\ news' = "none"
  /\ UNCHANGED vardiff

VardiffStep ==
  Retargeted \/ Pinned \/ Produced \/ Learned \/ UNCHANGED vardiffVars

LEMMA RecordShareVardiff ==
  ASSUME NEW ticks, RecordShare(ticks), UNCHANGED knows
  PROVE  VardiffStep
<1>1. CASE vardiff.fixed
  BY <1>1 DEF RecordShare, VardiffStep, Produced
<1>2. CASE ~vardiff.fixed
  <2>1. PICK d \in Targets :
          IF d = vardiff.difficulty THEN UNCHANGED <<vardiff, news>> ELSE RetargetTo(d)
    BY <1>2 DEF RecordShare
  <2>2. d \in Band
    BY DEF Targets
  <2> QED
    BY <1>2, <2>1, <2>2 DEF VardiffStep, Retargeted, vardiffVars
<1> QED
  BY <1>1, <1>2

LEMMA AsksVardiff ==
  ASSUME VardiffTypeOK, NEW isFloor \in BOOLEAN, Asks(isFloor)
  PROVE  Pinned
<1>1. PICK d \in Requests : SetFixed(d, isFloor)
  BY DEF Asks
<1> DEFINE floor == IF isFloor THEN Max({MinDiff, Min({Ceiling, d})}) ELSE vardiff.floor
<1>2. floor \in Band \cup {0}
  BY FloorInBand DEF VardiffTypeOK, VardiffType
<1>3. PinnedAt(d, floor) \in Band /\ PinnedAt(d, floor) >= floor
  BY <1>2, PinInBand
<1>4. Sets(PinnedAt(d, floor), TRUE, floor) /\ UNCHANGED knows
  BY <1>1 DEF SetFixed, Asks
<1> HIDE DEF floor
<1> QED
  BY <1>2, <1>3, <1>4 DEF Pinned

LEMMA IdleVardiff ==
  ASSUME VardiffTypeOK, IdleCheck
  PROVE  VardiffStep
<1>1. UNCHANGED knows
  BY DEF IdleCheck
<1>2. CASE IdleRelaxes
  <2>1. Start \in Band /\ Start >= 0
    BY BandEnds
  <2>2. Sets(Start, FALSE, 0)
    BY <1>2 DEF IdleRelaxes
  <2> QED
    BY <1>1, <2>1, <2>2 DEF VardiffStep, Pinned
<1>3. CASE IdleHalves
  <2>1. vardiff.difficulty \in Band
    BY DEF VardiffTypeOK, VardiffType
  <2>2. Max({MinDiff, vardiff.difficulty \div 2}) \in Band
    BY <2>1, HalfInBand
  <2> QED
    BY <1>1, <1>3, <2>2 DEF VardiffStep, Retargeted, IdleHalves
<1> QED
  BY <1>2, <1>3 DEF IdleCheck

LEMMA NextVardiff ==
  ASSUME VardiffTypeOK, [Next]_vars
  PROVE  VardiffStep
<1> USE DEF vardiffVars, VardiffStep
<1>1. CASE Refresh
  BY <1>1 DEF Refresh, ApplyTemplate, minerVars
<1>2. CASE NewWork
  BY <1>2 DEF NewWork, ApplyTemplate, minerVars
<1>3. CASE Authorize \/ SuggestDifficulty
  BY <1>3, AsksVardiff DEF Authorize, SuggestDifficulty
<1>4. CASE Learns
  BY <1>4 DEF Learns, Learned
<1>5. CASE Tick
  BY <1>5 DEF Tick, minerVars
<1>6. CASE IdleCheck
  BY <1>6, IdleVardiff
<1>7. CASE SubmitUnknown \/ SubmitMalformed
  BY <1>7 DEF SubmitUnknown, SubmitMalformed, Reject, minerVars
<1>8. CASE \E i \in DOMAIN jobs, luck \in Lucks : Submit(jobs[i], luck)
  <2>1. PICK i \in DOMAIN jobs, luck \in Lucks : Submit(jobs[i], luck)
    BY <1>8
  <2>2. CASE SubmitShare(jobs[i], luck)
    <3>1. RecordShare(0) /\ UNCHANGED knows
      BY <2>2 DEF SubmitShare, Accepts
    <3> QED
      BY <3>1, RecordShareVardiff
  <2>3. CASE SubmitBlock(jobs[i], luck)
    BY <2>3 DEF SubmitBlock, Accepts
  <2>4. CASE \/ SubmitDuplicate(jobs[i], luck)
             \/ SubmitStale(jobs[i], luck)
             \/ SubmitLow(jobs[i], luck)
    BY <2>4 DEF SubmitDuplicate, SubmitStale, SubmitLow, Reject, minerVars
  <2> QED
    BY <2>1, <2>2, <2>3, <2>4 DEF Submit
<1>9. CASE SolveEnds
  <2>1. RecordShare(age) /\ UNCHANGED knows
    BY <1>9 DEF SolveEnds
  <2> QED
    BY <2>1, RecordShareVardiff
<1>10. CASE UNCHANGED vars
  BY <1>10 DEF vars, minerVars
<1> QED
  BY <1>1, <1>2, <1>3, <1>4, <1>5, <1>6, <1>7, <1>8, <1>9, <1>10 DEF Next

-----------------------------------------------------------------------------
(* Pins, and shares in flight.                                             *)

\* What the miner's shares are aimed at, as long as it could know of every
\* change but the last retarget.
Aim ==
  /\ news = "none" => vardiff.difficulty = knows
  /\ news = "retarget" => vardiff.previous = knows

VardiffInv == VardiffTypeOK /\ PinHolds /\ Aim

LEMMA InitVardiffInv == Init => VardiffInv
<1> SUFFICES ASSUME Init PROVE VardiffInv
  OBVIOUS
<1>1. Start \in Band /\ Grace \in Nat
  BY BandEnds, LimitsNat
<1>2. vardiff \in VardiffType
  BY <1>1 DEF Init, Fresh, VardiffType
<1> QED
  BY <1>1, <1>2 DEF Init, Fresh, VardiffInv, VardiffTypeOK, PinHolds, Aim

LEMMA NextVardiffInv == VardiffInv /\ [Next]_vars => VardiffInv'
<1> SUFFICES ASSUME VardiffInv, [Next]_vars PROVE VardiffInv'
  OBVIOUS
<1> USE DEF VardiffInv, VardiffTypeOK, VardiffType, PinHolds, Aim
<1>1. CASE Retargeted
  <2>1. PICK d \in Band : RetargetTo(d)
    BY <1>1 DEF Retargeted
  <2>2. /\ vardiff' = [vardiff EXCEPT !.difficulty = d, !.previous = vardiff.difficulty]
        /\ news' = IF news = "none" THEN "retarget" ELSE "more"
        /\ knows' = knows /\ ~vardiff.fixed
    BY <1>1, <2>1 DEF Retargeted, RetargetTo, Tells
  <2>3. /\ vardiff' \in VardiffType
        /\ vardiff'.previous = vardiff.difficulty
        /\ vardiff'.fixed = vardiff.fixed
    BY <2>2
  <2> QED
    BY <2>2, <2>3
<1>2. CASE Pinned
  <2>1. PICK d \in Band, fixed \in BOOLEAN, floor \in Band \cup {0} :
          d >= floor /\ Sets(d, fixed, floor)
    BY <1>2 DEF Pinned
  <2>2. /\ vardiff' = [difficulty |-> d, previous |-> d, fixed |-> fixed, floor |-> floor,
                       produced |-> 0]
        /\ news' = "more" /\ knows' = knows
    BY <1>2, <2>1 DEF Pinned, Sets
  <2>3. vardiff' \in VardiffType
    BY <2>2, LimitsNat
  <2> QED
    BY <2>1, <2>2, <2>3
<1>3. CASE Produced
  <2> DEFINE count == IF vardiff.produced > Grace THEN vardiff.produced
                                                  ELSE vardiff.produced + 1
  <2>1. count \in 0..(Grace + 1)
    BY LimitsNat
  <2>2. vardiff' = [vardiff EXCEPT !.produced = count] /\ news' = news /\ knows' = knows
    BY <1>3 DEF Produced
  <2> HIDE DEF count
  <2>3. /\ vardiff' \in VardiffType
        /\ vardiff'.difficulty = vardiff.difficulty
        /\ vardiff'.previous = vardiff.previous
        /\ vardiff'.fixed = vardiff.fixed
        /\ vardiff'.floor = vardiff.floor
    BY <2>1, <2>2
  <2> QED
    BY <2>2, <2>3
<1>4. CASE Learned
  BY <1>4 DEF Learned
<1>5. CASE UNCHANGED vardiffVars
  BY <1>5 DEF vardiffVars
<1> QED
  BY <1>1, <1>2, <1>3, <1>4, <1>5, NextVardiff DEF VardiffStep

LEMMA VardiffInvAlways == Spec => []VardiffInv
<1> QED
  BY InitVardiffInv, NextVardiffInv, PTL DEF Spec

\* Whatever is asked for and in whatever order, a pinned difficulty is the only
\* one in force and is not below the miner's password (Vardiff.set_fixed).
THEOREM PinHoldsAlways == Spec => []PinHolds
<1>1. VardiffInv => PinHolds
  BY DEF VardiffInv
<1> QED
  BY <1>1, VardiffInvAlways, PTL

\* A share that is aimed at what the miner knows is good enough, as long as a
\* single retarget is what it does not know of (_on_submit: accept_diff).
THEOREM InFlightToleratedAlways == Spec => []InFlightTolerated
<1>1. VardiffInv => InFlightTolerated
  <2> SUFFICES ASSUME VardiffInv, news # "more" PROVE AcceptDiff <= knows
    BY DEF InFlightTolerated
  <2>1. /\ vardiff.difficulty \in Band /\ vardiff.previous \in Band
        /\ vardiff.difficulty = knows \/ vardiff.previous = knows
    BY DEF VardiffInv, VardiffTypeOK, VardiffType, Aim
  <2>2. vardiff.difficulty \in Nat /\ vardiff.previous \in Nat
    BY <2>1, BandEnds
  <2> QED
    BY <2>1, <2>2, MinOfTwo DEF AcceptDiff
<1> QED
  BY <1>1, VardiffInvAlways, PTL

-----------------------------------------------------------------------------
(* The jobs that are kept, and what is credited for them.                  *)

PoolTypeOK ==
  /\ jobs \in Seq(Job)
  /\ Len(jobs) \in 1..MaxKept
  /\ made \in Nat /\ works \in Nat

CreditedType == [height : Nat, luck : Lucks \cup {0}, credit : Band \cup {0},
                 block : BOOLEAN]

\* No job is for a height above the newest, and nothing was credited for one.
JobsInv ==
  /\ PoolTypeOK
  /\ credited \in CreditedType
  /\ \A i \in 1..Len(jobs) : jobs[i].height <= Height
  /\ credited.height <= Height

Made ==
  /\ \E work \in Nat, height \in Nat :
       ~Outdated(height) /\ ApplyTemplate(work, height)
  /\ UNCHANGED credited

CreditedFor(i, luck) ==
  /\ IsBlock(luck) \/ ~Stale(jobs[i])
  /\ credited' = [height |-> jobs[i].height, luck |-> luck, credit |-> Credit(luck),
                  block |-> IsBlock(luck)]
  /\ UNCHANGED poolVars

JobsStep ==
  \/ Made
  \/ \E i \in DOMAIN jobs, luck \in Lucks : CreditedFor(i, luck)
  \/ UNCHANGED <<poolVars, credited>>

LEMMA NewestTyped ==
  ASSUME PoolTypeOK
  PROVE  /\ Len(jobs) \in Nat \ {0} /\ DOMAIN jobs = 1..Len(jobs)
         /\ \A i \in 1..Len(jobs) : jobs[i] \in Job
         /\ Newest \in Job /\ Newest = jobs[Len(jobs)] /\ Height \in Nat
<1>1. Len(jobs) \in Nat \ {0} /\ DOMAIN jobs = 1..Len(jobs)
  BY LenProperties DEF PoolTypeOK
<1>2. \A i \in 1..Len(jobs) : jobs[i] \in Job
  BY <1>1, ElementOfSeq DEF PoolTypeOK
<1> QED
  BY <1>1, <1>2 DEF Newest, Last, Height, Job

LEMMA NextJobs ==
  ASSUME PoolTypeOK, [Next]_vars
  PROVE  JobsStep
<1> USE DEF JobsStep
<1>1. Height \in Nat /\ Newest.work \in Nat
  BY NewestTyped DEF Job
<1>2. CASE Refresh
  <2>1. ApplyTemplate(Newest.work, Height)
    BY <1>2 DEF Refresh
  <2>2. ~Outdated(Height) /\ UNCHANGED credited
    BY <1>1, <2>1 DEF Outdated, ApplyTemplate
  <2> QED
    BY <1>1, <2>1, <2>2 DEF Made
<1>3. CASE NewWork
  <2>1. PICK height \in (Height - 1)..(Height + 1) : ApplyTemplate(works + 1, height)
    BY <1>3 DEF NewWork
  <2>2. ~Outdated(height) /\ UNCHANGED credited
    BY <2>1 DEF ApplyTemplate
  <2>3. height \in Nat /\ works + 1 \in Nat
    BY <1>1, <2>2 DEF Outdated, PoolTypeOK
  <2> QED
    BY <2>1, <2>2, <2>3 DEF Made
<1>4. CASE Authorize \/ SuggestDifficulty
  BY <1>4 DEF Authorize, SuggestDifficulty, Asks
<1>5. CASE Learns
  BY <1>5 DEF Learns
<1>6. CASE Tick
  BY <1>6 DEF Tick
<1>7. CASE IdleCheck
  BY <1>7 DEF IdleCheck
<1>8. CASE SubmitUnknown \/ SubmitMalformed
  BY <1>8 DEF SubmitUnknown, SubmitMalformed, Reject
<1>9. CASE \E i \in DOMAIN jobs, luck \in Lucks : Submit(jobs[i], luck)
  <2>1. PICK i \in DOMAIN jobs, luck \in Lucks : Submit(jobs[i], luck)
    BY <1>9
  <2>2. CASE SubmitShare(jobs[i], luck)
    <3>1. CreditedFor(i, luck)
      BY <2>2 DEF SubmitShare, Accepts, CreditedFor
    <3> QED
      BY <3>1
  <2>3. CASE SubmitBlock(jobs[i], luck)
    <3>1. CreditedFor(i, luck)
      BY <2>3 DEF SubmitBlock, Accepts, CreditedFor
    <3> QED
      BY <3>1
  <2>4. CASE \/ SubmitDuplicate(jobs[i], luck)
             \/ SubmitStale(jobs[i], luck)
             \/ SubmitLow(jobs[i], luck)
    BY <2>4 DEF SubmitDuplicate, SubmitStale, SubmitLow, Reject
  <2> QED
    BY <2>1, <2>2, <2>3, <2>4 DEF Submit
<1>10. CASE SolveEnds
  BY <1>10 DEF SolveEnds
<1>11. CASE UNCHANGED vars
  BY <1>11 DEF vars
<1> QED
  BY <1>2, <1>3, <1>4, <1>5, <1>6, <1>7, <1>8, <1>9, <1>10, <1>11 DEF Next

\* The jobs after a new one: a suffix of all, the new one at its end.
LEMMA MadeKeeps ==
  ASSUME JobsInv, Made
  PROVE  JobsInv'
<1>1. PICK work \in Nat, height \in Nat : ~Outdated(height) /\ ApplyTemplate(work, height)
  BY DEF Made
<1> DEFINE job == [id |-> made + 1, work |-> work, height |-> height]
           all == Append(jobs, job)
<1>2. PoolTypeOK
  BY DEF JobsInv
<1>3. job \in Job /\ jobs \in Seq(Job) /\ Len(jobs) \in Nat \ {0}
  BY <1>2, NewestTyped DEF PoolTypeOK, Job
<1>4. height >= Height /\ Height \in Nat
  BY <1>1, <1>2, NewestTyped DEF Outdated
<1>5. PICK k \in 0..Len(jobs) :
        Len(all) - k <= MaxKept /\ jobs' = SubSeq(all, k + 1, Len(all))
  BY <1>1 DEF ApplyTemplate, Kept
<1>6. /\ all \in Seq(Job) /\ Len(all) = Len(jobs) + 1
      /\ all[Len(jobs) + 1] = job
      /\ \A i \in 1..Len(jobs) : all[i] = jobs[i]
  BY <1>3
<1>7. \A i \in 1..(Len(jobs) + 1) : all[i] \in Job /\ all[i].height <= height
  <2>1. \A i \in 1..Len(jobs) : jobs[i] \in Job /\ jobs[i].height \in Nat
                                /\ jobs[i].height <= Height
    BY <1>2, NewestTyped DEF JobsInv, Job
  <2>2. job.height = height
    OBVIOUS
  <2> QED
    BY <1>3, <1>4, <1>6, <2>1, <2>2
<1> HIDE DEF all, job
<1>8. /\ jobs' \in Seq(Job)
      /\ Len(jobs') = Len(jobs) + 1 - k
      /\ \A i \in 1..Len(jobs') : jobs'[i] = all[k + i]
  <2>1. \A i \in (k + 1)..Len(all) : all[i] \in Job
    BY <1>3, <1>6, <1>7
  <2>2. k + 1 \in Int /\ Len(all) \in Int /\ k + 1 <= Len(all)
    BY <1>3, <1>6
  <2> QED
    BY <1>3, <1>5, <1>6, <2>1, <2>2, SubSeqProperties
<1>9. Len(jobs') \in 1..MaxKept
  BY <1>3, <1>5, <1>6, <1>8, LimitsOrdered
<1>10. Height' = height
  <2>1. jobs'[Len(jobs')] = job
    BY <1>3, <1>5, <1>6, <1>8, <1>9
  <2> QED
    BY <2>1 DEF Height, Newest, Last, job
<1>11. \A i \in 1..Len(jobs') : jobs'[i].height <= height
  BY <1>3, <1>5, <1>7, <1>8
<1>12. made' \in Nat /\ works' \in Nat
  BY <1>1, <1>2 DEF ApplyTemplate, PoolTypeOK
<1>13. credited' = credited /\ credited.height \in Nat /\ credited.height <= Height
  BY DEF Made, JobsInv, CreditedType
<1> QED
  BY <1>4, <1>8, <1>9, <1>10, <1>11, <1>12, <1>13 DEF JobsInv, PoolTypeOK

LEMMA CreditTyped ==
  ASSUME VardiffInv, NEW luck
  PROVE  Credit(luck) \in Band
<1>1. vardiff.difficulty \in Band /\ vardiff.previous \in Band
  BY DEF VardiffInv, VardiffTypeOK, VardiffType
<1>2. AcceptDiff \in Band
  BY <1>1, BandEnds, MinOfTwo DEF AcceptDiff
<1> QED
  BY <1>1, <1>2 DEF Credit

LEMMA InitJobsInv == Init => JobsInv
<1> SUFFICES ASSUME Init PROVE JobsInv
  OBVIOUS
<1> DEFINE first == [id |-> 1, work |-> 1, height |-> 1]
<1>1. jobs = <<first>> /\ first \in Job /\ first.height = 1
  BY DEF Init, Job
<1> HIDE DEF first
<1>2. jobs \in Seq(Job) /\ Len(jobs) = 1 /\ jobs[1] = first
  BY <1>1
<1>3. Height = 1
  BY <1>1, <1>2 DEF Height, Newest, Last
<1>4. credited \in CreditedType /\ credited.height = 0 /\ made = 1 /\ works = 1
  BY DEF Init, NoCredit, CreditedType
<1> QED
  BY <1>1, <1>2, <1>3, <1>4, LimitsOrdered DEF JobsInv, PoolTypeOK

LEMMA NextJobsInv == VardiffInv /\ JobsInv /\ [Next]_vars => JobsInv'
<1> SUFFICES ASSUME VardiffInv, JobsInv, [Next]_vars PROVE JobsInv'
  OBVIOUS
<1>1. CASE Made
  BY <1>1, MadeKeeps
<1>2. ASSUME NEW i \in DOMAIN jobs, NEW luck \in Lucks, CreditedFor(i, luck)
      PROVE  JobsInv'
  <2>1. /\ jobs' = jobs /\ made' = made /\ works' = works
        /\ Newest' = Newest /\ Height' = Height
    BY <1>2 DEF CreditedFor, poolVars, Newest, Height
  <2>2. jobs[i].height \in Nat /\ jobs[i].height <= Height
    BY NewestTyped DEF JobsInv, Job
  <2>3. Credit(luck) \in Band
    BY CreditTyped
  <2>4. credited' \in CreditedType /\ credited'.height = jobs[i].height
    BY <1>2, <2>2, <2>3 DEF CreditedFor, CreditedType, IsBlock
  <2> QED
    BY <2>1, <2>2, <2>4 DEF JobsInv, PoolTypeOK
<1>3. CASE UNCHANGED <<poolVars, credited>>
  BY <1>3 DEF JobsInv, PoolTypeOK, poolVars, Height, Newest
<1> QED
  BY <1>1, <1>2, <1>3, NextJobs DEF JobsStep, JobsInv

LEMMA JobsInvAlways == Spec => [](VardiffInv /\ JobsInv)
<1>1. Init => VardiffInv /\ JobsInv
  BY InitVardiffInv, InitJobsInv
<1>2. VardiffInv /\ JobsInv /\ [Next]_vars => (VardiffInv /\ JobsInv)'
  BY NextVardiffInv, NextJobsInv
<1> QED
  BY <1>1, <1>2, PTL DEF Spec

\* After a share of one height none of a lower height is accepted, unless it is
\* a block, whichever jobs are kept (_on_submit: the stale gate).
THEOREM CreditMovesOnAlways == Spec => CreditMovesOn
<1> DEFINE Step == credited' # credited /\ ~credited'.block
                     => credited'.height >= credited.height
<1>1. JobsInv /\ [Next]_vars => [Step]_vars
  <2> SUFFICES ASSUME JobsInv, [Next]_vars, credited' # credited, ~credited'.block
               PROVE  credited'.height >= credited.height
    OBVIOUS
  <2>1. PICK i \in DOMAIN jobs, luck \in Lucks : CreditedFor(i, luck)
    BY NextJobs DEF JobsInv, JobsStep, Made
  <2>2. credited'.height = jobs[i].height /\ credited'.block = IsBlock(luck)
    BY <2>1 DEF CreditedFor
  <2>3. jobs[i].height >= Height
    <3>1. ~Stale(jobs[i])
      BY <2>1, <2>2 DEF CreditedFor
    <3>2. jobs[i].height \in Nat /\ Height \in Nat
      BY NewestTyped DEF JobsInv, Job
    <3> QED
      BY <3>1, <3>2 DEF Stale
  <2>4. credited.height \in Nat /\ credited.height <= Height /\ Height \in Nat
    BY NewestTyped DEF JobsInv, CreditedType
  <2>5. jobs[i].height \in Nat
    BY NewestTyped DEF JobsInv, Job
  <2> QED
    BY <2>2, <2>3, <2>4, <2>5
<1> QED
  BY <1>1, JobsInvAlways, PTL DEF Spec, CreditMovesOn

-----------------------------------------------------------------------------
(* The window of headers.                                                  *)

\* The window holds the last headers taken for new, as many as it has room for.
WindowInv ==
  /\ seen \in Seq(Header) /\ entered \in Seq(Header)
  /\ Len(seen) = IF Len(entered) <= MaxSeen THEN Len(entered) ELSE MaxSeen
  /\ \A i \in 1..Len(seen) : seen[i] = entered[Len(entered) - Len(seen) + i]
  /\ NoDoubleCredit

Entered ==
  \E i \in DOMAIN jobs, luck \in Lucks : Enters(jobs[i], luck)

LEMMA NextWindow ==
  ASSUME [Next]_vars
  PROVE  Entered \/ UNCHANGED <<seen, entered>>
<1>1. CASE Refresh
  BY <1>1 DEF Refresh, ApplyTemplate
<1>2. CASE NewWork
  BY <1>2 DEF NewWork, ApplyTemplate
<1>3. CASE Authorize \/ SuggestDifficulty
  BY <1>3 DEF Authorize, SuggestDifficulty, Asks
<1>4. CASE Learns
  BY <1>4 DEF Learns
<1>5. CASE Tick
  BY <1>5 DEF Tick
<1>6. CASE IdleCheck
  BY <1>6 DEF IdleCheck
<1>7. CASE SubmitUnknown \/ SubmitMalformed
  BY <1>7 DEF SubmitUnknown, SubmitMalformed
<1>8. CASE \E i \in DOMAIN jobs, luck \in Lucks : Submit(jobs[i], luck)
  <2>1. PICK i \in DOMAIN jobs, luck \in Lucks : Submit(jobs[i], luck)
    BY <1>8
  <2>2. Enters(jobs[i], luck) \/ SubmitDuplicate(jobs[i], luck)
    BY <2>1 DEF Submit, SubmitStale, SubmitLow, SubmitShare, SubmitBlock, Accepts
  <2> QED
    BY <2>2 DEF Entered, SubmitDuplicate
<1>9. CASE SolveEnds
  BY <1>9 DEF SolveEnds
<1>10. CASE UNCHANGED vars
  BY <1>10 DEF vars
<1> QED
  BY <1>1, <1>2, <1>3, <1>4, <1>5, <1>6, <1>7, <1>8, <1>9, <1>10 DEF Next

LEMMA InitWindowInv == Init => WindowInv
BY LimitsNat DEF Init, WindowInv, NoDoubleCredit

\* A header that enters differs from all that the window still holds.
LEMMA EntersKeepsWindow ==
  ASSUME WindowInv, PoolTypeOK, Entered
  PROVE  WindowInv'
<1>1. PICK i \in DOMAIN jobs, luck \in Lucks : Enters(jobs[i], luck)
  BY DEF Entered
<1> DEFINE header == HeaderOf(jobs[i], luck)
           more == Append(seen, header)
<1>2. header \in Header
  BY NewestTyped DEF HeaderOf, Header, Job
<1> HIDE DEF header
<1>3. /\ seen \in Seq(Header) /\ entered \in Seq(Header)
      /\ Len(seen) \in Nat /\ Len(entered) \in Nat /\ MaxSeen \in Nat
  BY LimitsNat, LenProperties DEF WindowInv
<1>4. /\ \A k \in 1..Len(seen) : seen[k] # header
      /\ seen' = IF Len(seen) + 1 > MaxSeen THEN Tail(more) ELSE more
      /\ entered' = Append(entered, header)
  <2>1. DOMAIN seen = 1..Len(seen)
    BY <1>3
  <2> QED
    BY <1>1, <2>1 DEF Enters, Remember, ToSet, header
<1>5. /\ more \in Seq(Header) /\ Len(more) = Len(seen) + 1 /\ more[Len(seen) + 1] = header
      /\ \A k \in 1..Len(seen) : more[k] = seen[k]
  BY <1>2, <1>3
<1>6. /\ entered' \in Seq(Header) /\ Len(entered') = Len(entered) + 1
      /\ entered'[Len(entered) + 1] = header
      /\ \A k \in 1..Len(entered) : entered'[k] = entered[k]
  BY <1>2, <1>3, <1>4
<1> HIDE DEF more
<1>7. CASE Len(seen) + 1 > MaxSeen
  <2>1. Len(seen) = MaxSeen
    BY <1>3, <1>7 DEF WindowInv
  <2>2. /\ seen' \in Seq(Header) /\ Len(seen') = MaxSeen
        /\ \A k \in 1..MaxSeen : seen'[k] = more[k + 1]
    <3>1. more # << >> /\ seen' = Tail(more)
      BY <1>3, <1>4, <1>5, <1>7
    <3>2. /\ Tail(more) \in Seq(Header) /\ Len(Tail(more)) = Len(more) - 1
          /\ \A k \in 1..Len(Tail(more)) : Tail(more)[k] = more[k + 1]
      BY <1>5, <3>1, HeadTailProperties
    <3> QED
      BY <1>3, <1>5, <2>1, <3>1, <3>2
  <2>3. \A k \in 1..MaxSeen : seen'[k] = entered'[Len(entered') - MaxSeen + k]
    <3> SUFFICES ASSUME NEW k \in 1..MaxSeen
                 PROVE  seen'[k] = entered'[Len(entered) + 1 - MaxSeen + k]
      <4>1. \A k \in 1..MaxSeen :
              Len(entered') - MaxSeen + k = Len(entered) + 1 - MaxSeen + k
        BY <1>3, <1>6
      <4> QED
        BY <4>1
    <3>1. CASE k = MaxSeen
      BY <1>3, <1>5, <1>6, <2>1, <2>2, <3>1
    <3>2. CASE k < MaxSeen
      <4>1. k + 1 \in 1..Len(seen) /\ seen'[k] = seen[k + 1]
        BY <1>3, <1>5, <2>1, <2>2, <3>2
      <4>2. seen[k + 1] = entered[Len(entered) - MaxSeen + (k + 1)]
        BY <2>1, <4>1 DEF WindowInv
      <4>3. /\ Len(entered) - MaxSeen + (k + 1) \in 1..Len(entered)
            /\ Len(entered) - MaxSeen + (k + 1) = Len(entered) + 1 - MaxSeen + k
        BY <1>3, <2>1, <3>2 DEF WindowInv
      <4> QED
        BY <1>6, <4>1, <4>2, <4>3
    <3> QED
      BY <1>3, <3>1, <3>2
  <2>4. Len(entered) >= MaxSeen
    BY <1>3, <2>1 DEF WindowInv
  <2> QED
    <3>1. NoDoubleCredit'
      <4> SUFFICES ASSUME NEW a \in 1..Len(entered'), NEW b \in 1..Len(entered'),
                          a < b, entered'[a] = entered'[b]
                   PROVE  b - a > MaxSeen
        BY <1>6 DEF NoDoubleCredit
      <4>1. CASE b <= Len(entered)
        BY <1>3, <1>6, <4>1 DEF WindowInv, NoDoubleCredit
      <4>2. CASE b = Len(entered) + 1
        <5>1. a \in 1..Len(entered) /\ entered[a] = header
          BY <1>3, <1>6, <4>2
        <5> SUFFICES ASSUME a > Len(entered) - MaxSeen PROVE FALSE
          BY <1>3, <4>2, <5>1
        <5>2. a - (Len(entered) - MaxSeen) \in 1..Len(seen)
          BY <1>3, <2>1, <5>1
        <5>3. seen[a - (Len(entered) - MaxSeen)] = entered[a]
          <6>1. seen[a - (Len(entered) - MaxSeen)]
                  = entered[Len(entered) - Len(seen) + (a - (Len(entered) - MaxSeen))]
            BY <5>2 DEF WindowInv
          <6>2. Len(entered) - Len(seen) + (a - (Len(entered) - MaxSeen)) = a
            BY <1>3, <2>1
          <6> QED
            BY <6>1, <6>2
        <5> QED
          BY <1>4, <5>1, <5>2, <5>3
      <4> QED
        BY <1>3, <1>6, <4>1, <4>2
    <3> QED
      BY <1>3, <1>6, <2>2, <2>3, <2>4, <3>1 DEF WindowInv
<1>8. CASE ~(Len(seen) + 1 > MaxSeen)
  <2>1. Len(seen) = Len(entered) /\ Len(entered) + 1 <= MaxSeen /\ seen' = more
    BY <1>3, <1>4, <1>8 DEF WindowInv
  <2>2. \A k \in 1..Len(entered) : seen[k] = entered[k]
    <3> SUFFICES ASSUME NEW k \in 1..Len(entered) PROVE seen[k] = entered[k]
      OBVIOUS
    <3>1. seen[k] = entered[Len(entered) - Len(seen) + k]
      BY <2>1 DEF WindowInv
    <3>2. Len(entered) - Len(seen) + k = k
      BY <1>3, <2>1
    <3> QED
      BY <3>1, <3>2
  <2>3. \A k \in 1..(Len(entered) + 1) : seen'[k] = entered'[k]
    BY <1>3, <1>5, <1>6, <2>1, <2>2
  <2>4. NoDoubleCredit'
    <3> SUFFICES ASSUME NEW a \in 1..Len(entered'), NEW b \in 1..Len(entered'),
                        a < b, entered'[a] = entered'[b]
                 PROVE  b - a > MaxSeen
      BY <1>6 DEF NoDoubleCredit
    <3>1. CASE b <= Len(entered)
      BY <1>3, <1>6, <3>1 DEF WindowInv, NoDoubleCredit
    <3>2. CASE b = Len(entered) + 1
      <4>1. a \in 1..Len(seen) /\ seen[a] = header
        BY <1>3, <1>6, <2>1, <2>2, <3>2
      <4> QED
        BY <1>4, <4>1
    <3> QED
      BY <1>3, <1>6, <3>1, <3>2
  <2> QED
    BY <1>3, <1>5, <1>6, <2>1, <2>3, <2>4 DEF WindowInv
<1> QED
  BY <1>3, <1>7, <1>8

LEMMA NextWindowInv == WindowInv /\ PoolTypeOK /\ [Next]_vars => WindowInv'
<1>1. WindowInv /\ UNCHANGED <<seen, entered>> => WindowInv'
  BY DEF WindowInv, NoDoubleCredit
<1> QED
  BY <1>1, EntersKeepsWindow, NextWindow

LEMMA WindowInvAlways == Spec => []WindowInv
<1>1. JobsInv => PoolTypeOK
  BY DEF JobsInv
<1> QED
  BY <1>1, InitWindowInv, NextWindowInv, JobsInvAlways, PTL DEF Spec

\* No header is taken for new again while the window lasts, under whatever jobs
\* it comes (_on_submit: seen_shares).
THEOREM NoDoubleCreditAlways == Spec => []NoDoubleCredit
<1>1. WindowInv => NoDoubleCredit
  BY DEF WindowInv
<1> QED
  BY <1>1, WindowInvAlways, PTL

-----------------------------------------------------------------------------
(* Types.                                                                  *)

MetersTypeOK ==
  /\ quiet \in Nat /\ age \in Nat /\ asks \in Nat
  /\ alive \in BOOLEAN /\ struck \in BOOLEAN /\ solving \in BOOLEAN
  /\ counts \in [accepted : Nat, rejected : Nat]

LEMMA RejectMeters ==
  ASSUME MetersTypeOK, NEW code, Reject(code)
  PROVE  MetersTypeOK'
<1>1. counts' \in [accepted : Nat, rejected : Nat]
  BY DEF MetersTypeOK, Reject
<1>2. alive' \in BOOLEAN /\ struck' \in BOOLEAN
  BY DEF Reject
<1> QED
  BY <1>1, <1>2 DEF MetersTypeOK, Reject, handVars

LEMMA NextMeters == MetersTypeOK /\ [Next]_vars => MetersTypeOK'
<1> SUFFICES ASSUME MetersTypeOK, [Next]_vars PROVE MetersTypeOK'
  OBVIOUS
<1>1. CASE Refresh
  BY <1>1 DEF Refresh, ApplyTemplate, MetersTypeOK, handVars
<1>2. CASE NewWork
  BY <1>2 DEF NewWork, ApplyTemplate, MetersTypeOK, handVars
<1>3. CASE Authorize \/ SuggestDifficulty
  <2>1. asks' = asks + 1 /\ UNCHANGED <<quiet, alive, counts, struck, handVars>>
    BY <1>3 DEF Authorize, SuggestDifficulty, Asks
  <2> QED
    BY <2>1 DEF MetersTypeOK, handVars
<1>4. CASE Learns
  BY <1>4 DEF Learns, MetersTypeOK, handVars
<1>5. CASE Tick
  BY <1>5 DEF Tick, MetersTypeOK
<1>6. CASE IdleCheck
  BY <1>6 DEF IdleCheck, MetersTypeOK, handVars
<1>7. CASE SubmitUnknown \/ SubmitMalformed
  BY <1>7, RejectMeters DEF SubmitUnknown, SubmitMalformed
<1>8. CASE \E i \in DOMAIN jobs, luck \in Lucks : Submit(jobs[i], luck)
  <2>1. PICK i \in DOMAIN jobs, luck \in Lucks : Submit(jobs[i], luck)
    BY <1>8
  <2>2. CASE SubmitShare(jobs[i], luck)
    BY <2>2 DEF SubmitShare, Accepts, RecordShare, MetersTypeOK, handVars
  <2>3. CASE SubmitBlock(jobs[i], luck)
    <3>1. solving' \in BOOLEAN
      BY <2>3 DEF SubmitBlock
    <3> QED
      BY <2>3, <3>1 DEF SubmitBlock, Accepts, MetersTypeOK
  <2>4. CASE \/ SubmitDuplicate(jobs[i], luck)
             \/ SubmitStale(jobs[i], luck)
             \/ SubmitLow(jobs[i], luck)
    BY <2>4, RejectMeters DEF SubmitDuplicate, SubmitStale, SubmitLow
  <2> QED
    BY <2>1, <2>2, <2>3, <2>4 DEF Submit
<1>9. CASE SolveEnds
  BY <1>9 DEF SolveEnds, RecordShare, MetersTypeOK
<1>10. CASE UNCHANGED vars
  BY <1>10 DEF vars, MetersTypeOK, handVars
<1> QED
  BY <1>1, <1>2, <1>3, <1>4, <1>5, <1>6, <1>7, <1>8, <1>9, <1>10 DEF Next

\* Every variable keeps its type; the window keeps its size, and so does what
\* is kept of the jobs.
THEOREM TypeCorrect == Spec => []TypeOK
<1>1. Init => MetersTypeOK
  <2> SUFFICES ASSUME Init PROVE MetersTypeOK
    OBVIOUS
  <2>1. counts \in [accepted : Nat, rejected : Nat] /\ quiet = 0 /\ age = 0 /\ asks = 0
    BY DEF Init
  <2>2. alive \in BOOLEAN /\ struck \in BOOLEAN /\ solving \in BOOLEAN
    BY DEF Init
  <2> QED
    BY <2>1, <2>2 DEF MetersTypeOK
<1>2. VardiffInv /\ JobsInv /\ WindowInv /\ MetersTypeOK => TypeOK
  <2> SUFFICES ASSUME VardiffInv, JobsInv, WindowInv, MetersTypeOK PROVE TypeOK
    OBVIOUS
  <2>1. Len(seen) <= MaxSeen
    BY LimitsNat, LenProperties DEF WindowInv
  <2>2. {alive, struck, solving} \subseteq BOOLEAN
    BY Zenon DEF MetersTypeOK
  <2> QED
    BY <2>1, <2>2 DEF TypeOK, VardiffInv, VardiffTypeOK, VardiffType, JobsInv, PoolTypeOK,
                CreditedType, WindowInv, MetersTypeOK
<1> QED
  BY <1>1, <1>2, NextMeters, JobsInvAlways, WindowInvAlways, PTL DEF Spec

-----------------------------------------------------------------------------
(* The slots of a listener (Service).                                      *)

\* The handlers of an address at a listener.
HandlersOf(c, i) == {k \in Handlers(c) : IpOf[k] = i}

\* The slots are counted right, and there are finitely many handlers to count.
SlotInv ==
  /\ conn \in [Conns -> ConnStates]
  /\ held \in [Coins -> [Ips -> Nat]]
  /\ total \in [Coins -> Nat]
  /\ \A c \in Coins : IsFiniteSet(Handlers(c))
  /\ SlotsAreHeld

\* One more handler is one more of its listener and of its address.
LEMMA HandlerEnters ==
  ASSUME SlotInv, NEW k \in Conns, conn[k] = "none",
         conn' = [conn EXCEPT ![k] = "open"]
  PROVE  /\ conn' \in [Conns -> ConnStates]
         /\ \A c \in Coins :
              /\ IsFiniteSet(Handlers(c)')
              /\ Cardinality(Handlers(c)')
                   = IF c = CoinOf[k] THEN total[c] + 1 ELSE total[c]
              /\ \A i \in Ips :
                   Cardinality(HandlersOf(c, i)')
                     = IF c = CoinOf[k] /\ i = IpOf[k] THEN held[c][i] + 1 ELSE held[c][i]
<1>1. conn' \in [Conns -> ConnStates]
  BY DEF SlotInv, ConnStates
<1>2. ASSUME NEW c \in Coins
      PROVE  /\ IsFiniteSet(Handlers(c)')
             /\ Cardinality(Handlers(c)')
                  = IF c = CoinOf[k] THEN total[c] + 1 ELSE total[c]
             /\ \A i \in Ips :
                  Cardinality(HandlersOf(c, i)')
                    = IF c = CoinOf[k] /\ i = IpOf[k] THEN held[c][i] + 1 ELSE held[c][i]
  <2>1. k \notin Handlers(c) /\ \A i \in Ips : k \notin HandlersOf(c, i)
    BY DEF Handlers, HandlersOf
  <2>2. Handlers(c)' = IF c = CoinOf[k] THEN Handlers(c) \cup {k} ELSE Handlers(c)
    BY DEF Handlers, SlotInv
  <2>3. /\ IsFiniteSet(Handlers(c)) /\ Cardinality(Handlers(c)) = total[c]
        /\ \A i \in Ips : held[c][i] = Cardinality(HandlersOf(c, i))
    BY DEF SlotInv, SlotsAreHeld, HandlersOf
  <2>4. \A i \in Ips : IsFiniteSet(HandlersOf(c, i))
    BY <2>3, FS_Subset DEF HandlersOf
  <2>5. \A i \in Ips :
          HandlersOf(c, i)' = IF c = CoinOf[k] /\ i = IpOf[k]
                              THEN HandlersOf(c, i) \cup {k} ELSE HandlersOf(c, i)
    BY <2>2 DEF HandlersOf
  <2>6. /\ IsFiniteSet(Handlers(c)')
        /\ Cardinality(Handlers(c)') = IF c = CoinOf[k] THEN total[c] + 1 ELSE total[c]
    <3>1. /\ IsFiniteSet(Handlers(c) \cup {k})
          /\ Cardinality(Handlers(c) \cup {k})
               = IF k \in Handlers(c) THEN Cardinality(Handlers(c)) ELSE Cardinality(Handlers(c)) + 1
      BY <2>3, FS_AddElement
    <3> QED
      BY <3>1, <2>1, <2>2, <2>3
  <2>7. \A i \in Ips :
          Cardinality(HandlersOf(c, i)')
            = IF c = CoinOf[k] /\ i = IpOf[k] THEN held[c][i] + 1 ELSE held[c][i]
    <3> TAKE i \in Ips
    <3>0. IsFiniteSet(HandlersOf(c, i))
      BY <2>4
    <3>1. Cardinality(HandlersOf(c, i) \cup {k})
            = IF k \in HandlersOf(c, i) THEN Cardinality(HandlersOf(c, i))
              ELSE Cardinality(HandlersOf(c, i)) + 1
      BY <3>0, FS_AddElement
    <3> QED
      BY <3>1, <2>1, <2>3, <2>5
  <2> QED
    BY <2>6, <2>7
<1> QED
  BY <1>1, <1>2

\* One handler less is one less of its listener and of its address.
LEMMA HandlerLeaves ==
  ASSUME SlotInv, NEW k \in Conns, conn[k] # "none",
         conn' = [conn EXCEPT ![k] = "none"]
  PROVE  /\ conn' \in [Conns -> ConnStates]
         /\ \A c \in Coins :
              /\ IsFiniteSet(Handlers(c)')
              /\ c = CoinOf[k] => total[c] > 0
              /\ Cardinality(Handlers(c)')
                   = IF c = CoinOf[k] THEN total[c] - 1 ELSE total[c]
              /\ \A i \in Ips :
                   /\ c = CoinOf[k] /\ i = IpOf[k] => held[c][i] > 0
                   /\ Cardinality(HandlersOf(c, i)')
                        = IF c = CoinOf[k] /\ i = IpOf[k] THEN held[c][i] - 1 ELSE held[c][i]
<1>1. conn' \in [Conns -> ConnStates]
  BY DEF SlotInv, ConnStates
<1>2. ASSUME NEW c \in Coins
      PROVE  /\ IsFiniteSet(Handlers(c)')
             /\ c = CoinOf[k] => total[c] > 0
             /\ Cardinality(Handlers(c)')
                  = IF c = CoinOf[k] THEN total[c] - 1 ELSE total[c]
             /\ \A i \in Ips :
                  /\ c = CoinOf[k] /\ i = IpOf[k] => held[c][i] > 0
                  /\ Cardinality(HandlersOf(c, i)')
                       = IF c = CoinOf[k] /\ i = IpOf[k] THEN held[c][i] - 1 ELSE held[c][i]
  <2>1. /\ c = CoinOf[k] => k \in Handlers(c)
        /\ \A i \in Ips : c = CoinOf[k] /\ i = IpOf[k] => k \in HandlersOf(c, i)
    BY DEF Handlers, HandlersOf
  <2>2. Handlers(c)' = IF c = CoinOf[k] THEN Handlers(c) \ {k} ELSE Handlers(c)
    BY DEF Handlers, SlotInv
  <2>3. /\ IsFiniteSet(Handlers(c)) /\ Cardinality(Handlers(c)) = total[c]
        /\ total[c] \in Nat
        /\ \A i \in Ips : held[c][i] = Cardinality(HandlersOf(c, i)) /\ held[c][i] \in Nat
    BY DEF SlotInv, SlotsAreHeld, HandlersOf
  <2>4. \A i \in Ips : IsFiniteSet(HandlersOf(c, i))
    BY <2>3, FS_Subset DEF HandlersOf
  <2>5. \A i \in Ips :
          HandlersOf(c, i)' = IF c = CoinOf[k] /\ i = IpOf[k]
                              THEN HandlersOf(c, i) \ {k} ELSE HandlersOf(c, i)
    BY <2>2 DEF HandlersOf
  <2>6. /\ IsFiniteSet(Handlers(c)')
        /\ c = CoinOf[k] => total[c] > 0
        /\ Cardinality(Handlers(c)') = IF c = CoinOf[k] THEN total[c] - 1 ELSE total[c]
    <3>1. Handlers(c) # {} => Cardinality(Handlers(c)) # 0
      BY <2>3, FS_EmptySet
    <3>2. /\ IsFiniteSet(Handlers(c) \ {k})
          /\ Cardinality(Handlers(c) \ {k})
               = IF k \in Handlers(c) THEN Cardinality(Handlers(c)) - 1 ELSE Cardinality(Handlers(c))
      BY <2>3, FS_RemoveElement
    <3> QED
      BY <3>1, <3>2, <2>1, <2>2, <2>3
  <2>7. \A i \in Ips :
          /\ c = CoinOf[k] /\ i = IpOf[k] => held[c][i] > 0
          /\ Cardinality(HandlersOf(c, i)')
               = IF c = CoinOf[k] /\ i = IpOf[k] THEN held[c][i] - 1 ELSE held[c][i]
    <3> TAKE i \in Ips
    <3>1. HandlersOf(c, i) # {} => Cardinality(HandlersOf(c, i)) # 0
      BY <2>4, FS_EmptySet
    <3>2. k \in HandlersOf(c, i) => Cardinality(HandlersOf(c, i) \ {k}) = held[c][i] - 1
      BY <2>3, <2>4, FS_RemoveElement
    <3> QED
      BY <3>1, <3>2, <2>1, <2>3, <2>5
  <2> QED
    BY <2>6, <2>7
<1> QED
  BY <1>1, <1>2

\* The limits are looked at before a slot is taken.
LEMMA RegisterKeepsSlots ==
  ASSUME SlotInv, NEW k \in Conns, Connect(k)
  PROVE  SlotInv'
<1> DEFINE d == CoinOf[k]  j == IpOf[k]
<1>0. d \in Coins /\ j \in Ips
  BY ConnsPlaced
<1>1. /\ held' = [held EXCEPT ![d][j] = @ + 1]
      /\ total' = [total EXCEPT ![d] = @ + 1]
  BY DEF Connect, Register
<1>2. /\ MaxTotal > 0 => total[d] < MaxTotal
      /\ MaxPerIp > 0 => held[d][j] < MaxPerIp
  BY DEF Connect, Allowed
<1>3. /\ conn' \in [Conns -> ConnStates]
      /\ \A c \in Coins :
           /\ IsFiniteSet(Handlers(c)')
           /\ Cardinality(Handlers(c)') = IF c = d THEN total[c] + 1 ELSE total[c]
           /\ \A i \in Ips :
                Cardinality(HandlersOf(c, i)')
                  = IF c = d /\ i = j THEN held[c][i] + 1 ELSE held[c][i]
  BY HandlerEnters DEF Connect
<1>4. held \in [Coins -> [Ips -> Nat]] /\ total \in [Coins -> Nat]
  BY DEF SlotInv
<1>5. /\ held' \in [Coins -> [Ips -> Nat]] /\ total' \in [Coins -> Nat]
      /\ \A c \in Coins : total'[c] = IF c = d THEN total[c] + 1 ELSE total[c]
      /\ \A c \in Coins, i \in Ips :
           held'[c][i] = IF c = d /\ i = j THEN held[c][i] + 1 ELSE held[c][i]
  BY <1>0, <1>1, <1>4
<1>6. SlotsAreHeld'
  <2>1. MaxTotal \in Nat /\ MaxPerIp \in Nat
    BY SlotLimitsNat
  <2>2. \A c \in Coins :
          /\ MaxTotal > 0 => total[c] <= MaxTotal
          /\ \A i \in Ips : MaxPerIp > 0 => held[c][i] <= MaxPerIp
    BY DEF SlotInv, SlotsAreHeld
  <2>3. \A c \in Coins :
          /\ MaxTotal > 0 => total'[c] <= MaxTotal
          /\ \A i \in Ips : MaxPerIp > 0 => held'[c][i] <= MaxPerIp
    BY <2>1, <2>2, <1>0, <1>2, <1>4, <1>5
  <2> QED
    BY <2>3, <1>3, <1>5 DEF SlotsAreHeld, HandlersOf
<1> QED
  BY <1>3, <1>5, <1>6 DEF SlotInv

\* A handler that ends gives back the slot it holds: no count was zero.
LEMMA UnregisterKeepsSlots ==
  ASSUME SlotInv, NEW k \in Conns, conn[k] # "none",
         conn' = [conn EXCEPT ![k] = "none"], Unregister(CoinOf[k], IpOf[k])
  PROVE  SlotInv'
<1> DEFINE d == CoinOf[k]  j == IpOf[k]
<1>0. d \in Coins /\ j \in Ips
  BY ConnsPlaced
<1>1. /\ held' = [held EXCEPT ![d][j] = IF @ > 0 THEN @ - 1 ELSE 0]
      /\ total' = [total EXCEPT ![d] = IF @ > 0 THEN @ - 1 ELSE 0]
  BY DEF Unregister
<1>3. /\ conn' \in [Conns -> ConnStates]
      /\ \A c \in Coins :
           /\ IsFiniteSet(Handlers(c)')
           /\ c = d => total[c] > 0
           /\ Cardinality(Handlers(c)') = IF c = d THEN total[c] - 1 ELSE total[c]
           /\ \A i \in Ips :
                /\ c = d /\ i = j => held[c][i] > 0
                /\ Cardinality(HandlersOf(c, i)')
                     = IF c = d /\ i = j THEN held[c][i] - 1 ELSE held[c][i]
  BY HandlerLeaves
<1>4. held \in [Coins -> [Ips -> Nat]] /\ total \in [Coins -> Nat]
  BY DEF SlotInv
<1>5. /\ held' \in [Coins -> [Ips -> Nat]] /\ total' \in [Coins -> Nat]
      /\ \A c \in Coins : total'[c] = IF c = d THEN total[c] - 1 ELSE total[c]
      /\ \A c \in Coins, i \in Ips :
           held'[c][i] = IF c = d /\ i = j THEN held[c][i] - 1 ELSE held[c][i]
  BY <1>0, <1>1, <1>3, <1>4
<1>6. SlotsAreHeld'
  <2>1. MaxTotal \in Nat /\ MaxPerIp \in Nat
    BY SlotLimitsNat
  <2>2. \A c \in Coins :
          /\ MaxTotal > 0 => total[c] <= MaxTotal
          /\ \A i \in Ips : MaxPerIp > 0 => held[c][i] <= MaxPerIp
    BY DEF SlotInv, SlotsAreHeld
  <2>3. \A c \in Coins :
          /\ MaxTotal > 0 => total'[c] <= MaxTotal
          /\ \A i \in Ips : MaxPerIp > 0 => held'[c][i] <= MaxPerIp
    BY <2>1, <2>2, <1>4, <1>5
  <2> QED
    BY <2>3, <1>3, <1>5 DEF SlotsAreHeld, HandlersOf
<1> QED
  BY <1>3, <1>5, <1>6 DEF SlotInv

\* A step that leaves the slots, and who has a handler, alone.
LEMMA SlotsUnchanged ==
  ASSUME SlotInv, UNCHANGED <<held, total>>, conn' \in [Conns -> ConnStates],
         \A k \in Conns : conn'[k] = "none" <=> conn[k] = "none"
  PROVE  SlotInv'
<1>1. \A c \in Coins : Handlers(c)' = Handlers(c)
  BY DEF Handlers
<1> QED
  BY <1>1 DEF SlotInv, SlotsAreHeld

LEMMA NoHandlers ==
  ASSUME conn' = [k \in Conns |-> "none"],
         held' = [c \in Coins |-> [i \in Ips |-> 0]],
         total' = [c \in Coins |-> 0]
  PROVE  SlotInv'
<1>1. \A c \in Coins : Handlers(c)' = {}
  BY DEF Handlers
<1>2. \A c \in Coins, i \in Ips : {k \in Handlers(c)' : IpOf[k] = i} = {}
  BY <1>1
<1>3. MaxTotal \in Nat /\ MaxPerIp \in Nat
  BY SlotLimitsNat
<1>4. SlotsAreHeld'
  BY <1>1, <1>2, <1>3, FS_EmptySet DEF SlotsAreHeld
<1>5. /\ conn' \in [Conns -> ConnStates]
      /\ held' \in [Coins -> [Ips -> Nat]]
      /\ total' \in [Coins -> Nat]
  BY DEF ConnStates
<1>6. \A c \in Coins : IsFiniteSet(Handlers(c)')
  BY <1>1, FS_EmptySet
<1> QED
  BY <1>4, <1>5, <1>6 DEF SlotInv

LEMMA InitSlotInv == ServiceInit => SlotInv
<1> SUFFICES ASSUME ServiceInit PROVE SlotInv
  OBVIOUS
<1>1. \A c \in Coins : Handlers(c) = {}
  BY DEF ServiceInit, Handlers
<1>2. \A c \in Coins, i \in Ips : {k \in Handlers(c) : IpOf[k] = i} = {}
  BY <1>1
<1>3. MaxTotal \in Nat /\ MaxPerIp \in Nat
  BY SlotLimitsNat
<1>4. SlotsAreHeld
  <2>1. \A c \in Coins : total[c] = 0 /\ \A i \in Ips : held[c][i] = 0
    BY DEF ServiceInit
  <2>2. Cardinality({}) = 0
    BY FS_EmptySet
  <2>3. \A c \in Coins : Cardinality(Handlers(c)) = 0
    BY <2>2, <1>1
  <2>4. \A c \in Coins, i \in Ips : Cardinality({k \in Handlers(c) : IpOf[k] = i}) = 0
    BY <2>2, <1>2
  <2> QED
    BY <2>1, <2>3, <2>4, <1>3 DEF SlotsAreHeld
<1>5. /\ conn \in [Conns -> ConnStates]
      /\ held \in [Coins -> [Ips -> Nat]]
      /\ total \in [Coins -> Nat]
  BY DEF ConnStates, ServiceInit
<1>6. \A c \in Coins : IsFiniteSet(Handlers(c))
  BY <1>1, FS_EmptySet
<1> QED
  BY <1>4, <1>5, <1>6 DEF SlotInv

LEMMA NextSlotInv == SlotInv /\ [ServiceNext]_serviceVars => SlotInv'
<1> SUFFICES ASSUME SlotInv, [ServiceNext]_serviceVars PROVE SlotInv'
  OBVIOUS
<1>0. conn \in [Conns -> ConnStates]
  BY DEF SlotInv
<1>1. ASSUME UNCHANGED slots PROVE SlotInv'
  BY <1>0, <1>1, SlotsUnchanged DEF slots
<1>2. CASE Launch \/ Stop \/ TimesOut \/ BansAge
  <2>1. UNCHANGED slots
    BY <1>2 DEF Launch, Stop, TimesOut, BansAge, slots
  <2> QED
    BY <2>1, <1>1
<1>3. CASE Exit
  BY <1>3, NoHandlers DEF Exit
<1>4. ASSUME NEW c \in Coins, Rises(c) \/ Works(c) \/ CleansUp(c) PROVE SlotInv'
  <2>1. CASE Rises(c)
    BY <2>1, <1>1 DEF Rises, Begin, ProbeAnswers, ProbeGivesUp, Template, Open, Reconcile
  <2>2. CASE Works(c)
    BY <2>2, <1>1 DEF Works, PollRaises, TaskWaits, TaskGoesOn
  <2>3. CASE CleansUp(c)
    BY <2>3, <1>1 DEF CleansUp, PollStops, TasksUnwind, CloseListener, CloseLedger
  <2> QED
    BY <1>4, <2>1, <2>2, <2>3
<1>5. ASSUME NEW k \in Conns, Serves(k) PROVE SlotInv'
  <2>1. CASE Connect(k)
    BY <2>1, RegisterKeepsSlots
  <2>2. CASE Leave(k)
    BY <2>2, UnregisterKeepsSlots DEF Leave
  <2>3. CASE Drop(k)
    <3>1. /\ conn' \in [Conns -> ConnStates]
          /\ \A l \in Conns : conn'[l] = "none" <=> conn[l] = "none"
      BY <2>3, <1>0 DEF Drop, ConnStates
    <3> QED
      BY <2>3, <3>1, SlotsUnchanged DEF Drop
  <2>4. CASE Flood(k)
    BY <2>4, UnregisterKeepsSlots DEF Flood
  <2> QED
    BY <1>5, <2>1, <2>2, <2>3, <2>4 DEF Serves
<1>6. CASE UNCHANGED serviceVars
  BY <1>6, <1>1 DEF serviceVars, slots
<1> QED
  BY <1>2, <1>3, <1>4, <1>5, <1>6 DEF ServiceNext

\* A slot is held by a handler that has not ended and by nothing else, and the
\* limits hold for the handlers, whatever closes a connection (_on_client).
THEOREM SlotsAreHeldAlways == ServiceSpec => []SlotsAreHeld
<1>1. SlotInv => SlotsAreHeld
  BY DEF SlotInv
<1> QED
  BY <1>1, InitSlotInv, NextSlotInv, PTL DEF ServiceSpec

-----------------------------------------------------------------------------
(* The stages of a coin (Service).                                         *)

StagesTyped ==
  /\ stage \in [Coins -> Stages]
  /\ tasks \in [Coins -> TaskStates]
  /\ {running, listening, ledger} \subseteq [Coins -> BOOLEAN]

\* Nothing of the coin is left for an answer or a miner to find.
Quiet(c) == tasks[c] = "none" /\ ~listening[c]

\* The stages in which there is nothing yet, and those in which there is nothing
\* any more; a coin brought down by the cancellation alone may leave something,
\* and then its database is open.
Unopened == {"waiting", "new", "probing", "template", "opening"}

StagesInv ==
  /\ StagesTyped
  /\ \A c \in Coins :
       /\ stage[c] \in Unopened \cup {"draining"} => Quiet(c)
       /\ stage[c] = "down" /\ main \in {"serving", "stopping"} => Quiet(c)
       /\ ~ledger[c] => Quiet(c) /\ stage[c] = "down"

\* A MoneroPool whose reconciliation at startup raises ends without cleaning up.
Reconciles == \A c \in Monero : "reconcile_fails" \notin Faults[c]

\* run() is at work on one coin: what its step leaves of that coin.
StepsTo(c, s, t, l, d) ==
  /\ stage' = [stage EXCEPT ![c] = s]
  /\ tasks' = [tasks EXCEPT ![c] = t]
  /\ listening' = [listening EXCEPT ![c] = l]
  /\ ledger' = [ledger EXCEPT ![c] = d]

LEMMA CoinSteps ==
  ASSUME StagesInv, NEW c \in Coins, UNCHANGED main, running' \in [Coins -> BOOLEAN],
         NEW s \in Stages, NEW t \in TaskStates, NEW l \in BOOLEAN, NEW d \in BOOLEAN,
         StepsTo(c, s, t, l, d),
         s \in Unopened \cup {"draining", "down"} => t = "none" /\ ~l,
         ~d => t = "none" /\ ~l /\ s = "down"
  PROVE  StagesInv'
<1>1. StagesTyped'
  BY DEF StagesInv, StagesTyped, StepsTo
<1>2. /\ stage'[c] = s /\ tasks'[c] = t /\ listening'[c] = l /\ ledger'[c] = d
      /\ \A e \in Coins \ {c} :
           /\ stage'[e] = stage[e] /\ tasks'[e] = tasks[e]
           /\ listening'[e] = listening[e] /\ ledger'[e] = ledger[e]
  BY DEF StagesInv, StagesTyped, StepsTo
<1>3. ASSUME NEW e \in Coins
      PROVE  /\ stage'[e] \in Unopened \cup {"draining"} => Quiet(e)'
             /\ stage'[e] = "down" /\ main' \in {"serving", "stopping"} => Quiet(e)'
             /\ ~ledger'[e] => Quiet(e)' /\ stage'[e] = "down"
  <2>1. CASE e = c
    BY <2>1, <1>2 DEF Quiet
  <2>2. CASE e # c
    BY <2>2, <1>2 DEF StagesInv, Quiet
  <2> QED
    BY <2>1, <2>2
<1> QED
  BY <1>1, <1>3 DEF StagesInv

\* What is known of a coin from the stage it is in.
LEMMA CoinTyped ==
  ASSUME StagesInv, NEW c \in Coins
  PROVE  /\ stage[c] \in Stages /\ tasks[c] \in TaskStates
         /\ listening[c] \in BOOLEAN /\ ledger[c] \in BOOLEAN
         /\ running \in [Coins -> BOOLEAN]
         /\ stage = [stage EXCEPT ![c] = stage[c]] /\ tasks = [tasks EXCEPT ![c] = tasks[c]]
         /\ listening = [listening EXCEPT ![c] = listening[c]]
         /\ ledger = [ledger EXCEPT ![c] = ledger[c]]
         /\ stage[c] \in Unopened \cup {"draining"} => tasks[c] = "none" /\ ~listening[c]
         /\ stage[c] # "down" => ledger[c]
<1>1. StagesTyped
  BY DEF StagesInv
<1>2. /\ stage[c] \in Stages /\ tasks[c] \in TaskStates
      /\ listening[c] \in BOOLEAN /\ ledger[c] \in BOOLEAN
      /\ running \in [Coins -> BOOLEAN]
      /\ stage = [stage EXCEPT ![c] = stage[c]] /\ tasks = [tasks EXCEPT ![c] = tasks[c]]
      /\ listening = [listening EXCEPT ![c] = listening[c]]
      /\ ledger = [ledger EXCEPT ![c] = ledger[c]]
  BY <1>1 DEF StagesTyped
<1> QED
  BY <1>2 DEF StagesInv, Quiet

LEMMA RaiseSteps ==
  ASSUME StagesInv, NEW c \in Coins, UNCHANGED main, Raise(c),
         stage[c] \in Unopened \/ Guarded(c)
  PROVE  StagesInv'
<1>0. /\ tasks[c] \in TaskStates /\ listening[c] \in BOOLEAN /\ ledger[c] \in BOOLEAN
      /\ running \in [Coins -> BOOLEAN]
  BY CoinTyped
<1>1. stage[c] # "down" /\ ledger[c]
  <2>1. stage[c] # "down"
    BY DEF Unopened, Guarded
  <2> QED
    BY <2>1, CoinTyped
<1>2. CASE Guarded(c)
  <2> DEFINE t == IF tasks[c] = "none" THEN "none" ELSE "cancelled"
  <2>1. StepsTo(c, "closing", t, listening[c], ledger[c])
    BY <1>2, CoinTyped DEF Raise, CleanUp, Reaches, StepsTo
  <2>2. running' \in [Coins -> BOOLEAN]
    BY <1>2, CoinTyped DEF Raise, CleanUp
  <2>3. t \in TaskStates /\ "closing" \in Stages /\ "closing" \notin Unopened \cup {"draining", "down"}
    BY DEF TaskStates, Stages, Unopened
  <2> HIDE DEF t
  <2> QED
    BY <1>0, <1>1, <2>1, <2>2, <2>3, CoinSteps
<1>3. CASE ~Guarded(c)
  <2>1. StepsTo(c, "down", tasks[c], listening[c], ledger[c]) /\ running' = running
    BY <1>3, CoinTyped DEF Raise, Reaches, StepsTo
  <2>2. tasks[c] = "none" /\ ~listening[c]
    BY <1>3, CoinTyped
  <2>3. "down" \in Stages
    BY DEF Stages
  <2> QED
    BY <1>0, <1>1, <2>1, <2>2, <2>3, CoinSteps
<1> QED
  BY <1>2, <1>3

LEMMA RisesSteps ==
  ASSUME Reconciles, StagesInv, NEW c \in Coins, Rises(c)
  PROVE  StagesInv'
<1> USE DEF StepsTo, Reaches
<1>0. /\ stage[c] \in Stages /\ tasks[c] \in TaskStates
      /\ listening[c] \in BOOLEAN /\ ledger[c] \in BOOLEAN
      /\ running \in [Coins -> BOOLEAN]
      /\ stage[c] \in Unopened \cup {"draining"} => tasks[c] = "none" /\ ~listening[c]
      /\ stage[c] # "down" => ledger[c]
  BY CoinTyped
<1>1. CASE Begin(c)
  <2>1. StepsTo(c, "probing", tasks[c], listening[c], ledger[c])
    BY <1>1, CoinTyped DEF Begin
  <2>2. UNCHANGED main /\ running' \in [Coins -> BOOLEAN]
    BY <1>1, <1>0 DEF Begin, process
  <2>3. tasks[c] = "none" /\ ~listening[c] /\ ledger[c] /\ "probing" \in Stages
    BY <1>1, <1>0 DEF Begin, Unopened, Stages
  <2> QED
    BY <1>0, <2>1, <2>2, <2>3, CoinSteps
<1>2. CASE ProbeAnswers(c)
  <2>0. UNCHANGED main /\ stage[c] \in Unopened
    BY <1>2 DEF ProbeAnswers, process, Unopened
  <2>1. CASE Raise(c)
    BY <2>0, <2>1, RaiseSteps
  <2>2. CASE ~Raise(c)
    <3>1. StepsTo(c, "template", tasks[c], listening[c], ledger[c]) /\ running' = running
      BY <1>2, <2>2, CoinTyped DEF ProbeAnswers
    <3>2. tasks[c] = "none" /\ ~listening[c] /\ ledger[c] /\ "template" \in Stages
      BY <2>0, <1>0 DEF Unopened, Stages
    <3> QED
      BY <1>0, <2>0, <3>1, <3>2, CoinSteps
  <2> QED
    BY <2>1, <2>2
<1>3. CASE ProbeGivesUp(c)
  <2>0. UNCHANGED main /\ stage[c] \in Unopened /\ running' = running
    BY <1>3 DEF ProbeGivesUp, GivesUp, process, Unopened
  <2>1. StepsTo(c, "down", tasks[c], listening[c], ledger[c])
    BY <1>3, CoinTyped DEF ProbeGivesUp
  <2>2. tasks[c] = "none" /\ ~listening[c] /\ ledger[c] /\ "down" \in Stages
    BY <2>0, <1>0 DEF Unopened, Stages
  <2> QED
    BY <1>0, <2>0, <2>1, <2>2, CoinSteps
<1>4. CASE Template(c)
  <2>0. UNCHANGED main /\ stage[c] \in Unopened
    BY <1>4 DEF Template, process, Unopened
  <2>1. CASE Raise(c)
    BY <2>0, <2>1, RaiseSteps
  <2>2. CASE ~Raise(c)
    <3> DEFINE s == IF c \in Monero /\ ~running[c] THEN "down" ELSE "opening"
    <3>1. StepsTo(c, s, tasks[c], listening[c], ledger[c]) /\ running' = running
      BY <1>4, <2>2, CoinTyped DEF Template
    <3>2. tasks[c] = "none" /\ ~listening[c] /\ ledger[c] /\ s \in Stages
      BY <2>0, <1>0 DEF Unopened, Stages
    <3> HIDE DEF s
    <3> QED
      BY <1>0, <2>0, <3>1, <3>2, CoinSteps
  <2> QED
    BY <2>1, <2>2
<1>5. CASE Open(c)
  <2>0. UNCHANGED main /\ stage[c] \in Unopened
    BY <1>5 DEF Open, process, Unopened
  <2>1. CASE Raise(c)
    BY <2>0, <2>1, RaiseSteps
  <2>2. CASE ~Raise(c)
    <3>1. StepsTo(c, "reconciling", "vardiff", TRUE, ledger[c]) /\ running' = running
      BY <1>5, <2>2, CoinTyped DEF Open
    <3>2. /\ "vardiff" \in TaskStates /\ ledger[c] /\ "reconciling" \in Stages
          /\ "reconciling" \notin Unopened \cup {"draining", "down"}
      BY <2>0, <1>0 DEF Unopened, Stages, TaskStates
    <3> QED
      BY <1>0, <2>0, <3>1, <3>2, CoinSteps
  <2> QED
    BY <2>1, <2>2
<1>6. CASE Reconcile(c)
  <2>0. UNCHANGED main /\ stage[c] = "reconciling" /\ ledger[c]
    BY <1>6, <1>0 DEF Reconcile, process
  <2>1. ~(c \in Monero /\ "reconcile_fails" \in Faults[c])
    BY DEF Reconciles
  <2>2. StepsTo(c, "polling", "all", listening[c], ledger[c]) /\ running' = running
    BY <1>6, <2>1, CoinTyped DEF Reconcile
  <2>3. /\ "all" \in TaskStates /\ "polling" \in Stages
        /\ "polling" \notin Unopened \cup {"draining", "down"}
    BY DEF Unopened, Stages, TaskStates
  <2> QED
    BY <1>0, <2>0, <2>2, <2>3, CoinSteps
<1> QED
  BY <1>1, <1>2, <1>3, <1>4, <1>5, <1>6 DEF Rises

LEMMA WorksSteps ==
  ASSUME StagesInv, NEW c \in Coins, Works(c) \/ CleansUp(c)
  PROVE  StagesInv'
<1> USE DEF StepsTo, Reaches
<1>0. /\ stage[c] \in Stages /\ tasks[c] \in TaskStates
      /\ listening[c] \in BOOLEAN /\ ledger[c] \in BOOLEAN
      /\ running \in [Coins -> BOOLEAN]
      /\ stage[c] \in Unopened \cup {"draining"} => tasks[c] = "none" /\ ~listening[c]
      /\ stage[c] # "down" => ledger[c]
  BY CoinTyped
<1>1. CASE PollRaises(c)
  <2>1. UNCHANGED main /\ Guarded(c) /\ Raise(c)
    BY <1>1 DEF PollRaises, process, Guarded
  <2> QED
    BY <2>1, RaiseSteps
<1>2. CASE TaskWaits(c) \/ TaskGoesOn(c) \/ TasksUnwind(c)
  <2>1. PICK t \in {"none", "all", "busy"} :
          /\ tasks' = [tasks EXCEPT ![c] = t]
          /\ t # "none" => tasks[c] # "none"
    BY <1>2 DEF TaskWaits, TaskGoesOn, TasksUnwind
  <2>2. UNCHANGED <<main, stage, running, listening, ledger>>
    BY <1>2 DEF TaskWaits, TaskGoesOn, TasksUnwind, process
  <2>3. t \in TaskStates
    BY DEF TaskStates
  <2>4. StagesTyped'
    BY <2>1, <2>2, <2>3 DEF StagesInv, StagesTyped
  <2>5. \A e \in Coins : Quiet(e) => Quiet(e)'
    BY <2>1, <2>2 DEF StagesInv, StagesTyped, Quiet
  <2> QED
    BY <2>2, <2>4, <2>5 DEF StagesInv
<1>3. CASE PollStops(c)
  <2> DEFINE t == IF tasks[c] = "none" THEN "none" ELSE "cancelled"
  <2>1. StepsTo(c, "closing", t, listening[c], ledger[c])
    BY <1>3, CoinTyped DEF PollStops, CleanUp
  <2>2. UNCHANGED main /\ running' \in [Coins -> BOOLEAN] /\ ledger[c]
    BY <1>3, <1>0 DEF PollStops, CleanUp, process
  <2>3. /\ t \in TaskStates /\ "closing" \in Stages
        /\ "closing" \notin Unopened \cup {"draining", "down"}
    BY DEF TaskStates, Stages, Unopened
  <2> HIDE DEF t
  <2> QED
    BY <1>0, <2>1, <2>2, <2>3, CoinSteps
<1>4. CASE CloseListener(c)
  <2>1. StepsTo(c, "draining", "none", FALSE, ledger[c])
    BY <1>4, CoinTyped DEF CloseListener
  <2>2. UNCHANGED <<main, running>> /\ ledger[c]
    BY <1>4, <1>0 DEF CloseListener, process
  <2>3. "none" \in TaskStates /\ "draining" \in Stages
    BY DEF TaskStates, Stages
  <2> QED
    BY <1>0, <2>1, <2>2, <2>3, CoinSteps
<1>5. CASE CloseLedger(c)
  <2>1. tasks[c] = "none" /\ ~listening[c]
    BY <1>0, <1>5 DEF CloseLedger
  <2>2. StepsTo(c, "down", tasks[c], listening[c], FALSE)
    BY <1>5, CoinTyped DEF CloseLedger
  <2>3. UNCHANGED <<main, running>> /\ "down" \in Stages
    BY <1>5 DEF CloseLedger, process, Stages
  <2> QED
    BY <1>0, <2>1, <2>2, <2>3, CoinSteps
<1> QED
  BY <1>1, <1>2, <1>3, <1>4, <1>5 DEF Works, CleansUp

\* What the process does to every coin at once.
LEMMA ProcessSteps ==
  ASSUME StagesInv, Launch \/ Stop \/ TimesOut \/ Exit
  PROVE  StagesInv'
<1>0. StagesTyped
  BY DEF StagesInv
<1>1. CASE Launch
  <2>1. \A c \in Coins : stage[c] = "waiting" /\ stage'[c] = "new"
    BY <1>1 DEF Launch
  <2>2. \A c \in Coins : Quiet(c) /\ ledger[c]
    BY <2>1 DEF StagesInv, Unopened, Quiet, StagesTyped
  <2>3. StagesTyped' /\ UNCHANGED <<main, tasks, listening, ledger>>
    BY <1>1, <1>0 DEF Launch, StagesTyped, Stages, process
  <2> QED
    BY <2>1, <2>2, <2>3 DEF StagesInv, Quiet, Unopened
<1>2. CASE Stop
  <2>1. StagesTyped' /\ UNCHANGED <<stage, tasks, listening, ledger>>
    BY <1>2, <1>0 DEF Stop, StagesTyped
  <2>2. main = "serving"
    BY <1>2 DEF Stop
  <2> QED
    BY <2>1, <2>2 DEF StagesInv, Quiet
<1>3. CASE TimesOut
  <2>1. \A c \in Coins :
          /\ stage'[c] \in {"closing", "down"}
          /\ tasks'[c] \in {tasks[c], "cancelled"}
          /\ tasks[c] = "none" => tasks'[c] = "none"
    BY <1>3, <1>0 DEF TimesOut, Cancelled, StagesTyped
  <2>2. main' = "cancelled" /\ UNCHANGED <<listening, ledger>>
    BY <1>3 DEF TimesOut
  <2>3. stage' \in [Coins -> Stages]
    <3>1. stage' = [c \in Coins |-> Cancelled(c)]
      BY <1>3 DEF TimesOut
    <3> QED
      BY <3>1 DEF Cancelled, Stages
  <2>4. tasks' \in [Coins -> TaskStates] /\ running' \in [Coins -> BOOLEAN]
    <3>1. /\ tasks' = [c \in Coins |->
                         IF Guarded(c) /\ tasks[c] # "none" THEN "cancelled" ELSE tasks[c]]
          /\ running' = [c \in Coins |-> running[c] /\ ~Guarded(c)]
      BY <1>3 DEF TimesOut
    <3> QED
      BY <3>1, <1>0 DEF StagesTyped, TaskStates
  <2>5. \A c \in Coins : ~ledger[c] => stage'[c] = "down"
    <3> TAKE c \in Coins
    <3>1. ~ledger[c] => stage[c] = "down"
      BY DEF StagesInv
    <3>2. stage[c] = "down" => Cancelled(c) = "down"
      BY DEF Cancelled, Guarded
    <3> QED
      BY <3>1, <3>2, <1>3 DEF TimesOut
  <2>6. \A c \in Coins : Quiet(c) => Quiet(c)'
    BY <2>1, <2>2 DEF Quiet
  <2>7. \A c \in Coins : ~ledger[c] => Quiet(c)
    BY DEF StagesInv
  <2> QED
    BY <1>0, <2>1, <2>2, <2>3, <2>4, <2>5, <2>6, <2>7 DEF StagesInv, StagesTyped, Unopened
<1>4. CASE Exit
  <2>1. \A c \in Coins : Quiet(c)' /\ stage'[c] = "down"
    BY <1>4 DEF Exit, Quiet
  <2>2. StagesTyped'
    <3>1. /\ stage' = [c \in Coins |-> "down"] /\ tasks' = [c \in Coins |-> "none"]
          /\ listening' = [c \in Coins |-> FALSE] /\ UNCHANGED <<running, ledger>>
      BY <1>4 DEF Exit
    <3> QED
      BY <3>1, <1>0 DEF StagesTyped, Stages, TaskStates
  <2> QED
    BY <2>1, <2>2 DEF StagesInv
<1> QED
  BY <1>1, <1>2, <1>3, <1>4

LEMMA NextStagesInv == Reconciles /\ StagesInv /\ [ServiceNext]_serviceVars => StagesInv'
<1> SUFFICES ASSUME Reconciles, StagesInv, [ServiceNext]_serviceVars PROVE StagesInv'
  OBVIOUS
<1>1. ASSUME UNCHANGED <<main, coins>> PROVE StagesInv'
  BY <1>1 DEF coins, StagesInv, StagesTyped, Quiet
<1>2. CASE Launch \/ Stop \/ TimesOut \/ Exit
  BY <1>2, ProcessSteps
<1>3. CASE BansAge
  BY <1>1, <1>3 DEF BansAge, process
<1>4. ASSUME NEW c \in Coins, Rises(c) \/ Works(c) \/ CleansUp(c) PROVE StagesInv'
  BY <1>4, RisesSteps, WorksSteps
<1>5. ASSUME NEW k \in Conns, Serves(k) PROVE StagesInv'
  BY <1>1, <1>5 DEF Serves, Connect, Leave, Drop, Flood, process
<1>6. CASE UNCHANGED serviceVars
  BY <1>1, <1>6 DEF serviceVars, process
<1> QED
  BY <1>2, <1>3, <1>4, <1>5, <1>6 DEF ServiceNext

LEMMA InitStagesInv == ServiceInit => StagesInv
BY DEF ServiceInit, StagesInv, StagesTyped, Stages, TaskStates, Quiet, Unopened

\* No task finds the database closed, and while the process serves, a coin that
\* is down has left no listener and no task, wherever its run() ended or was
\* cancelled (run, and its finally).
THEOREM CleanlyClosedAlways ==
  ASSUME Reconciles
  PROVE  ServiceSpec => []CleanlyClosed
<1>1. StagesInv => CleanlyClosed
  BY DEF StagesInv, StagesTyped, CleanlyClosed, Quiet
<1>2. StagesInv /\ [ServiceNext]_serviceVars => StagesInv'
  BY NextStagesInv
<1> QED
  BY <1>1, <1>2, InitStagesInv, PTL DEF ServiceSpec

-----------------------------------------------------------------------------
(* Type correctness of Service.                                            *)

\* Of strikes that age at most as many are left.
LEMMA OlderIs ==
  ASSUME NEW ages \in Seq(Nat)
  PROVE  Older(ages) \in Seq(Nat) /\ Len(Older(ages)) <= Len(ages)
<1> DEFINE older == [n \in DOMAIN ages |-> ages[n] + 1]
           gone == {n \in DOMAIN older : older[n] >= StrikeWindow}
           m == Cardinality(gone) + 1
<1>1. Len(ages) \in Nat /\ DOMAIN ages = 1..Len(ages)
  BY LenProperties
<1>2. /\ older \in Seq(Nat) /\ Len(older) = Len(ages)
      /\ \A n \in 1..Len(ages) : older[n] \in Nat
  <2>1. \A n \in 1..Len(ages) : ages[n] + 1 \in Nat
    BY ElementOfSeq
  <2>2. older = [n \in 1..Len(ages) |-> ages[n] + 1]
    BY <1>1
  <2> HIDE DEF older
  <2>3. older \in Seq(Nat)
    BY <1>1, <2>1, <2>2, IsASeq
  <2>4. Len(older) = Len(ages)
    BY <1>1, <2>2, <2>3, LenProperties
  <2> QED
    BY <2>1, <2>2, <2>3, <2>4
<1>3. m \in Nat \ {0}
  <2>1. gone \subseteq 1..Len(ages)
    BY <1>1
  <2>2. IsFiniteSet(1..Len(ages))
    BY <1>1, FS_Interval
  <2> HIDE DEF gone
  <2>3. IsFiniteSet(gone)
    BY <2>1, <2>2, FS_Subset
  <2>4. Cardinality(gone) \in Nat
    BY <2>3, FS_CardinalityType
  <2> QED
    BY <2>4
<1> HIDE DEF older, m
<1>4. \A i \in m..Len(older) : older[i] \in Nat
  BY <1>1, <1>2, <1>3
<1>5. /\ SubSeq(older, m, Len(older)) \in Seq(Nat)
      /\ Len(SubSeq(older, m, Len(older)))
           = IF m <= Len(older) THEN Len(older) - m + 1 ELSE 0
  BY <1>1, <1>2, <1>3, <1>4, SubSeqProperties
<1>6. Older(ages) = SubSeq(older, m, Len(older))
  BY DEF Older, older, m
<1> QED
  BY <1>1, <1>2, <1>3, <1>5, <1>6

BansTyped ==
  /\ strikes \in [Coins -> [Ips -> Seq(Nat)]]
  /\ \A c \in Coins, i \in Ips : Len(strikes[c][i]) < BanThreshold \/ strikes[c][i] = << >>
  /\ banned \in [Coins -> [Ips -> 0..BanTime]]

LEMMA StrikeTyped ==
  ASSUME BansTyped, NEW c \in Coins, NEW i \in Ips, Strike(c, i)
  PROVE  BansTyped'
<1> DEFINE recent == Append(strikes[c][i], 0)
           full == Len(recent) >= BanThreshold
           left == IF full THEN << >> ELSE recent
<1>0. BanThreshold \in Nat /\ BanTime \in Nat
  BY SlotLimitsNat
<1>1. recent \in Seq(Nat) /\ Len(recent) \in Nat
  <2>1. strikes[c][i] \in Seq(Nat)
    BY DEF BansTyped
  <2> QED
    BY <2>1, AppendProperties, LenProperties
<1>2. CASE BanThreshold = 0
  BY <1>2 DEF Strike, bans, BansTyped
<1>3. CASE BanThreshold # 0
  <2>1. /\ strikes' = [strikes EXCEPT ![c][i] = left]
        /\ banned' = [banned EXCEPT ![c][i] = IF full THEN BanTime ELSE @]
    BY <1>3 DEF Strike
  <2>2. left \in Seq(Nat) /\ (Len(left) < BanThreshold \/ left = << >>)
    BY <1>0, <1>1, EmptySeq
  <2> HIDE DEF left, full
  <2>3. strikes' \in [Coins -> [Ips -> Seq(Nat)]]
    BY <2>1, <2>2 DEF BansTyped
  <2>4. \A d \in Coins, j \in Ips :
          strikes'[d][j] = IF d = c /\ j = i THEN left ELSE strikes[d][j]
    BY <2>1 DEF BansTyped
  <2>5. banned' \in [Coins -> [Ips -> 0..BanTime]]
    BY <1>0, <2>1 DEF BansTyped
  <2> QED
    BY <2>2, <2>3, <2>4, <2>5 DEF BansTyped
<1> QED
  BY <1>2, <1>3

LEMMA NextBansTyped == BansTyped /\ [ServiceNext]_serviceVars => BansTyped'
<1> SUFFICES ASSUME BansTyped, [ServiceNext]_serviceVars PROVE BansTyped'
  OBVIOUS
<1>1. ASSUME UNCHANGED bans PROVE BansTyped'
  BY <1>1 DEF BansTyped, bans
<1>2. CASE BansAge
  <2>1. /\ strikes' = [c \in Coins |-> [i \in Ips |-> Older(strikes[c][i])]]
        /\ banned' = [c \in Coins |-> [i \in Ips |->
                        IF banned[c][i] > 0 THEN banned[c][i] - 1 ELSE 0]]
    BY <1>2 DEF BansAge
  <2>2. ASSUME NEW c \in Coins, NEW i \in Ips
        PROVE  /\ Older(strikes[c][i]) \in Seq(Nat)
               /\ \/ Len(Older(strikes[c][i])) < BanThreshold
                  \/ Older(strikes[c][i]) = << >>
    <3> DEFINE s == strikes[c][i]  o == Older(s)
    <3>1. s \in Seq(Nat) /\ (Len(s) < BanThreshold \/ s = << >>)
      BY DEF BansTyped
    <3>2. o \in Seq(Nat) /\ Len(o) <= Len(s) /\ Len(o) \in Nat /\ Len(s) \in Nat
      BY <3>1, OlderIs, LenProperties
    <3> HIDE DEF o, s
    <3>3. Len(o) < BanThreshold \/ Len(o) = 0
      BY <3>1, <3>2, SlotLimitsNat, EmptySeq
    <3>4. Len(o) < BanThreshold \/ o = << >>
      BY <3>2, <3>3, EmptySeq
    <3> QED
      BY <3>2, <3>4 DEF o, s
  <2>3. banned' \in [Coins -> [Ips -> 0..BanTime]]
    <3>1. \A c \in Coins, i \in Ips :
            (IF banned[c][i] > 0 THEN banned[c][i] - 1 ELSE 0) \in 0..BanTime
      BY SlotLimitsNat DEF BansTyped
    <3> QED
      BY <2>1, <3>1
  <2> QED
    BY <2>1, <2>2, <2>3 DEF BansTyped
<1>3. ASSUME NEW k \in Conns, Serves(k) PROVE BansTyped'
  <2>1. CASE Connect(k) \/ Leave(k) \/ Drop(k)
    BY <1>1, <2>1 DEF Connect, Leave, Drop
  <2>2. CASE Flood(k)
    BY <2>2, ConnsPlaced, StrikeTyped DEF Flood
  <2> QED
    BY <1>3, <2>1, <2>2 DEF Serves
<1>4. ASSUME NEW c \in Coins, Rises(c) \/ Works(c) \/ CleansUp(c) PROVE BansTyped'
  BY <1>1, <1>4
     DEF Rises, Works, CleansUp, Begin, ProbeAnswers, ProbeGivesUp, Template, Open, Reconcile,
         PollRaises, TaskWaits, TaskGoesOn, PollStops, TasksUnwind, CloseListener, CloseLedger
<1>5. CASE Launch \/ Stop \/ TimesOut \/ Exit
  BY <1>1, <1>5 DEF Launch, Stop, TimesOut, Exit
<1>6. CASE UNCHANGED serviceVars
  BY <1>1, <1>6 DEF serviceVars
<1> QED
  BY <1>2, <1>3, <1>4, <1>5, <1>6 DEF ServiceNext

ProcessTyped ==
  /\ main \in {"serving", "stopping", "cancelled", "gone"}
  /\ waits \in Builds
  /\ hit \subseteq Coins /\ failed \subseteq Coins
  /\ StagesTyped

\* One coin takes a step.
LEMMA StepTyped ==
  ASSUME ProcessTyped, NEW c \in Coins, Rises(c) \/ Works(c) \/ CleansUp(c)
  PROVE  ProcessTyped'
<1> USE DEF ProcessTyped, StagesTyped, process, Reaches
<1>0. /\ "none" \in TaskStates /\ "cancelled" \in TaskStates /\ "vardiff" \in TaskStates
      /\ "all" \in TaskStates /\ "busy" \in TaskStates
      /\ "probing" \in Stages /\ "template" \in Stages /\ "opening" \in Stages
      /\ "reconciling" \in Stages /\ "polling" \in Stages /\ "closing" \in Stages
      /\ "draining" \in Stages /\ "down" \in Stages
  BY DEF TaskStates, Stages
<1>1. ASSUME Raise(c), UNCHANGED process PROVE ProcessTyped'
  <2>1. CASE Guarded(c)
    <3> DEFINE t == IF tasks[c] = "none" THEN tasks[c] ELSE "cancelled"
    <3>1. /\ stage' = [stage EXCEPT ![c] = "closing"] /\ tasks' = [tasks EXCEPT ![c] = t]
          /\ running' = [running EXCEPT ![c] = FALSE]
          /\ failed' = failed \cup {c} /\ UNCHANGED <<listening, ledger>>
      BY <1>1, <2>1 DEF Raise, CleanUp
    <3>2. t \in TaskStates
      BY <1>0
    <3> HIDE DEF t
    <3> QED
      BY <1>0, <1>1, <3>1, <3>2
  <2>2. CASE ~Guarded(c)
    BY <1>0, <1>1, <2>2 DEF Raise
  <2> QED
    BY <2>1, <2>2
<1>2. CASE Begin(c)
  BY <1>0, <1>2 DEF Begin
<1>3. CASE ProbeAnswers(c)
  BY <1>0, <1>1, <1>3 DEF ProbeAnswers
<1>4. CASE ProbeGivesUp(c)
  BY <1>0, <1>4 DEF ProbeGivesUp
<1>5. CASE Template(c)
  BY <1>0, <1>1, <1>5 DEF Template
<1>6. CASE Open(c)
  <2>1. CASE Raise(c)
    BY <1>1, <1>6, <2>1 DEF Open
  <2>2. CASE ~Raise(c)
    <3>1. /\ listening' = [listening EXCEPT ![c] = TRUE]
          /\ tasks' = [tasks EXCEPT ![c] = "vardiff"]
          /\ stage' = [stage EXCEPT ![c] = "reconciling"]
          /\ UNCHANGED <<running, failed, ledger, main, waits, hit>>
      BY <1>6, <2>2 DEF Open
    <3> QED
      BY <1>0, <3>1
  <2> QED
    BY <2>1, <2>2
<1>7. CASE Reconcile(c)
  BY <1>0, <1>1, <1>7 DEF Reconcile
<1>8. CASE PollRaises(c)
  BY <1>0, <1>1, <1>8 DEF PollRaises
<1>9. CASE TaskWaits(c) \/ TaskGoesOn(c) \/ TasksUnwind(c)
  BY <1>0, <1>9 DEF TaskWaits, TaskGoesOn, TasksUnwind
<1>10. CASE PollStops(c)
  BY <1>0, <1>10 DEF PollStops, CleanUp
<1>11. CASE CloseListener(c)
  BY <1>0, <1>11 DEF CloseListener
<1>12. CASE CloseLedger(c)
  BY <1>0, <1>12 DEF CloseLedger
<1> QED
  BY <1>2, <1>3, <1>4, <1>5, <1>6, <1>7, <1>8, <1>9, <1>10, <1>11, <1>12
     DEF Rises, Works, CleansUp

LEMMA NextProcessTyped == ProcessTyped /\ [ServiceNext]_serviceVars => ProcessTyped'
<1> SUFFICES ASSUME ProcessTyped, [ServiceNext]_serviceVars PROVE ProcessTyped'
  OBVIOUS
<1> USE DEF ProcessTyped, StagesTyped, process, coins
<1>1. ASSUME UNCHANGED <<process, coins>> PROVE ProcessTyped'
  BY <1>1
<1>2. CASE Launch
  BY <1>2 DEF Launch, Stages
<1>3. CASE Stop
  BY <1>3 DEF Stop
<1>4. CASE TimesOut
  <2>1. \A c \in Coins : Cancelled(c) \in Stages
    BY DEF Cancelled, Stages
  <2>2. \A c \in Coins : (running[c] /\ ~Guarded(c)) \in BOOLEAN
    OBVIOUS
  <2>3. \A c \in Coins :
          (IF Guarded(c) /\ tasks[c] # "none" THEN "cancelled" ELSE tasks[c]) \in TaskStates
    BY DEF TaskStates
  <2> QED
    BY <1>4, <2>1, <2>2, <2>3 DEF TimesOut
<1>5. CASE Exit
  BY <1>5 DEF Exit, Stages, TaskStates
<1>6. ASSUME NEW k \in Conns, Serves(k) PROVE ProcessTyped'
  BY <1>1, <1>6 DEF Serves, Connect, Leave, Drop, Flood
<1>7. CASE BansAge
  BY <1>1, <1>7 DEF BansAge
<1>8. CASE UNCHANGED serviceVars
  BY <1>1, <1>8 DEF serviceVars
<1> QED
  BY <1>2, <1>3, <1>4, <1>5, <1>6, <1>7, <1>8, StepTyped DEF ServiceNext

\* Every variable of the service keeps its type; of an address that is not banned
\* fewer strikes are kept than ban it (BanManager.strike).
THEOREM ServiceTypeCorrect == ServiceSpec => []ServiceTypeOK
<1>1. ServiceInit => ProcessTyped /\ BansTyped
  <2> SUFFICES ASSUME ServiceInit PROVE ProcessTyped /\ BansTyped
    OBVIOUS
  <2>1. ProcessTyped
    BY DEF ServiceInit, ProcessTyped, StagesTyped, Stages, TaskStates
  <2>2. << >> \in Seq(Nat) /\ 0 \in 0..BanTime
    BY SlotLimitsNat, EmptySeq
  <2>3. BansTyped
    BY <2>2 DEF ServiceInit, BansTyped
  <2> QED
    BY <2>1, <2>3
<1>2. ProcessTyped /\ BansTyped /\ SlotInv => ServiceTypeOK
  BY DEF ProcessTyped, StagesTyped, BansTyped, SlotInv, ServiceTypeOK
<1> QED
  BY <1>1, <1>2, NextProcessTyped, NextBansTyped, InitSlotInv, NextSlotInv, PTL DEF ServiceSpec

-----------------------------------------------------------------------------
(* The window of the rate limiter (Dashboard).                             *)

\* A set of numbers that is not empty has a least one.
LEMMA LeastNat ==
  ASSUME NEW S \in SUBSET Nat, S # {}
  PROVE  \E n \in S : \A m \in S : n <= m
<1>1. PICK n \in S : \A m \in S : ~ (<<m, n>> \in OpToRel(<, Nat))
  BY NatLessThanWellFounded, WFMin
<1>2. ASSUME NEW m \in S PROVE n <= m
  <2>1. <<m, n>> \in Nat \X Nat /\ <<m, n>>[1] = m /\ <<m, n>>[2] = n
    OBVIOUS
  <2>2. ~ (m < n)
    BY <1>1, <2>1 DEF OpToRel
  <2> QED
    BY <2>2
<1> QED
  BY <1>2

Ages == Seq(Nat)

\* What becomes of a request adds none or one.
NoneOrOne == {<<>>, <<0>>}

\* The hits that have expired are the oldest, up to the first that has not.
LEMMA ExpiredIs ==
  ASSUME NEW ages \in Ages
  PROVE  /\ Len(ages) \in Nat
         /\ Expired(ages) \in 0..Len(ages)
         /\ \A i \in 1..Expired(ages) : ages[i] > Window
         /\ Expired(ages) < Len(ages) => ages[Expired(ages) + 1] <= Window
<1>0. Len(ages) \in Nat /\ (\A i \in 1..Len(ages) : ages[i] \in Nat) /\ Window \in Nat
  BY LenProperties, ElementOfSeq, AgesNat DEF Ages
<1>1. \E n \in 0..Len(ages) :
        /\ \A i \in 1..n : ages[i] > Window
        /\ n < Len(ages) => ages[n + 1] <= Window
  <2> DEFINE R == {i \in 1..Len(ages) : ages[i] <= Window}
  <2>1. CASE R = {}
    <3>1. \A i \in 1..Len(ages) : ages[i] > Window
      BY <2>1, <1>0
    <3> QED
      BY <3>1, <1>0
  <2>2. CASE R # {}
    <3>0. R \in SUBSET Nat
      BY <1>0
    <3>1. PICK n \in R : \A m \in R : n <= m
      <4> HIDE DEF R
      <4> QED
        BY <2>2, <3>0, LeastNat
    <3>2. \A i \in 1..(n - 1) : ages[i] > Window
      BY <3>1, <1>0
    <3>3. n - 1 \in 0..Len(ages) /\ (n - 1) + 1 = n /\ ages[n] <= Window
      BY <3>1, <1>0
    <3> QED
      BY <3>2, <3>3
  <2> QED
    BY <2>1, <2>2
<1> QED
  BY <1>0, <1>1 DEF Expired

LEMMA ExpiredIf ==
  ASSUME NEW ages \in Ages, NEW n \in 0..Len(ages),
         \A i \in 1..n : ages[i] > Window, n < Len(ages) => ages[n + 1] <= Window
  PROVE  Expired(ages) = n
<1>0. (\A i \in 1..Len(ages) : ages[i] \in Nat) /\ Window \in Nat
  BY LenProperties, ElementOfSeq, AgesNat DEF Ages
<1> DEFINE e == Expired(ages)
<1>1. /\ Len(ages) \in Nat /\ e \in 0..Len(ages)
      /\ \A i \in 1..e : ages[i] > Window
      /\ e < Len(ages) => ages[e + 1] <= Window
  BY ExpiredIs
<1> HIDE DEF e
<1>2. ~ (e < n)
  BY <1>0, <1>1
<1>3. ~ (n < e)
  BY <1>0, <1>1
<1> QED
  BY <1>1, <1>2, <1>3 DEF e

LEMMA RecentIs ==
  ASSUME NEW ages \in Ages
  PROVE  /\ Recent(ages) \in Ages
         /\ Len(Recent(ages)) = Len(ages) - Expired(ages)
         /\ \A i \in 1..Len(Recent(ages)) : Recent(ages)[i] = ages[Expired(ages) + i]
<1>1. Len(ages) \in Nat /\ Expired(ages) \in 0..Len(ages)
  BY ExpiredIs
<1>2. \A i \in (Expired(ages) + 1)..Len(ages) : ages[i] \in Nat
  BY <1>1, ElementOfSeq DEF Ages
<1> DEFINE m == Expired(ages) + 1
<1>3. m \in Int /\ Len(ages) \in Int
  BY <1>1
<1>4. /\ Recent(ages) \in Ages
      /\ Len(Recent(ages)) = IF m <= Len(ages) THEN Len(ages) - m + 1 ELSE 0
      /\ \A i \in 1..(Len(ages) - m + 1) : Recent(ages)[i] = ages[m + i - 1]
  BY <1>2, <1>3, SubSeqProperties DEF Recent, Ages
<1> QED
  BY <1>1, <1>4

\* What is recent stays when it is looked at again, and when a request comes in.
LEMMA RecentStays ==
  ASSUME NEW ages \in Ages, Expired(ages) = 0
  PROVE  Recent(ages) = ages
<1>1. /\ Recent(ages) \in Seq(Nat) /\ ages \in Seq(Nat) /\ Len(Recent(ages)) = Len(ages)
      /\ \A i \in 1..Len(ages) : Recent(ages)[i] = ages[i]
  <2>1. /\ Recent(ages) \in Ages
        /\ Len(Recent(ages)) = Len(ages) - 0
        /\ \A i \in 1..Len(Recent(ages)) : Recent(ages)[i] = ages[0 + i]
    BY RecentIs
  <2>2. Len(ages) \in Nat
    BY ExpiredIs
  <2> QED
    BY <2>1, <2>2 DEF Ages
<1> QED
  BY <1>1, SeqEqual

LEMMA RecentRecent ==
  ASSUME NEW ages \in Ages
  PROVE  Expired(Recent(ages)) = 0 /\ Recent(Recent(ages)) = Recent(ages)
<1> DEFINE r == Recent(ages)
<1>1. /\ r \in Ages /\ Len(r) = Len(ages) - Expired(ages)
      /\ \A i \in 1..Len(r) : r[i] = ages[Expired(ages) + i]
  BY RecentIs
<1>2. /\ Len(ages) \in Nat /\ Expired(ages) \in 0..Len(ages)
      /\ Expired(ages) < Len(ages) => ages[Expired(ages) + 1] <= Window
  BY ExpiredIs
<1>3. 0 < Len(r) => r[0 + 1] <= Window
  BY <1>1, <1>2
<1>4. 0 \in 0..Len(r) /\ \A i \in 1..0 : r[i] > Window
  BY <1>1, <1>2
<1> HIDE DEF r
<1>5. Expired(r) = 0
  BY <1>1, <1>3, <1>4, ExpiredIf
<1> QED
  BY <1>1, <1>5, RecentStays DEF r

LEMMA RequestStays ==
  ASSUME NEW ages \in Ages, Expired(ages) = 0, NEW new \in NoneOrOne
  PROVE  /\ ages \o new \in Ages
         /\ Len(ages \o new) = Len(ages) + Len(new)
         /\ Expired(ages \o new) = 0
<1>1. new \in Seq(Nat) /\ Len(new) \in {0, 1} /\ (Len(new) = 1 => new[1] = 0)
  <2>1. CASE new = <<>>
    <3>1. <<>> \in Seq(Nat) /\ Len(<<>>) = 0
      OBVIOUS
    <3> QED
      BY <2>1, <3>1
  <2>2. CASE new = <<0>>
    <3>1. <<0>> \in Seq(Nat) /\ Len(<<0>>) = 1 /\ <<0>>[1] = 0
      OBVIOUS
    <3> QED
      BY <2>2, <3>1
  <2> QED
    BY <2>1, <2>2 DEF NoneOrOne
<1> DEFINE all == ages \o new
<1>2. /\ all \in Seq(Nat) /\ Len(all) = Len(ages) + Len(new)
      /\ \A i \in 1..(Len(ages) + Len(new)) :
           all[i] = IF i <= Len(ages) THEN ages[i] ELSE new[i - Len(ages)]
  BY <1>1, ConcatProperties DEF Ages
<1>3. Len(ages) \in Nat /\ (0 < Len(ages) => ages[0 + 1] <= Window) /\ Window \in Nat
  BY ExpiredIs, AgesNat
<1> HIDE DEF all
<1>4. 0 < Len(all) => all[0 + 1] <= Window
  <2>1. CASE Len(ages) = 0
    BY <2>1, <1>1, <1>2, <1>3
  <2>2. CASE Len(ages) > 0
    BY <2>2, <1>1, <1>2, <1>3
  <2> QED
    BY <2>1, <2>2, <1>3
<1>5. 0 \in 0..Len(all) /\ \A i \in 1..0 : all[i] > Window
  BY <1>1, <1>2, <1>3
<1>6. Expired(all) = 0
  BY <1>2, <1>4, <1>5, ExpiredIf DEF Ages
<1> QED
  BY <1>2, <1>6 DEF all, Ages

\* A hit that has left the window stays out of it when time passes.
LEMMA AgedIs ==
  ASSUME NEW ages \in Ages
  PROVE  /\ Aged(ages) \in Ages
         /\ Len(Aged(ages)) = Len(ages)
         /\ \A i \in 1..Len(ages) :
              Aged(ages)[i] = IF ages[i] <= Window THEN ages[i] + 1 ELSE Window + 1
<1>0. Window \in Nat /\ Len(ages) \in Nat /\ DOMAIN ages = 1..Len(ages)
  BY AgesNat, LenProperties DEF Ages
<1>1. \A i \in 1..Len(ages) :
        /\ ages[i] \in Nat
        /\ Min({ages[i] + 1, Window + 1}) = IF ages[i] <= Window THEN ages[i] + 1 ELSE Window + 1
  <2> TAKE i \in 1..Len(ages)
  <2>1. ages[i] \in Nat
    BY ElementOfSeq DEF Ages
  <2> DEFINE a == ages[i] + 1  w == Window + 1
  <2>2. a \in Nat /\ w \in Nat
    BY <2>1, <1>0
  <2> HIDE DEF a, w
  <2>3. \E x \in {a, w} : \A y \in {a, w} : x <= y
    BY <2>2
  <2>4. Min({a, w}) \in {a, w} /\ Min({a, w}) <= a /\ Min({a, w}) <= w
    BY <2>3 DEF Min
  <2>5. Min({a, w}) = IF a <= w THEN a ELSE w
    BY <2>2, <2>4
  <2> QED
    BY <2>1, <2>5, <1>0 DEF a, w
<1> DEFINE e(i) == Min({ages[i] + 1, Window + 1})
<1>2. \A i \in 1..Len(ages) : e(i) \in Nat
  BY <1>0, <1>1
<1>3. Aged(ages) = [i \in 1..Len(ages) |-> e(i)]
  BY <1>0 DEF Aged
<1> HIDE DEF e
<1>4. Aged(ages) \in Seq(Nat)
  BY <1>0, <1>2, <1>3, IsASeq
<1>5. Len(Aged(ages)) = Len(ages)
  BY <1>0, <1>3, <1>4, LenProperties
<1> QED
  BY <1>1, <1>3, <1>4, <1>5 DEF e, Ages

LEMMA RecentAged ==
  ASSUME NEW ages \in Ages
  PROVE  Recent(Aged(Recent(ages))) = Recent(Aged(ages))
<1> DEFINE n == Expired(ages)
           r == Recent(ages)
           old == Aged(ages)
           new == Aged(r)
           x == Expired(new)
<1>0. Window \in Nat
  BY AgesNat
<1>1. Len(ages) \in Nat /\ n \in 0..Len(ages) /\ \A i \in 1..n : ages[i] > Window
  BY ExpiredIs
<1>2. r \in Ages /\ Len(r) = Len(ages) - n /\ \A i \in 1..Len(r) : r[i] = ages[n + i]
  BY RecentIs
<1>3. /\ old \in Ages /\ Len(old) = Len(ages)
      /\ \A i \in 1..Len(ages) : old[i] = IF ages[i] <= Window THEN ages[i] + 1 ELSE Window + 1
  BY AgedIs
<1> HIDE DEF r
<1>4. /\ new \in Ages /\ Len(new) = Len(r)
      /\ \A i \in 1..Len(r) : new[i] = IF r[i] <= Window THEN r[i] + 1 ELSE Window + 1
  BY <1>2, AgedIs
<1> HIDE DEF n, old, new
<1>5. x \in 0..Len(new) /\ (\A i \in 1..x : new[i] > Window)
      /\ (x < Len(new) => new[x + 1] <= Window)
  BY <1>4, ExpiredIs
<1> HIDE DEF x
<1>6. \A i \in 1..Len(new) : new[i] = old[n + i]
  BY <1>1, <1>2, <1>3, <1>4
<1>7. Expired(old) = n + x
  <2>1. n + x \in 0..Len(old)
    BY <1>1, <1>2, <1>3, <1>4, <1>5
  <2>2. \A i \in 1..(n + x) : old[i] > Window
    <3> TAKE i \in 1..(n + x)
    <3>1. CASE i <= n
      <4>1. i \in 1..n /\ i \in 1..Len(ages) /\ ages[i] \in Nat
        BY <3>1, <1>1, <1>5, ElementOfSeq DEF Ages
      <4>2. old[i] = Window + 1
        BY <4>1, <1>0, <1>1, <1>3
      <4> QED
        BY <4>2, <1>0
    <3>2. CASE i > n
      <4>1. i - n \in 1..x /\ i - n \in 1..Len(new) /\ n + (i - n) = i
        BY <3>2, <1>1, <1>2, <1>4, <1>5
      <4> QED
        BY <4>1, <1>5, <1>6
    <3> QED
      BY <3>1, <3>2, <1>1, <1>5
  <2>3. n + x < Len(old) => old[(n + x) + 1] <= Window
    <3> SUFFICES ASSUME n + x < Len(old) PROVE old[(n + x) + 1] <= Window
      OBVIOUS
    <3>1. x < Len(new) /\ x + 1 \in 1..Len(new) /\ n + (x + 1) = (n + x) + 1
      BY <1>1, <1>2, <1>3, <1>4, <1>5
    <3> QED
      BY <3>1, <1>5, <1>6
  <2> QED
    BY <1>3, <2>1, <2>2, <2>3, ExpiredIf
<1>8. /\ Recent(old) \in Ages /\ Len(Recent(old)) = Len(old) - (n + x)
      /\ \A i \in 1..Len(Recent(old)) : Recent(old)[i] = old[(n + x) + i]
  BY <1>3, <1>7, RecentIs
<1>9. /\ Recent(new) \in Ages /\ Len(Recent(new)) = Len(new) - x
      /\ \A i \in 1..Len(Recent(new)) : Recent(new)[i] = new[x + i]
  BY <1>4, RecentIs DEF x
<1>10. Len(Recent(new)) = Len(Recent(old))
  BY <1>1, <1>2, <1>3, <1>4, <1>5, <1>8, <1>9
<1>11. \A i \in 1..Len(Recent(new)) : Recent(new)[i] = Recent(old)[i]
  <2> TAKE i \in 1..Len(Recent(new))
  <2>1. x + i \in 1..Len(new) /\ n + (x + i) = (n + x) + i
    BY <1>1, <1>2, <1>4, <1>5, <1>9
  <2> QED
    BY <2>1, <1>6, <1>8, <1>9, <1>10
<1>12. Recent(new) = Recent(old)
  BY <1>8, <1>9, <1>10, <1>11, SeqEqual DEF Ages
<1> QED
  BY <1>12 DEF new, old, r

\* The hits of a key that count now.
Counted(k) == IF k \in DOMAIN hits THEN Recent(hits[k]) ELSE <<>>

OldestFirst(ages) == \A i, j \in 1..Len(ages) : i <= j => ages[i] >= ages[j]

\* Every request has a hit of its own that is no older, counted from the newest:
\* there are hits of requests that were malformed in between.
Covers(counted, ages) ==
  /\ Len(ages) <= Len(counted)
  /\ \A i \in 1..Len(ages) : ages[i] >= counted[Len(counted) - Len(ages) + i]

LimiterInv ==
  /\ DOMAIN hits \subseteq Keys
  /\ \A k \in DOMAIN hits : hits[k] \in Ages /\ OldestFirst(hits[k])
  /\ answered \in [Keys -> Ages]
  /\ \A k \in Keys : Covers(Counted(k), answered[k])
  /\ LimitHolds

LEMMA OrderStays ==
  ASSUME NEW ages \in Ages, OldestFirst(ages)
  PROVE  OldestFirst(Recent(ages)) /\ OldestFirst(Aged(ages))
<1>0. Window \in Nat /\ Len(ages) \in Nat /\ \A i \in 1..Len(ages) : ages[i] \in Nat
  BY AgesNat, LenProperties, ElementOfSeq DEF Ages
<1>1. OldestFirst(Recent(ages))
  <2> DEFINE r == Recent(ages)  n == Expired(ages)
  <2>1. n \in 0..Len(ages)
    BY ExpiredIs
  <2>2. /\ r \in Ages /\ Len(r) = Len(ages) - n
        /\ \A i \in 1..Len(r) : r[i] = ages[n + i]
    BY RecentIs
  <2> HIDE DEF r, n
  <2>3. ASSUME NEW i \in 1..Len(r), NEW j \in 1..Len(r), i <= j PROVE r[i] >= r[j]
    <3>1. n + i \in 1..Len(ages) /\ n + j \in 1..Len(ages) /\ n + i <= n + j
      BY <1>0, <2>1, <2>2, <2>3
    <3>2. ages[n + i] >= ages[n + j]
      BY <3>1 DEF OldestFirst
    <3> QED
      BY <3>2, <2>2
  <2>4. OldestFirst(r)
    BY <2>3 DEF OldestFirst
  <2> QED
    BY <2>4 DEF r
<1>2. OldestFirst(Aged(ages))
  <2> DEFINE a == Aged(ages)
  <2>1. /\ Len(a) = Len(ages)
        /\ \A i \in 1..Len(ages) : a[i] = IF ages[i] <= Window THEN ages[i] + 1 ELSE Window + 1
    BY AgedIs
  <2> HIDE DEF a
  <2>2. OldestFirst(a)
    BY <1>0, <2>1 DEF OldestFirst
  <2> QED
    BY <2>2 DEF a
<1> QED
  BY <1>1, <1>2

LEMMA OneMore ==
  ASSUME NEW ages \in Ages
  PROVE  /\ ages \o <<0>> \in Ages /\ Len(ages \o <<0>>) = Len(ages) + 1
         /\ \A i \in 1..(Len(ages) + 1) :
              (ages \o <<0>>)[i] = IF i <= Len(ages) THEN ages[i] ELSE 0
<1>1. <<0>> \in Seq(Nat) /\ Len(<<0>>) = 1 /\ <<0>>[1] = 0
  OBVIOUS
<1>2. Len(ages) \in Nat
  BY LenProperties DEF Ages
<1> DEFINE new == <<0>>
<1> HIDE DEF new
<1>3. /\ ages \o new \in Seq(Nat) /\ Len(ages \o new) = Len(ages) + Len(new)
      /\ \A i \in 1..(Len(ages) + Len(new)) :
           (ages \o new)[i] = IF i <= Len(ages) THEN ages[i] ELSE new[i - Len(ages)]
  BY <1>1, ConcatProperties DEF Ages, new
<1>4. Len(new) = 1 /\ new[1] = 0
  BY <1>1 DEF new
<1>5. ASSUME NEW i \in 1..(Len(ages) + 1)
      PROVE  (ages \o new)[i] = IF i <= Len(ages) THEN ages[i] ELSE 0
  <2>1. i \in 1..(Len(ages) + Len(new)) /\ (i <= Len(ages) \/ i - Len(ages) = 1)
    BY <1>2, <1>4
  <2> QED
    BY <2>1, <1>3, <1>4
<1>6. /\ ages \o new \in Ages /\ Len(ages \o new) = Len(ages) + 1
      /\ \A i \in 1..(Len(ages) + 1) :
           (ages \o new)[i] = IF i <= Len(ages) THEN ages[i] ELSE 0
  BY <1>3, <1>4, <1>5 DEF Ages
<1> QED
  BY <1>6 DEF new

LEMMA NothingMore ==
  ASSUME NEW ages \in Ages
  PROVE  ages \o <<>> = ages
BY ConcatEmptySeq DEF Ages

\* A request and its hit, or a hit alone, are counted.
LEMMA CoversMore ==
  ASSUME NEW counted \in Ages, NEW ages \in Ages, Covers(counted, ages), OldestFirst(counted)
  PROVE  /\ Covers(counted \o <<0>>, ages \o <<0>>)
         /\ Covers(counted \o <<0>>, ages)
         /\ OldestFirst(counted \o <<0>>)
<1> DEFINE c == counted \o <<0>>  a == ages \o <<0>>
<1>1. /\ c \in Ages /\ Len(c) = Len(counted) + 1
      /\ \A i \in 1..(Len(counted) + 1) : c[i] = IF i <= Len(counted) THEN counted[i] ELSE 0
  BY OneMore
<1>2. /\ a \in Ages /\ Len(a) = Len(ages) + 1
      /\ \A i \in 1..(Len(ages) + 1) : a[i] = IF i <= Len(ages) THEN ages[i] ELSE 0
  BY OneMore
<1>3. /\ Len(counted) \in Nat /\ Len(ages) \in Nat
      /\ \A i \in 1..Len(counted) : counted[i] \in Nat
      /\ \A i \in 1..Len(ages) : ages[i] \in Nat
  BY LenProperties, ElementOfSeq DEF Ages
<1> HIDE DEF c, a
<1>4. Covers(c, a)
  <2>1. ASSUME NEW i \in 1..Len(a) PROVE a[i] >= c[Len(c) - Len(a) + i]
    <3> DEFINE j == Len(c) - Len(a) + i
    <3>1. j = Len(counted) - Len(ages) + i /\ j \in 1..Len(c)
      BY <1>1, <1>2, <1>3 DEF Covers
    <3>2. CASE i <= Len(ages)
      <4>1. i \in 1..Len(ages) /\ j <= Len(counted)
        BY <1>2, <1>3, <3>1, <3>2
      <4>2. ages[i] >= counted[j]
        BY <3>1, <4>1 DEF Covers
      <4> QED
        BY <1>1, <1>2, <3>1, <3>2, <4>1, <4>2
    <3>3. CASE i > Len(ages)
      <4>1. ~ (i <= Len(ages)) /\ ~ (j <= Len(counted))
        BY <1>2, <1>3, <3>1, <3>3
      <4>2. a[i] = 0 /\ c[j] = 0
        BY <1>1, <1>2, <3>1, <4>1
      <4> QED
        BY <4>2
    <3> QED
      BY <3>2, <3>3, <1>3
  <2> QED
    BY <2>1, <1>1, <1>2, <1>3 DEF Covers
<1>5. Covers(c, ages)
  <2>1. ASSUME NEW i \in 1..Len(ages) PROVE ages[i] >= c[Len(c) - Len(ages) + i]
    <3> DEFINE j == Len(counted) - Len(ages) + i
    <3>1. j \in 1..Len(counted) /\ Len(c) - Len(ages) + i = j + 1
      BY <1>1, <1>3 DEF Covers
    <3>2. ages[i] >= counted[j]
      BY DEF Covers
    <3>3. CASE j < Len(counted)
      <4>1. j + 1 \in 1..Len(counted) /\ j + 1 \in 1..(Len(counted) + 1)
        BY <1>3, <3>1, <3>3
      <4>2. c[j + 1] = counted[j + 1] /\ counted[j] >= counted[j + 1]
        BY <1>1, <3>1, <4>1 DEF OldestFirst
      <4>3. ages[i] \in Nat /\ counted[j] \in Nat /\ counted[j + 1] \in Nat
        BY <1>3, <3>1, <4>1
      <4> HIDE DEF j
      <4>4. ages[i] >= c[j + 1]
        BY <3>2, <4>2, <4>3
      <4> QED
        BY <3>1, <4>4
    <3>4. CASE j = Len(counted)
      <4>1. c[j + 1] = 0 /\ ages[i] \in Nat
        BY <1>1, <1>3, <3>4
      <4> HIDE DEF j
      <4>2. ages[i] >= c[j + 1]
        BY <4>1
      <4> QED
        BY <3>1, <4>2
    <3> QED
      BY <3>1, <3>3, <3>4, <1>3
  <2> QED
    BY <2>1, <1>1, <1>3 DEF Covers
<1>6. OldestFirst(c)
  BY <1>1, <1>3 DEF OldestFirst
<1> QED
  BY <1>4, <1>5, <1>6 DEF c, a

\* Requests leave the window no later than the hits that cover them.
LEMMA CoversAged ==
  ASSUME NEW counted \in Ages, NEW ages \in Ages, Covers(counted, ages)
  PROVE  Covers(Recent(Aged(counted)), Recent(Aged(ages)))
<1> DEFINE c == Aged(counted)
           a == Aged(ages)
           x == Expired(c)
           y == Expired(a)
<1>0. /\ Window \in Nat /\ Len(counted) \in Nat /\ Len(ages) \in Nat
      /\ \A i \in 1..Len(counted) : counted[i] \in Nat
      /\ \A i \in 1..Len(ages) : ages[i] \in Nat
  BY AgesNat, LenProperties, ElementOfSeq DEF Ages
<1>1. /\ c \in Ages /\ Len(c) = Len(counted)
      /\ \A i \in 1..Len(c) :
           c[i] = IF counted[i] <= Window THEN counted[i] + 1 ELSE Window + 1
  BY AgedIs
<1>2. /\ a \in Ages /\ Len(a) = Len(ages)
      /\ \A i \in 1..Len(a) : a[i] = IF ages[i] <= Window THEN ages[i] + 1 ELSE Window + 1
  BY AgedIs
<1> HIDE DEF c, a
<1>3. /\ x \in 0..Len(c) /\ \A i \in 1..x : c[i] > Window
  BY <1>1, ExpiredIs
<1>4. y \in 0..Len(a) /\ (y < Len(a) => a[y + 1] <= Window)
  BY <1>2, ExpiredIs
<1>5. /\ Len(Recent(c)) = Len(c) - x
      /\ \A i \in 1..Len(Recent(c)) : Recent(c)[i] = c[x + i]
  BY <1>1, RecentIs
<1>6. /\ Len(Recent(a)) = Len(a) - y
      /\ \A i \in 1..Len(Recent(a)) : Recent(a)[i] = a[y + i]
  BY <1>2, RecentIs
<1> HIDE DEF x, y
<1> DEFINE d == Len(c) - Len(a)
<1>7. d \in Nat /\ \A i \in 1..Len(a) : d + i \in 1..Len(c) /\ a[i] >= c[d + i]
  <2>1. d \in Nat
    BY <1>0, <1>1, <1>2 DEF Covers
  <2>2. ASSUME NEW i \in 1..Len(a) PROVE d + i \in 1..Len(c) /\ a[i] >= c[d + i]
    <3>1. i \in 1..Len(ages) /\ d + i \in 1..Len(c) /\ d + i = Len(counted) - Len(ages) + i
      BY <2>1, <1>0, <1>1, <1>2
    <3>2. ages[i] >= counted[d + i]
      BY <3>1 DEF Covers
    <3>3. ages[i] \in Nat /\ counted[d + i] \in Nat
      BY <3>1, <1>0, <1>1
    <3>4. /\ c[d + i] = IF counted[d + i] <= Window THEN counted[d + i] + 1 ELSE Window + 1
          /\ a[i] = IF ages[i] <= Window THEN ages[i] + 1 ELSE Window + 1
      BY <3>1, <1>1, <1>2
    <3> HIDE DEF d
    <3> QED
      BY <3>1, <3>2, <3>3, <3>4, <1>0
  <2> QED
    BY <2>1, <2>2
<1>8. ASSUME y = Len(a) PROVE Covers(Recent(c), Recent(a))
  BY <1>0, <1>1, <1>2, <1>3, <1>5, <1>6, <1>8 DEF Covers
<1>9. ASSUME y < Len(a) PROVE Covers(Recent(c), Recent(a))
  <2>1. y + 1 \in 1..Len(a) /\ a[y + 1] <= Window
    BY <1>0, <1>2, <1>4, <1>9
  <2>2. d + (y + 1) \in 1..Len(c) /\ a[y + 1] >= c[d + (y + 1)]
    BY <1>7, <2>1
  <2>3. a[y + 1] \in Nat /\ c[d + (y + 1)] \in Nat
    BY <2>1, <2>2, <1>1, <1>2, ElementOfSeq DEF Ages
  <2>4. ~ (d + (y + 1) <= x)
    <3>1. ~ (c[d + (y + 1)] > Window)
      BY <2>1, <2>2, <2>3, <1>0
    <3> QED
      BY <3>1, <2>2, <1>1, <1>3, <1>0
  <2>5. x <= d + y /\ d + y \in Nat /\ Len(c) \in Nat /\ Len(a) \in Nat
    BY <2>4, <1>0, <1>1, <1>2, <1>3, <1>4, <1>7
  <2>6. Len(Recent(a)) <= Len(Recent(c))
    BY <2>5, <1>3, <1>4, <1>5, <1>6
  <2>7. ASSUME NEW i \in 1..Len(Recent(a))
        PROVE  Recent(a)[i] >= Recent(c)[Len(Recent(c)) - Len(Recent(a)) + i]
    <3> DEFINE j == Len(Recent(c)) - Len(Recent(a)) + i
    <3>1. y + i \in 1..Len(a) /\ j \in 1..Len(Recent(c)) /\ x + j = d + (y + i)
      BY <2>5, <1>3, <1>4, <1>5, <1>6
    <3>2. a[y + i] >= c[d + (y + i)]
      BY <3>1, <1>7
    <3>3. Recent(a)[i] = a[y + i] /\ Recent(c)[j] = c[x + j]
      BY <3>1, <1>5, <1>6
    <3> QED
      BY <3>1, <3>2, <3>3
  <2> QED
    BY <2>6, <2>7 DEF Covers
<1>10. Covers(Recent(c), Recent(a))
  BY <1>8, <1>9, <1>0, <1>2, <1>4
<1> QED
  BY <1>10 DEF c, a

\* What is looked at when a request comes is what counts: the prune forgets
\* nothing that does.
LEMMA AgesOfCounts ==
  ASSUME LimiterInv, NEW k
  PROVE  /\ AgesOf(k) = Counted(k)
         /\ Counted(k) \in Ages /\ OldestFirst(Counted(k)) /\ Expired(Counted(k)) = 0
         /\ k \in DOMAIN Pruned => k \in DOMAIN hits
         /\ k \in DOMAIN Pruned =>
              Pruned[k] \in Ages /\ OldestFirst(Pruned[k]) /\ Recent(Pruned[k]) = Counted(k)
         /\ k \notin DOMAIN Pruned => Counted(k) = <<>>
<1>0. <<>> \in Ages /\ OldestFirst(<<>>) /\ Expired(<<>>) = 0
  <2>1. <<>> \in Ages /\ Len(<<>>) = 0
    BY EmptySeq DEF Ages
  <2>2. Expired(<<>>) \in 0..0
    BY <2>1, ExpiredIs
  <2> QED
    BY <2>1, <2>2 DEF OldestFirst
<1>1. CASE k \in DOMAIN hits
  <2>1. hits[k] \in Ages /\ OldestFirst(hits[k]) /\ Counted(k) = Recent(hits[k])
    BY <1>1 DEF LimiterInv, Counted
  <2>2. /\ Counted(k) \in Ages /\ OldestFirst(Counted(k)) /\ Expired(Counted(k)) = 0
        /\ Recent(Counted(k)) = Counted(k)
    BY <2>1, RecentIs, OrderStays, RecentRecent
  <2>3. CASE pruned > PruneAfter
    <3>1. /\ k \in DOMAIN Pruned <=> Counted(k) # <<>>
          /\ k \in DOMAIN Pruned => Pruned[k] = Counted(k)
      BY <2>1, <2>3, <1>1 DEF Pruned, Prune
    <3> QED
      BY <3>1, <2>2, <1>1 DEF AgesOf
  <2>4. CASE ~ (pruned > PruneAfter)
    BY <2>1, <2>2, <2>4, <1>1 DEF Pruned, AgesOf
  <2> QED
    BY <2>3, <2>4
<1>2. CASE k \notin DOMAIN hits
  <2>1. k \notin DOMAIN Pruned
    BY <1>2 DEF Pruned, Prune
  <2> QED
    BY <2>1, <1>0, <1>2 DEF AgesOf, Counted
<1> QED
  BY <1>1, <1>2

LEMMA EmptyCovers ==
  ASSUME NEW ages \in Ages, Covers(<<>>, ages)
  PROVE  Covers(<<>>, <<>>) /\ ages = <<>>
<1>1. Len(ages) \in Nat /\ Len(<<>>) = 0 /\ <<>> \in Seq(Nat)
  BY EmptySeq, LenProperties DEF Ages
<1>2. Len(ages) = 0
  BY <1>1 DEF Covers
<1> QED
  BY <1>1, <1>2, EmptySeq DEF Covers, Ages

\* A request that is answered is metered, and a hit more does no harm.
LEMMA MeterCovers ==
  ASSUME LimiterInv, NEW k \in Keys, NEW requests \in NoneOrOne,
         requests # <<>> => UnderLimit(k), Meter(k), Records(k, requests)
  PROVE  LimiterInv'
<1> DEFINE new == IF UnderLimit(k) THEN <<0>> ELSE <<>>
           left == Remaining(k)
           after(j) == IF j # k THEN Pruned[j] ELSE AgesOf(k) \o new
           before(j) == IF j \in Evicted(k) THEN <<>> ELSE answered[j]
<1>1. hits' = [j \in left \cup {k} |-> after(j)]
  BY DEF Meter
<1>2. answered' = [j \in Keys |-> before(j) \o (IF j = k THEN requests ELSE <<>>)]
  BY DEF Records
<1>3. \A j \in Keys : answered[j] \in Ages /\ Covers(Counted(j), answered[j])
                        /\ Len(answered[j]) <= Limit
  BY DEF LimiterInv, LimitHolds
<1>4. left \subseteq DOMAIN hits /\ left \subseteq Keys
  BY AgesOfCounts DEF Remaining, LimiterInv
<1>5. <<>> \in Ages /\ Len(<<>>) = 0 /\ Limit \in Nat
  BY EmptySeq, LimitsPositive DEF Ages
<1>6. /\ AgesOf(k) = Counted(k) /\ Counted(k) \in Ages
      /\ OldestFirst(Counted(k)) /\ Expired(Counted(k)) = 0
  BY AgesOfCounts
<1>7. /\ AgesOf(k) \o new \in Ages /\ OldestFirst(AgesOf(k) \o new)
      /\ Recent(AgesOf(k) \o new) = AgesOf(k) \o new
  <2>1. new \in NoneOrOne
    BY DEF NoneOrOne
  <2> HIDE DEF new
  <2>2. AgesOf(k) \o new \in Ages /\ Expired(AgesOf(k) \o new) = 0
    BY <1>6, <2>1, RequestStays
  <2>3. OldestFirst(AgesOf(k) \o new)
    <3>1. CASE new = <<>>
      BY <3>1, <1>6, NothingMore
    <3>2. CASE new = <<0>>
      BY <3>2, <1>3, <1>6, CoversMore
    <3> QED
      BY <2>1, <3>1, <3>2 DEF NoneOrOne
  <2> QED
    BY <2>2, <2>3, RecentStays
<1>8. DOMAIN hits' \subseteq Keys
  BY <1>1, <1>4
<1>9. \A j \in DOMAIN hits' : hits'[j] \in Ages /\ OldestFirst(hits'[j])
  <2> TAKE j \in DOMAIN hits'
  <2>1. j \in left \cup {k} /\ hits'[j] = after(j)
    BY <1>1
  <2>2. CASE j = k
    BY <2>1, <2>2, <1>7
  <2>3. CASE j # k
    <3>1. j \in DOMAIN Pruned
      BY <2>1, <2>3 DEF Remaining
    <3>2. Pruned[j] \in Ages /\ OldestFirst(Pruned[j])
      BY <3>1, AgesOfCounts
    <3> QED
      BY <2>1, <2>3, <3>2
  <2> QED
    BY <2>2, <2>3
<1>10. Counted(k)' = AgesOf(k) \o new
  <2>1. k \in DOMAIN hits' /\ hits'[k] = AgesOf(k) \o new
    BY <1>1
  <2> QED
    BY <2>1, <1>7 DEF Counted
<1>11. /\ answered'[k] \in Ages
       /\ Covers(Counted(k)', answered'[k])
       /\ Len(answered'[k]) <= Limit
  <2> DEFINE b == before(k)
  <2>0. answered'[k] = b \o requests
    BY <1>2
  <2>1. b \in Ages /\ Covers(Counted(k), b) /\ Len(b) <= Limit
    <3>1. CASE k \in Evicted(k)
      <4>1. b = <<>>
        BY <3>1
      <4>2. k \notin DOMAIN Pruned
        BY <3>1 DEF Evicted
      <4>3. Counted(k) = <<>>
        BY <4>2, AgesOfCounts
      <4>4. Covers(<<>>, <<>>)
        BY <4>3, <1>3, EmptyCovers
      <4> QED
        BY <4>1, <4>3, <4>4, <1>5
    <3>2. CASE k \notin Evicted(k)
      BY <3>2, <1>3
    <3> QED
      BY <3>1, <3>2
  <2> HIDE DEF b
  <2>2. CASE requests = <<>>
    <3>1. answered'[k] = b
      BY <2>0, <2>1, <2>2, NothingMore
    <3>2. Covers(Counted(k)', b)
      <4>1. CASE UnderLimit(k)
        <5>1. Counted(k)' = Counted(k) \o <<0>>
          BY <4>1, <1>6, <1>10
        <5> QED
          BY <5>1, <2>1, <1>6, CoversMore
      <4>2. CASE ~UnderLimit(k)
        <5>1. Counted(k)' = Counted(k)
          BY <4>2, <1>6, <1>10, NothingMore
        <5> QED
          BY <5>1, <2>1
      <4> QED
        BY <4>1, <4>2
    <3> QED
      BY <2>1, <3>1, <3>2
  <2>3. CASE requests = <<0>>
    <3>1. UnderLimit(k)
      BY <2>3, <1>5
    <3>2. Counted(k)' = Counted(k) \o <<0>> /\ answered'[k] = b \o <<0>>
      BY <3>1, <2>0, <2>3, <1>6, <1>10
    <3>3. Covers(Counted(k) \o <<0>>, b \o <<0>>)
      BY <2>1, <1>6, CoversMore
    <3>4. b \o <<0>> \in Ages /\ Len(b \o <<0>>) = Len(b) + 1
      BY <2>1, OneMore
    <3>5. Len(Counted(k)) < Limit /\ Len(b) <= Len(Counted(k))
      BY <3>1, <1>6, <2>1 DEF UnderLimit, Covers
    <3>6. Len(b) \in Nat /\ Len(Counted(k)) \in Nat
      BY <2>1, <1>6, LenProperties DEF Ages
    <3>7. Len(b) + 1 <= Limit
      BY <3>5, <3>6, <1>5
    <3> QED
      BY <3>2, <3>3, <3>4, <3>7
  <2> QED
    BY <2>2, <2>3 DEF NoneOrOne
<1>12. ASSUME NEW j \in Keys, j # k
       PROVE  /\ answered'[j] \in Ages
              /\ Covers(Counted(j)', answered'[j])
              /\ Len(answered'[j]) <= Limit
  <2> DEFINE b == before(j)
  <2>1. b \in Ages /\ Len(b) <= Limit /\ Len(b) \in Nat
    BY <1>3, <1>5, LenProperties DEF Ages
  <2>2. answered'[j] = b
    <3>1. answered'[j] = b \o <<>>
      BY <1>2, <1>12
    <3> HIDE DEF b
    <3> QED
      BY <3>1, <2>1, NothingMore
  <2>3. CASE j \in left
    <3>1. j \in DOMAIN Pruned /\ j \notin Evicted(k)
      BY <2>3 DEF Remaining
    <3>2. j \in DOMAIN hits' /\ hits'[j] = Pruned[j]
      BY <1>1, <1>12, <2>3
    <3>3. Counted(j)' = Recent(Pruned[j])
      BY <3>2 DEF Counted
    <3>4. Recent(Pruned[j]) = Counted(j)
      BY <3>1, AgesOfCounts
    <3> QED
      BY <2>1, <2>2, <3>1, <3>3, <3>4, <1>3
  <2>4. CASE j \notin left
    <3>1. j \notin DOMAIN hits'
      BY <1>1, <1>12, <2>4
    <3>2. Counted(j)' = <<>>
      BY <3>1 DEF Counted
    <3>3. CASE j \in Evicted(k)
      <4>1. b = <<>>
        BY <3>3
      <4>2. Covers(<<>>, <<>>)
        BY <1>5 DEF Covers
      <4> QED
        BY <2>1, <2>2, <3>2, <4>1, <4>2
    <3>4. CASE j \notin Evicted(k)
      <4>1. j \notin DOMAIN Pruned
        BY <2>4, <3>4 DEF Remaining
      <4>2. Counted(j) = <<>> /\ b = answered[j]
        BY <4>1, <3>4, AgesOfCounts
      <4> QED
        BY <2>1, <2>2, <3>2, <4>2, <1>3
    <3> QED
      BY <3>3, <3>4
  <2> QED
    BY <2>3, <2>4
<1>13. /\ answered' \in [Keys -> Ages]
       /\ \A j \in Keys : Covers(Counted(j)', answered'[j]) /\ Len(answered'[j]) <= Limit
  <2>1. \A j \in Keys : /\ answered'[j] \in Ages
                        /\ Covers(Counted(j)', answered'[j]) /\ Len(answered'[j]) <= Limit
    BY <1>11, <1>12
  <2>2. answered' = [j \in Keys |-> answered'[j]]
    BY <1>2
  <2> QED
    BY <2>1, <2>2
<1> QED
  BY <1>8, <1>9, <1>13 DEF LimiterInv, LimitHolds

LEMMA InitLimiterInv == DashboardInit => LimiterInv
<1> SUFFICES ASSUME DashboardInit PROVE LimiterInv
  OBVIOUS
<1>1. DOMAIN hits = {} /\ \A k \in Keys : answered[k] = <<>> /\ Counted(k) = <<>>
  BY DEF DashboardInit, Counted
<1>2. <<>> \in Ages /\ Len(<<>>) = 0 /\ Limit \in Nat
  BY EmptySeq, LimitsPositive DEF Ages
<1>3. Covers(<<>>, <<>>)
  BY <1>2 DEF Covers
<1>4. answered \in [Keys -> Ages]
  BY <1>2 DEF DashboardInit
<1> QED
  BY <1>1, <1>2, <1>3, <1>4 DEF LimiterInv, LimitHolds

LEMMA NextLimiterInv == LimiterInv /\ [DashboardNext]_dashboardVars => LimiterInv'
<1> SUFFICES ASSUME LimiterInv, [DashboardNext]_dashboardVars PROVE LimiterInv'
  OBVIOUS
<1>1. ASSUME UNCHANGED <<hits, answered>> PROVE LimiterInv'
  BY <1>1 DEF LimiterInv, Counted, LimitHolds
<1>2. CASE TimePasses
  <2>1. /\ hits' = [k \in DOMAIN hits |-> Aged(hits[k])]
        /\ answered' = [k \in Keys |-> Recent(Aged(answered[k]))]
    BY <1>2 DEF TimePasses
  <2>2. \A k \in DOMAIN hits' :
          k \in DOMAIN hits /\ hits'[k] \in Ages /\ OldestFirst(hits'[k])
    BY <2>1, AgedIs, OrderStays DEF LimiterInv
  <2>3. \A k \in Keys : answered[k] \in Ages /\ Covers(Counted(k), answered[k])
                          /\ Len(answered[k]) <= Limit
    BY DEF LimiterInv, LimitHolds
  <2>4. ASSUME NEW k \in Keys
        PROVE  /\ answered'[k] \in Ages
               /\ Covers(Counted(k)', answered'[k])
               /\ Len(answered'[k]) <= Limit
    <3>1. answered'[k] = Recent(Aged(answered[k]))
      BY <2>1
    <3>2. Aged(answered[k]) \in Ages /\ Len(Aged(answered[k])) = Len(answered[k])
      BY <2>3, AgedIs
    <3>3. /\ Recent(Aged(answered[k])) \in Ages
          /\ Len(Recent(Aged(answered[k])))
               = Len(Aged(answered[k])) - Expired(Aged(answered[k]))
      BY <3>2, RecentIs
    <3>4. /\ Expired(Aged(answered[k])) \in 0..Len(Aged(answered[k]))
          /\ Len(Aged(answered[k])) \in Nat
      BY <3>2, ExpiredIs
    <3>5. Limit \in Nat
      BY LimitsPositive
    <3>6. Len(answered'[k]) <= Limit
      BY <3>1, <3>2, <3>3, <3>4, <3>5, <2>3
    <3>7. Covers(Recent(Aged(Counted(k))), Recent(Aged(answered[k])))
      BY <2>3, AgesOfCounts, CoversAged
    <3>8. CASE k \in DOMAIN hits
      <4>1. Counted(k) = Recent(hits[k]) /\ hits[k] \in Ages
        BY <3>8 DEF Counted, LimiterInv
      <4>2. Counted(k)' = Recent(Aged(hits[k]))
        BY <3>8, <2>1 DEF Counted
      <4>3. Recent(Aged(Counted(k))) = Counted(k)'
        BY <4>1, <4>2, RecentAged
      <4> QED
        BY <3>1, <3>3, <3>6, <3>7, <4>3
    <3>9. CASE k \notin DOMAIN hits
      <4>1. Counted(k) = <<>> /\ Counted(k)' = <<>>
        BY <3>9, <2>1 DEF Counted
      <4>2. Len(answered[k]) = 0
        BY <4>1, <2>3, EmptyCovers, EmptySeq DEF Ages
      <4>3. Len(answered'[k]) = 0
        BY <4>2, <3>1, <3>2, <3>3, <3>4
      <4>4. answered'[k] = <<>>
        BY <4>3, <3>1, <3>3, EmptySeq DEF Ages
      <4>5. Covers(<<>>, <<>>)
        BY <4>1, <2>3, EmptyCovers
      <4> QED
        BY <3>1, <3>3, <3>6, <4>1, <4>4, <4>5
    <3> QED
      BY <3>8, <3>9
  <2>5. answered' \in [Keys -> Ages]
    BY <2>1, <2>4
  <2> QED
    BY <2>1, <2>2, <2>4, <2>5 DEF LimiterInv, LimitHolds
<1>3. ASSUME NEW c \in Sockets, Admit(c) \/ Handler(c) PROVE LimiterInv'
  <2>0. KeyOf[PeerOf[c]] \in Keys
    BY AddressesGiven DEF Keys
  <2>1. CASE Admit(c) \/ Probe(c) \/ Finishes(c) \/ Expires(c)
    BY <1>1, <2>1 DEF Admit, Probe, Finishes, Expires, Ends, limiter
  <2>2. CASE Malformed(c)
    <3>1. Meter(KeyOf[PeerOf[c]]) /\ Records(KeyOf[PeerOf[c]], <<>>)
      BY <2>2 DEF Malformed
    <3> QED
      BY <2>0, <3>1, MeterCovers DEF NoneOrOne
  <2>3. ASSUME NEW a \in Addresses \cup {NoAddress}, Request(c, a) PROVE LimiterInv'
    <3>1. KeyOf[ClientIp(c, a)] \in Keys
      BY AddressesGiven DEF Keys, ClientIp
    <3>2. PICK k \in Keys : Answer(c, k) \/ Refuse(c, k)
      BY <2>3, <3>1 DEF Request
    <3>3. CASE Answer(c, k)
      BY <3>3, MeterCovers DEF Answer, NoneOrOne
    <3>4. CASE Refuse(c, k)
      BY <3>4, MeterCovers DEF Refuse, NoneOrOne
    <3> QED
      BY <3>2, <3>3, <3>4
  <2> QED
    BY <1>3, <2>1, <2>2, <2>3 DEF Handler
<1>4. CASE UNCHANGED dashboardVars
  BY <1>1, <1>4 DEF dashboardVars, limiter
<1> QED
  BY <1>2, <1>3, <1>4 DEF DashboardNext

\* No client is answered more often in a window than the limit allows, however
\* its requests, its malformed ones, the prunes and the ticks fall together
\* (HttpRateLimiter.allow, _prune).
THEOREM LimitHoldsAlways == DashboardSpec => []LimitHolds
<1>1. LimiterInv => LimitHolds
  BY DEF LimiterInv
<1> QED
  BY <1>1, InitLimiterInv, NextLimiterInv, PTL DEF DashboardSpec

-----------------------------------------------------------------------------
(* The tables of the HTTP server and their caps (Dashboard).               *)

Waiters == {c \in Sockets : phase[c] \in Waiting}

\* The cap on connections counts the handlers that are at work, and holds.
SocketsCounted == active = Cardinality(Waiters) /\ active <= MaxConns

SocketInv ==
  /\ phase \in [Sockets -> Waiting \cup {"closed"}]
  /\ IsFiniteSet(Waiters)
  /\ SocketsCounted

LEMMA NextSocketInv == SocketInv /\ [DashboardNext]_dashboardVars => SocketInv'
<1> SUFFICES ASSUME SocketInv, [DashboardNext]_dashboardVars PROVE SocketInv'
  OBVIOUS
<1>0. /\ phase \in [Sockets -> Waiting \cup {"closed"}] /\ IsFiniteSet(Waiters)
      /\ active = Cardinality(Waiters) /\ active <= MaxConns
      /\ active \in Nat /\ MaxConns \in Nat
  BY FS_CardinalityType, LimitsPositive DEF SocketInv, SocketsCounted
<1>1. ASSUME UNCHANGED <<phase, active>> PROVE SocketInv'
  BY <1>1, <1>0 DEF SocketInv, SocketsCounted, Waiters
<1>2. ASSUME NEW c \in Sockets, Admit(c) PROVE SocketInv'
  <2>1. /\ phase' = [phase EXCEPT ![c] = "reading"] /\ phase[c] = "closed"
        /\ active' = active + 1 /\ active < MaxConns
    BY <1>2 DEF Admit, GoesTo
  <2>2. c \notin Waiters /\ Waiters' = Waiters \cup {c}
    BY <1>0, <2>1 DEF Waiters, Waiting
  <2>3. IsFiniteSet(Waiters') /\ Cardinality(Waiters') = Cardinality(Waiters) + 1
    BY <1>0, <2>2, FS_AddElement
  <2>4. phase' \in [Sockets -> Waiting \cup {"closed"}]
    BY <1>0, <2>1 DEF Waiting
  <2> QED
    BY <1>0, <2>1, <2>3, <2>4 DEF SocketInv, SocketsCounted
<1>3. ASSUME NEW c \in Sockets, phase[c] \in Waiting, Ends(c) PROVE SocketInv'
  <2>1. phase' = [phase EXCEPT ![c] = "closed"] /\ active' = active - 1
    BY <1>3 DEF Ends, GoesTo
  <2>2. c \in Waiters /\ Waiters' = Waiters \ {c}
    BY <1>0, <1>3, <2>1 DEF Waiters, Waiting
  <2>3. IsFiniteSet(Waiters') /\ Cardinality(Waiters') = Cardinality(Waiters) - 1
    BY <1>0, <2>2, FS_RemoveElement
  <2>4. phase' \in [Sockets -> Waiting \cup {"closed"}]
    BY <1>0, <2>1
  <2> QED
    BY <1>0, <2>1, <2>3, <2>4 DEF SocketInv, SocketsCounted
<1>4. ASSUME NEW c \in Sockets, NEW p \in Waiting, phase[c] = "reading",
             GoesTo(c, p), UNCHANGED active
      PROVE  SocketInv'
  <2>1. phase' = [phase EXCEPT ![c] = p]
    BY <1>4 DEF GoesTo
  <2>2. Waiters' = Waiters
    BY <1>0, <1>4, <2>1 DEF Waiters, Waiting
  <2>3. phase' \in [Sockets -> Waiting \cup {"closed"}]
    BY <1>0, <2>1
  <2> QED
    BY <1>0, <1>4, <2>2, <2>3 DEF SocketInv, SocketsCounted
<1>5. ASSUME NEW c \in Sockets, Handler(c) PROVE SocketInv'
  <2>0. "refusing" \in Waiting /\ "answering" \in Waiting
    BY DEF Waiting
  <2>1. CASE Malformed(c) \/ Probe(c)
    BY <1>4, <2>0, <2>1 DEF Malformed, Probe
  <2>2. CASE Finishes(c) \/ Expires(c)
    BY <1>3, <2>2 DEF Finishes, Expires
  <2>3. ASSUME NEW a \in Addresses \cup {NoAddress}, Request(c, a) PROVE SocketInv'
    BY <1>4, <2>0, <2>3 DEF Request, Answer, Refuse
  <2> QED
    BY <1>5, <2>1, <2>2, <2>3 DEF Handler
<1> QED
  BY <1>1, <1>2, <1>5 DEF DashboardNext, TimePasses, dashboardVars, sockets

LEMMA InitSocketInv == DashboardInit => SocketInv
<1> SUFFICES ASSUME DashboardInit PROVE SocketInv
  OBVIOUS
<1>1. Waiters = {}
  BY DEF DashboardInit, Waiters, Waiting
<1>2. IsFiniteSet(Waiters) /\ Cardinality(Waiters) = 0
  BY <1>1, FS_EmptySet
<1> QED
  BY <1>2, LimitsPositive DEF DashboardInit, SocketInv, SocketsCounted

\* The handlers never pass MAX_HTTP_CONNS, and every one that ends gives its
\* place back, whichever of its waits it ends in (StatsServer._handle).
THEOREM SocketsCountedAlways == DashboardSpec => []SocketsCounted
<1>1. SocketInv => SocketsCounted
  BY DEF SocketInv
<1> QED
  BY <1>1, InitSocketInv, NextSocketInv, PTL DEF DashboardSpec

KeysBounded == Cardinality(DOMAIN hits) <= MaxKeys

\* order says of any two keys which entered first.
KeyInv ==
  /\ IsFiniteSet(DOMAIN hits)
  /\ \A j, k \in DOMAIN hits : j # k => <<j, k>> \in order \/ <<k, j>> \in order
  /\ \A k \in DOMAIN hits : <<k, k>> \notin order
  /\ \A j, k, l \in DOMAIN hits :
       <<j, k>> \in order /\ <<k, l>> \in order => <<j, l>> \in order
  /\ KeysBounded

\* There is an oldest key to evict.
LEMMA OldestIs ==
  ASSUME KeyInv, NEW D \in SUBSET DOMAIN hits, D # {}
  PROVE  \E k \in D : \A j \in D : <<j, k>> \notin order
<1> DEFINE before(k) == {j \in D : <<j, k>> \in order}
           sizes == {Cardinality(before(k)) : k \in D}
<1>1. \A k \in D : IsFiniteSet(before(k)) /\ Cardinality(before(k)) \in Nat
  <2> TAKE k \in D
  <2>1. before(k) \subseteq DOMAIN hits /\ IsFiniteSet(DOMAIN hits)
    BY DEF KeyInv
  <2> QED
    BY <2>1, FS_Subset, FS_CardinalityType
<1>2. sizes \in SUBSET Nat /\ sizes # {}
  BY <1>1
<1>3. PICK n \in sizes : \A m \in sizes : n <= m
  <2> HIDE DEF sizes
  <2> QED
    BY <1>2, LeastNat
<1>4. PICK k \in D : n = Cardinality(before(k))
  OBVIOUS
<1>5. ASSUME NEW j \in D, <<j, k>> \in order PROVE FALSE
  <2>1. j \in before(k) /\ j \notin before(j) /\ before(j) \subseteq before(k)
    BY <1>5 DEF KeyInv
  <2> HIDE DEF before
  <2>2. /\ Cardinality(before(j)) <= Cardinality(before(k))
        /\ Cardinality(before(j)) = Cardinality(before(k)) => before(k) = before(j)
    BY <1>1, <2>1, FS_Subset
  <2>3. Cardinality(before(j)) \in sizes
    OBVIOUS
  <2> QED
    BY <1>1, <1>3, <1>4, <2>1, <2>2, <2>3
<1> QED
  BY <1>5

\* A new key finds room, or is given it.
LEMMA MeterKeepsKeys ==
  ASSUME KeyInv, NEW k, Meter(k)
  PROVE  KeyInv'
<1> DEFINE left == Remaining(k)
<1>0. MaxKeys \in Nat /\ MaxKeys > 0
  BY LimitsPositive
<1>1. /\ DOMAIN hits' = left \cup {k}
      /\ order' = (order \cap (left \X left)) \cup ((left \ {k}) \X ({k} \ left))
  BY DEF Meter
<1>2. DOMAIN Pruned \subseteq DOMAIN hits
  BY DEF Pruned, Prune
<1>3. /\ IsFiniteSet(DOMAIN Pruned)
      /\ Cardinality(DOMAIN Pruned) \in Nat /\ Cardinality(DOMAIN Pruned) <= MaxKeys
  <2>1. IsFiniteSet(DOMAIN hits) /\ Cardinality(DOMAIN hits) <= MaxKeys
    BY DEF KeyInv, KeysBounded
  <2>2. IsFiniteSet(DOMAIN Pruned) /\ Cardinality(DOMAIN Pruned) <= Cardinality(DOMAIN hits)
    BY <1>2, <2>1, FS_Subset
  <2> QED
    BY <1>0, <2>1, <2>2, FS_CardinalityType
<1>4. left \subseteq DOMAIN hits
  BY <1>2 DEF Remaining
<1>5. IsFiniteSet(left \cup {k}) /\ Cardinality(left \cup {k}) <= MaxKeys
  <2>1. CASE k \in DOMAIN Pruned
    <3>1. left = DOMAIN Pruned /\ left \cup {k} = left
      BY <2>1 DEF Remaining, Evicted
    <3> QED
      BY <3>1, <1>3
  <2>2. CASE k \notin DOMAIN Pruned /\ Cardinality(DOMAIN Pruned) < MaxKeys
    <3>1. left = DOMAIN Pruned
      BY <2>2 DEF Remaining, Evicted
    <3>2. /\ IsFiniteSet(left \cup {k})
          /\ Cardinality(left \cup {k}) = Cardinality(DOMAIN Pruned) + 1
      BY <3>1, <2>2, <1>3, FS_AddElement
    <3> QED
      BY <3>2, <2>2, <1>0, <1>3
  <2>3. CASE k \notin DOMAIN Pruned /\ ~ (Cardinality(DOMAIN Pruned) < MaxKeys)
    <3>1. left = DOMAIN Pruned \ {Oldest}
      BY <2>3 DEF Remaining, Evicted
    <3>2. DOMAIN Pruned # {}
      BY <2>3, <1>0, FS_EmptySet
    <3>3. Oldest \in DOMAIN Pruned
      BY <3>2, <1>2, OldestIs DEF Oldest
    <3>4. IsFiniteSet(left) /\ Cardinality(left) = Cardinality(DOMAIN Pruned) - 1
      BY <3>1, <3>3, <1>3, FS_RemoveElement
    <3>5. k \notin left
      BY <3>1, <2>3
    <3>6. IsFiniteSet(left \cup {k}) /\ Cardinality(left \cup {k}) = Cardinality(left) + 1
      BY <3>4, <3>5, FS_AddElement
    <3> QED
      BY <3>4, <3>6, <1>0, <1>3
  <2> QED
    BY <2>1, <2>2, <2>3
<1> HIDE DEF left
<1>6. \A i, j \in left \cup {k} :
        <<i, j>> \in order' <=>
          \/ i \in left /\ j \in left /\ <<i, j>> \in order
          \/ i \in left /\ i # k /\ j = k /\ k \notin left
  BY <1>1
<1>7. \A i, j \in left \cup {k} : i # j => <<i, j>> \in order' \/ <<j, i>> \in order'
  BY <1>4, <1>6 DEF KeyInv
<1>8. \A i \in left \cup {k} : <<i, i>> \notin order'
  BY <1>4, <1>6 DEF KeyInv
<1>9. \A i, j, l \in left \cup {k} :
        <<i, j>> \in order' /\ <<j, l>> \in order' => <<i, l>> \in order'
  BY <1>4, <1>6 DEF KeyInv
<1> QED
  BY <1>1, <1>5, <1>7, <1>8, <1>9 DEF KeyInv, KeysBounded

LEMMA NextKeyInv == KeyInv /\ [DashboardNext]_dashboardVars => KeyInv'
<1> SUFFICES ASSUME KeyInv, [DashboardNext]_dashboardVars PROVE KeyInv'
  OBVIOUS
<1>1. ASSUME DOMAIN hits' = DOMAIN hits, order' = order PROVE KeyInv'
  BY <1>1 DEF KeyInv, KeysBounded
<1>2. CASE TimePasses
  BY <1>1, <1>2 DEF TimePasses
<1>3. ASSUME NEW c \in Sockets, Admit(c) \/ Handler(c) PROVE KeyInv'
  <2>1. CASE Admit(c) \/ Probe(c) \/ Finishes(c) \/ Expires(c)
    BY <1>1, <2>1 DEF Admit, Probe, Finishes, Expires, Ends, limiter
  <2>2. CASE Malformed(c)
    BY <2>2, MeterKeepsKeys DEF Malformed
  <2>3. ASSUME NEW a \in Addresses \cup {NoAddress}, Request(c, a) PROVE KeyInv'
    BY <2>3, MeterKeepsKeys DEF Request, Answer, Refuse
  <2> QED
    BY <1>3, <2>1, <2>2, <2>3 DEF Handler
<1>4. CASE UNCHANGED dashboardVars
  BY <1>1, <1>4 DEF dashboardVars, limiter
<1> QED
  BY <1>2, <1>3, <1>4 DEF DashboardNext

LEMMA InitKeyInv == DashboardInit => KeyInv
<1> SUFFICES ASSUME DashboardInit PROVE KeyInv
  OBVIOUS
<1>1. DOMAIN hits = {} /\ order = {}
  BY DEF DashboardInit
<1>2. IsFiniteSet({}) /\ Cardinality({}) = 0 /\ MaxKeys \in Nat
  BY FS_EmptySet, LimitsPositive
<1> QED
  BY <1>1, <1>2 DEF KeyInv, KeysBounded

\* The limiter never tracks more than MAX_KEYS clients, whatever addresses ask:
\* there always is an oldest key to evict (HttpRateLimiter.allow).
THEOREM KeysBoundedAlways == DashboardSpec => []KeysBounded
<1>1. KeyInv => KeysBounded
  BY DEF KeyInv
<1> QED
  BY <1>1, InitKeyInv, NextKeyInv, PTL DEF DashboardSpec

-----------------------------------------------------------------------------
(* Type correctness of Dashboard.                                          *)

\* Nobody has waited past a deadline.
WaitsTyped ==
  /\ waited \in [Sockets -> Nat]
  /\ \A c \in Sockets : phase[c] \in Waiting => waited[c] <= Deadline[phase[c]]

\* A client has no more hits than the limit, those that expired included.
HitsTyped ==
  /\ \A k \in DOMAIN hits : Len(hits[k]) <= Limit
  /\ order \subseteq (DOMAIN hits) \X (DOMAIN hits)
  /\ pruned \in 0..(PruneAfter + 1)

LEMMA DeadlineIs == \A p \in Waiting : Deadline[p] \in Nat
BY LimitsPositive DEF Deadline, Waiting

LEMMA GoesToTyped ==
  ASSUME SocketInv, WaitsTyped, NEW c \in Sockets, NEW p, GoesTo(c, p)
  PROVE  WaitsTyped'
<1>0. phase \in [Sockets -> Waiting \cup {"closed"}] /\ waited \in [Sockets -> Nat]
  BY DEF SocketInv, WaitsTyped
<1>1. /\ phase'[c] = p /\ waited'[c] = 0 /\ waited' \in [Sockets -> Nat]
      /\ \A e \in Sockets \ {c} : phase'[e] = phase[e] /\ waited'[e] = waited[e]
  BY <1>0 DEF GoesTo
<1>2. ASSUME NEW e \in Sockets, phase'[e] \in Waiting PROVE waited'[e] <= Deadline[phase'[e]]
  <2>1. CASE e = c
    BY <1>1, <1>2, <2>1, DeadlineIs
  <2>2. CASE e # c
    BY <1>1, <1>2, <2>2 DEF WaitsTyped
  <2> QED
    BY <2>1, <2>2
<1> QED
  BY <1>1, <1>2, DeadlineIs DEF WaitsTyped, Deadline

LEMMA NextWaitsTyped ==
  SocketInv /\ WaitsTyped /\ [DashboardNext]_dashboardVars => WaitsTyped'
<1> SUFFICES ASSUME SocketInv, WaitsTyped, [DashboardNext]_dashboardVars PROVE WaitsTyped'
  OBVIOUS
<1>1. CASE UNCHANGED dashboardVars
  BY <1>1 DEF WaitsTyped, dashboardVars, sockets
<1>2. CASE TimePasses
  <2>1. /\ phase' = phase
        /\ waited' = [c \in Sockets |-> IF phase[c] \in Waiting THEN waited[c] + 1 ELSE 0]
        /\ \A c \in Sockets : phase[c] \in Waiting => waited[c] < Deadline[phase[c]]
    BY <1>2 DEF TimePasses
  <2>2. waited' \in [Sockets -> Nat]
    BY <2>1 DEF WaitsTyped
  <2>3. ASSUME NEW c \in Sockets, phase'[c] \in Waiting PROVE waited'[c] <= Deadline[phase'[c]]
    <3>1. waited[c] \in Nat /\ Deadline[phase[c]] \in Nat /\ waited[c] < Deadline[phase[c]]
      BY <2>1, <2>3, DeadlineIs DEF WaitsTyped
    <3>2. waited'[c] = waited[c] + 1 /\ phase'[c] = phase[c]
      BY <2>1, <2>3
    <3> QED
      BY <3>1, <3>2
  <2> QED
    BY <2>2, <2>3 DEF WaitsTyped
<1>3. ASSUME NEW c \in Sockets, Admit(c) \/ Handler(c) PROVE WaitsTyped'
  <2>1. \E p : GoesTo(c, p)
    BY <1>3 DEF Handler, Admit, Malformed, Probe, Finishes, Expires, Ends, Request, Answer, Refuse
  <2> QED
    BY <2>1, GoesToTyped
<1> QED
  BY <1>1, <1>2, <1>3 DEF DashboardNext

LEMMA MeterTyped ==
  ASSUME LimiterInv, HitsTyped, NEW k, Meter(k)
  PROVE  HitsTyped'
<1> DEFINE left == Remaining(k)
           new == IF UnderLimit(k) THEN <<0>> ELSE <<>>
<1>0. Limit \in Nat \ {0} /\ PruneAfter \in Nat
  BY LimitsPositive, AgesNat
<1>1. ASSUME NEW j \in DOMAIN hits PROVE Recent(hits[j]) \in Ages /\ Len(Recent(hits[j])) <= Limit
  <2>1. hits[j] \in Ages /\ Len(hits[j]) <= Limit
    BY DEF LimiterInv, HitsTyped
  <2>2. /\ Len(hits[j]) \in Nat /\ Expired(hits[j]) \in 0..Len(hits[j])
        /\ Recent(hits[j]) \in Ages
        /\ Len(Recent(hits[j])) = Len(hits[j]) - Expired(hits[j])
    BY <2>1, ExpiredIs, RecentIs
  <2> QED
    BY <2>1, <2>2, <1>0
<1>2. /\ DOMAIN Pruned \subseteq DOMAIN hits
      /\ \A j \in DOMAIN Pruned : Len(Pruned[j]) <= Limit
  BY <1>1 DEF Pruned, Prune, HitsTyped
<1>3. Len(AgesOf(k) \o new) <= Limit
  <2>1. AgesOf(k) \in Ages /\ Len(AgesOf(k)) <= Limit /\ Len(AgesOf(k)) \in Nat
    <3>1. AgesOf(k) = Counted(k) /\ Counted(k) \in Ages
      BY AgesOfCounts
    <3>2. Len(<<>>) = 0
      BY EmptySeq
    <3> QED
      BY <3>1, <3>2, <1>0, <1>1, LenProperties DEF Counted, Ages
  <2>2. CASE UnderLimit(k)
    <3>1. Len(AgesOf(k) \o <<0>>) = Len(AgesOf(k)) + 1
      BY <2>1, OneMore
    <3> QED
      BY <3>1, <2>1, <2>2, <1>0 DEF UnderLimit
  <2>3. CASE ~UnderLimit(k)
    BY <2>1, <2>3, NothingMore
  <2> QED
    BY <2>2, <2>3
<1>4. /\ DOMAIN hits' = left \cup {k}
      /\ \A j \in DOMAIN hits' : hits'[j] = IF j # k THEN Pruned[j] ELSE AgesOf(k) \o new
      /\ order' = (order \cap (left \X left)) \cup ((left \ {k}) \X ({k} \ left))
      /\ pruned' = IF pruned > PruneAfter THEN 0 ELSE pruned
  BY DEF Meter
<1>5. left \subseteq DOMAIN Pruned
  BY DEF Remaining
<1>6. \A j \in DOMAIN hits' : Len(hits'[j]) <= Limit
  <2> HIDE DEF new, left
  <2> QED
    BY <1>2, <1>3, <1>4, <1>5
<1>7. order' \subseteq (DOMAIN hits') \X (DOMAIN hits')
  <2> HIDE DEF left
  <2> QED
    BY <1>4
<1>8. pruned' \in 0..(PruneAfter + 1)
  BY <1>0, <1>4 DEF HitsTyped
<1> QED
  BY <1>6, <1>7, <1>8 DEF HitsTyped

LEMMA NextHitsTyped ==
  LimiterInv /\ HitsTyped /\ [DashboardNext]_dashboardVars => HitsTyped'
<1> SUFFICES ASSUME LimiterInv, HitsTyped, [DashboardNext]_dashboardVars PROVE HitsTyped'
  OBVIOUS
<1>1. ASSUME UNCHANGED <<hits, order, pruned>> PROVE HitsTyped'
  BY <1>1 DEF HitsTyped
<1>2. CASE TimePasses
  <2>1. /\ hits' = [k \in DOMAIN hits |-> Aged(hits[k])] /\ order' = order
        /\ pruned' = Min({pruned + 1, PruneAfter + 1})
    BY <1>2 DEF TimePasses
  <2>2. \A k \in DOMAIN hits' : Len(hits'[k]) <= Limit
    BY <2>1, AgedIs DEF LimiterInv, HitsTyped
  <2>3. pruned' \in 0..(PruneAfter + 1)
    <3> DEFINE a == pruned + 1  b == PruneAfter + 1
    <3>1. a \in Nat /\ b \in Nat
      BY AgesNat DEF HitsTyped
    <3> HIDE DEF a, b
    <3>2. \E x \in {a, b} : \A y \in {a, b} : x <= y
      BY <3>1
    <3>3. Min({a, b}) \in {a, b} /\ Min({a, b}) <= b
      BY <3>2 DEF Min
    <3>4. Min({a, b}) \in 0..b
      BY <3>1, <3>3
    <3> QED
      BY <2>1, <3>4 DEF a, b
  <2> QED
    BY <2>1, <2>2, <2>3 DEF HitsTyped
<1>3. ASSUME NEW c \in Sockets, Admit(c) \/ Handler(c) PROVE HitsTyped'
  <2>1. CASE Admit(c) \/ Probe(c) \/ Finishes(c) \/ Expires(c)
    BY <1>1, <2>1 DEF Admit, Probe, Finishes, Expires, Ends, limiter
  <2>2. CASE Malformed(c)
    BY <2>2, MeterTyped DEF Malformed
  <2>3. ASSUME NEW a \in Addresses \cup {NoAddress}, Request(c, a) PROVE HitsTyped'
    BY <2>3, MeterTyped DEF Request, Answer, Refuse
  <2> QED
    BY <1>3, <2>1, <2>2, <2>3 DEF Handler
<1>4. CASE UNCHANGED dashboardVars
  BY <1>1, <1>4 DEF dashboardVars, limiter
<1> QED
  BY <1>2, <1>3, <1>4 DEF DashboardNext

\* Every variable of the HTTP server keeps its type: nobody has waited past a
\* deadline, the handlers and the tracked clients stay within MAX_HTTP_CONNS and
\* MAX_KEYS, and no client has more hits than the limit (StatsServer._handle,
\* HttpRateLimiter.allow).
THEOREM DashboardTypeCorrect == DashboardSpec => []DashboardTypeOK
<1>1. DashboardInit => WaitsTyped /\ HitsTyped
  <2> SUFFICES ASSUME DashboardInit PROVE WaitsTyped /\ HitsTyped
    OBVIOUS
  <2>1. "closed" \notin Waiting
    BY DEF Waiting
  <2>2. DOMAIN hits = {}
    BY DEF DashboardInit
  <2> QED
    BY <2>1, <2>2, AgesNat DEF DashboardInit, WaitsTyped, HitsTyped
<1>2. SocketInv /\ WaitsTyped /\ HitsTyped /\ LimiterInv /\ KeyInv => DashboardTypeOK
  <2> SUFFICES ASSUME SocketInv, WaitsTyped, HitsTyped, LimiterInv, KeyInv
               PROVE  DashboardTypeOK
    OBVIOUS
  <2>1. active \in 0..MaxConns
    BY FS_CardinalityType, LimitsPositive DEF SocketInv, SocketsCounted
  <2> QED
    BY <2>1 DEF DashboardTypeOK, SocketInv, WaitsTyped, HitsTyped, LimiterInv, KeyInv,
                KeysBounded, Ages
<1> QED
  BY <1>1, <1>2, InitSocketInv, InitKeyInv, InitLimiterInv, NextSocketInv, NextKeyInv,
     NextLimiterInv, NextWaitsTyped, NextHitsTyped, PTL DEF DashboardSpec

=============================================================================
