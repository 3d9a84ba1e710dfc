-------------------------- MODULE MoneroSharesProofs --------------------------
(***************************************************************************)
(* Proofs about MoneroShares, for every value of its constants.            *)
(***************************************************************************)
EXTENDS MoneroShares, SequenceTheorems, TLAPS

-----------------------------------------------------------------------------
(* The jobs of the connections.                                            *)

ConnType == [open : BOOLEAN, authorized : BOOLEAN, diff : Band, struck : BOOLEAN]

JobsOK(js) ==
  /\ js \in [Conns -> Seq(Job)]
  /\ \A c \in Conns : Len(js[c]) <= JobsRetained

\* A job goes to the end, and what is kept before it was kept before.
LEMMA KeepJob ==
  ASSUME NEW kept \in Seq(Job), Len(kept) <= JobsRetained, NEW job \in Job
  PROVE  /\ Keep(kept, job) \in Seq(Job)
         /\ Len(Keep(kept, job)) \in 1..JobsRetained
         /\ Keep(kept, job)[Len(Keep(kept, job))] = job
         /\ \A i \in 1..Len(Keep(kept, job)) :
              \/ Keep(kept, job)[i] = job
              \/ \E j \in 1..Len(kept) : Keep(kept, job)[i] = kept[j]
<1> DEFINE all == Append(kept, job)
<1>1. Len(kept) \in Nat /\ JobsRetained \in Nat \ {0}
  BY LenProperties, LimitsPositive
<1>2. /\ all \in Seq(Job) /\ Len(all) = Len(kept) + 1 /\ all[Len(kept) + 1] = job
      /\ \A i \in 1..Len(kept) : all[i] = kept[i]
  BY <1>1
<1>3. Keep(kept, job) = IF Len(all) > JobsRetained THEN Tail(all) ELSE all
  BY DEF Keep
<1> HIDE DEF all
<1>4. CASE Len(all) > JobsRetained
  <2>1. all # << >>
    BY <1>1, <1>2
  <2>2. /\ Tail(all) \in Seq(Job) /\ Len(Tail(all)) = Len(all) - 1
        /\ \A i \in 1..Len(Tail(all)) : Tail(all)[i] = all[i + 1]
    BY <1>2, <2>1, HeadTailProperties
  <2>3. Len(kept) = JobsRetained /\ Len(Tail(all)) = Len(kept)
    BY <1>1, <1>2, <1>4, <2>2
  <2>4. Tail(all)[Len(kept)] = job
    BY <1>1, <1>2, <2>2, <2>3
  <2>5. \A i \in 1..Len(kept) : Tail(all)[i] = job \/ \E j \in 1..Len(kept) : Tail(all)[i] = kept[j]
    BY <1>1, <1>2, <2>2, <2>3
  <2> QED
    BY <1>1, <1>3, <1>4, <2>2, <2>3, <2>4, <2>5
<1>5. CASE ~(Len(all) > JobsRetained)
  <2>1. Keep(kept, job) = all /\ Len(all) \in 1..JobsRetained
    BY <1>1, <1>2, <1>3, <1>5
  <2>2. \A i \in 1..(Len(kept) + 1) : all[i] = job \/ \E j \in 1..Len(kept) : all[i] = kept[j]
    BY <1>1, <1>2
  <2> QED
    BY <1>2, <2>1, <2>2
<1> QED
  BY <1>4, <1>5

\* A job that a connection keeps is of template t, or was kept.
OfOrKept(t) ==
  \A c \in Conns : \A i \in 1..Len(jobs'[c]) :
    jobs'[c][i].tmpl = t \/ \E j \in 1..Len(jobs[c]) : jobs'[c][i] = jobs[c][j]

LEMMA MakeJobsKeeps ==
  ASSUME JobsOK(jobs), given \in [Conns -> Nat], NEW S \in SUBSET Conns,
         NEW t \in Template, NEW d \in [Conns -> Band], MakeJobs(S, t, d)
  PROVE  /\ JobsOK(jobs') /\ given' \in [Conns -> Nat]
         /\ \A c \in S : jobs'[c] # << >> /\ Last(jobs'[c]).tmpl = t
         /\ \A c \in Conns \ S : jobs'[c] = jobs[c]
         /\ OfOrKept(t)
<1> DEFINE job == [c \in Conns |-> [tmpl |-> t, diff |-> d[c]]]
<1>1. \A c \in Conns : job[c] \in Job /\ job[c].tmpl = t
  BY DEF Job
<1>2. \A c \in Conns : jobs[c] \in Seq(Job) /\ Len(jobs[c]) <= JobsRetained
  BY DEF JobsOK
<1>3. jobs' = [c \in Conns |-> IF c \in S THEN Keep(jobs[c], job[c]) ELSE jobs[c]]
  BY DEF MakeJobs
<1> HIDE DEF job
<1>4. given' \in [Conns -> Nat]
  BY DEF MakeJobs
<1>5. ASSUME NEW c \in S
      PROVE  /\ jobs'[c] \in Seq(Job) /\ Len(jobs'[c]) \in 1..JobsRetained
             /\ jobs'[c] # << >> /\ Last(jobs'[c]).tmpl = t
             /\ \A i \in 1..Len(jobs'[c]) :
                  jobs'[c][i].tmpl = t \/ \E j \in 1..Len(jobs[c]) : jobs'[c][i] = jobs[c][j]
  <2>1. c \in Conns /\ jobs'[c] = Keep(jobs[c], job[c])
    BY <1>3
  <2>2. /\ jobs'[c] \in Seq(Job) /\ Len(jobs'[c]) \in 1..JobsRetained
        /\ jobs'[c][Len(jobs'[c])] = job[c]
        /\ \A i \in 1..Len(jobs'[c]) :
             jobs'[c][i] = job[c] \/ \E j \in 1..Len(jobs[c]) : jobs'[c][i] = jobs[c][j]
    <3>1. job[c] \in Job /\ jobs[c] \in Seq(Job) /\ Len(jobs[c]) <= JobsRetained
      BY <1>1, <1>2, <2>1
    <3> DEFINE new == Keep(jobs[c], job[c])
    <3>2. /\ new \in Seq(Job) /\ Len(new) \in 1..JobsRetained
          /\ new[Len(new)] = job[c]
          /\ \A i \in 1..Len(new) :
               new[i] = job[c] \/ \E j \in 1..Len(jobs[c]) : new[i] = jobs[c][j]
      BY <3>1, KeepJob
    <3> HIDE DEF new
    <3>3. jobs'[c] = new
      BY <2>1 DEF new
    <3> QED
      BY <3>2, <3>3
  <2>3. jobs'[c] # << >>
    BY <2>2
  <2> QED
    BY <1>1, <2>1, <2>2, <2>3 DEF Last
<1>6. \A c \in Conns \ S : jobs'[c] = jobs[c]
  BY <1>3
<1>7. JobsOK(jobs')
  <2>1. \A c \in Conns : jobs'[c] \in Seq(Job) /\ Len(jobs'[c]) <= JobsRetained
    BY <1>2, <1>5, <1>6
  <2> QED
    BY <1>3, <2>1 DEF JobsOK
<1>8. OfOrKept(t)
  BY <1>5, <1>6 DEF OfOrKept
<1> QED
  BY <1>4, <1>5, <1>6, <1>7, <1>8

-----------------------------------------------------------------------------
(* What a step does to the template and to the connections.                *)

\* A miner has the newest job, and no job is of a height above it.
JobsInv ==
  /\ template \in Template
  /\ made \in Nat
  /\ conns \in [Conns -> ConnType]
  /\ JobsOK(jobs)
  /\ given \in [Conns -> Nat]
  /\ \A c \in Conns : \A i \in 1..Len(jobs[c]) : jobs[c][i].tmpl.height <= template.height
  /\ NewestJobCurrent

\* Connection c is given a job, and may be changed with it.
Gives(c) ==
  /\ \E d \in [Conns -> Band] : MakeJobs({c}, template, d)
  /\ \E x \in ConnType : conns' = [conns EXCEPT ![c] = x]
  /\ UNCHANGED pool

\* Connection c is changed, and not to one that is owed a job.
Changes(c) ==
  /\ \E x \in ConnType :
       /\ x.open /\ x.authorized => conns[c].open /\ conns[c].authorized
       /\ conns' = [conns EXCEPT ![c] = x]
  /\ UNCHANGED <<pool, jobs, given>>

JobsStep ==
  \/ NewTemplate
  \/ \E c \in Conns : Gives(c) \/ Changes(c)
  \/ UNCHANGED <<pool, conns, jobs, given>>

LEMMA DiffsTyped ==
  ASSUME conns \in [Conns -> ConnType]
  PROVE  Diffs \in [Conns -> Band]
BY DEF Diffs, ConnType

LEMMA RetargetsStep ==
  ASSUME conns \in [Conns -> ConnType], NEW c \in Conns, NEW d \in Band,
         Retargets(c, d), UNCHANGED pool
  PROVE  JobsStep
<1> DEFINE x == [conns[c] EXCEPT !.diff = d]
<1>1. x \in ConnType /\ x.open = conns[c].open /\ x.authorized = conns[c].authorized
  BY DEF ConnType
<1>2. conns' = [conns EXCEPT ![c] = x]
  BY DEF Retargets
<1> HIDE DEF x
<1>3. CASE conns[c].authorized
  <2>1. [Diffs EXCEPT ![c] = d] \in [Conns -> Band]
    BY DiffsTyped
  <2>2. MakeJobs({c}, template, [Diffs EXCEPT ![c] = d])
    BY <1>3 DEF Retargets
  <2>3. Gives(c)
    BY <1>1, <1>2, <2>1, <2>2 DEF Gives
  <2> QED
    BY <2>3 DEF JobsStep
<1>4. CASE ~conns[c].authorized
  <2>1. UNCHANGED <<jobs, given>>
    BY <1>4 DEF Retargets
  <2>2. Changes(c)
    BY <1>1, <1>2, <2>1 DEF Changes
  <2> QED
    BY <2>2 DEF JobsStep
<1> QED
  BY <1>3, <1>4

LEMMA RejectStep ==
  ASSUME conns \in [Conns -> ConnType], NEW c \in Conns, NEW reason,
         Submits(c), Reject(c, reason)
  PROVE  JobsStep
<1> DEFINE x == [conns[c] EXCEPT !.open = ~Flooding(c),
                                 !.struck = Flooding(c) /\ reason # "stale"]
<1>1. x \in ConnType /\ x.authorized = conns[c].authorized
  BY DEF ConnType
<1>2. conns' = [conns EXCEPT ![c] = x]
  BY DEF Reject
<1>3. conns[c].open
  BY DEF Submits, Handles
<1> HIDE DEF x
<1>4. UNCHANGED <<pool, jobs, given>>
  BY DEF Submits, Reject
<1>5. Changes(c)
  BY <1>1, <1>2, <1>3, <1>4 DEF Changes
<1> QED
  BY <1>5 DEF JobsStep

LEMMA RecordShareStep ==
  ASSUME conns \in [Conns -> ConnType], NEW c \in Conns, RecordShare(c), UNCHANGED pool
  PROVE  JobsStep
<1>1. CASE UNCHANGED <<conns, jobs, given>>
  BY <1>1 DEF JobsStep
<1>2. CASE \E d \in Band \ {conns[c].diff} : Retargets(c, d)
  BY <1>2, RetargetsStep
<1> QED
  BY <1>1, <1>2 DEF RecordShare

LEMMA NextJobs ==
  ASSUME conns \in [Conns -> ConnType], template \in Template, [Next]_vars
  PROVE  JobsStep
<1>1. CASE NewTemplate
  BY <1>1 DEF JobsStep
<1>2. ASSUME NEW c \in Conns, Login(c) \/ GetJob(c)
      PROVE  JobsStep
  <2>1. MakeJobs({c}, template, Diffs) /\ UNCHANGED pool
    BY <1>2 DEF Login, GetJob
  <2>2. \E x \in ConnType : conns' = [conns EXCEPT ![c] = x]
    <3>1. CASE Login(c)
      <4>1. [conns[c] EXCEPT !.authorized = TRUE] \in ConnType
        BY DEF ConnType
      <4> QED
        BY <3>1, <4>1 DEF Login
    <3>2. CASE GetJob(c)
      <4>1. conns' = [conns EXCEPT ![c] = conns[c]] /\ conns[c] \in ConnType
        BY <3>2 DEF GetJob
      <4> QED
        BY <4>1
    <3> QED
      BY <1>2, <3>1, <3>2
  <2>3. Gives(c)
    BY <2>1, <2>2, DiffsTyped DEF Gives
  <2> QED
    BY <2>3 DEF JobsStep
<1>3. ASSUME NEW c \in Conns, IdleCheck(c)
      PROVE  JobsStep
  <2>1. PICK d \in Band : Retargets(c, d)
    BY <1>3 DEF IdleCheck
  <2> QED
    BY <1>3, <2>1, RetargetsStep DEF IdleCheck
<1>4. ASSUME NEW c \in Conns, Disconnect(c)
      PROVE  JobsStep
  <2> DEFINE x == [conns[c] EXCEPT !.open = FALSE]
  <2>1. x \in ConnType /\ ~x.open
    BY DEF ConnType
  <2>2. conns' = [conns EXCEPT ![c] = x] /\ UNCHANGED <<pool, jobs, given>>
    BY <1>4 DEF Disconnect, Close
  <2> HIDE DEF x
  <2>3. Changes(c)
    BY <2>1, <2>2 DEF Changes
  <2> QED
    BY <2>3 DEF JobsStep
<1>5. ASSUME NEW c \in Conns, SubmitUnusable(c)
      PROVE  JobsStep
  BY <1>5, RejectStep DEF SubmitUnusable
<1>6. ASSUME NEW c \in Conns, NEW i \in DOMAIN jobs[c], NEW r \in Results, Submit(c, i, r)
      PROVE  JobsStep
  <2>1. CASE SubmitDuplicate(c, i, r)
    BY <2>1, RejectStep DEF SubmitDuplicate
  <2>2. CASE SubmitBad(c, i, r)
    BY <2>2, RejectStep DEF SubmitBad
  <2>3. CASE SubmitShare(c, i, r)
    BY <2>3, RecordShareStep DEF SubmitShare, Accepts, Submits
  <2>4. CASE SubmitBlock(c, i, r)
    BY <2>4 DEF SubmitBlock, Accepts, Submits, JobsStep
  <2> QED
    BY <1>6, <2>1, <2>2, <2>3, <2>4 DEF Submit
<1>7. ASSUME NEW c \in Conns, SolveEnds(c)
      PROVE  JobsStep
  BY <1>7, RecordShareStep DEF SolveEnds
<1>8. ASSUME NEW c \in Conns, CoolsDown(c)
      PROVE  JobsStep
  BY <1>8 DEF CoolsDown, JobsStep
<1>9. CASE UNCHANGED vars
  BY <1>9 DEF vars, JobsStep
<1> QED
  BY <1>1, <1>2, <1>3, <1>4, <1>5, <1>6, <1>7, <1>8, <1>9 DEF Next

LEMMA InitJobsInv == Init => JobsInv
<1> SUFFICES ASSUME Init PROVE JobsInv
  OBVIOUS
<1>1. template \in Template /\ template.height = 1 /\ made \in Nat
  BY DEF Init, Template
<1>2. Opened \in ConnType /\ ~Opened.authorized
  BY BandPositive DEF Opened, ConnType
<1>3. conns \in [Conns -> ConnType] /\ \A c \in Conns : ~conns[c].authorized
  BY <1>2 DEF Init
<1>4. \A c \in Conns : jobs[c] = << >> /\ Len(jobs[c]) = 0
  BY DEF Init
<1>5. jobs \in [Conns -> Seq(Job)] /\ given \in [Conns -> Nat]
  BY DEF Init
<1>6. JobsOK(jobs)
  BY <1>4, <1>5, LimitsPositive DEF JobsOK
<1> QED
  BY <1>1, <1>3, <1>4, <1>5, <1>6 DEF JobsInv, NewestJobCurrent

\* The jobs that connections of S are given for the template t.
LEMMA GivenJobs ==
  ASSUME JobsInv, NEW S \in SUBSET Conns, template' \in Template, template'.height >= template.height,
         NEW d \in [Conns -> Band], MakeJobs(S, template', d)
  PROVE  /\ JobsOK(jobs') /\ given' \in [Conns -> Nat]
         /\ \A c \in Conns : \A i \in 1..Len(jobs'[c]) : jobs'[c][i].tmpl.height <= template'.height
         /\ \A c \in S : jobs'[c] # << >> /\ Last(jobs'[c]).tmpl.height = template'.height
         /\ \A c \in Conns \ S : jobs'[c] = jobs[c]
<1>1. JobsOK(jobs) /\ given \in [Conns -> Nat]
  BY DEF JobsInv
<1>2. /\ JobsOK(jobs') /\ given' \in [Conns -> Nat]
      /\ \A c \in S : jobs'[c] # << >> /\ Last(jobs'[c]).tmpl = template'
      /\ \A c \in Conns \ S : jobs'[c] = jobs[c]
      /\ OfOrKept(template')
  BY <1>1, MakeJobsKeeps
<1>3. ASSUME NEW c \in Conns, NEW i \in 1..Len(jobs'[c])
      PROVE  jobs'[c][i].tmpl.height <= template'.height
  <2>1. template.height \in Nat /\ template'.height \in Nat
    BY DEF JobsInv, Template
  <2>2. CASE jobs'[c][i].tmpl = template'
    BY <2>1, <2>2
  <2>3. CASE \E j \in 1..Len(jobs[c]) : jobs'[c][i] = jobs[c][j]
    <3>1. PICK j \in 1..Len(jobs[c]) : jobs'[c][i] = jobs[c][j]
      BY <2>3
    <3>2. jobs[c][j].tmpl.height \in Nat
      <4>1. jobs[c] \in Seq(Job)
        BY <1>1 DEF JobsOK
      <4>2. jobs[c][j] \in Job
        BY <4>1, ElementOfSeq
      <4> QED
        BY <4>2 DEF Job, Template
    <3>3. jobs[c][j].tmpl.height <= template.height
      BY DEF JobsInv
    <3> QED
      BY <2>1, <3>1, <3>2, <3>3
  <2> QED
    BY <1>2, <2>2, <2>3 DEF OfOrKept
<1> QED
  BY <1>2, <1>3

LEMMA NextJobsInv == JobsInv /\ [Next]_vars => JobsInv'
<1> SUFFICES ASSUME JobsInv, [Next]_vars PROVE JobsInv'
  OBVIOUS
<1>0. /\ template \in Template /\ conns \in [Conns -> ConnType] /\ made \in Nat
      /\ template.height \in Nat
  BY DEF JobsInv, Template
<1>1. CASE NewTemplate
  <2>1. PICK h \in {template.height, template.height + 1} :
          /\ template' = [id |-> made + 1, height |-> h]
          /\ IF h = template.height
             THEN UNCHANGED <<conns, jobs, given>>
             ELSE \E S \in SUBSET Listeners :
                    /\ MakeJobs(Listeners, template', Diffs)
                    /\ conns' = Close(S)
    BY <1>1 DEF NewTemplate
  <2>2. template' \in Template /\ template'.height = h /\ made' \in Nat
    BY <1>0, <1>1, <2>1 DEF NewTemplate, Template
  <2>3. CASE h = template.height
    BY <2>1, <2>2, <2>3 DEF JobsInv, NewestJobCurrent
  <2>4. CASE h = template.height + 1
    <3>1. h # template.height /\ template'.height >= template.height
      BY <1>0, <2>2, <2>4
    <3>2. PICK S \in SUBSET Listeners :
            MakeJobs(Listeners, template', Diffs) /\ conns' = Close(S)
      BY <2>1, <3>1
    <3>3. Listeners \in SUBSET Conns /\ Diffs \in [Conns -> Band]
      BY <1>0, DiffsTyped DEF Listeners
    <3>4. /\ JobsOK(jobs') /\ given' \in [Conns -> Nat]
          /\ \A c \in Conns : \A i \in 1..Len(jobs'[c]) :
               jobs'[c][i].tmpl.height <= template'.height
          /\ \A c \in Listeners :
               jobs'[c] # << >> /\ Last(jobs'[c]).tmpl.height = template'.height
      BY <2>2, <3>1, <3>2, <3>3, GivenJobs
    <3>5. /\ conns' \in [Conns -> ConnType]
          /\ \A c \in Conns : conns'[c].open /\ conns'[c].authorized => c \in Listeners
      BY <1>0, <3>2 DEF Close, ConnType, Listeners
    <3> QED
      BY <2>2, <3>4, <3>5 DEF JobsInv, NewestJobCurrent
  <2> QED
    BY <2>1, <2>3, <2>4
<1>2. ASSUME NEW c \in Conns, Gives(c)
      PROVE  JobsInv'
  <2>1. PICK d \in [Conns -> Band] : MakeJobs({c}, template, d)
    BY <1>2 DEF Gives
  <2>2. template' = template /\ made' = made
    BY <1>2 DEF Gives, pool
  <2>3. template' \in Template /\ template'.height >= template.height
    BY <1>0, <2>2
  <2>4. MakeJobs({c}, template', d) /\ {c} \in SUBSET Conns
    BY <2>1, <2>2
  <2>5. /\ JobsOK(jobs') /\ given' \in [Conns -> Nat]
        /\ \A e \in Conns : \A i \in 1..Len(jobs'[e]) : jobs'[e][i].tmpl.height <= template'.height
        /\ \A e \in {c} : jobs'[e] # << >> /\ Last(jobs'[e]).tmpl.height = template'.height
        /\ \A e \in Conns \ {c} : jobs'[e] = jobs[e]
    BY <2>3, <2>4, GivenJobs
  <2>6. conns' \in [Conns -> ConnType] /\ \A e \in Conns \ {c} : conns'[e] = conns[e]
    BY <1>0, <1>2 DEF Gives
  <2>7. NewestJobCurrent'
    BY <2>2, <2>5, <2>6 DEF JobsInv, NewestJobCurrent
  <2> QED
    BY <1>0, <2>2, <2>3, <2>5, <2>6, <2>7 DEF JobsInv
<1>3. ASSUME NEW c \in Conns, Changes(c)
      PROVE  JobsInv'
  <2>1. UNCHANGED <<template, made, jobs, given>>
    BY <1>3 DEF Changes, pool
  <2>2. /\ conns' \in [Conns -> ConnType]
        /\ \A e \in Conns : conns'[e].open /\ conns'[e].authorized
                              => conns[e].open /\ conns[e].authorized
    BY <1>0, <1>3 DEF Changes
  <2> QED
    BY <2>1, <2>2 DEF JobsInv, NewestJobCurrent
<1>4. CASE UNCHANGED <<pool, conns, jobs, given>>
  BY <1>4 DEF JobsInv, NewestJobCurrent, pool
<1> QED
  BY <1>0, <1>1, <1>2, <1>3, <1>4, NextJobs DEF JobsStep

LEMMA JobsInvAlways == Spec => []JobsInv
BY InitJobsInv, NextJobsInv, PTL DEF Spec

\* Whatever logs in, is retargeted or dropped around a new height, the last job
\* of a miner is for the height the pool mines at (_refresh_template).
THEOREM NewestJobCurrentAlways == Spec => []NewestJobCurrent
<1>1. JobsInv => NewestJobCurrent
  BY DEF JobsInv
<1> QED
  BY <1>1, JobsInvAlways, PTL

-----------------------------------------------------------------------------
(* The window of results, and what is accepted.                            *)

ShareType == [tmpl : Template, result : Results, diff : Band]

KeyOfShare(x) == [id |-> x.tmpl.id, result |-> x.result]

\* The window holds the keys of the last results that were accepted, as many
\* as it has room for; nothing was accepted for a height above the template's.
WindowInv ==
  /\ seen \in Seq(Key) /\ history \in Seq(ShareType)
  /\ Len(seen) = IF Len(history) <= MaxSeen THEN Len(history) ELSE MaxSeen
  /\ \A i \in 1..Len(seen) :
       seen[i] = KeyOfShare(history[Len(history) - Len(seen) + i])
  /\ \A i \in 1..Len(history) : history[i].tmpl.height <= template.height
  /\ ResultPaysOnce

\* A result is accepted that the window does not hold.
Accepted(x) ==
  /\ \A k \in 1..Len(seen) : seen[k] # KeyOfShare(x)
  /\ seen' = IF Len(seen) + 1 > MaxSeen THEN Tail(Append(seen, KeyOfShare(x)))
                                        ELSE Append(seen, KeyOfShare(x))
  /\ history' = Append(history, x)
  /\ UNCHANGED pool

WindowStep ==
  \/ \E c \in Conns : \E i \in DOMAIN jobs[c], r \in Results :
       /\ IsBlock(r) \/ ~Stale(c, i)
       /\ Accepted([tmpl |-> jobs[c][i].tmpl, result |-> r, diff |-> jobs[c][i].diff])
  \/ UNCHANGED <<seen, history>>

LEMMA AcceptsResult ==
  ASSUME seen \in Seq(Key), NEW c, NEW i, NEW r, Accepts(c, i, r)
  PROVE  Accepted([tmpl |-> jobs[c][i].tmpl, result |-> r, diff |-> jobs[c][i].diff])
<1> DEFINE x == [tmpl |-> jobs[c][i].tmpl, result |-> r, diff |-> jobs[c][i].diff]
           key == KeyOf(c, i, r)
<1>1. key = KeyOfShare(x)
  BY DEF KeyOf, KeyOfShare
<1>2. key \notin ToSet(seen) /\ seen' = Remember(c, i, r) /\ history' = Append(history, x)
      /\ UNCHANGED pool
  BY DEF Accepts, Known, Submits
<1>3. Remember(c, i, r) = IF Len(Append(seen, key)) > MaxSeen THEN Tail(Append(seen, key))
                                                              ELSE Append(seen, key)
  BY DEF Remember
<1> HIDE DEF x, key
<1>4. \A k \in 1..Len(seen) : seen[k] # key
  <2>1. DOMAIN seen = 1..Len(seen)
    BY LenProperties
  <2> QED
    BY <1>2, <2>1 DEF ToSet
<1>5. Len(Append(seen, key)) = Len(seen) + 1
  BY LenProperties
<1>6. Accepted(x)
  BY <1>1, <1>2, <1>3, <1>4, <1>5 DEF Accepted
<1> QED
  BY <1>6 DEF x

LEMMA NextWindow ==
  ASSUME seen \in Seq(Key), [Next]_vars
  PROVE  WindowStep
<1> USE DEF WindowStep
<1>1. CASE NewTemplate
  BY <1>1 DEF NewTemplate
<1>2. ASSUME NEW c \in Conns,
             \/ Login(c) \/ GetJob(c) \/ IdleCheck(c) \/ Disconnect(c)
             \/ SolveEnds(c) \/ CoolsDown(c)
      PROVE  WindowStep
  BY <1>2 DEF Login, GetJob, IdleCheck, Disconnect, SolveEnds, CoolsDown
<1>3. ASSUME NEW c \in Conns, SubmitUnusable(c)
      PROVE  WindowStep
  BY <1>3 DEF SubmitUnusable, Reject
<1>4. ASSUME NEW c \in Conns, NEW i \in DOMAIN jobs[c], NEW r \in Results, Submit(c, i, r)
      PROVE  WindowStep
  <2>1. CASE SubmitDuplicate(c, i, r)
    BY <2>1 DEF SubmitDuplicate, Reject
  <2>2. CASE SubmitBad(c, i, r)
    BY <2>2 DEF SubmitBad, Reject
  <2>3. CASE SubmitShare(c, i, r)
    <3>1. Accepts(c, i, r) /\ (IsBlock(r) \/ ~Stale(c, i))
      BY <2>3 DEF SubmitShare
    <3> QED
      BY <3>1, AcceptsResult
  <2>4. CASE SubmitBlock(c, i, r)
    <3>1. Accepts(c, i, r) /\ (IsBlock(r) \/ ~Stale(c, i))
      BY <2>4 DEF SubmitBlock
    <3> QED
      BY <3>1, AcceptsResult
  <2> QED
    BY <1>4, <2>1, <2>2, <2>3, <2>4 DEF Submit
<1>5. CASE UNCHANGED vars
  BY <1>5 DEF vars
<1> QED
  BY <1>1, <1>2, <1>3, <1>4, <1>5 DEF Next

LEMMA InitWindowInv == Init => WindowInv
BY LimitsPositive DEF Init, WindowInv, ResultPaysOnce

\* What becomes of the window when a result is accepted.
LEMMA AcceptedKeepsWindow ==
  ASSUME WindowInv, template \in Template, NEW x \in ShareType, Accepted(x),
         x.tmpl.height <= template.height
  PROVE  WindowInv'
<1> DEFINE key == KeyOfShare(x)
           more == Append(seen, key)
           n == Len(history)
<1>1. key \in Key
  BY DEF KeyOfShare, Key, ShareType, Template
<1>2. /\ seen \in Seq(Key) /\ history \in Seq(ShareType)
      /\ Len(seen) \in Nat /\ n \in Nat /\ MaxSeen \in Nat \ {0}
  BY LimitsPositive, LenProperties DEF WindowInv
<1>3. /\ \A k \in 1..Len(seen) : seen[k] # key
      /\ seen' = IF Len(seen) + 1 > MaxSeen THEN Tail(more) ELSE more
      /\ history' = Append(history, x)
      /\ template' = template
  BY DEF Accepted, pool
<1> HIDE DEF key
<1>4. /\ more \in Seq(Key) /\ Len(more) = Len(seen) + 1 /\ more[Len(seen) + 1] = key
      /\ \A k \in 1..Len(seen) : more[k] = seen[k]
  BY <1>1, <1>2
<1>5. /\ history' \in Seq(ShareType) /\ Len(history') = n + 1
      /\ history'[n + 1] = x
      /\ \A k \in 1..n : history'[k] = history[k]
  BY <1>2, <1>3
<1> HIDE DEF more
<1>6. \A k \in 1..Len(history') : history'[k].tmpl.height <= template'.height
  <2>1. \A k \in 1..n : history[k].tmpl.height <= template.height
    BY DEF WindowInv
  <2> QED
    BY <1>2, <1>3, <1>5, <2>1
\* The window is the end of the keys accepted, one further on.
<1>7. \A k \in 1..Len(seen) : seen[k] = KeyOfShare(history[n - Len(seen) + k])
  BY DEF WindowInv
<1>8. /\ seen' \in Seq(Key)
      /\ Len(seen') = IF n + 1 <= MaxSeen THEN n + 1 ELSE MaxSeen
      /\ \A k \in 1..Len(seen') : seen'[k] = KeyOfShare(history'[n + 1 - Len(seen') + k])
  <2>1. Len(seen) = IF n <= MaxSeen THEN n ELSE MaxSeen
    BY DEF WindowInv
  <2>2. CASE Len(seen) + 1 > MaxSeen
    <3>1. Len(seen) = MaxSeen /\ n >= MaxSeen
      BY <1>2, <2>1, <2>2
    <3>2. more # << >> /\ seen' = Tail(more)
      BY <1>2, <1>3, <1>4, <2>2
    <3>3. /\ Tail(more) \in Seq(Key) /\ Len(Tail(more)) = Len(more) - 1
          /\ \A k \in 1..Len(Tail(more)) : Tail(more)[k] = more[k + 1]
      BY <1>4, <3>2, HeadTailProperties
    <3>4. /\ seen' \in Seq(Key) /\ Len(seen') = MaxSeen
          /\ \A k \in 1..MaxSeen : seen'[k] = more[k + 1]
      BY <1>2, <1>4, <3>1, <3>2, <3>3
    <3>5. ASSUME NEW k \in 1..MaxSeen
          PROVE  seen'[k] = KeyOfShare(history'[n + 1 - MaxSeen + k])
      <4>1. CASE k = MaxSeen
        <5>1. seen'[k] = key /\ n + 1 - MaxSeen + k = n + 1
          BY <1>2, <1>4, <3>1, <3>4, <4>1
        <5> QED
          BY <1>5, <5>1 DEF key
      <4>2. CASE k < MaxSeen
        <5>1. k + 1 \in 1..Len(seen) /\ seen'[k] = seen[k + 1]
          BY <1>2, <1>4, <3>1, <3>4, <4>2
        <5>2. seen[k + 1] = KeyOfShare(history[n - Len(seen) + (k + 1)])
          BY <1>7, <5>1
        <5>3. /\ n - Len(seen) + (k + 1) = n + 1 - MaxSeen + k
              /\ n + 1 - MaxSeen + k \in 1..n
          BY <1>2, <3>1, <4>2
        <5> QED
          BY <1>5, <5>1, <5>2, <5>3
      <4> QED
        BY <1>2, <4>1, <4>2
    <3>6. (IF n + 1 <= MaxSeen THEN n + 1 ELSE MaxSeen) = MaxSeen
      BY <1>2, <3>1
    <3> QED
      BY <3>4, <3>5, <3>6
  <2>3. CASE ~(Len(seen) + 1 > MaxSeen)
    <3>1. Len(seen) = n /\ n + 1 <= MaxSeen /\ seen' = more
      BY <1>2, <1>3, <2>1, <2>3
    <3>2. ASSUME NEW k \in 1..(n + 1)
          PROVE  seen'[k] = KeyOfShare(history'[k])
      <4>1. CASE k = n + 1
        BY <1>4, <1>5, <3>1, <4>1 DEF key
      <4>2. CASE k \in 1..n
        <5>1. seen[k] = KeyOfShare(history[n - Len(seen) + k]) /\ n - Len(seen) + k = k
          BY <1>2, <1>7, <3>1, <4>2
        <5> QED
          BY <1>4, <1>5, <3>1, <4>2, <5>1
      <4> QED
        BY <1>2, <4>1, <4>2
    <3>3. Len(more) = n + 1
      BY <1>4, <3>1
    <3>4. Len(seen') = n + 1
      BY <3>1, <3>3
    <3>5. \A k \in 1..(n + 1) : n + 1 - Len(seen') + k = k
      BY <1>2, <3>4
    <3> QED
      BY <1>4, <3>1, <3>2, <3>4, <3>5
  <2> QED
    BY <2>2, <2>3
\* The new result differs from those the window still held.
<1>9. ResultPaysOnce'
  <2> SUFFICES ASSUME NEW a \in 1..(n + 1), NEW b \in 1..(n + 1), a < b,
                      history'[a].tmpl.id = history'[b].tmpl.id,
                      history'[a].result = history'[b].result
               PROVE  b - a > MaxSeen
    <3>1. DOMAIN history' = 1..(n + 1)
      BY <1>2, <1>5
    <3> QED
      BY <3>1 DEF ResultPaysOnce
  <2>1. CASE b \in 1..n
    <3>1. a \in 1..n /\ history'[a] = history[a] /\ history'[b] = history[b]
      BY <1>2, <1>5, <2>1
    <3>2. DOMAIN history = 1..n
      BY <1>2
    <3> QED
      BY <2>1, <3>1, <3>2 DEF WindowInv, ResultPaysOnce
  <2>2. CASE b = n + 1
    <3>1. a \in 1..n /\ KeyOfShare(history[a]) = key
      BY <1>2, <1>5, <2>2 DEF KeyOfShare, key
    <3> SUFFICES ASSUME ~(b - a > MaxSeen) PROVE FALSE
      OBVIOUS
    <3>2. Len(seen) = IF n <= MaxSeen THEN n ELSE MaxSeen
      BY DEF WindowInv
    <3>3. a - (n - Len(seen)) \in 1..Len(seen) /\ n - Len(seen) + (a - (n - Len(seen))) = a
      <4>1. a <= n /\ n + 1 - a <= MaxSeen
        BY <1>2, <2>2, <3>1
      <4>2. a - (n - Len(seen)) >= 1 /\ a - (n - Len(seen)) <= Len(seen)
        BY <1>2, <3>1, <3>2, <4>1
      <4> QED
        BY <1>2, <3>1, <4>2
    <3>4. seen[a - (n - Len(seen))] = KeyOfShare(history[n - Len(seen) + (a - (n - Len(seen)))])
      BY <1>7, <3>3
    <3> QED
      BY <1>3, <3>1, <3>3, <3>4
  <2> QED
    BY <1>2, <2>1, <2>2
<1>10. \A k \in 1..Len(seen') :
         seen'[k] = KeyOfShare(history'[Len(history') - Len(seen') + k])
  BY <1>5, <1>8
<1>11. Len(seen') = IF Len(history') <= MaxSeen THEN Len(history') ELSE MaxSeen
  BY <1>5, <1>8
<1> HIDE DEF n
<1> QED
  BY <1>5, <1>6, <1>8, <1>9, <1>10, <1>11 DEF WindowInv

LEMMA NextWindowInv == JobsInv /\ WindowInv /\ [Next]_vars => WindowInv'
<1> SUFFICES ASSUME JobsInv, WindowInv, [Next]_vars PROVE WindowInv'
  OBVIOUS
<1>1. template \in Template
  BY DEF JobsInv
<1>2. ASSUME NEW c \in Conns, NEW i \in DOMAIN jobs[c], NEW r \in Results,
             Accepted([tmpl |-> jobs[c][i].tmpl, result |-> r, diff |-> jobs[c][i].diff])
      PROVE  WindowInv'
  <2> DEFINE x == [tmpl |-> jobs[c][i].tmpl, result |-> r, diff |-> jobs[c][i].diff]
  <2>1. jobs[c] \in Seq(Job)
    BY DEF JobsInv, JobsOK
  <2>2. i \in 1..Len(jobs[c]) /\ jobs[c][i] \in Job
    BY <2>1, LenProperties, ElementOfSeq
  <2>3. jobs[c][i].tmpl.height <= template.height
    BY <2>2 DEF JobsInv
  <2>4. x \in ShareType /\ x.tmpl = jobs[c][i].tmpl /\ Accepted(x)
    BY <1>2, <2>2 DEF ShareType, Job
  <2> HIDE DEF x
  <2>5. x.tmpl.height <= template.height
    BY <2>3, <2>4
  <2> QED
    BY <1>1, <2>4, <2>5, AcceptedKeepsWindow
<1>3. CASE UNCHANGED <<seen, history>>
  <2>1. template' \in Template /\ template'.height >= template.height
    <3>1. template.height \in Nat
      BY <1>1 DEF Template
    <3>2. CASE NewTemplate
      <4>1. PICK h \in {template.height, template.height + 1} :
              template' = [id |-> made + 1, height |-> h]
        BY <3>2 DEF NewTemplate
      <4> QED
        BY <3>1, <4>1 DEF JobsInv, Template
    <3>3. CASE ~NewTemplate
      <4>1. conns \in [Conns -> ConnType]
        BY DEF JobsInv
      <4>2. JobsStep
        BY <1>1, <4>1, NextJobs
      <4>3. template' = template
        BY <3>3, <4>2 DEF JobsStep, Gives, Changes, pool
      <4> QED
        BY <1>1, <3>1, <4>3
    <3> QED
      BY <3>2, <3>3
  <2>2. \A k \in 1..Len(history') : history'[k].tmpl.height <= template'.height
    <3> SUFFICES ASSUME NEW k \in 1..Len(history)
                 PROVE  history[k].tmpl.height <= template'.height
      BY <1>3
    <3>1. history[k] \in ShareType
      BY ElementOfSeq DEF WindowInv
    <3>2. history[k].tmpl.height \in Nat /\ template.height \in Nat /\ template'.height \in Nat
      BY <1>1, <2>1, <3>1 DEF ShareType, Template
    <3>3. history[k].tmpl.height <= template.height
      BY DEF WindowInv
    <3> QED
      BY <2>1, <3>2, <3>3
  <2> QED
    BY <1>3, <2>2 DEF WindowInv, ResultPaysOnce
<1>4. seen \in Seq(Key)
  BY DEF WindowInv
<1> QED
  BY <1>2, <1>3, <1>4, NextWindow DEF WindowStep

LEMMA IInvAlways == Spec => [](JobsInv /\ WindowInv)
<1>1. Init => JobsInv /\ WindowInv
  BY InitJobsInv, InitWindowInv
<1>2. JobsInv /\ WindowInv /\ [Next]_vars => (JobsInv /\ WindowInv)'
  BY NextJobsInv, NextWindowInv
<1> QED
  BY <1>1, <1>2, PTL DEF Spec

\* One result is not paid twice for one template before MaxSeen others are, with
\* whatever job and from whatever connection it comes (_on_submit: seen_shares).
THEOREM ResultPaysOnceAlways == Spec => []ResultPaysOnce
<1>1. WindowInv => ResultPaysOnce
  BY DEF WindowInv
<1> QED
  BY <1>1, IInvAlways, PTL

\* The window is the last results that were accepted, as many as it has room
\* for: no other result is taken for a duplicate, and none of these is missed
\* (_on_submit: "the low-diff and stale checks come first").
THEOREM WindowIsAcceptedAlways == Spec => []WindowIsAccepted
<1>1. WindowInv => WindowIsAccepted
  <2> SUFFICES ASSUME WindowInv, NEW i \in 1..Len(seen)
               PROVE  /\ seen[i].id = history[Len(history) - Len(seen) + i].tmpl.id
                      /\ seen[i].result = history[Len(history) - Len(seen) + i].result
    BY DEF WindowInv, WindowIsAccepted
  <2>1. seen[i] = KeyOfShare(history[Len(history) - Len(seen) + i])
    BY DEF WindowInv
  <2> QED
    BY <2>1 DEF KeyOfShare
<1> QED
  BY <1>1, IInvAlways, PTL

\* After a share of one height none of a lower height is accepted, of any miner,
\* unless it is a block (_on_submit: the dead-tip gate).
THEOREM CreditMovesOnAlways == Spec => CreditMovesOn
<1> DEFINE Step == \/ history' = history
                   \/ IsBlock(Last(history').result)
                   \/ \A i \in DOMAIN history :
                        history[i].tmpl.height <= Last(history').tmpl.height
<1>1. JobsInv /\ WindowInv /\ [Next]_vars => [Step]_vars
  <2> SUFFICES ASSUME JobsInv, WindowInv, [Next]_vars, history' # history
               PROVE  \/ IsBlock(Last(history').result)
                      \/ \A i \in DOMAIN history :
                           history[i].tmpl.height <= Last(history').tmpl.height
    OBVIOUS
  <2>1. seen \in Seq(Key) /\ history \in Seq(ShareType) /\ DOMAIN history = 1..Len(history)
    BY LenProperties DEF WindowInv
  <2>0. PICK c \in Conns : \E i \in DOMAIN jobs[c], r \in Results :
          /\ IsBlock(r) \/ ~Stale(c, i)
          /\ Accepted([tmpl |-> jobs[c][i].tmpl, result |-> r, diff |-> jobs[c][i].diff])
    BY <2>1, NextWindow DEF WindowStep
  <2>2. PICK i \in DOMAIN jobs[c], r \in Results :
          /\ IsBlock(r) \/ ~Stale(c, i)
          /\ Accepted([tmpl |-> jobs[c][i].tmpl, result |-> r, diff |-> jobs[c][i].diff])
    BY <2>0
  <2>3. PICK x \in ShareType :
          history' = Append(history, x) /\ x.result = r /\ x.tmpl = jobs[c][i].tmpl
    <3>1. jobs[c] \in Seq(Job)
      BY DEF JobsInv, JobsOK
    <3>2. jobs[c][i] \in Job
      BY <3>1, LenProperties, ElementOfSeq
    <3>3. [tmpl |-> jobs[c][i].tmpl, result |-> r, diff |-> jobs[c][i].diff] \in ShareType
      BY <3>2 DEF ShareType, Job
    <3> QED
      BY <2>2, <3>3 DEF Accepted
  <2>4. Last(history') = x
    <3>1. Len(history') = Len(history) + 1 /\ history'[Len(history) + 1] = x
      BY <2>1, <2>3, AppendProperties
    <3> QED
      BY <3>1 DEF Last
  <2>5. CASE IsBlock(r)
    BY <2>3, <2>4, <2>5
  <2>6. CASE ~Stale(c, i)
    <3>1. x.tmpl.height = template.height
      BY <2>3, <2>6 DEF Stale
    <3> QED
      BY <2>1, <2>4, <3>1 DEF WindowInv
  <2> QED
    BY <2>2, <2>5, <2>6
<1> QED
  BY <1>1, IInvAlways, PTL DEF Spec, CreditMovesOn

-----------------------------------------------------------------------------
(* Types.                                                                  *)

MetersTypeOK ==
  /\ submits \in Nat
  /\ counts \in [Conns -> [accepted : Nat, rejected : Nat]]
  /\ solving \in [Conns -> BOOLEAN] /\ hot \in [Conns -> BOOLEAN]

LEMMA CountsTyped ==
  ASSUME counts \in [Conns -> [accepted : Nat, rejected : Nat]], NEW c \in Conns
  PROVE  /\ [counts EXCEPT ![c].accepted = @ + 1] \in [Conns -> [accepted : Nat, rejected : Nat]]
         /\ [counts EXCEPT ![c].rejected = @ + 1] \in [Conns -> [accepted : Nat, rejected : Nat]]
OBVIOUS

LEMMA NextMeters == MetersTypeOK /\ [Next]_vars => MetersTypeOK'
<1> SUFFICES ASSUME MetersTypeOK, [Next]_vars PROVE MetersTypeOK'
  OBVIOUS
<1> USE DEF MetersTypeOK
<1>1. CASE NewTemplate
  BY <1>1 DEF NewTemplate
<1>2. ASSUME NEW c \in Conns, Login(c) \/ GetJob(c) \/ IdleCheck(c) \/ Disconnect(c)
      PROVE  MetersTypeOK'
  <2>1. UNCHANGED <<submits, counts, solving, hot>>
    BY <1>2 DEF Login, GetJob, IdleCheck, Disconnect
  <2> QED
    BY <2>1
<1>3. ASSUME NEW c \in Conns, NEW reason, Submits(c), Reject(c, reason)
      PROVE  MetersTypeOK'
  <2>1. submits' = submits + 1 /\ counts' = [counts EXCEPT ![c].rejected = @ + 1]
        /\ solving' = solving /\ hot' = hot
    BY <1>3 DEF Submits, Reject
  <2> QED
    BY <2>1, CountsTyped
<1>4. ASSUME NEW c \in Conns, SubmitUnusable(c)
      PROVE  MetersTypeOK'
  BY <1>3, <1>4 DEF SubmitUnusable
<1>5. ASSUME NEW c \in Conns, NEW i \in DOMAIN jobs[c], NEW r \in Results, Submit(c, i, r)
      PROVE  MetersTypeOK'
  <2>1. CASE SubmitDuplicate(c, i, r)
    BY <1>3, <2>1 DEF SubmitDuplicate
  <2>2. CASE SubmitBad(c, i, r)
    BY <1>3, <2>2 DEF SubmitBad
  <2>3. CASE SubmitShare(c, i, r) \/ SubmitBlock(c, i, r)
    <3>1. submits' = submits + 1 /\ counts' = [counts EXCEPT ![c].accepted = @ + 1]
      BY <2>3 DEF SubmitShare, SubmitBlock, Accepts, Submits
    <3>2. solving' \in [Conns -> BOOLEAN] /\ hot' \in [Conns -> BOOLEAN]
      BY <2>3 DEF SubmitShare, SubmitBlock
    <3>3. counts' \in [Conns -> [accepted : Nat, rejected : Nat]]
      BY <3>1, CountsTyped
    <3>4. submits' \in Nat
      BY <3>1
    <3> QED
      BY <3>2, <3>3, <3>4
  <2> QED
    BY <1>5, <2>1, <2>2, <2>3 DEF Submit
<1>6. ASSUME NEW c \in Conns, SolveEnds(c) \/ CoolsDown(c)
      PROVE  MetersTypeOK'
  <2>1. submits' = submits /\ counts' = counts
    BY <1>6 DEF SolveEnds, CoolsDown
  <2>2. solving' \in [Conns -> BOOLEAN] /\ hot' \in [Conns -> BOOLEAN]
    BY <1>6 DEF SolveEnds, CoolsDown
  <2> QED
    BY <2>1, <2>2
<1>7. CASE UNCHANGED vars
  BY <1>7 DEF vars
<1> QED
  BY <1>1, <1>2, <1>4, <1>5, <1>6, <1>7 DEF Next

\* Every variable keeps its type; no connection keeps more jobs than it may, and
\* the window keeps its size.
THEOREM TypeCorrect == Spec => []TypeOK
<1>1. Init => MetersTypeOK
  BY DEF Init, MetersTypeOK
<1>2. JobsInv /\ WindowInv /\ MetersTypeOK => TypeOK
  <2> SUFFICES ASSUME JobsInv, WindowInv, MetersTypeOK PROVE TypeOK
    OBVIOUS
  <2>1. Len(seen) <= MaxSeen
    BY LimitsPositive, LenProperties DEF WindowInv
  <2>2. {solving, hot} \subseteq [Conns -> BOOLEAN]
    BY DEF MetersTypeOK
  <2>3. {made, submits} \subseteq Nat
    BY DEF MetersTypeOK, JobsInv
  <2> QED
    BY <2>1, <2>2, <2>3 DEF TypeOK, JobsInv, JobsOK, ConnType, WindowInv, ShareType,
                            MetersTypeOK
<1> QED
  BY <1>1, <1>2, NextMeters, IInvAlways, PTL DEF Spec

=============================================================================
