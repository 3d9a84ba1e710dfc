-------------------------- MODULE MoneroRoundsProofs --------------------------
(***************************************************************************)
(* Proofs about MoneroRounds, for every value of its constants.            *)
(***************************************************************************)
EXTENDS MoneroRounds, AccountingProofs, SequenceTheorems, TLAPS

-----------------------------------------------------------------------------
(* Chains.                                                                 *)

LEMMA ChainProperties ==
  ASSUME NEW c \in Chains
  PROVE  /\ Len(c) \in Nat
         /\ DOMAIN c = 1..Len(c)
         /\ \A i \in 1..Len(c) : c[i] \in Blocks
BY LenProperties, ElementOfSeq DEF Chains

\* The first n blocks of a chain.
LEMMA PrefixProperties ==
  ASSUME NEW c \in Chains, NEW n \in 0..Len(c)
  PROVE  /\ SubSeq(c, 1, n) \in Chains
         /\ Len(SubSeq(c, 1, n)) = n
         /\ \A i \in 1..n : SubSeq(c, 1, n)[i] = c[i]
<1>1. Len(c) \in Nat /\ \A i \in 1..n : c[i] \in Blocks
  BY ChainProperties
<1>2. /\ SubSeq(c, 1, n) \in Seq(Blocks)
      /\ Len(SubSeq(c, 1, n)) = IF 1 <= n THEN n - 1 + 1 ELSE 0
      /\ \A i \in 1..(n - 1 + 1) : SubSeq(c, 1, n)[i] = c[1 + i - 1]
  BY <1>1, SubSeqProperties, 1 \in Int, n \in Int
<1> QED
  BY <1>1, <1>2 DEF Chains

\* A block on top of a chain.
LEMMA ChainAppend ==
  ASSUME NEW c \in Chains, NEW e \in Blocks
  PROVE  /\ Append(c, e) \in Chains
         /\ Len(Append(c, e)) = Len(c) + 1
         /\ \A i \in 1..Len(c) : Append(c, e)[i] = c[i]
         /\ Append(c, e)[Len(c) + 1] = e
<1>1. Len(c) \in Nat /\ c \in Seq(Blocks)
  BY ChainProperties DEF Chains
<1>2. Append(c, e) \in Seq(Blocks) /\ Len(Append(c, e)) = Len(c) + 1
  BY <1>1
<1>3. \A i \in 1..Len(c) : Append(c, e)[i] = c[i]
  BY <1>1
<1>4. Append(c, e)[Len(c) + 1] = e
  BY <1>1
<1> QED
  BY <1>2, <1>3, <1>4 DEF Chains

\* The numbers are the blocks of others.
LEMMA ForeignNumber ==
  /\ Own \subseteq Blocks
  /\ \A h \in Blocks : h \notin Own => h \in 1..MaxForeign
  /\ \A n \in 1..MaxForeign : n \in Blocks /\ n \notin Own
  /\ NoHash \notin Blocks
  /\ MaxForeign \in Nat
<1>1. MaxForeign \in Nat /\ \A n \in 1..MaxForeign : n \in Nat
  BY BoundsNat
<1>2. 0 \notin Own /\ 0 \notin 1..MaxForeign
  BY ForeignBlocks
<1> QED
  BY <1>1, <1>2, ForeignBlocks DEF NoHash

\* n blocks of others on top of a chain.
LEMMA ChainGrows ==
  ASSUME NEW c \in Chains, NEW m \in Nat, NEW n \in Nat, m + n <= MaxForeign
  PROVE  LET d == c \o [i \in 1..n |-> m + i]
         IN  /\ d \in Chains
             /\ Len(d) = Len(c) + n
             /\ \A i \in 1..Len(c) : d[i] = c[i]
             /\ \A i \in 1..n : d[Len(c) + i] = m + i
<1> DEFINE filler == [i \in 1..n |-> m + i]
           d == c \o filler
<1>1. \A i \in 1..n : m + i \in Blocks
  BY ForeignNumber
<1>2. filler \in Seq(Blocks) /\ Len(filler) = n /\ \A i \in 1..n : filler[i] = m + i
  BY <1>1
<1>3. Len(c) \in Nat /\ c \in Seq(Blocks)
  BY ChainProperties DEF Chains
<1> HIDE DEF filler
<1>4. /\ d \in Seq(Blocks)
      /\ Len(d) = Len(c) + n
      /\ \A i \in 1..(Len(c) + n) : d[i] = IF i <= Len(c) THEN c[i] ELSE filler[i - Len(c)]
  BY <1>2, <1>3, ConcatProperties
<1> HIDE DEF d
<1>5. \A i \in 1..Len(c) : d[i] = c[i]
  BY <1>3, <1>4
<1>6. ASSUME NEW i \in 1..n
      PROVE  d[Len(c) + i] = m + i
  <2>1. /\ Len(c) + i \in 1..(Len(c) + n) /\ ~(Len(c) + i <= Len(c))
        /\ (Len(c) + i) - Len(c) = i
    BY <1>3
  <2> QED
    BY <1>2, <1>4, <2>1
<1> QED
  BY <1>4, <1>5, <1>6 DEF Chains, d, filler

-----------------------------------------------------------------------------
(* The inductive invariant.  A block is told from others by its height: what *)
(* makes that right is that every block has one height in every chain the  *)
(* pool or the node still holds.                                           *)

Known == \A b \in Own : sub[b] = "idle" <=> node[b] = "none"

\* The block exists.
Found(h) == IF h \in Own THEN sub[h] # "idle" ELSE h <= mined

Held ==
  jobs \cup {main} \cup {prev[b] : b \in Own} \cup ({fetched[t] : t \in Tasks} \ {NoTemplate})

\* The blocks of c are at the heights at, and those of the pool were accepted.
Placed(at, c) ==
  \A i \in 1..Len(c) :
    /\ at[c[i]] = i
    /\ Found(c[i])
    /\ c[i] \in Own => node[c[i]] = "accepted"

Recorded(at, h) == Found(h) /\ height[h] = at[h] /\ at[h] >= 1

Orders(at) ==
  /\ \A c \in Held : Placed(at, c)
  /\ \A b \in Own : sub[b] # "idle" => at[b] = Height(b)
  /\ \A h \in Blocks : db.status[h] # "none" => Recorded(at, h)

Ordered == \E at \in [Blocks -> Nat] : Orders(at)

Behind ==
  /\ Len(job) <= Len(main)
  /\ \A t \in Tasks : fetched[t] # NoTemplate => Len(fetched[t]) <= Len(main)

Trying ==
  \A b \in Own :
    sub[b] \in {"idle", "submitting", "checking", "hashing"} => tries[b] < Attempts

\* A coroutine holds a template only while it refreshes.
Refreshing == \A b \in Own : fetched[b] # NoTemplate => sub[b] = "refreshing"

\* Beyond the reach of a reorganisation.
Deep(h) == height[h] + MaxReorg <= Len(main)

\* No template is applied while the maturity task waits for a header.
Timely == "slow_answer" \notin Faults

\* The header that the maturity task holds is of a recorded block and, without
\* slow answers, still the chain's wherever the templates have the height
\* beyond the reach of a reorganisation.
Fresh ==
  asked # NoAnswer =>
    /\ db.status[asked[1]] # "none"
    /\ asked[2] = NoHash => "empty_hash" \in Faults
    /\ Timely /\ asked[2] # NoHash /\ height[asked[1]] + MaxReorg <= Len(job)
         => main[height[asked[1]]] = asked[2]

SettledDeep ==
  Timely =>
    \A h \in Blocks :
      /\ db.status[h] = "orphaned" => Deep(h) /\ main[height[h]] # h
      /\ db.status[h] = "matured" /\ "empty_hash" \notin Faults
           => Deep(h) /\ main[height[h]] = h

IInv ==
  /\ TypeOK
  /\ Known
  /\ Ordered
  /\ Behind
  /\ Trying
  /\ Refreshing
  /\ Fresh
  /\ SettledDeep

LEMMA AskedTyped ==
  ASSUME TypeOK, asked # NoAnswer
  PROVE  /\ asked[1] \in Blocks
         /\ asked[2] \in Blocks \cup {NoHash}
         /\ asked = <<asked[1], asked[2]>>
BY DEF TypeOK

LEMMA FreshKept ==
  ASSUME IInv, UNCHANGED <<db, height, main, job, asked>>
  PROVE  Fresh'
BY DEF IInv, Fresh

LEMMA HeightNat ==
  ASSUME TypeOK, NEW b \in Own
  PROVE  Height(b) \in Nat /\ Height(b) >= 1
BY ChainProperties DEF TypeOK, Height

LEMMA LengthsNat ==
  ASSUME TypeOK
  PROVE  Len(main) \in Nat /\ Len(job) \in Nat /\ mined \in Nat
BY ChainProperties, BoundsNat DEF TypeOK

LEMMA InitIInv == Init => IInv
<1> SUFFICES ASSUME Init PROVE IInv
  OBVIOUS
<1>1. << >> \in Chains /\ Len(<< >>) = 0
  BY DEF Chains
<1>2. \A h \in Blocks : EmptyLedger.status[h] = "none"
  BY DEF EmptyLedger
<1>3. TypeOK
  <2>1. db \in Ledger
    BY EmptyLedgerType DEF Init
  <2>2. tries \in [Own -> 0..Attempts] /\ Attempts \in Nat
    BY AttemptsPositive DEF Init
  <2>3. /\ fetched \in [Tasks -> Chains \cup {NoTemplate}]
        /\ prev \in [Own -> Chains]
        /\ {main, job} \cup jobs \subseteq Chains
    BY <1>1 DEF Init
  <2>4. sub \in [Own -> SubStates] /\ node \in [Own -> NodeStates]
    BY DEF Init, SubStates, NodeStates
  <2>5. <<mined, reorgs, crashes>> \in (0..MaxForeign) \X (0..MaxReorgs) \X (0..MaxCrashes)
    BY BoundsNat DEF Init
  <2>6. height \in [Blocks -> Nat]
    BY DEF Init
  <2>7. asked = NoAnswer
    BY DEF Init
  <2> QED
    BY <2>1, <2>2, <2>3, <2>4, <2>5, <2>6, <2>7 DEF TypeOK
<1>4. Known /\ Behind /\ Trying /\ Refreshing /\ Fresh
  BY <1>1, AttemptsPositive DEF Init, Known, Behind, Trying, Refreshing, Fresh, Tasks
<1>5. Ordered
  <2>1. \A c \in Held : c = << >>
    BY DEF Init, Held
  <2>2. Orders(height)
    BY <1>1, <1>2, <2>1 DEF Init, Orders, Placed
  <2> QED
    BY <1>3, <2>2 DEF Ordered, TypeOK
<1>6. SettledDeep
  BY <1>2 DEF Init, SettledDeep
<1> QED
  BY <1>3, <1>4, <1>5, <1>6 DEF IInv

-----------------------------------------------------------------------------
(* The steps that leave the books and the chain alone.                     *)

\* What a step may do to the coroutines and to the node's records.
Onwards ==
  \A b \in Own :
    /\ sub'[b] = "idle" <=> sub[b] = "idle"
    /\ node'[b] = "none" <=> node[b] = "none"
    /\ node[b] = "accepted" => node'[b] = "accepted"

LEMMA PlacedKept ==
  ASSUME Onwards, TypeOK, TypeOK', mined <= mined', NEW at, NEW c \in Chains, Placed(at, c)
  PROVE  Placed(at, c)'
<1>1. \A h \in Blocks : Found(h) => Found(h)'
  BY LengthsNat, ForeignNumber DEF Onwards, Found, TypeOK
<1> QED
  BY <1>1, ChainProperties DEF Placed, Onwards

LEMMA HeldChains ==
  ASSUME TypeOK
  PROVE  Held \subseteq Chains
BY DEF TypeOK, Held

LEMMA QuietKeeps ==
  ASSUME IInv, TypeOK', Onwards, Trying', Refreshing', Fresh',
         UNCHANGED <<books, main, mined, prev>>,
         job' \in {job, main} \cup ({fetched[t] : t \in Tasks} \ {NoTemplate}),
         jobs' \subseteq Held,
         \A t \in Tasks : fetched'[t] \in {fetched[t], NoTemplate, main}
  PROVE  IInv'
<1>1. TypeOK /\ Known /\ Behind /\ SettledDeep
  BY DEF IInv
<1>2. PICK at \in [Blocks -> Nat] : Orders(at)
  BY DEF IInv, Ordered
<1>3. Held' \subseteq Held
  BY DEF Held
<1>4. \A c \in Held' : Placed(at, c)'
  BY <1>1, <1>2, <1>3, HeldChains, PlacedKept, LengthsNat DEF Orders
<1>5. \A b \in Own : sub'[b] # "idle" => at[b] = Height(b)'
  BY <1>2 DEF Orders, Onwards, Height
<1>6. \A h \in Blocks : Found(h)' <=> Found(h)
  BY DEF Found, Onwards
<1>7. \A h \in Blocks : db'.status[h] # "none" => Recorded(at, h)'
  BY <1>2, <1>6 DEF Orders, Recorded, books
<1>8. Ordered'
  BY <1>2, <1>4, <1>5, <1>7 DEF Ordered, Orders
<1>9. Known'
  BY <1>1 DEF Known, Onwards
<1>10. Behind'
  <2>1. Len(main) <= Len(main)
    BY <1>1, LengthsNat
  <2> QED
    BY <1>1, <2>1 DEF Behind
<1>11. SettledDeep'
  BY <1>1 DEF SettledDeep, Deep, books
<1> QED
  BY <1>8, <1>9, <1>10, <1>11 DEF IInv

\* A coroutine goes from one state to another, and so may what the node made
\* of its block.
LEMMA GoesKeeps ==
  ASSUME IInv, NEW b \in Own, NEW s \in SubStates \ {"idle"}, Goes(b, s), sub[b] # "idle",
         sub[b] = "refreshing" => fetched[b] = NoTemplate,
         UNCHANGED books, Trying', tries' \in [Own -> 0..Attempts],
         UNCHANGED node \/ (/\ node[b] = "queued"
                            /\ node' = [node EXCEPT ![b] = "refused"])
  PROVE  IInv'
<1>1. TypeOK
  BY DEF IInv
<1>2. /\ sub' = [sub EXCEPT ![b] = s]
      /\ UNCHANGED <<main, mined, reorgs, job, jobs, fetched, prev, asked, crashes, db,
                     height>>
  BY DEF Goes, chain, template, books
<1>3. sub' \in [Own -> SubStates] /\ node' \in [Own -> NodeStates]
  BY <1>1, <1>2 DEF TypeOK, NodeStates
<1>4. TypeOK'
  BY <1>1, <1>2, <1>3 DEF TypeOK
<1>5. Onwards
  BY <1>1, <1>2 DEF Onwards, TypeOK
<1>6. jobs' \subseteq Held
  BY <1>2 DEF Held
<1>7. Refreshing'
  BY <1>1, <1>2 DEF IInv, Refreshing, TypeOK
<1>8. Fresh'
  BY <1>2, FreshKept
<1> QED
  BY <1>2, <1>4, <1>5, <1>6, <1>7, <1>8, QuietKeeps DEF books

LEMMA SubmissionKeeps ==
  ASSUME IInv, NEW b \in Own,
         \/ SubmitReturns(b) \/ SubmitFails(b) \/ SubmitTimesOut(b) \/ CheckFails(b)
         \/ HashMissing(b) \/ RefreshFails(b)
  PROVE  IInv'
<1>1. TypeOK /\ Trying
  BY DEF IInv
<1>2. {"hashing", "lost", "checking", "skipped", "done"} \subseteq SubStates \ {"idle"}
  BY DEF SubStates, Submitting
<1>3. ASSUME NEW s \in SubStates \ {"idle"}, Goes(b, s),
             sub[b] \in {"submitting", "checking"} \/ s \in {"lost", "done", "skipped"},
             UNCHANGED tries
      PROVE  Trying' /\ tries' \in [Own -> 0..Attempts]
  BY <1>1, <1>3 DEF Trying, Goes, TypeOK
<1>4. CASE SubmitReturns(b)
  <2>1. \E s \in {"hashing", "lost"} : Goes(b, s)
    BY <1>4 DEF SubmitReturns
  <2> QED
    BY <1>2, <1>3, <1>4, <2>1, GoesKeeps DEF SubmitReturns
<1>5. CASE SubmitFails(b)
  <2>1. UNCHANGED node \/ (node[b] = "queued" /\ node' = [node EXCEPT ![b] = "refused"])
    BY <1>5 DEF SubmitFails
  <2> QED
    BY <1>2, <1>3, <1>5, <2>1, GoesKeeps DEF SubmitFails
<1>6. CASE SubmitTimesOut(b)
  BY <1>2, <1>3, <1>6, GoesKeeps DEF SubmitTimesOut
<1>7. CASE CheckFails(b)
  BY <1>2, <1>3, <1>7, GoesKeeps DEF CheckFails
<1>8. CASE HashMissing(b)
  <2> DEFINE s == IF tries[b] + 1 < Attempts THEN "hashing" ELSE "skipped"
  <2>1. /\ sub[b] = "hashing" /\ Goes(b, s) /\ s \in SubStates \ {"idle"}
        /\ tries' = [tries EXCEPT ![b] = tries[b] + 1]
        /\ UNCHANGED <<books, node>>
    BY <1>2, <1>8 DEF HashMissing
  <2>2. tries[b] \in Nat /\ tries[b] < Attempts /\ Attempts \in Nat
    BY <1>1, <2>1, AttemptsPositive DEF Trying, TypeOK
  <2>3. tries' \in [Own -> 0..Attempts]
    BY <1>1, <2>1, <2>2 DEF TypeOK
  <2>4. sub' = [sub EXCEPT ![b] = s]
    BY <2>1 DEF Goes
  <2>5. Trying'
    BY <1>1, <2>1, <2>2, <2>4 DEF Trying, TypeOK
  <2> QED
    BY <2>1, <2>3, <2>5, GoesKeeps
<1>9. CASE RefreshFails(b)
  BY <1>2, <1>3, <1>9, GoesKeeps DEF RefreshFails
<1> QED
  BY <1>4, <1>5, <1>6, <1>7, <1>8, <1>9

LEMMA FetchKeeps ==
  ASSUME IInv, NEW t \in Tasks, Fetch(t)
  PROVE  IInv'
<1>1. TypeOK /\ Trying
  BY DEF IInv
<1>2. /\ fetched' = [fetched EXCEPT ![t] = main]
      /\ UNCHANGED <<books, db, height, main, mined, reorgs, job, jobs, prev, sub, tries,
                     node, asked, crashes>>
  BY DEF Fetch, chain, submission, books
<1>3. TypeOK'
  BY <1>1, <1>2 DEF TypeOK
<1>4. Onwards /\ Trying'
  BY <1>1, <1>2 DEF Onwards, Trying
<1>5. Refreshing'
  BY <1>1, <1>2, PollerApart DEF IInv, Refreshing, TypeOK, Fetch, Fetching
<1>6. \A u \in Tasks : fetched'[u] \in {fetched[u], NoTemplate, main}
  BY <1>1, <1>2 DEF TypeOK
<1>7. jobs' \subseteq Held
  BY <1>2 DEF Held
<1>8. Fresh'
  BY <1>2, FreshKept
<1> QED
  BY <1>2, <1>3, <1>4, <1>5, <1>6, <1>7, <1>8, QuietKeeps

LEMMA IngestKeeps ==
  ASSUME IInv, NEW t \in Tasks, Ingest(t)
  PROVE  IInv'
<1>1. TypeOK /\ Trying
  BY DEF IInv
<1>2. /\ fetched[t] # NoTemplate
      /\ fetched' = [fetched EXCEPT ![t] = NoTemplate]
      /\ job' \in {job, fetched[t]} /\ jobs' \subseteq jobs \cup {fetched[t]}
      /\ sub' = IF t = Poller THEN sub ELSE [sub EXCEPT ![t] = "done"]
      /\ UNCHANGED <<books, db, height, main, mined, reorgs, prev, tries, node, asked,
                     crashes>>
  BY DEF Ingest, EndRefresh, chain, books
<1>3. t \in Own => sub[t] = "refreshing"
  BY <1>2 DEF IInv, Refreshing
<1>4. sub' \in [Own -> SubStates]
  BY <1>1, <1>2 DEF TypeOK, SubStates
<1>5. TypeOK'
  <2>1. fetched[t] \in Chains
    BY <1>1, <1>2 DEF TypeOK
  <2>2. fetched' \in [Tasks -> Chains \cup {NoTemplate}]
    BY <1>1, <1>2 DEF TypeOK
  <2>3. {main', job'} \cup jobs' \subseteq Chains
    BY <1>1, <1>2, <2>1 DEF TypeOK
  <2> QED
    BY <1>1, <1>2, <1>4, <2>2, <2>3 DEF TypeOK
<1>6. \A b \in Own : sub'[b] = IF b = t THEN "done" ELSE sub[b]
  BY <1>1, <1>2, PollerApart DEF TypeOK
<1>7. Onwards /\ Trying'
  BY <1>1, <1>2, <1>3, <1>6 DEF Onwards, Trying
<1>8. \A u \in Tasks : fetched'[u] = IF u = t THEN NoTemplate ELSE fetched[u]
  BY <1>1, <1>2 DEF TypeOK
<1>9. Refreshing'
  BY <1>6, <1>8 DEF IInv, Refreshing, Tasks
<1>10. fetched[t] \in Held /\ jobs' \subseteq Held
  BY <1>2 DEF Held
<1>11. job' \in {job, main} \cup ({fetched[u] : u \in Tasks} \ {NoTemplate})
  BY <1>2
<1>12. asked = NoAnswer \/ ~Timely
  BY DEF Ingest, Timely
<1>13. Fresh'
  BY <1>2, <1>12 DEF IInv, Fresh
<1> QED
  BY <1>2, <1>5, <1>7, <1>8, <1>9, <1>10, <1>11, <1>13, QuietKeeps

LEMMA CrashKeeps ==
  ASSUME IInv, Crash
  PROVE  IInv'
<1>1. TypeOK /\ Trying
  BY DEF IInv
<1>2. /\ crashes < MaxCrashes /\ crashes' = crashes + 1
      /\ sub' = [b \in Own |-> IF sub[b] \in Submitting THEN "dead" ELSE sub[b]]
      /\ fetched' = [t \in Tasks |-> NoTemplate]
      /\ job' = main /\ jobs' = {main} /\ asked' = NoAnswer
      /\ UNCHANGED <<books, db, height, main, mined, reorgs, prev, tries, node>>
  BY DEF Crash, chain, books
<1>3. TypeOK'
  <2>1. sub' \in [Own -> SubStates]
    BY <1>1, <1>2 DEF TypeOK, SubStates
  <2>2. fetched' \in [Tasks -> Chains \cup {NoTemplate}]
    BY <1>2
  <2>3. <<mined', reorgs', crashes'>> \in (0..MaxForeign) \X (0..MaxReorgs) \X (0..MaxCrashes)
    BY <1>1, <1>2, BoundsNat DEF TypeOK
  <2>4. {main', job'} \cup jobs' \subseteq Chains
    BY <1>1, <1>2 DEF TypeOK
  <2> QED
    BY <1>1, <1>2, <2>1, <2>2, <2>3, <2>4 DEF TypeOK
<1>4. Onwards /\ Trying' /\ Refreshing'
  BY <1>1, <1>2 DEF Onwards, Trying, Refreshing, Submitting, Tasks
<1>5. jobs' \subseteq Held
  BY <1>2 DEF Held
<1>6. \A t \in Tasks : fetched'[t] = NoTemplate
  BY <1>2
<1>7. Fresh'
  BY <1>2 DEF Fresh
<1> QED
  BY <1>2, <1>3, <1>4, <1>5, <1>6, <1>7, QuietKeeps

\* The answer is the chain's at the moment it is given.
LEMMA AskKeeps ==
  ASSUME IInv, NEW h \in Blocks, Ask(h)
  PROVE  IInv'
<1>1. TypeOK /\ Trying /\ Refreshing
  BY DEF IInv
<1>2. PICK at \in [Blocks -> Nat] : Orders(at)
  BY DEF IInv, Ordered
<1>3. PICK hash : /\ asked' = <<h, hash>>
                  /\ hash = main[height[h]] \/ ("empty_hash" \in Faults /\ hash = NoHash)
  BY DEF Ask
<1>4. /\ db.status[h] = "immature" /\ height[h] <= Len(main)
      /\ UNCHANGED <<books, db, height, main, mined, reorgs, job, jobs, fetched, prev, sub,
                     tries, node, crashes>>
  BY DEF Ask, books, chain, template, submission
<1>5. height[h] >= 1 /\ height[h] \in Nat
  BY <1>1, <1>2, <1>4 DEF Orders, Recorded, TypeOK
<1>6. main[height[h]] \in Blocks
  BY <1>1, <1>4, <1>5, ChainProperties DEF TypeOK
<1>7. TypeOK'
  BY <1>1, <1>3, <1>4, <1>6 DEF TypeOK
<1>8. Onwards /\ Trying' /\ Refreshing' /\ jobs' \subseteq Held
  BY <1>1, <1>4 DEF Onwards, Trying, Refreshing, Held
<1>9. Fresh'
  BY <1>3, <1>4, <1>6, ForeignNumber DEF Fresh
<1> QED
  BY <1>4, <1>7, <1>8, <1>9, QuietKeeps

-----------------------------------------------------------------------------
(* The books.                                                              *)

\* A block is credited under the hash at its height, whose place it is.
LEMMA CreditKeeps ==
  ASSUME IInv, NEW b \in Own, sub[b] \in {"checking", "hashing"}, Height(b) <= Len(main),
         Credit(b)
  PROVE  IInv'
<1>1. TypeOK /\ Known /\ Behind /\ Trying /\ Refreshing /\ SettledDeep
  BY DEF IInv
<1>2. PICK at \in [Blocks -> Nat] : Orders(at)
  BY DEF IInv, Ordered
<1> DEFINE h == main[Height(b)]
<1>3. /\ db' = CreditBlock(db, h, Credits[b])
      /\ height' = [height EXCEPT ![h] = Height(b)]
      /\ sub' = [sub EXCEPT ![b] = "refreshing"]
      /\ UNCHANGED <<main, mined, reorgs, job, jobs, fetched, prev, asked, crashes, tries,
                     node>>
  BY DEF Credit, Goes, chain, template
<1>4. Height(b) \in Nat /\ Height(b) >= 1 /\ main \in Chains /\ Len(main) \in Nat
  BY <1>1, HeightNat, LengthsNat DEF TypeOK
<1>5. Height(b) \in 1..Len(main) /\ h \in Blocks
  BY <1>4, ChainProperties
<1>6. at[h] = Height(b) /\ Found(h)
  BY <1>2, <1>5 DEF Orders, Held, Placed
<1> HIDE DEF h
<1>7. Credits[b] \in [Miners -> Nat]
  BY CreditsNat
<1>8. /\ db' \in Ledger
      /\ \A x \in Blocks :
           \/ db'.status[x] = db.status[x]
           \/ x = h /\ db'.status[x] = "immature"
  <2>1. db \in Ledger
    BY <1>1 DEF TypeOK
  <2>2. /\ db' \in Ledger
        /\ db.status[h] # "none" => db' = db
        /\ db.status[h] = "none" =>
             /\ db'.status[h] = "immature"
             /\ \A x \in Blocks \ {h} : db'.status[x] = db.status[x]
    BY <1>3, <1>5, <1>7, <2>1, CreditBlockDoes
  <2> QED
    BY <2>2
<1>9. \A x \in Blocks : height'[x] = IF x = h THEN Height(b) ELSE height[x]
  BY <1>1, <1>3, <1>5 DEF TypeOK
<1>10. TypeOK'
  <2>1. height' \in [Blocks -> Nat]
    BY <1>1, <1>3, <1>4, <1>5 DEF TypeOK
  <2>2. sub' \in [Own -> SubStates]
    BY <1>1, <1>3 DEF TypeOK, SubStates, Submitting
  <2> QED
    BY <1>1, <1>3, <1>8, <2>1, <2>2 DEF TypeOK
<1>11. \A o \in Own : sub'[o] = IF o = b THEN "refreshing" ELSE sub[o]
  BY <1>1, <1>3 DEF TypeOK
<1>12. Onwards
  BY <1>3, <1>11 DEF Onwards
<1>13. Known' /\ Behind' /\ Trying' /\ Refreshing'
  <2>1. Known' /\ Behind'
    BY <1>1, <1>3, <1>11 DEF Known, Behind
  <2>2. Trying' /\ Refreshing'
    BY <1>1, <1>3, <1>11 DEF Trying, Refreshing
  <2> QED
    BY <2>1, <2>2
<1>14. \A x \in Blocks : Found(x)' <=> Found(x)
  BY <1>3, <1>11 DEF Found
<1>15. \A x \in Blocks : db'.status[x] # "none" => Recorded(at, x)'
  BY <1>2, <1>4, <1>6, <1>8, <1>9, <1>14 DEF Orders, Recorded
<1>16. \A c \in Held' : Placed(at, c)'
  <2>1. Held' = Held /\ mined <= mined'
    BY <1>1, <1>3, LengthsNat DEF Held
  <2> QED
    BY <1>1, <1>2, <1>10, <1>12, <2>1, HeldChains, PlacedKept DEF Orders
<1>17. Ordered'
  <2>1. \A o \in Own : sub'[o] # "idle" => at[o] = Height(o)'
    BY <1>2, <1>3, <1>12 DEF Orders, Onwards, Height
  <2> QED
    BY <1>2, <1>15, <1>16, <2>1 DEF Ordered, Orders
<1>18. SettledDeep'
  <2>1. ASSUME NEW x \in Blocks, db'.status[x] \in {"orphaned", "matured"}
        PROVE  db'.status[x] = db.status[x] /\ height'[x] = height[x]
    <3>1. db'.status[x] = db.status[x]
      BY <1>8, <2>1
    <3>2. height[x] = at[x]
      BY <1>2, <2>1, <3>1 DEF Orders, Recorded
    <3> QED
      BY <1>6, <1>9, <3>1, <3>2
  <2> QED
    BY <1>1, <1>3, <2>1 DEF SettledDeep, Deep
<1>19. Fresh'
  <2> SUFFICES ASSUME asked # NoAnswer PROVE Fresh'
    BY <1>3 DEF Fresh
  <2>1. asked[1] \in Blocks /\ db.status[asked[1]] # "none"
    BY <1>1, AskedTyped DEF IInv, Fresh
  <2>2. db'.status[asked[1]] # "none"
    BY <1>8, <2>1
  <2>3. height'[asked[1]] = height[asked[1]]
    BY <1>2, <1>6, <1>9, <2>1 DEF Orders, Recorded
  <2> QED
    BY <1>3, <2>2, <2>3 DEF IInv, Fresh
<1> QED
  BY <1>10, <1>13, <1>17, <1>18, <1>19 DEF IInv

\* What a verdict does to the status of the blocks.
LEMMA VerdictStatus ==
  ASSUME TypeOK, NEW h \in Blocks, NEW hash
  PROVE  /\ Verdict(h, hash) \in Ledger
         /\ \A x \in Blocks :
              LET old == db.status[x]
                  new == Verdict(h, hash).status[x]
              IN  \/ new = old
                  \/ /\ x = h /\ new = "orphaned" /\ old = "immature"
                     /\ hash \notin {h, NoHash} /\ Depth(h) >= Tolerance
                  \/ /\ x = h /\ new = "matured" /\ old = "immature"
                     /\ hash \in {h, NoHash} /\ Depth(h) >= Maturity
<1>1. db \in Ledger
  BY DEF TypeOK
<1>2. CASE hash \notin {h, NoHash} /\ Depth(h) >= Tolerance
  <2>1. Verdict(h, hash) = OrphanBlock(db, h)
    BY <1>2 DEF Verdict
  <2> QED
    BY <1>1, <1>2, <2>1, OrphanBlockDoes
<1>3. CASE hash \in {h, NoHash} /\ Depth(h) >= Maturity
  <2>1. Verdict(h, hash) = MatureBlock(db, h)
    BY <1>3 DEF Verdict
  <2> QED
    BY <1>1, <1>3, <2>1, MatureBlockDoes
<1>4. CASE /\ ~(hash \notin {h, NoHash} /\ Depth(h) >= Tolerance)
           /\ ~(hash \in {h, NoHash} /\ Depth(h) >= Maturity)
  BY <1>1, <1>4 DEF Verdict
<1> QED
  BY <1>2, <1>3, <1>4

LEMMA SettleKeeps ==
  ASSUME IInv, Settle
  PROVE  IInv'
<1>1. TypeOK /\ Known /\ Behind /\ Trying /\ Refreshing /\ SettledDeep
  BY DEF IInv
<1>2. PICK at \in [Blocks -> Nat] : Orders(at)
  BY DEF IInv, Ordered
<1>3. PICK h \in Blocks, hash \in Blocks \cup {NoHash} : asked = <<h, hash>>
  BY <1>1, AskedTyped DEF Settle
<1>4. /\ db' = Verdict(h, hash) /\ asked' = NoAnswer
      /\ UNCHANGED <<height, main, mined, reorgs, job, jobs, fetched, prev, sub, tries, node,
                     crashes>>
  BY <1>3 DEF Settle, chain, template, submission
<1>5. /\ db.status[h] # "none"
      /\ hash = NoHash => "empty_hash" \in Faults
      /\ Timely /\ hash # NoHash /\ height[h] + MaxReorg <= Len(job) => main[height[h]] = hash
  BY <1>3 DEF IInv, Fresh, NoAnswer
<1>6. main \in Chains /\ Len(main) \in Nat /\ Len(job) \in Nat /\ Len(job) <= Len(main)
  BY <1>1, LengthsNat DEF TypeOK, Behind
<1>7. height[h] >= 1 /\ height[h] \in Nat
  BY <1>1, <1>2, <1>5 DEF Orders, Recorded, TypeOK
<1>8. TypeOK'
  BY <1>1, <1>4, VerdictStatus DEF TypeOK
<1>9. Known' /\ Behind' /\ Trying' /\ Refreshing' /\ Fresh'
  BY <1>1, <1>4 DEF Known, Behind, Trying, Refreshing, Fresh
<1>10. \A x \in Blocks :
         \/ db'.status[x] = db.status[x]
         \/ /\ x = h /\ db'.status[x] = "orphaned"
            /\ hash \notin {h, NoHash} /\ Depth(h) >= Tolerance
         \/ /\ x = h /\ db'.status[x] = "matured"
            /\ hash \in {h, NoHash} /\ Depth(h) >= Maturity
  BY <1>1, <1>4, VerdictStatus
<1>11. Ordered'
  <2>1. Onwards /\ mined <= mined' /\ Held' = Held
    BY <1>1, <1>4, LengthsNat DEF Onwards, Held
  <2>2. \A c \in Held' : Placed(at, c)'
    BY <1>1, <1>2, <1>8, <2>1, HeldChains, PlacedKept DEF Orders
  <2>3. \A b \in Own : sub'[b] # "idle" => at[b] = Height(b)'
    BY <1>2, <1>4 DEF Orders, Height
  <2>4. \A x \in Blocks : db'.status[x] # "none" => db.status[x] # "none"
    BY <1>5, <1>10
  <2>5. \A x \in Blocks : Recorded(at, x)' <=> Recorded(at, x)
    BY <1>4 DEF Recorded, Found
  <2> QED
    BY <1>2, <2>2, <2>3, <2>4, <2>5 DEF Ordered, Orders
<1>12. SettledDeep'
  <2> SUFFICES ASSUME Timely
               PROVE  \A x \in Blocks :
                        /\ db'.status[x] = "orphaned" => Deep(x)' /\ main'[height'[x]] # x
                        /\ db'.status[x] = "matured" /\ "empty_hash" \notin Faults
                             => Deep(x)' /\ main'[height'[x]] = x
    BY DEF SettledDeep
  <2>1. Depth(h) > MaxReorg => Deep(h) /\ height[h] + MaxReorg <= Len(job)
    BY <1>6, <1>7, DepthsNat DEF Depth, Deep
  <2>2. CASE /\ hash \notin {h, NoHash} /\ Depth(h) >= Tolerance
    <3>1. hash = main[height[h]] /\ Deep(h)
      BY <1>5, <1>6, <1>7, <2>1, <2>2, DepthsNat, ReorgsShallow DEF Depth
    <3>2. \A x \in Blocks :
             db'.status[x] = db.status[x] \/ (x = h /\ db'.status[x] = "orphaned")
      BY <1>10, <2>2
    <3> QED
      BY <1>1, <1>4, <2>2, <3>1, <3>2 DEF SettledDeep, Deep
  <2>3. CASE /\ hash \in {h, NoHash} /\ Depth(h) >= Maturity
    <3>1. Deep(h) /\ height[h] + MaxReorg <= Len(job)
      BY <1>6, <1>7, <2>1, <2>3, DepthsNat, ReorgsShallow DEF Depth
    <3>2. "empty_hash" \notin Faults => main[height[h]] = h
      BY <1>5, <2>3, <3>1, ForeignNumber
    <3>3. \A x \in Blocks :
             db'.status[x] = db.status[x] \/ (x = h /\ db'.status[x] = "matured")
      BY <1>10, <2>3
    <3> QED
      BY <1>1, <1>4, <3>1, <3>2, <3>3 DEF SettledDeep, Deep
  <2>4. CASE \A x \in Blocks : db'.status[x] = db.status[x]
    BY <1>1, <1>4, <2>4 DEF SettledDeep, Deep
  <2> QED
    BY <1>10, <2>2, <2>3, <2>4
<1> QED
  BY <1>8, <1>9, <1>11, <1>12 DEF IInv

-----------------------------------------------------------------------------
(* The chain.                                                              *)

\* A solve gives its block a height, which is on no chain yet.
LEMMA SolveKeeps ==
  ASSUME IInv, NEW b \in Own, Solve(b)
  PROVE  IInv'
<1>1. TypeOK /\ Known /\ Behind /\ Trying /\ Refreshing /\ SettledDeep
  BY DEF IInv
<1>2. PICK at \in [Blocks -> Nat] : Orders(at)
  BY DEF IInv, Ordered
<1>3. PICK parent \in jobs : prev' = [prev EXCEPT ![b] = parent]
  BY DEF Solve
<1>4. /\ sub[b] = "idle"
      /\ sub' = [sub EXCEPT ![b] = "submitting"]
      /\ node' = [node EXCEPT ![b] = "queued"]
      /\ UNCHANGED <<db, height, main, mined, reorgs, job, jobs, fetched, tries, asked, crashes>>
  BY DEF Solve, books, chain, template
<1>5. /\ \A o \in Own : sub'[o] = IF o = b THEN "submitting" ELSE sub[o]
      /\ \A o \in Own : node'[o] = IF o = b THEN "queued" ELSE node[o]
      /\ \A o \in Own : prev'[o] = IF o = b THEN parent ELSE prev[o]
      /\ parent \in Chains
  BY <1>1, <1>3, <1>4 DEF TypeOK
<1>6. TypeOK'
  <2>1. sub' \in [Own -> SubStates] /\ node' \in [Own -> NodeStates]
    BY <1>1, <1>4 DEF TypeOK, SubStates, NodeStates, Submitting
  <2>2. prev' \in [Own -> Chains]
    BY <1>1, <1>3, <1>5 DEF TypeOK
  <2> QED
    BY <1>1, <1>4, <2>1, <2>2 DEF TypeOK
<1>7. Known' /\ Behind' /\ Trying' /\ Refreshing'
  <2>1. Known'
    BY <1>1, <1>5 DEF Known
  <2>2. Behind'
    BY <1>1, <1>4 DEF Behind
  <2>3. Trying' /\ Refreshing'
    BY <1>1, <1>4, <1>5 DEF Trying, Refreshing
  <2> QED
    BY <2>1, <2>2, <2>3
<1>8. SettledDeep'
  BY <1>1, <1>4 DEF SettledDeep, Deep
<1>9. ~Found(b) /\ b \in Blocks
  BY <1>4, ForeignNumber DEF Found
<1> DEFINE new == [at EXCEPT ![b] = Len(parent) + 1]
<1>10. new \in [Blocks -> Nat] /\ \A x \in Blocks : new[x] = IF x = b THEN Len(parent) + 1
                                                             ELSE at[x]
  BY <1>5, <1>9, ChainProperties
<1> HIDE DEF new
<1>11. \A x \in Blocks : Found(x) => x # b /\ Found(x)'
  BY <1>4, <1>5, <1>9 DEF Found
<1>12. ASSUME NEW c \in Chains, Placed(at, c)
       PROVE  Placed(new, c)'
  BY <1>5, <1>10, <1>11, <1>12, ChainProperties DEF Placed
<1>13. \A c \in Held' : Placed(new, c)'
  <2>1. Held' \subseteq Held
    BY <1>3, <1>4, <1>5 DEF Held
  <2> QED
    BY <1>1, <1>2, <1>12, <2>1, HeldChains DEF Orders
<1>14. \A o \in Own : sub'[o] # "idle" => new[o] = Height(o)'
  BY <1>2, <1>5, <1>10, ForeignNumber DEF Orders, Height
<1>15. \A x \in Blocks : db'.status[x] # "none" => Recorded(new, x)'
  BY <1>2, <1>4, <1>10, <1>11 DEF Orders, Recorded
<1>16. Ordered'
  BY <1>10, <1>13, <1>14, <1>15 DEF Ordered, Orders
<1>17. Fresh'
  BY <1>4, FreshKept
<1> QED
  BY <1>6, <1>7, <1>8, <1>16, <1>17 DEF IInv

\* The chain grows, keeps what is buried, and stays in order.
Advance ==
  /\ Len(main) <= Len(main')
  /\ \A i \in 1..(Len(main) - MaxReorg) : main'[i] = main[i]
  /\ Ordered'

LEMMA AdvanceKeeps ==
  ASSUME IInv, TypeOK', Known', Advance,
         UNCHANGED <<books, template, prev, sub, tries, asked, crashes>>
  PROVE  IInv'
<1>1. TypeOK /\ Behind /\ Trying /\ Refreshing /\ SettledDeep
  BY DEF IInv
<1>2. PICK at \in [Blocks -> Nat] : Orders(at)
  BY DEF IInv, Ordered
<1>3. UNCHANGED <<db, height, job, jobs, fetched, sub, tries>>
  BY DEF books, template
<1>4. /\ Len(main) \in Nat /\ Len(main') \in Nat /\ Len(job) \in Nat /\ MaxReorg \in Nat
      /\ main \in Chains
  BY <1>1, ChainProperties, DepthsNat DEF TypeOK
<1>5. Trying' /\ Refreshing'
  BY <1>1, <1>3 DEF Trying, Refreshing
<1>6. Behind'
  <2>1. Len(job') <= Len(main')
    BY <1>1, <1>3, <1>4 DEF Behind, Advance
  <2>2. ASSUME NEW t \in Tasks, fetched'[t] # NoTemplate
        PROVE  Len(fetched'[t]) <= Len(main')
    <3>1. fetched[t] \in Chains /\ Len(fetched[t]) <= Len(main)
      BY <1>1, <1>3, <2>2 DEF Behind, TypeOK
    <3>2. Len(fetched[t]) \in Nat
      BY <3>1, ChainProperties
    <3> QED
      BY <1>3, <1>4, <3>1, <3>2 DEF Advance
  <2> QED
    BY <2>1, <2>2 DEF Behind
<1>7. Fresh'
  <2> SUFFICES ASSUME asked # NoAnswer
               PROVE  Fresh'
    BY DEF Fresh
  <2>1. /\ asked[1] \in Blocks /\ db.status[asked[1]] # "none"
        /\ height[asked[1]] \in Nat /\ height[asked[1]] >= 1
    BY <1>1, <1>2, AskedTyped DEF IInv, Fresh, Orders, Recorded, TypeOK
  <2>2. height[asked[1]] + MaxReorg <= Len(job) => height[asked[1]] \in 1..(Len(main) - MaxReorg)
    BY <1>1, <1>4, <2>1 DEF Behind
  <2> QED
    BY <1>3, <2>2 DEF IInv, Fresh, Advance
<1>8. SettledDeep'
  <2>1. ASSUME NEW h \in Blocks, db.status[h] # "none", Deep(h)
        PROVE  Deep(h)' /\ main'[height[h]] = main[height[h]]
    <3>1. height[h] \in Nat /\ height[h] >= 1
      BY <1>1, <1>2, <2>1 DEF Orders, Recorded, TypeOK
    <3>2. height[h] \in 1..(Len(main) - MaxReorg)
      BY <1>4, <2>1, <3>1 DEF Deep
    <3> QED
      BY <1>3, <1>4, <2>1, <3>1, <3>2 DEF Advance, Deep
  <2> QED
    BY <1>1, <1>3, <2>1 DEF SettledDeep
<1> QED
  BY <1>5, <1>6, <1>7, <1>8 DEF IInv, Advance

LEMMA ExecuteKeeps ==
  ASSUME IInv, NEW b \in Own, NodeExecutes(b)
  PROVE  IInv'
<1>1. TypeOK /\ Known /\ Trying /\ Refreshing
  BY DEF IInv
<1>2. PICK at \in [Blocks -> Nat] : Orders(at)
  BY DEF IInv, Ordered
<1>3. /\ node[b] = "queued" /\ sub[b] # "idle"
      /\ UNCHANGED <<books, db, height, mined, reorgs, job, jobs, fetched, template, prev, sub,
                     tries, asked, crashes>>
  BY <1>1 DEF NodeExecutes, Known, books, template
<1>4. CASE UNCHANGED main /\ node' = [node EXCEPT ![b] = "rejected"]
  <2>1. TypeOK'
    BY <1>1, <1>3, <1>4 DEF TypeOK, NodeStates
  <2>2. Onwards /\ Trying' /\ Refreshing' /\ jobs' \subseteq Held
    BY <1>1, <1>3, <1>4 DEF Onwards, TypeOK, Trying, Refreshing, Held
  <2>3. Fresh'
    BY <1>3, <1>4, FreshKept
  <2> QED
    BY <1>3, <1>4, <2>1, <2>2, <2>3, QuietKeeps
<1>5. CASE /\ prev[b] = main /\ main' = Append(main, b)
           /\ node' = [node EXCEPT ![b] = "accepted"]
  <2>1. main \in Chains /\ b \in Blocks /\ Len(main) \in Nat
    BY <1>1, ForeignNumber, LengthsNat DEF TypeOK
  <2>2. /\ main' \in Chains
        /\ Len(main') = Len(main) + 1
        /\ \A i \in 1..Len(main) : main'[i] = main[i]
        /\ main'[Len(main) + 1] = b
    BY <1>5, <2>1, ChainAppend
  <2>3. TypeOK'
    BY <1>1, <1>3, <1>5, <2>2 DEF TypeOK, NodeStates
  <2>4. Onwards /\ Known' /\ mined <= mined'
    BY <1>1, <1>3, <1>5, LengthsNat DEF Onwards, TypeOK, Known
  <2>5. \A c \in Held : Placed(at, c)'
    BY <1>1, <1>2, <2>3, <2>4, HeldChains, PlacedKept DEF Orders
  <2>6. at[b] = Len(main) + 1
    BY <1>2, <1>3, <1>5 DEF Orders, Height
  <2>7. Found(b)' /\ node'[b] = "accepted"
    BY <1>1, <1>3, <1>5 DEF Found, TypeOK
  <2>8. PICK c : c = main'
    OBVIOUS
  <2>9. PICK d : d = main
    OBVIOUS
  <2>10. Placed(at, c)'
    <3> SUFFICES ASSUME NEW i \in 1..Len(c)
                 PROVE  /\ at[c[i]] = i
                        /\ Found(c[i])'
                        /\ c[i] \in Own => node'[c[i]] = "accepted"
      BY DEF Placed
    <3>1. CASE i \in 1..Len(d)
      <4>1. Placed(at, d)'
        BY <2>5, <2>9 DEF Held
      <4>2. c[i] = d[i]
        BY <2>2, <2>8, <2>9, <3>1
      <4> QED
        BY <3>1, <4>1, <4>2 DEF Placed
    <3>2. CASE i = Len(d) + 1
      <4>1. c[i] = b
        BY <2>2, <2>8, <2>9, <3>2
      <4>2. at[b] = i
        BY <2>6, <2>9, <3>2
      <4> QED
        BY <2>7, <4>1, <4>2
    <3> QED
      BY <2>1, <2>2, <2>8, <2>9, <3>1, <3>2
  <2>11. Ordered'
    <3>1. Held' \subseteq Held \cup {c}
      BY <1>3, <2>8 DEF Held
    <3>2. \A e \in Held' : Placed(at, e)'
      BY <2>5, <2>10, <3>1
    <3>3. \A o \in Own : sub'[o] # "idle" => at[o] = Height(o)'
      BY <1>2, <1>3 DEF Orders, Height
    <3>4. \A h \in Blocks : db'.status[h] # "none" => Recorded(at, h)'
      BY <1>2, <1>3 DEF Orders, Recorded, Found
    <3> QED
      BY <1>2, <3>2, <3>3, <3>4 DEF Ordered, Orders
  <2>12. Advance
    <3>1. \A i \in 1..(Len(main) - MaxReorg) : i \in 1..Len(main)
      BY <2>1, DepthsNat
    <3> QED
      BY <2>1, <2>2, <2>11, <3>1 DEF Advance
  <2> QED
    BY <1>3, <2>3, <2>4, <2>12, AdvanceKeeps
<1> QED
  BY <1>4, <1>5 DEF NodeExecutes

\* Blocks of others go on top of a chain whose blocks are in order.
LEMMA MineKeeps ==
  ASSUME IInv, NEW c \in Chains, NEW n \in Nat, Mine(c, n), reorgs' \in 0..MaxReorgs,
         \A at \in [Blocks -> Nat] : Orders(at) => Placed(at, c),
         Len(main) <= Len(c) + n,
         \A i \in 1..(Len(main) - MaxReorg) : i \in 1..Len(c) /\ c[i] = main[i]
  PROVE  IInv'
<1>1. TypeOK /\ Known
  BY DEF IInv
<1>2. PICK at \in [Blocks -> Nat] : Orders(at)
  BY DEF IInv, Ordered
<1>3. PICK m : m = mined
  OBVIOUS
<1>4. PICK d : d = main'
  OBVIOUS
<1>5. /\ m + n <= MaxForeign
      /\ mined' = m + n
      /\ d = c \o [i \in 1..n |-> m + i]
      /\ UNCHANGED <<books, db, height, template, job, jobs, fetched, submission, prev, sub,
                     tries, node, asked, crashes>>
  BY <1>3, <1>4 DEF Mine, books, template, submission
<1>6. m \in Nat /\ Len(c) \in Nat /\ Len(main) \in Nat
  BY <1>1, <1>3, LengthsNat, ChainProperties
<1>7. /\ d \in Chains
      /\ Len(d) = Len(c) + n
      /\ \A i \in 1..Len(c) : d[i] = c[i]
      /\ \A i \in 1..n : d[Len(c) + i] = m + i
  BY <1>5, <1>6, ChainGrows
<1>8. TypeOK' /\ Known'
  <2>1. mined' \in 0..MaxForeign
    BY <1>5, <1>6, ForeignNumber
  <2>2. <<mined', reorgs', crashes'>> \in (0..MaxForeign) \X (0..MaxReorgs) \X (0..MaxCrashes)
    BY <1>1, <1>5, <2>1 DEF TypeOK
  <2>3. main' \in Chains
    BY <1>4, <1>7
  <2>4. TypeOK'
    BY <1>1, <1>5, <2>2, <2>3 DEF TypeOK
  <2>5. Known'
    BY <1>1, <1>5 DEF Known
  <2> QED
    BY <2>4, <2>5
<1> DEFINE new == [h \in Blocks |-> IF h \notin Own /\ h > m THEN Len(c) + (h - m) ELSE at[h]]
<1>9. new \in [Blocks -> Nat]
  <2> SUFFICES ASSUME NEW h \in Blocks, h \notin Own, h > m
               PROVE  Len(c) + (h - m) \in Nat
    OBVIOUS
  <2>1. h \in Nat
    BY ForeignNumber
  <2> QED
    BY <1>6, <2>1
<1>10. /\ \A h \in Blocks : Found(h) => new[h] = at[h] /\ Found(h)'
       /\ \A i \in 1..n : m + i \notin Own /\ new[m + i] = Len(c) + i /\ Found(m + i)'
  <2>1. ASSUME NEW h \in Blocks, Found(h)
        PROVE  new[h] = at[h] /\ Found(h)'
    <3>1. CASE h \in Own
      BY <1>5, <2>1, <3>1 DEF Found
    <3>2. CASE h \notin Own
      <4>1. h \in Nat /\ h <= m
        BY <1>3, <2>1, <3>2, ForeignNumber DEF Found
      <4>2. ~(h > m) /\ h <= m + n
        BY <1>6, <4>1
      <4>3. Found(h)'
        BY <1>5, <3>2, <4>2 DEF Found
      <4> QED
        BY <4>2, <4>3
    <3> QED
      BY <3>1, <3>2
  <2>2. ASSUME NEW i \in 1..n
        PROVE  m + i \notin Own /\ new[m + i] = Len(c) + i /\ Found(m + i)'
    <3>1. m + i \in 1..MaxForeign
      BY <1>5, <1>6, ForeignNumber
    <3>2. m + i \in Blocks /\ m + i \notin Own
      BY <3>1, ForeignNumber
    <3>3. m + i > m /\ (m + i) - m = i /\ m + i <= m + n
      BY <1>6
    <3>4. new[m + i] = Len(c) + i
      BY <3>2, <3>3
    <3>5. Found(m + i)'
      BY <1>5, <3>2, <3>3 DEF Found
    <3> QED
      BY <3>2, <3>4, <3>5
  <2> QED
    BY <2>1, <2>2
<1> HIDE DEF new
<1>11. ASSUME NEW e \in Chains, Placed(at, e)
       PROVE  Placed(new, e)'
  BY <1>5, <1>10, <1>11, ChainProperties DEF Placed
<1>12. Placed(new, d)'
  <2>1. Placed(new, c)'
    BY <1>2, <1>11
  <2> SUFFICES ASSUME NEW i \in 1..Len(d)
               PROVE  /\ new[d[i]] = i
                      /\ Found(d[i])'
                      /\ d[i] \in Own => node'[d[i]] = "accepted"
    BY DEF Placed
  <2>2. CASE i \in 1..Len(c)
    <3>1. d[i] = c[i]
      BY <1>7, <2>2
    <3> QED
      BY <2>1, <2>2, <3>1 DEF Placed
  <2>3. CASE i \notin 1..Len(c)
    <3>1. PICK j \in 1..n : i = Len(c) + j
      <4>1. i - Len(c) \in 1..n /\ i = Len(c) + (i - Len(c))
        BY <1>6, <1>7, <2>3
      <4> QED
        BY <4>1
    <3>2. d[i] = m + j
      BY <1>7, <3>1
    <3> QED
      BY <1>10, <3>1, <3>2
  <2> QED
    BY <2>2, <2>3
<1>13. Ordered'
  <2>1. Held' \subseteq Held \cup {d}
    BY <1>4, <1>5 DEF Held
  <2>2. \A e \in Held' : Placed(new, e)'
    BY <1>1, <1>2, <1>11, <1>12, <2>1, HeldChains DEF Orders
  <2>3. \A o \in Own : sub'[o] # "idle" => new[o] = Height(o)'
    BY <1>2, <1>5, <1>10, ForeignNumber DEF Orders, Height, Found
  <2>4. \A h \in Blocks : db'.status[h] # "none" => Recorded(new, h)'
    BY <1>2, <1>5, <1>10 DEF Orders, Recorded
  <2> QED
    BY <1>9, <2>2, <2>3, <2>4 DEF Ordered, Orders
<1>14. Advance
  <2>1. Len(main) <= Len(d)
    BY <1>7
  <2>2. \A i \in 1..(Len(main) - MaxReorg) : d[i] = main[i]
    BY <1>7
  <2> QED
    BY <1>4, <1>13, <2>1, <2>2 DEF Advance
<1> QED
  BY <1>5, <1>8, <1>14, AdvanceKeeps

LEMMA BuriedKept ==
  ASSUME main \in Chains, NEW c \in Chains, IsPrefix(Buried, c)
  PROVE  \A i \in 1..(Len(main) - MaxReorg) : i \in 1..Len(c) /\ c[i] = main[i]
<1> DEFINE n == Clamp(Len(main) - MaxReorg)
<1>1. Len(main) \in Nat /\ n \in 0..Len(main)
  BY ChainProperties, DepthsNat DEF Clamp
<1>2. /\ Len(Buried) = n
      /\ \A i \in 1..n : Buried[i] = main[i]
      /\ Buried \in Chains
  BY <1>1, PrefixProperties DEF Buried
<1>3. n <= Len(c) /\ SubSeq(Buried, 1, n) = SubSeq(c, 1, n)
  BY <1>2 DEF IsPrefix
<1>4. n \in 0..Len(c) /\ n \in 0..Len(Buried)
  BY <1>1, <1>2, <1>3, ChainProperties
<1>5. \A i \in 1..n : SubSeq(c, 1, n)[i] = c[i] /\ SubSeq(Buried, 1, n)[i] = Buried[i]
  BY <1>2, <1>4, PrefixProperties
<1>6. \A i \in 1..n : c[i] = main[i]
  BY <1>2, <1>3, <1>5
<1>7. \A i \in 1..(Len(main) - MaxReorg) : i \in 1..n
  BY <1>1, DepthsNat DEF Clamp
<1> HIDE DEF n
<1> QED
  BY <1>1, <1>3, <1>6, <1>7, ChainProperties

LEMMA NewTipKeeps ==
  ASSUME IInv, NewTip
  PROVE  IInv'
<1>1. TypeOK
  BY DEF IInv
<1>2. main \in Chains /\ Len(main) \in Nat /\ reorgs \in 0..MaxReorgs
  BY <1>1, LengthsNat DEF TypeOK
<1>3. \A at \in [Blocks -> Nat] : Orders(at) => Placed(at, main)
  BY DEF Orders, Held
<1>4. CASE Extend
  <2>1. Mine(main, 1) /\ reorgs' \in 0..MaxReorgs
    BY <1>2, <1>4 DEF Extend
  <2>2. PICK c : c = main
    OBVIOUS
  <2>3. /\ c \in Chains /\ Mine(c, 1)
        /\ \A at \in [Blocks -> Nat] : Orders(at) => Placed(at, c)
        /\ Len(main) <= Len(c) + 1
        /\ \A i \in 1..(Len(main) - MaxReorg) : i \in 1..Len(c) /\ c[i] = main[i]
    BY <1>2, <1>3, <2>1, <2>2, DepthsNat
  <2> QED
    BY <2>1, <2>3, MineKeeps, 1 \in Nat
<1>5. CASE Reorganise
  <2>1. PICK c \in Branches :
          /\ IsPrefix(Buried, c)
          /\ Len(c) <= Len(main)
          /\ Mine(c, Len(main) + 1 - Len(c))
          /\ reorgs < MaxReorgs /\ reorgs' = reorgs + 1
    BY <1>5 DEF Reorganise
  <2>2. reorgs' \in 0..MaxReorgs
    BY <1>2, <2>1, BoundsNat
  <2>3. /\ c \in Chains
        /\ \A at \in [Blocks -> Nat] : Orders(at) => Placed(at, c)
    <3>1. CASE \E n \in 0..(Len(main) - 1) : c = SubSeq(main, 1, n)
      <4>1. PICK n \in 0..(Len(main) - 1) : c = SubSeq(main, 1, n)
        BY <3>1
      <4>2. /\ c \in Chains /\ Len(c) = n /\ n <= Len(main)
            /\ \A i \in 1..n : c[i] = main[i] /\ i \in 1..Len(main)
        BY <1>2, <4>1, PrefixProperties
      <4> QED
        BY <1>3, <4>2 DEF Placed
    <3>2. CASE \E b \in Own : node[b] = "accepted" /\ c = Append(prev[b], b)
      <4>1. PICK b \in Own : node[b] = "accepted" /\ c = Append(prev[b], b)
        BY <3>2
      <4>2. prev[b] \in Chains /\ b \in Blocks /\ sub[b] # "idle"
        BY <1>1, <4>1, ForeignNumber DEF TypeOK, IInv, Known
      <4>3. /\ c \in Chains /\ Len(c) = Len(prev[b]) + 1 /\ Len(prev[b]) \in Nat
            /\ \A i \in 1..Len(prev[b]) : c[i] = prev[b][i]
            /\ c[Len(prev[b]) + 1] = b
        BY <4>1, <4>2, ChainAppend, ChainProperties
      <4>4. ASSUME NEW at \in [Blocks -> Nat], Orders(at)
            PROVE  Placed(at, c)
        <5>1. Placed(at, prev[b]) /\ at[b] = Len(prev[b]) + 1
          BY <4>2, <4>4 DEF Orders, Held, Height
        <5>2. Found(b)
          BY <4>2 DEF Found
        <5> SUFFICES ASSUME NEW i \in 1..Len(c)
                     PROVE  /\ at[c[i]] = i
                            /\ Found(c[i])
                            /\ c[i] \in Own => node[c[i]] = "accepted"
          BY DEF Placed
        <5>3. CASE i \in 1..Len(prev[b])
          BY <4>3, <5>1, <5>3 DEF Placed
        <5>4. CASE i = Len(prev[b]) + 1
          BY <4>1, <4>3, <5>1, <5>2, <5>4
        <5> QED
          BY <4>3, <5>3, <5>4
      <4> QED
        BY <4>3, <4>4
    <3> QED
      BY <2>1, <3>1, <3>2 DEF Branches
  <2>4. PICK n : n = Len(main) + 1 - Len(c)
    OBVIOUS
  <2>5. n \in Nat /\ Len(main) <= Len(c) + n /\ Mine(c, n)
    BY <1>2, <2>1, <2>3, <2>4, ChainProperties
  <2>6. \A i \in 1..(Len(main) - MaxReorg) : i \in 1..Len(c) /\ c[i] = main[i]
    BY <1>2, <2>1, <2>3, BuriedKept
  <2> QED
    BY <2>2, <2>3, <2>5, <2>6, MineKeeps
<1> QED
  BY <1>4, <1>5 DEF NewTip

LEMMA NextIInv ==
  ASSUME IInv, [Next]_vars
  PROVE  IInv'
<1>1. ASSUME NEW b \in Own, Solve(b)
      PROVE  IInv'
  BY <1>1, SolveKeeps
<1>2. ASSUME NEW b \in Own, CheckAnswers(b) \/ HashAnswers(b)
      PROVE  IInv'
  BY <1>2, CreditKeeps DEF CheckAnswers, HashAnswers, Header
<1>3. ASSUME NEW b \in Own, Submission(b)
      PROVE  IInv'
  BY <1>2, <1>3, SubmissionKeeps DEF Submission
<1>4. ASSUME NEW b \in Own, NodeExecutes(b)
      PROVE  IInv'
  BY <1>4, ExecuteKeeps
<1>5. CASE NewTip
  BY <1>5, NewTipKeeps
<1>6. ASSUME NEW t \in Tasks, Fetch(t) \/ Ingest(t)
      PROVE  IInv'
  BY <1>6, FetchKeeps, IngestKeeps
<1>7. ASSUME NEW h \in Blocks, Ask(h)
      PROVE  IInv'
  BY <1>7, AskKeeps
<1>8. CASE Settle
  BY <1>8, SettleKeeps
<1>9. CASE Crash
  BY <1>9, CrashKeeps
<1>10. CASE UNCHANGED vars
  <2>1. TypeOK'
    BY <1>10 DEF IInv, TypeOK, vars, books, chain, template, submission
  <2>2. Onwards /\ Trying' /\ Refreshing'
    BY <1>10 DEF IInv, Onwards, Trying, Refreshing, vars, template, submission
  <2>3. Fresh'
    BY <1>10, FreshKept DEF vars, books, chain, template
  <2> QED
    BY <1>10, <2>1, <2>2, <2>3, QuietKeeps DEF vars, books, chain, template, submission, Held
<1> QED
  BY <1>1, <1>3, <1>4, <1>5, <1>6, <1>7, <1>8, <1>9, <1>10 DEF Next

-----------------------------------------------------------------------------
(* The theorems.                                                           *)

LEMMA InvariantHolds == Spec => []IInv
<1>1. Init => IInv
  BY InitIInv
<1>2. IInv /\ [Next]_vars => IInv'
  BY NextIInv
<1> QED
  BY <1>1, <1>2, PTL DEF Spec

\* Every variable keeps its type.
THEOREM TypeCorrect == Spec => []TypeOK
<1>1. IInv => TypeOK
  BY DEF IInv
<1> QED
  BY <1>1, InvariantHolds, PTL

LEMMA PlacedOnce ==
  ASSUME IInv, NEW h \in Blocks, db.status[h] # "none", OnChain(h)
  PROVE  main[height[h]] = h
<1>1. PICK at \in [Blocks -> Nat] : Orders(at)
  BY DEF IInv, Ordered
<1>2. PICK i \in 1..Len(main) : main[i] = h
  BY ChainProperties DEF IInv, TypeOK, OnChain, Range
<1> QED
  BY <1>1, <1>2 DEF Orders, Held, Placed, Recorded

\* A block that was orphaned is off the chain for good, when no template is
\* applied between a header and the verdict on it; also when the hash the block
\* was recorded under is another's (_maturity_loop).
THEOREM OrphanedStaysOffHolds ==
  ASSUME "slow_answer" \notin Faults
  PROVE  Spec => []OrphanedStaysOff
<1>1. IInv => OrphanedStaysOff
  BY PlacedOnce DEF OrphanedStaysOff, IInv, SettledDeep, Timely
<1> QED
  BY <1>1, InvariantHolds, PTL

LEMMA OnChainAccepted ==
  ASSUME IInv, NEW b \in Own, OnChain(b)
  PROVE  node[b] = "accepted"
<1>1. PICK at \in [Blocks -> Nat] : Orders(at)
  BY DEF IInv, Ordered
<1>2. PICK i \in 1..Len(main) : main[i] = b
  BY ChainProperties DEF IInv, TypeOK, OnChain, Range
<1> QED
  BY <1>1, <1>2 DEF Orders, Held, Placed

\* The client knows what became of a submission, but for a time-out that the
\* header settles, and that header is the block's.
Told == {"late_execution", "lost_reply", "check_fails", "foreign_hash"} \cap Faults = {}

\* A block that was credited is in the books under its own hash; one that was
\* accepted has its height reached for good, so that there is a header; and one
\* that was given up was never accepted.
Accounted ==
  \A b \in Own :
    /\ sub[b] \in {"refreshing", "done"} => db.status[b] # "none"
    /\ sub[b] = "checking" => node[b] # "queued"
    /\ sub[b] = "lost" => node[b] \in {"rejected", "refused"}
    /\ node[b] = "accepted" => Height(b) <= Len(main)

\* The chain grows with every new tip, also with a reorganisation.
LEMMA NewTipLonger ==
  ASSUME TypeOK, NewTip
  PROVE  Len(main') >= Len(main)
<1>1. main \in Chains /\ Len(main) \in Nat /\ mined \in Nat
  BY LengthsNat DEF TypeOK
<1>2. ASSUME NEW c \in Chains, NEW n \in Nat, Mine(c, n), Len(c) + n >= Len(main)
      PROVE  Len(main') >= Len(main)
  BY <1>1, <1>2, ChainGrows DEF Mine
<1>3. CASE Extend
  BY <1>1, <1>2, <1>3, 1 \in Nat DEF Extend
<1>4. CASE Reorganise
  <2>1. PICK c \in Branches : Len(c) <= Len(main) /\ Mine(c, Len(main) + 1 - Len(c))
    BY <1>4 DEF Reorganise
  <2>2. c \in Chains
    <3>1. CASE \E n \in 0..(Len(main) - 1) : c = SubSeq(main, 1, n)
      <4>1. PICK n \in 0..(Len(main) - 1) : c = SubSeq(main, 1, n)
        BY <3>1
      <4>2. n \in 0..Len(main)
        BY <1>1
      <4> QED
        BY <1>1, <4>1, <4>2, PrefixProperties
    <3>2. CASE \E b \in Own : c = Append(prev[b], b)
      BY <3>2, ChainAppend, ForeignNumber DEF TypeOK
    <3> QED
      BY <2>1, <3>1, <3>2 DEF Branches
  <2>3. PICK n : n = Len(main) + 1 - Len(c)
    OBVIOUS
  <2>4. n \in Nat /\ Len(c) + n >= Len(main)
    BY <1>1, <2>1, <2>2, <2>3, ChainProperties
  <2> QED
    BY <1>2, <2>1, <2>2, <2>3, <2>4
<1> QED
  BY <1>3, <1>4 DEF NewTip

LEMMA SubmissionAccounted ==
  ASSUME Told, IInv, Accounted, NEW b \in Own, Submission(b)
  PROVE  Accounted'
<1>1. TypeOK
  BY DEF IInv
\* The coroutine of b goes on, and the chain does not move.
<1>2. ASSUME UNCHANGED <<main, prev>>,
             NEW s, sub' = [sub EXCEPT ![b] = s],
             \A x \in Blocks : db.status[x] # "none" => db'.status[x] # "none",
             s \in {"refreshing", "done"} => db'.status[b] # "none",
             s = "checking" => node[b] # "queued",
             s = "lost" => node'[b] \in {"rejected", "refused"},
             \A x \in Own \ {b} : node'[x] = node[x],
             node'[b] = node[b] \/ (s = "lost" /\ node'[b] = "refused")
      PROVE  Accounted'
  <2>1. \A x \in Own : sub'[x] = IF x = b THEN s ELSE sub[x]
    BY <1>1, <1>2 DEF TypeOK
  <2>2. \A x \in Own : x \in Blocks /\ Height(x)' = Height(x)
    BY <1>2, ForeignNumber DEF Height
  <2> QED
    BY <1>2, <2>1, <2>2 DEF Accounted
<1>3. ASSUME NEW s, Goes(b, s), UNCHANGED <<books, node>>,
             s \notin {"refreshing", "done"},
             s = "checking" => node[b] # "queued",
             s = "lost" => node[b] \in {"rejected", "refused"}
      PROVE  Accounted'
  BY <1>2, <1>3 DEF Goes, chain, books
<1>4. CASE SubmitReturns(b)
  BY <1>3, <1>4 DEF SubmitReturns
<1>5. CASE SubmitFails(b)
  <2>1. Goes(b, "lost") /\ UNCHANGED books
    BY <1>5 DEF SubmitFails
  <2>2. CASE node[b] = "queued" /\ node' = [node EXCEPT ![b] = "refused"]
    <3>1. node'[b] = "refused" /\ \A x \in Own \ {b} : node'[x] = node[x]
      BY <1>1, <2>2 DEF TypeOK
    <3> QED
      BY <1>2, <2>1, <3>1 DEF Goes, chain, books
  <2>3. CASE node[b] = "rejected" /\ UNCHANGED node
    BY <1>3, <2>1, <2>3
  <2> QED
    BY <1>5, <2>2, <2>3 DEF SubmitFails, Told
<1>6. CASE SubmitTimesOut(b)
  BY <1>3, <1>6 DEF SubmitTimesOut, Told
<1>7. CASE CheckAnswers(b) \/ HashAnswers(b)
  <2>1. Credit(b) /\ main[Height(b)] = b
    BY <1>7 DEF CheckAnswers, HashAnswers, Header, Told
  <2>2. /\ db' = CreditBlock(db, b, Credits[b])
        /\ sub' = [sub EXCEPT ![b] = "refreshing"]
        /\ UNCHANGED <<main, prev, node>>
    BY <2>1 DEF Credit, Goes, chain
  <2>3. db \in Ledger /\ b \in Blocks /\ Credits[b] \in [Miners -> Nat]
    BY <1>1, ForeignNumber, CreditsNat DEF TypeOK
  <2>4. /\ db'.status[b] # "none"
        /\ \A x \in Blocks : db.status[x] # "none" => db'.status[x] # "none"
    BY <2>2, <2>3, CreditBlockDoes
  <2> QED
    BY <1>2, <2>2, <2>4
<1>8. CASE CheckFails(b)
  <2>1. sub[b] = "checking" /\ Height(b) > Len(main)
    BY <1>8 DEF CheckFails, Told
  <2>2. node[b] \notin {"accepted", "queued", "none"}
    BY <1>1, <2>1, HeightNat, LengthsNat DEF Accounted, IInv, Known
  <2>3. node[b] \in {"rejected", "refused"}
    BY <1>1, <2>2 DEF TypeOK, NodeStates
  <2> QED
    BY <1>3, <1>8, <2>3 DEF CheckFails
<1>9. CASE HashMissing(b)
  <2>1. Goes(b, IF tries[b] + 1 < Attempts THEN "hashing" ELSE "skipped")
        /\ UNCHANGED <<books, node>>
    BY <1>9 DEF HashMissing
  <2> QED
    BY <1>3, <2>1
<1>10. CASE RefreshFails(b)
  <2>1. sub[b] = "refreshing" /\ Goes(b, "done") /\ UNCHANGED <<books, node>>
    BY <1>10 DEF RefreshFails
  <2>2. db.status[b] # "none"
    BY <2>1 DEF Accounted
  <2> QED
    BY <1>2, <2>1, <2>2 DEF Goes, chain, books
<1> QED
  BY <1>4, <1>5, <1>6, <1>7, <1>8, <1>9, <1>10 DEF Submission

LEMMA NextAccounted ==
  ASSUME Told, IInv, Accounted, [Next]_vars
  PROVE  Accounted'
<1>1. TypeOK
  BY DEF IInv
<1>2. ASSUME UNCHANGED <<main, db, prev, sub, node>>
      PROVE  Accounted'
  BY <1>2 DEF Accounted, Height
<1>3. ASSUME NEW b \in Own, Solve(b)
      PROVE  Accounted'
  <2>1. /\ \A x \in Own : sub'[x] = IF x = b THEN "submitting" ELSE sub[x]
        /\ \A x \in Own : node'[x] = IF x = b THEN "queued" ELSE node[x]
        /\ \A x \in Own \ {b} : prev'[x] = prev[x]
        /\ UNCHANGED <<db, main>>
    BY <1>1, <1>3 DEF Solve, TypeOK, books, chain
  <2> QED
    BY <2>1 DEF Accounted, Height
<1>4. ASSUME NEW b \in Own, Submission(b)
      PROVE  Accounted'
  BY <1>4, SubmissionAccounted
<1>5. ASSUME NEW b \in Own, NodeExecutes(b)
      PROVE  Accounted'
  <2>1. node[b] = "queued" /\ UNCHANGED <<db, prev, sub>>
    BY <1>5 DEF NodeExecutes, books
  <2>2. main \in Chains /\ b \in Blocks /\ Len(main) \in Nat
    BY <1>1, ForeignNumber, LengthsNat DEF TypeOK
  <2>3. \A x \in Own : Height(x)' = Height(x) /\ Height(x) \in Nat
    BY <1>1, <2>1, HeightNat DEF Height
  <2>4. CASE UNCHANGED main /\ node' = [node EXCEPT ![b] = "rejected"]
    <3>1. \A x \in Own : node'[x] = IF x = b THEN "rejected" ELSE node[x]
      BY <1>1, <2>4 DEF TypeOK
    <3> QED
      BY <2>1, <2>3, <2>4, <3>1 DEF Accounted
  <2>5. CASE /\ prev[b] = main /\ main' = Append(main, b)
             /\ node' = [node EXCEPT ![b] = "accepted"]
    <3>1. \A x \in Own : node'[x] = IF x = b THEN "accepted" ELSE node[x]
      BY <1>1, <2>5 DEF TypeOK
    <3>2. Len(main') = Len(main) + 1
      BY <2>2, <2>5, ChainAppend
    <3>3. Height(b) <= Len(main')
      BY <2>2, <2>5, <3>2 DEF Height
    <3>4. \A x \in Own : Height(x) <= Len(main) => Height(x) <= Len(main')
      BY <2>2, <2>3, <3>2
    <3> QED
      BY <2>1, <2>3, <3>1, <3>3, <3>4 DEF Accounted
  <2> QED
    BY <1>5, <2>4, <2>5 DEF NodeExecutes
<1>6. CASE NewTip
  <2>1. UNCHANGED <<db, prev, sub, node>>
    BY <1>6 DEF NewTip, Extend, Reorganise, Mine, books, submission
  <2>2. Len(main') >= Len(main) /\ main' \in Chains
    BY <1>1, <1>6, NewTipLonger, NewTipKeeps DEF IInv, TypeOK
  <2>3. \A x \in Own : Height(x)' = Height(x) /\ Height(x) \in Nat
    BY <1>1, <2>1, HeightNat DEF Height
  <2>4. Len(main) \in Nat /\ Len(main') \in Nat
    BY <1>1, <2>2, LengthsNat, ChainProperties
  <2>5. \A x \in Own : Height(x) <= Len(main) => Height(x) <= Len(main')
    BY <2>2, <2>3, <2>4
  <2> QED
    BY <2>1, <2>3, <2>5 DEF Accounted
<1>7. ASSUME NEW t \in Tasks, Ingest(t)
      PROVE  Accounted'
  <2>1. UNCHANGED <<db, main, prev, node>>
        /\ sub' = IF t = Poller THEN sub ELSE [sub EXCEPT ![t] = "done"]
    BY <1>7 DEF Ingest, EndRefresh, books, chain
  <2>2. t \in Own => db.status[t] # "none"
    BY <1>7 DEF Ingest, IInv, Refreshing, Accounted
  <2>3. \A x \in Own : sub'[x] = IF x = t THEN "done" ELSE sub[x]
    BY <1>1, <2>1, PollerApart DEF TypeOK, Tasks
  <2> QED
    BY <2>1, <2>2, <2>3 DEF Accounted, Height
<1>8. CASE Settle
  <2>1. PICK h \in Blocks, hash \in Blocks \cup {NoHash} : db' = Verdict(h, hash)
    BY <1>1, <1>8, AskedTyped DEF Settle
  <2>2. UNCHANGED <<main, prev, sub, node>>
    BY <1>8 DEF Settle, chain, submission
  <2>3. \A x \in Own : db.status[x] # "none" => db'.status[x] # "none"
    BY <1>1, <2>1, VerdictStatus, ForeignNumber
  <2> QED
    BY <2>2, <2>3 DEF Accounted, Height
<1>9. CASE Crash
  <2>1. \A x \in Own : sub'[x] = IF sub[x] \in Submitting THEN "dead" ELSE sub[x]
    BY <1>9 DEF Crash
  <2>2. UNCHANGED <<db, main, prev, node>>
    BY <1>9 DEF Crash, books, chain
  <2> QED
    BY <2>1, <2>2 DEF Accounted, Height
<1>10. ASSUME NEW t \in Tasks, Fetch(t)
       PROVE  Accounted'
  BY <1>2, <1>10 DEF Fetch, books, chain, submission
<1>11. ASSUME NEW h \in Blocks, Ask(h)
       PROVE  Accounted'
  BY <1>2, <1>11 DEF Ask, books, chain, submission
<1>12. CASE UNCHANGED vars
  BY <1>2, <1>12 DEF vars, books, chain, submission
<1> QED
  BY <1>3, <1>4, <1>5, <1>6, <1>7, <1>8, <1>9, <1>10, <1>11, <1>12 DEF Next

\* A block of the pool on the chain, now or after a reorganisation, is recorded
\* under its own hash once its submission is over, but for one whose submission
\* died with the process and one whose hash could not be read, when submissions
\* are answered in full or time out after they were executed, and the header is
\* answered, and is the block's.
THEOREM WonIsCreditedHolds ==
  ASSUME {"late_execution", "lost_reply", "check_fails", "foreign_hash"} \cap Faults = {}
  PROVE  Spec => []WonIsCredited
<1>1. Init => Accounted
  BY DEF Init, Accounted
<1>2. IInv /\ Accounted /\ [Next]_vars => Accounted'
  BY NextAccounted DEF Told
<1>3. IInv /\ Accounted => WonIsCredited
  <2> SUFFICES ASSUME IInv, Accounted, NEW b \in Own, OnChain(b), db.status[b] = "none"
               PROVE  Undecided(b) \/ sub[b] \in {"skipped", "dead"}
    BY DEF WonIsCredited
  <2>1. node[b] = "accepted"
    BY OnChainAccepted
  <2>2. sub[b] \in SubStates /\ sub[b] # "idle"
    BY <2>1 DEF IInv, TypeOK, Known
  <2>3. sub[b] \notin {"lost", "refreshing", "done"}
    BY <2>1 DEF Accounted
  <2> QED
    BY <2>2, <2>3 DEF SubStates, Submitting, Undecided
<1> QED
  BY <1>1, <1>2, <1>3, InvariantHolds, PTL DEF Spec

-----------------------------------------------------------------------------
(* What the miners are owed.                                               *)

\* What m gets of each block.
ShareOf(m) == [b \in Own |-> Credits[b][m]]

MaturedOwn(d) == {b \in Own : d.status[b] = "matured"}

Earned(d) ==
  /\ \A h \in Blocks : d.status[h] # "none" => h \in Own
  /\ \A b \in Own : d.status[b] = "immature" => d.credits[b] = Credits[b]
  /\ \A m \in Miners : d.owed[m] = Total(ShareOf(m), MaturedOwn(d))

LEMMA OwnFinite ==
  /\ IsFiniteSet(Own)
  /\ \A S \in SUBSET Own : IsFiniteSet(S)
  /\ \A m \in Miners, b \in Own : ShareOf(m)[b] = Credits[b][m] /\ ShareOf(m)[b] \in Nat
<1>1. IsFiniteSet(Own)
  BY TablesFinite, ForeignNumber, FS_Subset
<1>2. \A S \in SUBSET Own : IsFiniteSet(S)
  BY <1>1, FS_Subset
<1>3. \A m \in Miners, b \in Own : ShareOf(m)[b] = Credits[b][m] /\ ShareOf(m)[b] \in Nat
  BY CreditsNat DEF ShareOf
<1> QED
  BY <1>1, <1>2, <1>3

LEMMA InitEarned == Earned(EmptyLedger)
<1>1. \A h \in Blocks : EmptyLedger.status[h] = "none"
  BY DEF EmptyLedger
<1>2. MaturedOwn(EmptyLedger) = {}
  BY <1>1, ForeignNumber DEF MaturedOwn
<1>3. \A m \in Miners : EmptyLedger.owed[m] = 0
  BY DEF EmptyLedger, Nothing
<1>4. \A m \in Miners : Total(ShareOf(m), MaturedOwn(EmptyLedger)) = 0
  BY <1>2, TotalEmpty
<1> QED
  BY <1>1, <1>3, <1>4, ForeignNumber DEF Earned

LEMMA CreditEarned ==
  ASSUME NEW d \in Ledger, Earned(d), NEW b \in Own
  PROVE  Earned(CreditBlock(d, b, Credits[b]))
<1> DEFINE e == CreditBlock(d, b, Credits[b])
<1>1. b \in Blocks /\ Credits[b] \in [Miners -> Nat]
  BY ForeignNumber, CreditsNat
<1>2. /\ e.owed = d.owed
      /\ d.status[b] # "none" => e = d
      /\ d.status[b] = "none" =>
           /\ e.status[b] = "immature" /\ e.credits[b] = Credits[b]
           /\ \A x \in Blocks \ {b} : e.status[x] = d.status[x] /\ e.credits[x] = d.credits[x]
  BY <1>1, CreditBlockDoes
<1> HIDE DEF e
<1>3. CASE d.status[b] # "none"
  BY <1>2, <1>3 DEF e
<1>4. CASE d.status[b] = "none"
  <2>1. MaturedOwn(e) = MaturedOwn(d)
    BY <1>2, <1>4, ForeignNumber DEF MaturedOwn
  <2>2. \A m \in Miners : Total(ShareOf(m), MaturedOwn(e)) = Total(ShareOf(m), MaturedOwn(d))
    BY <2>1
  <2>3. Earned(e)
    BY <1>2, <1>4, <2>2, ForeignNumber DEF Earned
  <2> QED
    BY <2>3 DEF e
<1> QED
  BY <1>3, <1>4

LEMMA MatureEarned ==
  ASSUME NEW d \in Ledger, Earned(d), NEW b \in Blocks
  PROVE  Earned(MatureBlock(d, b))
<1> DEFINE e == MatureBlock(d, b)
<1>1. /\ e.credits = d.credits
      /\ d.status[b] # "immature" => e = d
      /\ d.status[b] = "immature" =>
           /\ e.status[b] = "matured"
           /\ \A x \in Blocks \ {b} : e.status[x] = d.status[x]
           /\ \A m \in Miners : e.owed[m] = d.owed[m] + d.credits[b][m]
  BY MatureBlockDoes
<1> HIDE DEF e
<1>2. CASE d.status[b] # "immature"
  BY <1>1, <1>2 DEF e
<1>3. CASE d.status[b] = "immature"
  <2>1. b \in Own /\ d.credits[b] = Credits[b]
    BY <1>3 DEF Earned
  <2>2. MaturedOwn(e) = MaturedOwn(d) \cup {b} /\ b \notin MaturedOwn(d)
    BY <1>1, <1>3, <2>1, ForeignNumber DEF MaturedOwn
  <2>3. ASSUME NEW m \in Miners
        PROVE  e.owed[m] = Total(ShareOf(m), MaturedOwn(e))
    <3> DEFINE S == MaturedOwn(d)
    <3>1. S \in SUBSET Own
      BY DEF MaturedOwn
    <3>2. IsFiniteSet(S) /\ \A y \in S \cup {b} : ShareOf(m)[y] \in Nat
      BY <2>1, <3>1, OwnFinite
    <3> HIDE DEF S
    <3>3. Total(ShareOf(m), S \cup {b}) = ShareOf(m)[b] + Total(ShareOf(m), S)
      BY <2>2, <3>2, TotalAdd DEF S
    <3>4. Total(ShareOf(m), MaturedOwn(e)) = Total(ShareOf(m), S \cup {b})
      BY <2>2 DEF S
    <3>5. d.owed[m] = Total(ShareOf(m), S) /\ d.owed[m] \in Nat
      BY DEF Earned, Ledger, S
    <3>6. ShareOf(m)[b] = d.credits[b][m] /\ ShareOf(m)[b] \in Nat
      BY <2>1, OwnFinite
    <3>7. e.owed[m] = d.owed[m] + d.credits[b][m]
      BY <1>1, <1>3
    <3> QED
      BY <3>3, <3>4, <3>5, <3>6, <3>7
  <2>4. Earned(e)
    BY <1>1, <1>3, <2>1, <2>3, ForeignNumber DEF Earned
  <2> QED
    BY <2>4 DEF e
<1> QED
  BY <1>2, <1>3

LEMMA OrphanEarned ==
  ASSUME NEW d \in Ledger, Earned(d), NEW b \in Blocks
  PROVE  Earned(OrphanBlock(d, b))
<1> DEFINE e == OrphanBlock(d, b)
<1>1. /\ e.owed = d.owed
      /\ e.status[b] = IF d.status[b] = "immature" THEN "orphaned" ELSE d.status[b]
      /\ \A x \in Blocks \ {b} : e.status[x] = d.status[x] /\ e.credits[x] = d.credits[x]
  BY OrphanBlockDoes
<1> HIDE DEF e
<1>2. MaturedOwn(e) = MaturedOwn(d)
  BY <1>1, ForeignNumber DEF MaturedOwn
<1>3. \A m \in Miners : Total(ShareOf(m), MaturedOwn(e)) = Total(ShareOf(m), MaturedOwn(d))
  BY <1>2
<1>4. Earned(e)
  BY <1>1, <1>3, ForeignNumber DEF Earned
<1> QED
  BY <1>4 DEF e

LEMMA NextEarned ==
  ASSUME "foreign_hash" \notin Faults, IInv, Earned(db), [Next]_vars
  PROVE  Earned(db')
<1>1. db \in Ledger
  BY DEF IInv, TypeOK
<1>2. ASSUME NEW b \in Own, CheckAnswers(b) \/ HashAnswers(b)
      PROVE  Earned(db')
  <2>1. db' = CreditBlock(db, b, Credits[b])
    BY <1>2 DEF CheckAnswers, HashAnswers, Header, Credit
  <2> QED
    BY <1>1, <2>1, CreditEarned
<1>3. ASSUME NEW b \in Own, Submission(b), ~(CheckAnswers(b) \/ HashAnswers(b))
      PROVE  UNCHANGED db
  BY <1>3 DEF Submission, SubmitReturns, SubmitFails, SubmitTimesOut, CheckFails,
              HashMissing, RefreshFails, books
<1>4. CASE Settle
  <2>1. PICK h \in Blocks, hash \in Blocks \cup {NoHash} : db' = Verdict(h, hash)
    BY <1>4, AskedTyped DEF Settle, IInv
  <2> QED
    BY <1>1, <2>1, MatureEarned, OrphanEarned DEF Verdict
<1>5. ASSUME NEW b \in Own, Solve(b) \/ NodeExecutes(b)
      PROVE  UNCHANGED db
  BY <1>5 DEF Solve, NodeExecutes, books
<1>6. ASSUME NEW t \in Tasks, Fetch(t) \/ Ingest(t)
      PROVE  UNCHANGED db
  BY <1>6 DEF Fetch, Ingest, books
<1>7. ASSUME NEW h \in Blocks, Ask(h)
      PROVE  UNCHANGED db
  BY <1>7 DEF Ask, books
<1>8. CASE NewTip \/ Crash \/ UNCHANGED vars
  BY <1>8 DEF NewTip, Extend, Reorganise, Mine, Crash, vars, books
<1> QED
  BY <1>2, <1>3, <1>4, <1>5, <1>6, <1>7, <1>8 DEF Next

\* The miners are owed no more than the rewards of the pool's blocks on the
\* chain, when the node's headers are of the blocks they are asked for and no
\* template is applied between a header and the verdict on it.
THEOREM OwedIsEarnedHolds ==
  ASSUME {"foreign_hash", "empty_hash", "slow_answer"} \cap Faults = {}
  PROVE  Spec => []OwedIsEarned
<1>1. Init => Earned(db)
  BY InitEarned DEF Init
<1>2. IInv /\ Earned(db) /\ [Next]_vars => Earned(db)'
  BY NextEarned
<1>3. ASSUME IInv, Earned(db)
      PROVE  OwedIsEarned
  <2> SUFFICES ASSUME NEW m \in Miners
               PROVE  db.owed[m] <= Total(ShareOf(m), {b \in Own : OnChain(b)})
    BY DEF OwedIsEarned, ShareOf
  <2> DEFINE S == {b \in Own : OnChain(b)}
  <2>1. MaturedOwn(db) \in SUBSET S
    <3> SUFFICES ASSUME NEW b \in Own, db.status[b] = "matured"
                 PROVE  OnChain(b)
      BY DEF MaturedOwn
    <3>1. b \in Blocks
      BY ForeignNumber
    <3>2. Deep(b) /\ main[height[b]] = b
      BY <1>3, <3>1 DEF IInv, SettledDeep, Timely
    <3>3. PICK at \in [Blocks -> Nat] : Orders(at)
      BY <1>3 DEF IInv, Ordered
    <3>4. height[b] \in Nat /\ height[b] >= 1
      BY <1>3, <3>1, <3>3 DEF Orders, Recorded, IInv, TypeOK
    <3>5. height[b] \in DOMAIN main
      BY <1>3, <3>2, <3>4, ChainProperties, DepthsNat DEF Deep, IInv, TypeOK
    <3> QED
      BY <3>2, <3>5 DEF OnChain, Range
  <2>2. S \in SUBSET Own
    OBVIOUS
  <2> HIDE DEF S
  <2>3. Total(ShareOf(m), MaturedOwn(db)) <= Total(ShareOf(m), S)
    BY <2>1, <2>2, OwnFinite, TotalPart
  <2> QED
    BY <1>3, <2>3 DEF Earned, S
<1> QED
  BY <1>1, <1>2, <1>3, InvariantHolds, PTL DEF Spec
=============================================================================
