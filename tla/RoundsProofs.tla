---------------------------- MODULE RoundsProofs ----------------------------
(***************************************************************************)
(* Proofs about Rounds, for every value of its constants.                  *)
(***************************************************************************)
EXTENDS Rounds, AccountingProofs, SequenceTheorems, TLAPS

-----------------------------------------------------------------------------
(* What the methods of the database do to the status of the blocks.        *)

\* The databases with o, p, q and c for the tables that are not looked at.
Shape(o, p, q, c) ==
  [owed : {o}, paid : {p}, pending : {q}, credits : {c},
   status : [Blocks -> BlockStatus]]

\* d is a database: a record of the five tables, whatever is in the others.
Shaped(d) == d \in Shape(d.owed, d.paid, d.pending, d.credits)

LEMMA EmptyLedgerShaped ==
  Shaped(EmptyLedger) /\ \A b \in Blocks : EmptyLedger.status[b] = "none"
BY DEF Shaped, Shape, EmptyLedger, BlockStatus

LEMMA CreditBlockStatus ==
  ASSUME NEW d, Shaped(d), NEW b \in Blocks, NEW split
  PROVE  /\ Shaped(CreditBlock(d, b, split))
         /\ CreditBlock(d, b, split).status =
              IF d.status[b] = "none" THEN [d.status EXCEPT ![b] = "immature"]
                                      ELSE d.status
<1> DEFINE status == [d.status EXCEPT ![b] = "immature"]
           credits == [d.credits EXCEPT ![b] = split]
<1>1. status \in [Blocks -> BlockStatus]
  BY DEF Shaped, Shape, BlockStatus
<1> HIDE DEF status, credits
<1>2. /\ [d EXCEPT !.status = status, !.credits = credits]
           \in Shape(d.owed, d.paid, d.pending, credits)
      /\ [d EXCEPT !.status = status, !.credits = credits].status = status
  BY <1>1 DEF Shaped, Shape
<1> QED
  BY <1>2 DEF Shaped, Shape, CreditBlock, status, credits

LEMMA MatureBlockStatus ==
  ASSUME NEW d, Shaped(d), NEW b \in Blocks
  PROVE  /\ Shaped(MatureBlock(d, b))
         /\ MatureBlock(d, b).status =
              IF d.status[b] = "immature" THEN [d.status EXCEPT ![b] = "matured"]
                                          ELSE d.status
<1> DEFINE status == [d.status EXCEPT ![b] = "matured"]
           owed == [m \in Miners |-> d.owed[m] + d.credits[b][m]]
<1>1. status \in [Blocks -> BlockStatus]
  BY DEF Shaped, Shape, BlockStatus
<1> HIDE DEF status, owed
<1>2. /\ [d EXCEPT !.owed = owed, !.status = status]
           \in Shape(owed, d.paid, d.pending, d.credits)
      /\ [d EXCEPT !.owed = owed, !.status = status].status = status
  BY <1>1 DEF Shaped, Shape
<1> QED
  BY <1>2 DEF Shaped, Shape, MatureBlock, status, owed

LEMMA OrphanBlockStatus ==
  ASSUME NEW d, Shaped(d), NEW b \in Blocks
  PROVE  /\ Shaped(OrphanBlock(d, b))
         /\ OrphanBlock(d, b).status =
              [d.status EXCEPT ![b] = IF d.status[b] = "immature" THEN "orphaned"
                                                                  ELSE d.status[b]]
<1> DEFINE status == [d.status EXCEPT ![b] = IF d.status[b] = "immature"
                                             THEN "orphaned" ELSE d.status[b]]
           credits == [d.credits EXCEPT ![b] = Nothing]
<1>1. status \in [Blocks -> BlockStatus]
  BY DEF Shaped, Shape, BlockStatus
<1> HIDE DEF status, credits
<1>2. /\ [d EXCEPT !.credits = credits, !.status = status]
           \in Shape(d.owed, d.paid, d.pending, credits)
      /\ [d EXCEPT !.credits = credits, !.status = status].status = status
  BY <1>1 DEF Shaped, Shape
<1> QED
  BY <1>2 DEF Shaped, Shape, OrphanBlock, status, credits

-----------------------------------------------------------------------------
(* How the chain moves.                                                    *)

Links == Blocks \cup 0..MaxReorgs

\* What the node makes of a block that can be on a chain.
Taken == {"accepted", "inconclusive"}

\* Every block of the pool on c is at its own height, and the node took it.
Placed(c) ==
  \A i \in 1..Len(c) :
    c[i] \in Blocks => i = Height(c[i]) /\ node[c[i]] \in Taken

\* The chain grows, keeps what is buried, and stays in order.
Advance ==
  /\ main' \in Chains
  /\ Len(main) <= Len(main')
  /\ \A i \in 1..(Len(main) - MaxReorg) : main'[i] = main[i]
  /\ Placed(main)'

LEMMA ChainProperties ==
  ASSUME NEW c \in Chains
  PROVE  /\ Len(c) \in Nat
         /\ DOMAIN c = 1..Len(c)
         /\ \A i \in 1..Len(c) : c[i] \in Links
BY LenProperties, ElementOfSeq DEF Chains, Links

\* The first n blocks of a chain.
LEMMA PrefixProperties ==
  ASSUME NEW c \in Chains, NEW n \in 0..Len(c)
  PROVE  /\ SubSeq(c, 1, n) \in Chains
         /\ Len(SubSeq(c, 1, n)) = n
         /\ \A i \in 1..n : SubSeq(c, 1, n)[i] = c[i]
<1>1. Len(c) \in Nat /\ \A i \in 1..n : c[i] \in Links
  BY ChainProperties
<1>2. /\ SubSeq(c, 1, n) \in Seq(Links)
      /\ Len(SubSeq(c, 1, n)) = IF 1 <= n THEN n - 1 + 1 ELSE 0
      /\ \A i \in 1..(n - 1 + 1) : SubSeq(c, 1, n)[i] = c[1 + i - 1]
  BY <1>1, SubSeqProperties, 1 \in Int, n \in Int
<1> QED
  BY <1>1, <1>2 DEF Chains, Links

\* A block on top of a chain.
LEMMA ChainAppend ==
  ASSUME NEW c \in Chains, NEW e \in Links
  PROVE  /\ Append(c, e) \in Chains
         /\ Len(Append(c, e)) = Len(c) + 1
         /\ \A i \in 1..Len(c) : Append(c, e)[i] = c[i]
         /\ Append(c, e)[Len(c) + 1] = e
<1>1. Len(c) \in Nat /\ c \in Seq(Links)
  BY ChainProperties DEF Chains, Links
<1>2. /\ Append(c, e) \in Seq(Links)
      /\ Len(Append(c, e)) = Len(c) + 1
  BY <1>1
<1>3. \A i \in 1..Len(c) : Append(c, e)[i] = c[i]
  BY <1>1
<1>4. Append(c, e)[Len(c) + 1] = e
  BY <1>1
<1> QED
  BY <1>2, <1>3, <1>4 DEF Chains, Links

LEMMA BuriedKept ==
  ASSUME main \in Chains, NEW c \in Chains, IsPrefix(Buried, c)
  PROVE  \A i \in 1..(Len(main) - MaxReorg) : i \in 1..Len(c) /\ c[i] = main[i]
<1> DEFINE n == Clamp(Len(main) - MaxReorg)
<1>1. Len(main) \in Nat /\ n \in 0..Len(main)
  BY ChainProperties, DepthsNat DEF Clamp
<1>2. /\ Len(Buried) = n
      /\ \A i \in 1..n : Buried[i] = main[i]
      /\ Buried \in Chains
  BY <1>1, PrefixProperties DEF Buried
<1>3. n <= Len(c) /\ SubSeq(Buried, 1, n) = SubSeq(c, 1, n)
  BY <1>2 DEF IsPrefix
<1>4. n \in 0..Len(c) /\ n \in 0..Len(Buried)
  BY <1>1, <1>2, <1>3, ChainProperties
<1>5. \A i \in 1..n : SubSeq(c, 1, n)[i] = c[i] /\ SubSeq(Buried, 1, n)[i] = Buried[i]
  BY <1>2, <1>4, PrefixProperties
<1>6. \A i \in 1..n : c[i] = main[i]
  BY <1>2, <1>3, <1>5
<1>7. \A i \in 1..(Len(main) - MaxReorg) : i \in 1..n
  BY <1>1, DepthsNat DEF Clamp
<1> HIDE DEF n
<1> QED
  BY <1>1, <1>3, <1>6, <1>7, ChainProperties

\* A branch that overtakes the chain.
LEMMA OutgrowAdvances ==
  ASSUME ChainTypeOK, NEW c \in Chains, Placed(c), Outgrow(c)
  PROVE  Advance
<1> DEFINE k == Len(main) + 1 - Len(c)
           filler == [i \in 1..k |-> reorgs + 1]
<1>1. Len(main) \in Nat /\ Len(c) \in Nat /\ Len(c) <= Len(main) /\ k \in Nat
  BY ChainProperties DEF ChainTypeOK, Outgrow
<1>2. reorgs + 1 \in Links /\ reorgs + 1 \notin Blocks
  BY BlocksNotForeign, BoundsNat DEF ChainTypeOK, Outgrow, Links
<1>3. filler \in Seq(Links) /\ Len(filler) = k
  BY <1>1, <1>2
<1>4. main' = c \o filler /\ UNCHANGED <<prev, node>>
  BY DEF Outgrow, NewChain, submission
<1> HIDE DEF filler
<1>5. /\ main' \in Chains
      /\ Len(main') = Len(c) + k
      /\ \A i \in 1..(Len(c) + k) :
           main'[i] = IF i <= Len(c) THEN c[i] ELSE filler[i - Len(c)]
  BY <1>3, <1>4, ConcatProperties DEF Chains, Links
<1>6. Len(main) <= Len(main')
  BY <1>1, <1>5
<1>7. \A i \in 1..(Len(main) - MaxReorg) : main'[i] = main[i]
  <2>1. \A i \in 1..(Len(main) - MaxReorg) : i \in 1..Len(c) /\ c[i] = main[i]
    BY BuriedKept DEF ChainTypeOK, Outgrow
  <2> QED
    BY <1>1, <1>5, <2>1
<1>8. Placed(main)'
  <2> SUFFICES ASSUME NEW i \in 1..Len(main'), main'[i] \in Blocks
               PROVE  i = Height(main'[i]) /\ node[main'[i]] \in Taken
    BY <1>4 DEF Placed, Height
  <2>1. CASE i <= Len(c)
    BY <1>1, <1>5, <2>1 DEF Placed
  <2>2. CASE ~(i <= Len(c))
    BY <1>1, <1>2, <1>5, <2>2 DEF filler
  <2> QED
    BY <2>1, <2>2
<1> QED
  BY <1>5, <1>6, <1>7, <1>8 DEF Advance

\* The three ways the node's chain moves on its own.
LEMMA NewTipAdvances ==
  ASSUME ChainTypeOK, Placed(main), \A b \in Blocks : Placed(prev[b]), NewTip
  PROVE  Advance
<1>1. CASE Extend
  <2>1. main' = Append(main, reorgs) /\ UNCHANGED <<prev, node>>
    BY <1>1 DEF Extend, NewChain, submission
  <2>2. main \in Chains /\ reorgs \in Links /\ reorgs \notin Blocks
    BY BlocksNotForeign, BoundsNat DEF ChainTypeOK, Links
  <2>3. /\ Append(main, reorgs) \in Chains
        /\ Len(Append(main, reorgs)) = Len(main) + 1
        /\ \A i \in 1..Len(main) : Append(main, reorgs)[i] = main[i]
        /\ Append(main, reorgs)[Len(main) + 1] = reorgs
    BY <2>2, ChainAppend
  <2>4. Len(main) \in Nat /\ MaxReorg \in Nat
    BY <2>2, ChainProperties, DepthsNat
  <2>5. Placed(main)'
    <3> SUFFICES ASSUME NEW i \in 1..Len(main'), main'[i] \in Blocks
                 PROVE  i = Height(main'[i]) /\ node[main'[i]] \in Taken
      BY <2>1 DEF Placed, Height
    <3>1. i \in 1..Len(main) /\ main'[i] = main[i]
      BY <2>1, <2>2, <2>3, <2>4
    <3> QED
      BY <3>1 DEF Placed
  <2> QED
    BY <2>1, <2>3, <2>4, <2>5 DEF Advance
<1>2. CASE Reorganise
  <2>1. PICK n \in 0..(Len(main) - 1) : Outgrow(SubSeq(main, 1, n))
    BY <1>2 DEF Reorganise
  <2>2. main \in Chains /\ Len(main) \in Nat /\ n \in 0..Len(main)
    BY ChainProperties DEF ChainTypeOK
  <2>3. /\ SubSeq(main, 1, n) \in Chains
        /\ Len(SubSeq(main, 1, n)) = n
        /\ \A i \in 1..n : SubSeq(main, 1, n)[i] = main[i]
    BY <2>2, PrefixProperties
  <2>4. Placed(SubSeq(main, 1, n))
    BY <2>2, <2>3 DEF Placed
  <2> QED
    BY <2>1, <2>3, <2>4, OutgrowAdvances
<1>3. ASSUME NEW b \in Blocks, Adopt(b)
      PROVE  Advance
  <2>1. /\ prev[b] \in Chains
        /\ b \in Links
        /\ node[b] \in Taken
    BY <1>3 DEF ChainTypeOK, Adopt, Links, Taken
  <2>2. /\ Append(prev[b], b) \in Chains
        /\ Len(Append(prev[b], b)) = Len(prev[b]) + 1
        /\ \A i \in 1..Len(prev[b]) : Append(prev[b], b)[i] = prev[b][i]
        /\ Append(prev[b], b)[Len(prev[b]) + 1] = b
    BY <2>1, ChainAppend
  <2>3. Len(prev[b]) \in Nat
    BY <2>1, ChainProperties
  <2>4. Placed(Append(prev[b], b))
    <3> SUFFICES ASSUME NEW i \in 1..(Len(prev[b]) + 1),
                        Append(prev[b], b)[i] \in Blocks
                 PROVE  /\ i = Height(Append(prev[b], b)[i])
                        /\ node[Append(prev[b], b)[i]] \in Taken
      BY <2>2 DEF Placed
    <3>1. CASE i = Len(prev[b]) + 1
      BY <2>1, <2>2, <3>1 DEF Height
    <3>2. CASE i \in 1..Len(prev[b])
      BY <2>2, <3>2 DEF Placed
    <3> QED
      BY <2>3, <3>1, <3>2
  <2> QED
    BY <1>3, <2>2, <2>4, OutgrowAdvances DEF Adopt
<1> QED
  BY <1>1, <1>2, <1>3 DEF NewTip

\* The node executes a submission.
LEMMA ExecuteAdvances ==
  ASSUME ChainTypeOK, Placed(main), NEW b \in Blocks, NodeExecutes(b)
  PROVE  Advance
<1>1. UNCHANGED prev /\ \A x \in Blocks : node[x] \in Taken => node'[x] \in Taken
  BY DEF NodeExecutes, ChainTypeOK, Taken
<1>2. main \in Chains /\ Len(main) \in Nat /\ MaxReorg \in Nat
  BY ChainProperties, DepthsNat DEF ChainTypeOK
<1>3. CASE UNCHANGED main
  BY <1>1, <1>2, <1>3 DEF Advance, Placed, Height
<1>4. CASE prev[b] = main /\ main' = Append(main, b) /\ node' = [node EXCEPT ![b] = "accepted"]
  <2>1. b \in Links /\ node'[b] \in Taken
    BY <1>4 DEF ChainTypeOK, Links, Taken
  <2>2. /\ Append(main, b) \in Chains
        /\ Len(Append(main, b)) = Len(main) + 1
        /\ \A i \in 1..Len(main) : Append(main, b)[i] = main[i]
        /\ Append(main, b)[Len(main) + 1] = b
    BY <1>2, <2>1, ChainAppend
  <2>3. Placed(main)'
    <3> SUFFICES ASSUME NEW i \in 1..(Len(main) + 1), main'[i] \in Blocks
                 PROVE  i = Height(main'[i]) /\ node'[main'[i]] \in Taken
      BY <1>1, <1>4, <2>2 DEF Placed, Height
    <3>1. CASE i = Len(main) + 1
      BY <1>4, <2>1, <2>2, <3>1 DEF Height
    <3>2. CASE i \in 1..Len(main)
      BY <1>1, <1>4, <2>2, <3>2 DEF Placed
    <3> QED
      BY <1>2, <3>1, <3>2
  <2> QED
    BY <1>2, <1>4, <2>2, <2>3 DEF Advance
<1> QED
  BY <1>3, <1>4 DEF NodeExecutes

-----------------------------------------------------------------------------
(* The inductive invariant.  What the two verdicts need to stay true is    *)
(* that they fell on a part of the chain that no reorganisation reaches,   *)
(* and, for the answer the maturity task holds, that it is still true there *)
(* when it is used.                                                        *)

\* No template comes between an answer and its use.
Timely == "slow_answer" \notin Faults

\* A block is with the node, or in the database, only once it was submitted.
Known ==
  \A b \in Blocks :
    /\ sub[b] = "idle" <=> node[b] = "none"
    /\ sub[b] = "idle" => db.status[b] = "none"

Ordered ==
  /\ Placed(main)
  /\ \A c \in jobs : Placed(c)
  /\ \A b \in Blocks : Placed(prev[b])

Behind == Len(job) <= Len(main)

\* The answer in hand is about a recorded block, and out of reach of a
\* reorganisation when the template is far enough above it.
Fresh ==
  asked # NoAnswer =>
    /\ db.status[asked[1]] # "none"
    /\ Timely /\ Height(asked[1]) + MaxReorg <= Len(job)
         => main[Height(asked[1])] = asked[2]

SettledDeep ==
  \A b \in Blocks :
    Timely /\ db.status[b] \in {"matured", "orphaned"} =>
      /\ Height(b) + MaxReorg <= Len(main)
      /\ db.status[b] = "matured" <=> main[Height(b)] = b

IInv ==
  /\ ChainTypeOK
  /\ Shaped(db)
  /\ Known
  /\ Ordered
  /\ Behind
  /\ Fresh
  /\ SettledDeep

LEMMA HeightNat ==
  ASSUME ChainTypeOK, NEW b \in Blocks
  PROVE  Height(b) \in Nat /\ Height(b) >= 1
BY ChainProperties DEF ChainTypeOK, Height

LEMMA AskedTyped ==
  ASSUME ChainTypeOK, asked # NoAnswer
  PROVE  /\ asked[1] \in Blocks
         /\ asked[2] \in Links
         /\ asked = <<asked[1], asked[2]>>
BY DEF ChainTypeOK, Links

LEMMA InitIInv == Init => IInv
<1> SUFFICES ASSUME Init PROVE IInv
  OBVIOUS
<1>1. << >> \in Chains /\ Len(<< >>) = 0
  BY DEF Chains
<1>2. ChainTypeOK
  BY <1>1, BoundsNat DEF Init, ChainTypeOK, SubStates, NodeStates
<1>3. Shaped(db) /\ Known
  BY EmptyLedgerShaped DEF Init, Known
<1>4. Ordered /\ Behind
  BY <1>1 DEF Init, Ordered, Placed, Behind
<1>5. Fresh
  BY DEF Init, Fresh
<1>6. SettledDeep
  BY EmptyLedgerShaped DEF Init, SettledDeep
<1> QED
  BY <1>2, <1>3, <1>4, <1>5, <1>6 DEF IInv

\* A step in which the chain moves, and nothing else but the node's records.
LEMMA AdvanceKeeps ==
  ASSUME IInv, ChainTypeOK', Advance,
         UNCHANGED <<db, job, jobs, prev, sub, asked>>,
         \A b \in Blocks : /\ node'[b] = "none" <=> node[b] = "none"
                           /\ node[b] \in Taken => node'[b] \in Taken
  PROVE  IInv'
<1>1. /\ ChainTypeOK /\ Shaped(db) /\ Known /\ Ordered /\ Behind /\ Fresh
      /\ SettledDeep
  BY DEF IInv
<1>2. Len(main) \in Nat /\ Len(main') \in Nat /\ Len(job) \in Nat /\ MaxReorg \in Nat
  BY <1>1, ChainProperties, DepthsNat DEF ChainTypeOK, Advance
<1>3. \A b \in Blocks : Height(b)' = Height(b) /\ Height(b) \in Nat /\ Height(b) >= 1
  BY <1>1, HeightNat DEF Height
<1>4. Shaped(db)' /\ Known'
  BY <1>1 DEF Known
<1>5. Ordered'
  <2>1. ASSUME NEW c, Placed(c)
        PROVE  Placed(c)'
    BY <1>3, <2>1 DEF Placed
  <2> QED
    BY <1>1, <2>1 DEF Ordered, Advance
<1>6. Behind'
  BY <1>1, <1>2 DEF Behind, Advance
<1>7. Fresh'
  <2> SUFFICES ASSUME asked # NoAnswer
               PROVE  /\ db.status[asked[1]] # "none"
                      /\ Timely /\ Height(asked[1]) + MaxReorg <= Len(job)
                           => main'[Height(asked[1])] = asked[2]
    BY <1>1, <1>3, AskedTyped DEF Fresh
  <2>1. asked[1] \in Blocks
    BY <1>1, AskedTyped
  <2>2. Height(asked[1]) + MaxReorg <= Len(job) => Height(asked[1]) \in 1..(Len(main) - MaxReorg)
    BY <1>1, <1>2, <1>3, <2>1 DEF Behind
  <2> QED
    BY <1>1, <2>2 DEF Fresh, Advance
<1>8. SettledDeep'
  <2> SUFFICES ASSUME Timely, NEW b \in Blocks, db.status[b] \in {"matured", "orphaned"}
               PROVE  /\ Height(b) + MaxReorg <= Len(main')
                      /\ db.status[b] = "matured" <=> main'[Height(b)] = b
    BY <1>3 DEF SettledDeep
  <2>1. /\ Height(b) + MaxReorg <= Len(main)
        /\ db.status[b] = "matured" <=> main[Height(b)] = b
    BY <1>1 DEF SettledDeep
  <2>2. Height(b) \in 1..(Len(main) - MaxReorg)
    BY <1>2, <1>3, <2>1
  <2> QED
    BY <1>2, <1>3, <2>1, <2>2 DEF Advance
<1> QED
  BY <1>4, <1>5, <1>6, <1>7, <1>8 DEF IInv

\* A step that settles nothing: at most it records a block that was submitted.
LEMMA RecordKeeps ==
  ASSUME IInv, ChainTypeOK', Shaped(db)',
         UNCHANGED <<main, job, jobs, prev, node, asked>>,
         \A b \in Blocks :
           /\ sub'[b] = "idle" <=> sub[b] = "idle"
           /\ \/ db'.status[b] = db.status[b]
              \/ db.status[b] = "none" /\ db'.status[b] = "immature" /\ sub[b] # "idle"
  PROVE  IInv'
<1>1. /\ ChainTypeOK /\ Shaped(db) /\ Known /\ Ordered /\ Behind /\ Fresh
      /\ SettledDeep
  BY DEF IInv
<1>2. \A b \in Blocks : Height(b)' = Height(b)
  BY DEF Height
<1>3. Known'
  BY <1>1 DEF Known
<1>4. Ordered' /\ Behind'
  BY <1>1, <1>2 DEF Ordered, Placed, Height, Behind
<1>5. Fresh'
  BY <1>1, <1>2, AskedTyped DEF Fresh
<1>6. SettledDeep'
  BY <1>1, <1>2 DEF SettledDeep
<1> QED
  BY <1>3, <1>4, <1>5, <1>6 DEF IInv

LEMMA CreditKeeps ==
  ASSUME IInv, NEW b \in Blocks, sub[b] # "idle", db' = Credited(b),
         SubmissionEnds(b, "done"), UNCHANGED node
  PROVE  IInv'
<1>1. Shaped(db) /\ ChainTypeOK
  BY DEF IInv
<1>2. ChainTypeOK'
  BY <1>1 DEF ChainTypeOK, SubmissionEnds, chain, template, SubStates
<1>3. /\ Shaped(db)'
      /\ db'.status = IF db.status[b] = "none" THEN [db.status EXCEPT ![b] = "immature"]
                                                ELSE db.status
  BY <1>1, CreditBlockStatus DEF Credited
<1>4. \A x \in Blocks :
         \/ db'.status[x] = db.status[x]
         \/ db.status[x] = "none" /\ db'.status[x] = "immature" /\ sub[x] # "idle"
  BY <1>1, <1>3 DEF Shaped, Shape
<1>5. \A x \in Blocks : sub'[x] = "idle" <=> sub[x] = "idle"
  BY <1>1 DEF ChainTypeOK, SubmissionEnds
<1>6. UNCHANGED <<main, job, jobs, prev, node, asked>>
  BY DEF SubmissionEnds, chain, template
<1> QED
  BY <1>2, <1>3, <1>4, <1>5, <1>6, RecordKeeps

\* The submission ends without a credit, or goes on.
LEMMA SubmissionKeeps ==
  ASSUME IInv, NEW b \in Blocks, Submission(b)
  PROVE  IInv'
<1>1. Shaped(db) /\ ChainTypeOK
  BY DEF IInv
<1>2. CASE db' = Credited(b) /\ SubmissionEnds(b, "done") /\ UNCHANGED node /\ sub[b] # "idle"
  BY <1>2, CreditKeeps
<1>3. ASSUME UNCHANGED <<db, main, reorgs, job, jobs, prev, node, asked, crashes>>,
             NEW s \in SubStates \ {"idle"},
             sub[b] # "idle", sub' = [sub EXCEPT ![b] = s]
      PROVE  IInv'
  <2>1. ChainTypeOK'
    BY <1>1, <1>3 DEF ChainTypeOK
  <2>2. \A x \in Blocks : sub'[x] = "idle" <=> sub[x] = "idle"
    BY <1>1, <1>3 DEF ChainTypeOK
  <2> QED
    BY <1>1, <1>3, <2>1, <2>2, RecordKeeps DEF Shaped
<1>4. {"lost", "missed", "checking"} \subseteq SubStates \ {"idle"}
  BY DEF SubStates
<1>5. CASE SubmitReturns(b)
  <2>1. sub[b] # "idle" /\ UNCHANGED node
    BY <1>5 DEF SubmitReturns
  <2>2. CASE db' = Credited(b) /\ SubmissionEnds(b, "done")
    BY <1>2, <2>1, <2>2
  <2>3. CASE SubmissionEnds(b, "lost") /\ UNCHANGED db
    BY <1>3, <1>4, <2>1, <2>3 DEF SubmissionEnds, chain, template
  <2> QED
    BY <1>5, <2>2, <2>3 DEF SubmitReturns
<1>6. CASE SubmitFails(b)
  <2>1. /\ UNCHANGED <<db, main, reorgs, job, jobs, prev, asked, crashes>>
        /\ sub[b] = "submitting"
        /\ \/ UNCHANGED node /\ sub' = [sub EXCEPT ![b] = "missed"]
           \/ /\ node[b] = "queued" /\ node' = [node EXCEPT ![b] = "refused"]
              /\ sub' = [sub EXCEPT ![b] = "lost"]
    BY <1>6 DEF SubmitFails, SubmissionEnds, chain, template
  <2>2. CASE UNCHANGED node /\ sub' = [sub EXCEPT ![b] = "missed"]
    BY <1>3, <1>4, <2>1, <2>2
  <2>3. CASE /\ node[b] = "queued" /\ node' = [node EXCEPT ![b] = "refused"]
             /\ sub' = [sub EXCEPT ![b] = "lost"]
    BY <1>1, <2>1, <2>3
    DEF IInv, ChainTypeOK, SubStates, NodeStates, Shaped, Known, Ordered, Placed, Height,
        Behind, Fresh, SettledDeep, Taken
  <2> QED
    BY <2>1, <2>2, <2>3
<1>7. CASE SubmitTimesOut(b)
  BY <1>3, <1>4, <1>7 DEF SubmitTimesOut, chain, template
<1>8. CASE CheckAnswers(b)
  <2>1. sub[b] # "idle" /\ UNCHANGED node
    BY <1>8 DEF CheckAnswers
  <2>2. CASE db' = Credited(b) /\ SubmissionEnds(b, "done")
    BY <1>2, <2>1, <2>2
  <2>3. CASE NotFound(b) /\ UNCHANGED db
    BY <1>3, <1>4, <2>1, <2>3 DEF NotFound, SubmissionEnds, chain, template
  <2> QED
    BY <1>8, <2>2, <2>3 DEF CheckAnswers
<1>9. CASE CheckFails(b)
  BY <1>3, <1>4, <1>9 DEF CheckFails, SubmissionEnds, chain, template
<1> QED
  BY <1>5, <1>6, <1>7, <1>8, <1>9 DEF Submission

\* A solve changes the chain its block builds on, which no chain has yet.
LEMMA SolveKeeps ==
  ASSUME IInv, NEW b \in Blocks, NEW m \in Miners, NEW w \in Works, Solve(b, m, w)
  PROVE  IInv'
<1>1. /\ ChainTypeOK /\ Shaped(db) /\ Known /\ Ordered /\ Behind /\ Fresh
      /\ SettledDeep
  BY DEF IInv
<1>2. PICK parent \in jobs : prev' = [prev EXCEPT ![b] = parent]
  BY DEF Solve
<1>3. /\ sub[b] = "idle"
      /\ sub' = [sub EXCEPT ![b] = "submitting"]
      /\ node' = [node EXCEPT ![b] = "queued"]
      /\ UNCHANGED <<db, main, reorgs, job, jobs, asked, crashes>>
  BY DEF Solve, chain, template
<1>4. ChainTypeOK'
  BY <1>1, <1>2, <1>3 DEF ChainTypeOK, SubStates, NodeStates
<1>5. node[b] = "none" /\ db.status[b] = "none"
  BY <1>1, <1>3 DEF Known
<1>6. \A x \in Blocks : x # b => Height(x)' = Height(x) /\ node'[x] = node[x]
  BY <1>1, <1>2, <1>3 DEF ChainTypeOK, Height
<1>7. Known'
  BY <1>1, <1>3 DEF Known, ChainTypeOK
<1>8. ASSUME NEW c, Placed(c)
      PROVE  Placed(c)'
  BY <1>5, <1>6, <1>8 DEF Placed, Taken
<1>9. Ordered'
  <2>1. \A x \in Blocks : Placed(prev'[x])
    BY <1>1, <1>2 DEF Ordered, ChainTypeOK
  <2>2. \A x \in Blocks : Placed(prev[x])'
    BY <1>8, <2>1
  <2> QED
    BY <1>1, <1>3, <1>8, <2>2 DEF Ordered
<1>10. Behind'
  BY <1>1, <1>3 DEF Behind
<1>11. Fresh'
  <2> SUFFICES ASSUME asked # NoAnswer PROVE Fresh'
    BY <1>3 DEF Fresh
  <2>1. asked[1] \in Blocks /\ asked[1] # b
    BY <1>1, <1>5, AskedTyped DEF Fresh
  <2> QED
    BY <1>1, <1>3, <1>6, <2>1 DEF Fresh
<1>12. SettledDeep'
  BY <1>1, <1>3, <1>5, <1>6 DEF SettledDeep
<1>13. Shaped(db)'
  BY <1>1, <1>3 DEF Shaped
<1> QED
  BY <1>4, <1>7, <1>9, <1>10, <1>11, <1>12, <1>13 DEF IInv

\* What a verdict does to the status of the blocks.
LEMMA VerdictStatus ==
  ASSUME ChainTypeOK, Shaped(db), NEW b \in Blocks, NEW hash
  PROVE  /\ Shaped(Verdict(b, hash))
         /\ \A x \in Blocks :
              LET old == db.status[x]
                  new == Verdict(b, hash).status[x]
              IN  \/ new = old
                  \/ x = b /\ new = "orphaned" /\ hash # b /\ Depth(b) >= Tolerance
                  \/ x = b /\ new = "matured" /\ hash = b /\ Confs(b) >= Maturity
<1>1. CASE hash # b /\ Depth(b) >= Tolerance
  <2>1. Verdict(b, hash) = OrphanBlock(db, b)
    BY <1>1 DEF Verdict
  <2>2. /\ Shaped(OrphanBlock(db, b))
        /\ OrphanBlock(db, b).status =
             [db.status EXCEPT ![b] = IF db.status[b] = "immature" THEN "orphaned"
                                                                   ELSE db.status[b]]
    BY OrphanBlockStatus
  <2>3. db.status \in [Blocks -> BlockStatus]
    BY DEF Shaped, Shape
  <2> QED
    BY <1>1, <2>1, <2>2, <2>3
<1>2. CASE hash = b /\ Confs(b) >= Maturity
  <2>1. Verdict(b, hash) = MatureBlock(db, b)
    BY <1>2 DEF Verdict
  <2>2. /\ Shaped(MatureBlock(db, b))
        /\ MatureBlock(db, b).status =
             IF db.status[b] = "immature" THEN [db.status EXCEPT ![b] = "matured"]
                                          ELSE db.status
    BY MatureBlockStatus
  <2>3. db.status \in [Blocks -> BlockStatus]
    BY DEF Shaped, Shape
  <2> QED
    BY <1>2, <2>1, <2>2, <2>3
<1>3. CASE ~(hash # b /\ Depth(b) >= Tolerance) /\ ~(hash = b /\ Confs(b) >= Maturity)
  BY <1>3 DEF Verdict
<1> QED
  BY <1>1, <1>2, <1>3

LEMMA SettleKeeps ==
  ASSUME IInv, Settle
  PROVE  IInv'
<1>1. /\ ChainTypeOK /\ Shaped(db) /\ Known /\ Ordered /\ Behind /\ Fresh
      /\ SettledDeep
  BY DEF IInv
<1>2. PICK b \in Blocks, hash \in Links : asked = <<b, hash>> /\ asked # NoAnswer
  BY <1>1, AskedTyped DEF Settle
<1>3. /\ db' = Verdict(b, hash)
      /\ asked' = NoAnswer
      /\ UNCHANGED <<main, reorgs, job, jobs, prev, sub, node, crashes>>
  BY <1>2 DEF Settle, chain, template, submission
<1>4. /\ Shaped(db)'
      /\ \A x \in Blocks :
           \/ db'.status[x] = db.status[x]
           \/ x = b /\ db'.status[x] = "orphaned" /\ hash # b /\ Depth(b) >= Tolerance
           \/ x = b /\ db'.status[x] = "matured" /\ hash = b /\ Confs(b) >= Maturity
  BY <1>1, <1>3, VerdictStatus
<1>5. ChainTypeOK'
  BY <1>1, <1>3 DEF ChainTypeOK
<1>6. Ordered' /\ Behind' /\ Fresh'
  BY <1>1, <1>3 DEF Ordered, Placed, Height, Behind, Fresh
<1>7. db.status[b] # "none"
  BY <1>1, <1>2 DEF Fresh
<1>8. Known'
  BY <1>1, <1>3, <1>4, <1>7 DEF Known
<1>9. SettledDeep'
  <2> SUFFICES ASSUME Timely, NEW x \in Blocks, db'.status[x] \in {"matured", "orphaned"}
               PROVE  /\ Height(x) + MaxReorg <= Len(main)
                      /\ db'.status[x] = "matured" <=> main[Height(x)] = x
    BY <1>3 DEF SettledDeep, Height
  <2>1. CASE db'.status[x] = db.status[x]
    BY <1>1, <2>1 DEF SettledDeep
  <2>2. CASE x = b /\ db'.status[x] = "orphaned" /\ hash # b /\ Depth(b) >= Tolerance
    <3>1. Height(b) + MaxReorg <= Len(job) /\ Len(job) <= Len(main)
      BY <1>1, <2>2, HeightNat, ChainProperties, DepthsNat, ReorgsShallow
         DEF Depth, Confs, CurrentHeight, Behind, ChainTypeOK
    <3>2. main[Height(b)] = hash
      BY <1>1, <1>2, <3>1 DEF Fresh
    <3> QED
      BY <1>1, <2>2, <3>1, <3>2, HeightNat, ChainProperties, DepthsNat DEF ChainTypeOK
  <2>3. CASE x = b /\ db'.status[x] = "matured" /\ hash = b /\ Confs(b) >= Maturity
    <3>1. Height(b) + MaxReorg <= Len(job) /\ Len(job) <= Len(main)
      BY <1>1, <2>3, HeightNat, ChainProperties, DepthsNat, ReorgsShallow
         DEF Confs, CurrentHeight, Behind, ChainTypeOK
    <3>2. main[Height(b)] = hash
      BY <1>1, <1>2, <3>1 DEF Fresh
    <3> QED
      BY <1>1, <2>3, <3>1, <3>2, HeightNat, ChainProperties, DepthsNat DEF ChainTypeOK
  <2> QED
    BY <1>4, <2>1, <2>2, <2>3
<1> QED
  BY <1>4, <1>5, <1>6, <1>8, <1>9 DEF IInv

\* A template: in good time it is not ingested while the maturity task holds
\* an answer.
LEMMA PollKeeps ==
  ASSUME IInv, Poll
  PROVE  IInv'
<1>1. /\ asked = NoAnswer \/ ~Timely
      /\ job' = main /\ jobs' = jobs \cup {main}
      /\ UNCHANGED <<db, main, reorgs, prev, sub, node, asked, crashes>>
  BY DEF Poll, chain, submission, Timely
<1>2. Len(main) \in Nat
  BY ChainProperties DEF IInv, ChainTypeOK
<1>3. ChainTypeOK'
  BY <1>1 DEF IInv, ChainTypeOK
<1>4. Fresh'
  BY <1>1 DEF IInv, Fresh
<1>5. Ordered' /\ Behind'
  BY <1>1, <1>2 DEF IInv, Ordered, Placed, Height, Behind
<1>6. Shaped(db)' /\ Known' /\ SettledDeep'
  BY <1>1 DEF IInv, Known, SettledDeep, Height
<1> QED
  BY <1>3, <1>4, <1>5, <1>6 DEF IInv

LEMMA AskKeeps ==
  ASSUME IInv, NEW b \in Blocks, Ask(b)
  PROVE  IInv'
<1>1. /\ db.status[b] = "immature" /\ Height(b) <= Len(main)
      /\ asked' = <<b, main[Height(b)]>>
      /\ UNCHANGED <<db, main, reorgs, job, jobs, prev, sub, node, crashes>>
  BY DEF Ask, chain, template, submission
<1>2. main[Height(b)] \in Blocks \cup 0..MaxReorgs
  BY <1>1, HeightNat, ChainProperties DEF IInv, ChainTypeOK, Links
<1>3. ChainTypeOK'
  BY <1>1, <1>2 DEF IInv, ChainTypeOK
<1>4. Fresh'
  BY <1>1 DEF Fresh, Height
<1> QED
  BY <1>1, <1>3, <1>4 DEF IInv, Shaped, Known, Ordered, Placed, Height, Behind, SettledDeep

LEMMA CrashKeeps ==
  ASSUME IInv, Crash
  PROVE  IInv'
<1>1. /\ crashes < MaxCrashes /\ crashes' = crashes + 1
      /\ sub' = [b \in Blocks |->
                   IF sub[b] \in {"submitting", "checking"} THEN "dead" ELSE sub[b]]
      /\ asked' = NoAnswer /\ job' = main /\ jobs' = {main}
      /\ UNCHANGED <<db, main, reorgs, prev, node>>
  BY DEF Crash, chain
<1>2. Len(main) \in Nat
  BY ChainProperties DEF IInv, ChainTypeOK
<1>3. ChainTypeOK'
  BY <1>1, BoundsNat DEF IInv, ChainTypeOK, SubStates
<1>4. Known'
  BY <1>1 DEF IInv, Known
<1> QED
  BY <1>1, <1>2, <1>3, <1>4
  DEF IInv, Shaped, Ordered, Placed, Height, Behind, Fresh, SettledDeep

\* Shares, the prune and steps that do nothing.
LEMMA IdleKeeps ==
  ASSUME IInv, UNCHANGED <<db, chain, template, prev, sub, node, asked, crashes>>
  PROVE  IInv'
BY DEF IInv, chain, template, ChainTypeOK, Shaped, Known, Ordered, Placed, Height,
       Behind, Fresh, SettledDeep

LEMMA NextIInv ==
  ASSUME IInv, [Next]_vars
  PROVE  IInv'
<1>1. ASSUME NEW m \in Miners \cup OtherCoin, NEW w \in Works, Share(m, w)
      PROVE  IInv'
  BY <1>1, IdleKeeps DEF Share, submission
<1>2. ASSUME NEW b \in Blocks, NEW m \in Miners, NEW w \in Works, Solve(b, m, w)
      PROVE  IInv'
  BY <1>2, SolveKeeps
<1>3. ASSUME NEW b \in Blocks, Submission(b)
      PROVE  IInv'
  BY <1>3, SubmissionKeeps
<1>4. ASSUME NEW b \in Blocks, NodeExecutes(b)
      PROVE  IInv'
  <2>1. /\ node[b] = "queued"
        /\ \E s \in {"accepted", "inconclusive", "rejected"} :
             node' = [node EXCEPT ![b] = s]
        /\ UNCHANGED <<db, job, jobs, prev, sub, asked, reorgs, crashes>>
    BY <1>4 DEF NodeExecutes, template
  <2>2. Advance
    BY <1>4, ExecuteAdvances DEF IInv, Ordered
  <2>3. ChainTypeOK'
    BY <2>1, <2>2 DEF IInv, ChainTypeOK, Advance, NodeStates
  <2>4. \A x \in Blocks : /\ node'[x] = "none" <=> node[x] = "none"
                          /\ node[x] \in Taken => node'[x] \in Taken
    BY <2>1 DEF IInv, ChainTypeOK, Taken
  <2> QED
    BY <2>1, <2>2, <2>3, <2>4, AdvanceKeeps
<1>5. CASE NewTip
  <2>1. Advance
    BY <1>5, NewTipAdvances DEF IInv, Ordered
  <2>2. /\ UNCHANGED <<db, job, jobs, prev, sub, node, asked, crashes>>
        /\ reorgs' = reorgs \/ (reorgs < MaxReorgs /\ reorgs' = reorgs + 1)
    BY <1>5
    DEF NewTip, Extend, Reorganise, Adopt, Outgrow, NewChain, template, submission
  <2>3. ChainTypeOK'
    BY <2>1, <2>2, BoundsNat DEF IInv, ChainTypeOK, Advance
  <2> QED
    BY <2>1, <2>2, <2>3, AdvanceKeeps
<1>6. CASE Poll
  BY <1>6, PollKeeps
<1>7. ASSUME NEW b \in Blocks, Ask(b)
      PROVE  IInv'
  BY <1>7, AskKeeps
<1>8. CASE Settle
  BY <1>8, SettleKeeps
<1>9. CASE PruneStarts \/ PruneChunk
  BY <1>9, IdleKeeps DEF PruneStarts, PruneChunk, submission
<1>10. CASE Crash
  BY <1>10, CrashKeeps
<1>11. CASE UNCHANGED vars
  BY <1>11, IdleKeeps DEF vars, submission
<1> QED
  BY <1>1, <1>2, <1>3, <1>4, <1>5, <1>6, <1>7, <1>8, <1>9, <1>10, <1>11 DEF Next

-----------------------------------------------------------------------------
(* The theorems.  The two verdicts are final when an answer is used before  *)
(* the next template.                                                       *)

LEMMA InvariantHolds == Spec => []IInv
<1>1. Init => IInv
  BY InitIInv
<1>2. IInv /\ [Next]_vars => IInv'
  BY NextIInv
<1> QED
  BY <1>1, <1>2, PTL DEF Spec

\* The chains, the templates and the state of every submission keep their type.
THEOREM ChainTypeCorrect == Spec => []ChainTypeOK
<1>1. IInv => ChainTypeOK
  BY DEF IInv
<1> QED
  BY <1>1, InvariantHolds, PTL

\* A block whose credits reached the balances is on the chain for good.
THEOREM MaturedStaysOnHolds ==
  ASSUME "slow_answer" \notin Faults
  PROVE  Spec => []MaturedStaysOn
<1>1. IInv => MaturedStaysOn
  <2> SUFFICES ASSUME IInv, NEW b \in Blocks, db.status[b] = "matured"
               PROVE  OnChain(b)
    BY DEF MaturedStaysOn, MaturedBlocks
  <2>1. Height(b) + MaxReorg <= Len(main) /\ main[Height(b)] = b
    BY DEF IInv, SettledDeep, Timely
  <2>2. Height(b) \in DOMAIN main
    BY <2>1, HeightNat, ChainProperties, DepthsNat DEF IInv, ChainTypeOK
  <2> QED
    BY <2>1, <2>2 DEF OnChain, Range
<1> QED
  BY <1>1, InvariantHolds, PTL

\* A block whose credits were dropped is off the chain for good.
THEOREM OrphanedStaysOffHolds ==
  ASSUME "slow_answer" \notin Faults
  PROVE  Spec => []OrphanedStaysOff
<1>1. IInv => OrphanedStaysOff
  <2> SUFFICES ASSUME IInv, NEW b \in Blocks, db.status[b] = "orphaned", OnChain(b)
               PROVE  FALSE
    BY DEF OrphanedStaysOff
  <2>1. main[Height(b)] # b
    BY DEF IInv, SettledDeep, Timely
  <2>2. PICK i \in DOMAIN main : main[i] = b
    BY DEF OnChain, Range
  <2>3. i = Height(b)
    BY <2>2, ChainProperties DEF IInv, ChainTypeOK, Ordered, Placed
  <2> QED
    BY <2>1, <2>2, <2>3
<1> QED
  BY <1>1, InvariantHolds, PTL

-----------------------------------------------------------------------------
(* A block on the chain is recorded once its submission is over.  One that  *)
(* was taken for won is recorded, and one that was taken for lost was off   *)
(* the chain then, so that only a reorganisation can have put it back.      *)

DoneRecorded == \A b \in Blocks : sub[b] = "done" => db.status[b] # "none"

LEMMA NextDoneRecorded ==
  ASSUME IInv, DoneRecorded, [Next]_vars
  PROVE  DoneRecorded'
<1>1. ChainTypeOK /\ Shaped(db)
  BY DEF IInv
<1>2. ASSUME NEW b \in Blocks, db' = Credited(b), SubmissionEnds(b, "done")
      PROVE  DoneRecorded'
  <2>1. db'.status = IF db.status[b] = "none" THEN [db.status EXCEPT ![b] = "immature"]
                                              ELSE db.status
    BY <1>1, <1>2, CreditBlockStatus DEF Credited
  <2>2. sub' = [sub EXCEPT ![b] = "done"]
    BY <1>2 DEF SubmissionEnds
  <2> QED
    BY <1>1, <2>1, <2>2 DEF DoneRecorded, ChainTypeOK, Shaped, Shape
<1>3. ASSUME NEW b \in Blocks, UNCHANGED db,
             NEW s, s # "done", sub' = [sub EXCEPT ![b] = s]
      PROVE  DoneRecorded'
  BY <1>1, <1>3 DEF DoneRecorded, ChainTypeOK
<1>4. ASSUME NEW b \in Blocks, Submission(b)
      PROVE  DoneRecorded'
  <2>1. CASE SubmitReturns(b)
    BY <1>2, <1>3, <2>1 DEF SubmitReturns, SubmissionEnds
  <2>2. CASE SubmitFails(b)
    BY <1>3, <2>2 DEF SubmitFails, SubmissionEnds
  <2>3. CASE SubmitTimesOut(b)
    BY <1>3, <2>3 DEF SubmitTimesOut
  <2>4. CASE CheckAnswers(b)
    BY <1>2, <1>3, <2>4 DEF CheckAnswers, NotFound, SubmissionEnds
  <2>5. CASE CheckFails(b)
    BY <1>3, <2>5 DEF CheckFails, SubmissionEnds
  <2> QED
    BY <1>4, <2>1, <2>2, <2>3, <2>4, <2>5 DEF Submission
<1>5. ASSUME NEW b \in Blocks, NEW m \in Miners, NEW w \in Works, Solve(b, m, w)
      PROVE  DoneRecorded'
  BY <1>3, <1>5 DEF Solve
<1>6. CASE Settle
  <2>1. PICK b \in Blocks, hash \in Links : asked = <<b, hash>> /\ asked # NoAnswer
    BY <1>1, <1>6, AskedTyped DEF Settle
  <2>2. db' = Verdict(b, hash) /\ UNCHANGED sub
    BY <1>6, <2>1 DEF Settle, submission
  <2>3. \A x \in Blocks : db.status[x] # "none" => db'.status[x] # "none"
    BY <1>1, <2>2, VerdictStatus
  <2> QED
    BY <2>2, <2>3 DEF DoneRecorded
<1>7. CASE Crash
  BY <1>7 DEF Crash, DoneRecorded
<1>8. CASE UNCHANGED <<db, sub>>
  BY <1>8 DEF DoneRecorded
<1>9. ASSUME NEW m \in Miners \cup OtherCoin, NEW w \in Works, Share(m, w)
      PROVE  UNCHANGED <<db, sub>>
  BY <1>9 DEF Share, submission
<1>10. ASSUME NEW b \in Blocks, NodeExecutes(b) \/ Ask(b)
       PROVE  UNCHANGED <<db, sub>>
  BY <1>10 DEF NodeExecutes, Ask, submission
<1>11. CASE NewTip \/ Poll \/ PruneStarts \/ PruneChunk \/ UNCHANGED vars
  BY <1>8, <1>11
  DEF NewTip, Extend, Reorganise, Adopt, Outgrow, NewChain, Poll, PruneStarts, PruneChunk,
      vars, submission
<1> QED
  BY <1>4, <1>5, <1>6, <1>7, <1>8, <1>9, <1>10, <1>11 DEF Next

\* A block given up for a good answer is not on its way any more; it was off the
\* chain then, and can only be put back.
LostPutBack ==
  \A b \in Blocks :
    /\ sub[b] = "lost" => node[b] # "queued"
    /\ sub[b] = "lost" /\ OnChain(b) => PutBack(b)

LEMMA OnChainTaken ==
  ASSUME IInv, NEW b \in Blocks, OnChain(b)
  PROVE  /\ node[b] \in Taken
         /\ Height(b) <= Len(main) /\ main[Height(b)] = b
<1>1. PICK i \in DOMAIN main : main[i] = b
  BY DEF OnChain, Range
<1>2. i \in 1..Len(main)
  BY ChainProperties DEF IInv, ChainTypeOK
<1> QED
  BY <1>1, <1>2, ChainProperties DEF IInv, Ordered, Placed, ChainTypeOK

\* Blocks that come after a block do not take back that it was put back.
LEMMA PutBackKept ==
  ASSUME main \in Chains, NEW e \in Links, main' = Append(main, e), UNCHANGED reorgs,
         NEW b, PutBack(b)
  PROVE  PutBack(b)'
<1>1. PICK i, j \in DOMAIN main : i < j /\ main[i] = b /\ main[j] \in 1..reorgs
  BY DEF PutBack
<1>2. DOMAIN main = 1..Len(main) /\ Len(main) \in Nat
  BY ChainProperties
<1>3. /\ main' \in Chains /\ Len(main') = Len(main) + 1
      /\ \A k \in 1..Len(main) : main'[k] = main[k]
  BY ChainAppend
<1>4. DOMAIN main' = 1..Len(main')
  BY <1>3, ChainProperties
<1>5. i \in DOMAIN main' /\ j \in DOMAIN main'
  BY <1>1, <1>2, <1>3, <1>4
<1> QED
  BY <1>1, <1>2, <1>3, <1>5 DEF PutBack

\* A reorganisation puts back every block of the pool that it leaves on the chain.
LEMMA OutgrowPutsBack ==
  ASSUME ChainTypeOK, NEW c \in Chains, Outgrow(c), NEW b \in Blocks, OnChain(b)'
  PROVE  PutBack(b)'
<1> DEFINE k == Len(main) + 1 - Len(c)
           filler == [i \in 1..k |-> reorgs + 1]
<1>1. /\ Len(main) \in Nat /\ Len(c) \in Nat /\ Len(c) <= Len(main)
      /\ k \in Nat /\ k >= 1 /\ reorgs \in Nat
  BY ChainProperties, BoundsNat DEF ChainTypeOK, Outgrow
<1>2. reorgs + 1 \in Links /\ reorgs + 1 \notin Blocks /\ reorgs' = reorgs + 1
  BY BlocksNotForeign, BoundsNat DEF ChainTypeOK, Outgrow, Links
<1>3. filler \in Seq(Links) /\ Len(filler) = k /\ \A i \in 1..k : filler[i] = reorgs + 1
  BY <1>1, <1>2
<1>4. main' = c \o filler
  BY DEF Outgrow, NewChain
<1> HIDE DEF filler
<1>5. /\ main' \in Seq(Links)
      /\ Len(main') = Len(c) + k
      /\ \A i \in 1..(Len(c) + k) :
           main'[i] = IF i <= Len(c) THEN c[i] ELSE filler[i - Len(c)]
  BY <1>3, <1>4, ConcatProperties DEF Chains, Links
<1>6. DOMAIN main' = 1..(Len(c) + k)
  BY <1>5, LenProperties
<1> HIDE DEF k
<1>7. PICK i \in 1..(Len(c) + k) : main'[i] = b
  BY <1>6 DEF OnChain, Range
<1>8. i <= Len(c)
  BY <1>1, <1>2, <1>3, <1>5, <1>7
<1>9. Len(c) + 1 \in 1..(Len(c) + k) /\ main'[Len(c) + 1] = reorgs + 1
  <2>1. Len(c) + 1 \in 1..(Len(c) + k) /\ ~(Len(c) + 1 <= Len(c)) /\ Len(c) + 1 - Len(c) = 1
    BY <1>1
  <2>2. 1 \in 1..k
    BY <1>1
  <2> QED
    BY <1>3, <1>5, <2>1, <2>2
<1>10. i < Len(c) + 1 /\ reorgs + 1 \in 1..reorgs'
  BY <1>1, <1>2, <1>8
<1> QED
  BY <1>6, <1>7, <1>9, <1>10 DEF PutBack

\* What is on the chain with one more block was on it before, or is that block.
LEMMA OnChainAppend ==
  ASSUME main \in Chains, NEW e \in Links, main' = Append(main, e),
         NEW b, b # e, OnChain(b)'
  PROVE  OnChain(b)
<1>1. DOMAIN main = 1..Len(main) /\ Len(main) \in Nat
  BY ChainProperties
<1>2. /\ main' \in Chains /\ Len(main') = Len(main) + 1
      /\ \A k \in 1..Len(main) : main'[k] = main[k]
      /\ main'[Len(main) + 1] = e
  BY ChainAppend
<1>3. DOMAIN main' = 1..Len(main')
  BY <1>2, ChainProperties
<1>4. PICK i \in DOMAIN main' : main'[i] = b
  BY DEF OnChain, Range
<1>5. i \in DOMAIN main /\ main[i] = b
  BY <1>1, <1>2, <1>3, <1>4
<1> QED
  BY <1>5 DEF OnChain, Range

LEMMA NewTipLostPutBack ==
  ASSUME IInv, LostPutBack, NewTip
  PROVE  LostPutBack'
<1>1. ChainTypeOK /\ main \in Chains /\ UNCHANGED <<sub, node, prev>>
  BY DEF IInv, ChainTypeOK, NewTip, Extend, Reorganise, Adopt, Outgrow, NewChain, submission
<1>2. ASSUME NEW c \in Chains, Outgrow(c)
      PROVE  LostPutBack'
  BY <1>1, <1>2, OutgrowPutsBack DEF LostPutBack
<1>3. CASE Extend
  <2>1. main' = Append(main, reorgs) /\ UNCHANGED reorgs
    BY <1>3 DEF Extend, NewChain
  <2>2. reorgs \in Links /\ reorgs \notin Blocks
    BY <1>1, BlocksNotForeign, BoundsNat DEF ChainTypeOK, Links
  <2>3. \A b \in Blocks : PutBack(b) => PutBack(b)'
    BY <1>1, <2>1, <2>2, PutBackKept
  <2>4. ASSUME NEW b \in Blocks, OnChain(b)'
        PROVE  OnChain(b)
    BY <1>1, <2>1, <2>2, <2>4, OnChainAppend
  <2> QED
    BY <1>1, <2>3, <2>4 DEF LostPutBack
<1>4. CASE Reorganise
  <2>1. PICK n \in 0..(Len(main) - 1) : Outgrow(SubSeq(main, 1, n))
    BY <1>4 DEF Reorganise
  <2>2. n \in 0..Len(main)
    BY <1>1, ChainProperties
  <2> QED
    BY <1>1, <1>2, <2>1, <2>2, PrefixProperties
<1>5. ASSUME NEW b \in Blocks, Adopt(b)
      PROVE  LostPutBack'
  <2>1. prev[b] \in Chains /\ b \in Links
    BY <1>1 DEF ChainTypeOK, Links
  <2> QED
    BY <1>2, <1>5, <2>1, ChainAppend DEF Adopt
<1> QED
  BY <1>3, <1>4, <1>5 DEF NewTip

LEMMA NextLostPutBack ==
  ASSUME IInv, LostPutBack, [Next]_vars
  PROVE  LostPutBack'
<1>1. ChainTypeOK /\ main \in Chains
  BY DEF IInv, ChainTypeOK
\* A submission that is given up is of a block that is off the chain.
<1>2. ASSUME NEW b \in Blocks, UNCHANGED <<main, reorgs>>, sub' = [sub EXCEPT ![b] = "lost"],
             node'[b] # "queued", \A x \in Blocks \ {b} : node'[x] = node[x],
             ~OnChain(b)
      PROVE  LostPutBack'
  BY <1>1, <1>2 DEF LostPutBack, OnChain, PutBack, ChainTypeOK
<1>3. ASSUME NEW b \in Blocks, UNCHANGED <<main, reorgs, node>>, NEW s,
             sub' = [sub EXCEPT ![b] = s], s # "lost"
      PROVE  LostPutBack'
  BY <1>1, <1>3 DEF LostPutBack, OnChain, PutBack, ChainTypeOK
<1>4. ASSUME NEW b \in Blocks, Submission(b)
      PROVE  LostPutBack'
  <2>1. UNCHANGED <<main, reorgs>>
    BY <1>4 DEF Submission, SubmitReturns, SubmitFails, SubmitTimesOut, CheckAnswers,
                NotFound, CheckFails, SubmissionEnds, chain
  <2>2. CASE SubmitReturns(b)
    <3>1. node[b] = "rejected" => ~OnChain(b)
      BY OnChainTaken DEF Taken
    <3> QED
      BY <1>2, <1>3, <2>1, <2>2, <3>1 DEF SubmitReturns, SubmissionEnds
  <2>3. CASE SubmitFails(b)
    <3>1. CASE UNCHANGED node /\ sub' = [sub EXCEPT ![b] = "missed"]
      BY <1>3, <2>1, <3>1
    <3>2. CASE /\ node[b] = "queued" /\ node' = [node EXCEPT ![b] = "refused"]
               /\ sub' = [sub EXCEPT ![b] = "lost"]
      <4>1. ~OnChain(b)
        BY <3>2, OnChainTaken DEF Taken
      <4>2. node'[b] # "queued" /\ \A x \in Blocks \ {b} : node'[x] = node[x]
        BY <1>1, <3>2 DEF ChainTypeOK
      <4> QED
        BY <1>2, <2>1, <3>2, <4>1, <4>2
    <3> QED
      BY <2>3, <3>1, <3>2 DEF SubmitFails, SubmissionEnds
  <2>4. CASE SubmitTimesOut(b)
    <3>1. UNCHANGED node /\ sub' = [sub EXCEPT ![b] = "checking"]
      BY <2>4 DEF SubmitTimesOut
    <3> QED
      BY <1>3, <2>1, <3>1
  <2>5. CASE CheckAnswers(b)
    <3>1. UNCHANGED node
      BY <2>5 DEF CheckAnswers
    <3>2. CASE SubmissionEnds(b, "done")
      BY <1>3, <2>1, <3>1, <3>2 DEF SubmissionEnds
    <3>3. CASE ~(Height(b) <= Len(main) /\ main[Height(b)] = b) /\ NotFound(b)
      <4>1. ~OnChain(b)
        BY <3>3, OnChainTaken
      <4>2. CASE node[b] = "queued"
        BY <1>3, <2>1, <3>1, <3>3, <4>2 DEF NotFound, SubmissionEnds
      <4>3. CASE node[b] # "queued"
        BY <1>2, <2>1, <3>1, <3>3, <4>1, <4>3 DEF NotFound, SubmissionEnds
      <4> QED
        BY <4>2, <4>3
    <3> QED
      BY <2>5, <3>2, <3>3 DEF CheckAnswers
  <2>6. CASE CheckFails(b)
    BY <1>3, <2>1, <2>6 DEF CheckFails, SubmissionEnds
  <2> QED
    BY <1>4, <2>2, <2>3, <2>4, <2>5, <2>6 DEF Submission
<1>5. ASSUME NEW b \in Blocks, NEW m \in Miners, NEW w \in Works, Solve(b, m, w)
      PROVE  LostPutBack'
  <2>1. /\ sub' = [sub EXCEPT ![b] = "submitting"] /\ node' = [node EXCEPT ![b] = "queued"]
        /\ UNCHANGED <<main, reorgs>>
    BY <1>5 DEF Solve, chain
  <2> QED
    BY <1>1, <2>1 DEF LostPutBack, OnChain, PutBack, ChainTypeOK
<1>6. ASSUME NEW b \in Blocks, NodeExecutes(b)
      PROVE  LostPutBack'
  <2>1. /\ node[b] = "queued" /\ UNCHANGED <<sub, reorgs>>
        /\ main' = main \/ main' = Append(main, b)
        /\ \E s \in Taken \cup {"rejected"} : node' = [node EXCEPT ![b] = s]
    BY <1>6 DEF NodeExecutes, Taken
  <2>2. \A x \in Blocks : node'[x] = "queued" => node[x] = "queued"
    BY <1>1, <2>1 DEF ChainTypeOK, Taken
  <2>3. ASSUME NEW x \in Blocks, sub[x] = "lost", OnChain(x)'
        PROVE  PutBack(x)'
    <3>1. x # b
      BY <2>1, <2>3 DEF LostPutBack
    <3>2. CASE UNCHANGED main
      BY <2>1, <2>3, <3>2 DEF LostPutBack, OnChain, PutBack
    <3>3. CASE main' = Append(main, b)
      <4>1. b \in Links
        BY DEF Links
      <4>2. OnChain(x)
        BY <1>1, <2>3, <3>1, <3>3, <4>1, OnChainAppend
      <4> QED
        BY <1>1, <2>1, <2>3, <3>3, <4>1, <4>2, PutBackKept DEF LostPutBack
    <3> QED
      BY <2>1, <3>2, <3>3
  <2> QED
    BY <2>1, <2>2, <2>3 DEF LostPutBack
<1>7. CASE Crash
  BY <1>7 DEF Crash, chain, LostPutBack, OnChain, PutBack
<1>8. ASSUME UNCHANGED <<chain, sub, node>>
      PROVE  LostPutBack'
  BY <1>8 DEF LostPutBack, OnChain, PutBack, chain
<1>9. ASSUME NEW m \in Miners \cup OtherCoin, NEW w \in Works, Share(m, w)
      PROVE  LostPutBack'
  BY <1>8, <1>9 DEF Share, submission
<1>10. ASSUME NEW b \in Blocks, Ask(b)
       PROVE  LostPutBack'
  BY <1>8, <1>10 DEF Ask, submission
<1>11. CASE Poll \/ Settle \/ PruneStarts \/ PruneChunk \/ UNCHANGED vars
  BY <1>8, <1>11 DEF Poll, Settle, PruneStarts, PruneChunk, vars, submission
<1> QED
  BY <1>4, <1>5, <1>6, <1>7, <1>9, <1>10, <1>11, NewTipLostPutBack DEF Next

\* Whatever the faults, a block of the pool on the chain is recorded once its
\* submission is over, but for one whose submission died with the process, one
\* given up for an answer that did not tell what became of it, and one that was
\* off the chain when it was given up, and was put back (handle_block_candidate).
THEOREM WonIsCreditedHolds == Spec => []WonIsCredited
<1>1. Init => DoneRecorded /\ LostPutBack
  BY DEF Init, DoneRecorded, LostPutBack
<1>2. IInv /\ DoneRecorded /\ [Next]_vars => DoneRecorded'
  BY NextDoneRecorded
<1>3. IInv /\ LostPutBack /\ [Next]_vars => LostPutBack'
  BY NextLostPutBack
<1>4. IInv /\ DoneRecorded /\ LostPutBack => WonIsCredited
  <2> SUFFICES ASSUME IInv, DoneRecorded, LostPutBack, NEW b \in Blocks,
                      OnChain(b), db.status[b] = "none"
               PROVE  \/ Undecided(b)
                      \/ sub[b] \in {"missed", "dead"}
                      \/ sub[b] = "lost" /\ PutBack(b)
    BY DEF WonIsCredited
  <2>1. sub[b] \in SubStates
    BY DEF IInv, ChainTypeOK
  <2>2. sub[b] # "idle"
    BY OnChainTaken DEF IInv, Known, Taken
  <2>3. sub[b] # "done"
    BY DEF DoneRecorded
  <2>4. sub[b] = "lost" => PutBack(b)
    BY DEF LostPutBack
  <2> QED
    BY <2>1, <2>2, <2>3, <2>4 DEF SubStates, Undecided
<1> QED
  BY <1>1, <1>2, <1>3, <1>4, InvariantHolds, PTL DEF Spec

-----------------------------------------------------------------------------
(* The split of a reward.                                                  *)

LEMMA TableProperties ==
  ASSUME NEW s \in Seq(Row)
  PROVE  /\ Len(s) \in Nat
         /\ DOMAIN s = 1..Len(s)
         /\ \A i \in 1..Len(s) : s[i] \in Row /\ s[i].work \in Nat
<1>1. Len(s) \in Nat /\ DOMAIN s = 1..Len(s) /\ \A i \in 1..Len(s) : s[i] \in Row
  BY LenProperties, ElementOfSeq
<1>2. \A r \in Row : r.work \in Nat
  BY WorksPositive DEF Row
<1> QED
  BY <1>1, <1>2

LEMMA WorkNat ==
  ASSUME NEW s \in Seq(Row), NEW m
  PROVE  WorkOf(s, m) \in Nat
<1> DEFINE work == [i \in DOMAIN s |-> s[i].work]
           rows == {i \in WindowRows(s) : s[i].miner = m}
<1>1. IsFiniteSet(1..Len(s))
  BY TableProperties, FS_Interval
<1>2. rows \subseteq 1..Len(s)
  BY TableProperties DEF WindowRows, Ours
<1>3. IsFiniteSet(rows)
  BY <1>1, <1>2, FS_Subset
<1>4. \A i \in rows : work[i] \in Nat
  BY <1>2, TableProperties
<1> HIDE DEF work, rows
<1>5. Total(work, rows) \in Nat
  BY <1>3, <1>4, TotalNat
<1> QED
  BY <1>5 DEF WorkOf, work, rows

LEMMA DivisionBound ==
  ASSUME NEW a \in Nat, NEW n \in Nat \ {0}
  PROVE  a \div n \in Nat /\ n * (a \div n) <= a
OBVIOUS

LEMMA FactorCancels ==
  ASSUME NEW n \in Nat \ {0}, NEW x \in Nat, NEW y \in Nat, n * x <= y * n
  PROVE  x <= y
<1> SUFFICES ASSUME y + 1 <= x PROVE FALSE
  OBVIOUS
<1> DEFINE d == x - (y + 1)
<1>1. d \in Nat /\ x = y + 1 + d
  OBVIOUS
<1> HIDE DEF d
<1>2. n * x = y * n + n + n * d
  BY <1>1
<1>3. n * d \in Nat /\ y * n \in Nat
  BY <1>1
<1> QED
  BY <1>2, <1>3

\* Truncation never hands out more than there is.
LEMMA EarnedBound ==
  ASSUME NEW s \in Seq(Row), NEW payable \in Nat
  PROVE  /\ Earned(s, payable) \in [Miners -> Nat]
         /\ Total(Earned(s, payable), Miners) \in Nat
         /\ Total(Earned(s, payable), Miners) <= payable
<1> DEFINE work == [m \in Miners |-> WorkOf(s, m)]
           total == Total(work, Miners)
           earned == [m \in Miners |-> IF total = 0 THEN 0
                                       ELSE (payable * work[m]) \div total]
<1>1. earned = Earned(s, payable)
  BY DEF Earned
<1>2. work \in [Miners -> Nat]
  BY WorkNat
<1>3. IsFiniteSet(Miners)
  BY TablesFinite
<1> HIDE DEF work
<1>4. total \in Nat
  BY <1>2, <1>3, TotalNat
<1> HIDE DEF total
<1>5. ASSUME NEW m \in Miners
      PROVE  /\ earned[m] \in Nat
             /\ total * earned[m] <= payable * work[m]
  <2>1. work[m] \in Nat /\ payable * work[m] \in Nat
    BY <1>2
  <2>2. CASE total = 0
    BY <2>1, <2>2
  <2>3. CASE total # 0
    <3>1. earned[m] = (payable * work[m]) \div total
      BY <2>3
    <3> QED
      BY <1>4, <2>1, <2>3, <3>1, DivisionBound
  <2> QED
    BY <2>2, <2>3
<1>6. earned \in [Miners -> Nat] /\ \A m \in Miners : total = 0 => earned[m] = 0
  BY <1>5
<1> HIDE DEF earned
<1>7. Total(earned, Miners) \in Nat
  BY <1>3, <1>6, TotalNat
<1>8. Total(earned, Miners) <= payable
  <2>1. CASE total = 0
    <3>1. 1 * Total(earned, Miners) <= 0 * Total(earned, Miners)
      BY <1>3, <1>6, <2>1, TotalBound, 1 \in Nat, 0 \in Nat
    <3> QED
      BY <1>7, <3>1
  <2>2. CASE total # 0
    <3>1. total * Total(earned, Miners) <= payable * Total(work, Miners)
      BY <1>2, <1>3, <1>4, <1>5, <1>6, TotalBound
    <3>2. total * Total(earned, Miners) <= payable * total
      BY <3>1 DEF total
    <3> QED
      BY <1>4, <1>7, <2>2, <3>2, FactorCancels
  <2> QED
    BY <2>1, <2>2
<1> QED
  BY <1>1, <1>6, <1>7, <1>8

\* A split shares out the reward, all of it and no more.
LEMMA SplitPays ==
  ASSUME NEW s \in Seq(Row), NEW reward \in Nat
  PROVE  /\ Split(s, reward) \in [Miners -> Nat]
         /\ Total(Split(s, reward), Miners) = reward
<1> DEFINE payable == (reward * (100 - FeePercent)) \div 100
           earned == Earned(s, payable)
           rest == reward - Total(earned, Miners)
           split == [earned EXCEPT ![Faucet] = earned[Faucet] + rest]
<1>1. payable \in Nat /\ payable <= reward
  <2>1. 100 - FeePercent \in 1..100
    BY FeeBelow100
  <2>2. \A k \in 1..100 : reward * k \in Nat /\ reward * k <= reward * 100
    <3> TAKE k \in 1..100
    <3>1. 100 - k \in Nat /\ reward * (100 - k) \in Nat
      OBVIOUS
    <3>2. reward * 100 = reward * k + reward * (100 - k)
      OBVIOUS
    <3> QED
      BY <3>1, <3>2
  <2>3. \A x \in Nat : x <= reward * 100 => x \div 100 \in Nat /\ x \div 100 <= reward
    OBVIOUS
  <2> QED
    BY <2>1, <2>2, <2>3
<1> HIDE DEF payable
<1>2. /\ earned \in [Miners -> Nat]
      /\ Total(earned, Miners) \in Nat /\ Total(earned, Miners) <= payable
  BY <1>1, EarnedBound
<1> HIDE DEF earned
<1>3. rest \in Nat
  BY <1>1, <1>2
<1>4. rest + Total(earned, Miners) = reward
  BY <1>2
<1> HIDE DEF rest
<1>5. split \in [Miners -> Nat] /\ split[Faucet] = earned[Faucet] + rest
  BY <1>2, <1>3, FaucetIsMiner
<1>6. \A m \in Miners \ {Faucet} : earned[m] = split[m]
  BY <1>2
<1>7. split = Split(s, reward)
  BY DEF Split, payable, earned, rest
<1> HIDE DEF split
<1>8. Total(split, Miners) + earned[Faucet] = Total(earned, Miners) + split[Faucet]
  BY <1>2, <1>5, <1>6, FaucetIsMiner, TablesFinite, TotalChange
<1>9. Total(split, Miners) \in Nat /\ earned[Faucet] \in Nat
  BY <1>2, <1>5, FaucetIsMiner, TablesFinite, TotalNat
<1> QED
  BY <1>2, <1>3, <1>4, <1>5, <1>7, <1>8, <1>9

-----------------------------------------------------------------------------
(* The books: the credits of a block that waits for maturity share out its  *)
(* reward, and the balances are the sum of those that were paid.           *)

Matured(d) == {b \in Blocks : d.status[b] = "matured"}

Balanced(d) ==
  /\ d \in Ledger
  /\ \A b \in Blocks :
       d.status[b] = "immature" => Total(d.credits[b], Miners) = Reward[b]
  /\ Total(d.owed, Miners) = Total(Reward, Matured(d))

LEMMA EmptyBalanced == Balanced(EmptyLedger)
<1>1. EmptyLedger \in Ledger
  BY EmptyLedgerType
<1>2. \A b \in Blocks : EmptyLedger.status[b] = "none"
  BY DEF EmptyLedger
<1>3. Matured(EmptyLedger) = {}
  BY <1>2 DEF Matured
<1>4. EmptyLedger.owed = Nothing
  BY DEF EmptyLedger
<1>5. Total(Nothing, Miners) = 0
  <2>1. \A m \in Miners : Nothing[m] = 0
    BY DEF Nothing
  <2>2. \A m \in Miners : Nothing[m] \in Nat /\ 1 * Nothing[m] <= 0 * Nothing[m]
    BY <2>1
  <2>3. 1 * Total(Nothing, Miners) <= 0 * Total(Nothing, Miners)
    BY <2>2, TablesFinite, TotalBound, 0 \in Nat, 1 \in Nat
  <2>4. Total(Nothing, Miners) \in Nat
    BY <2>2, TablesFinite, TotalNat
  <2> QED
    BY <2>3, <2>4
<1>6. Total(Reward, Matured(EmptyLedger)) = 0
  BY <1>3, TotalEmpty
<1> QED
  BY <1>1, <1>2, <1>4, <1>5, <1>6 DEF Balanced

LEMMA CreditBalanced ==
  ASSUME NEW d, Balanced(d), NEW b \in Blocks, NEW s \in Seq(Row)
  PROVE  Balanced(CreditBlock(d, b, Split(s, Reward[b])))
<1> DEFINE split == Split(s, Reward[b])
           e == CreditBlock(d, b, split)
<1>1. CASE d.status[b] # "none"
  BY <1>1 DEF CreditBlock
<1>2. CASE d.status[b] = "none"
  <2>1. Reward[b] \in Nat
    BY RewardNat
  <2>2. split \in [Miners -> Nat] /\ Total(split, Miners) = Reward[b]
    BY <2>1, SplitPays
  <2> HIDE DEF split
  <2>3. d \in Ledger
    BY DEF Balanced
  <2> DEFINE status == [d.status EXCEPT ![b] = "immature"]
             credits == [d.credits EXCEPT ![b] = split]
  <2>4. status \in [Blocks -> BlockStatus] /\ credits \in [Blocks -> [Miners -> Nat]]
    BY <2>2, <2>3 DEF Ledger, BlockStatus
  <2>5. /\ status[b] = "immature" /\ credits[b] = split
        /\ \A x \in Blocks \ {b} : status[x] = d.status[x] /\ credits[x] = d.credits[x]
    BY <2>3 DEF Ledger
  <2>6. e = [d EXCEPT !.status = status, !.credits = credits]
    BY <1>2 DEF CreditBlock
  <2> HIDE DEF e, status, credits
  <2>7. e \in Ledger /\ e.status = status /\ e.credits = credits /\ e.owed = d.owed
    BY <2>3, <2>4, <2>6 DEF Ledger
  <2>8. Matured(e) = Matured(d)
    BY <1>2, <2>5, <2>7 DEF Matured
  <2>9. Total(Reward, Matured(e)) = Total(Reward, Matured(d))
    BY <2>8
  <2>10. \A x \in Blocks :
           e.status[x] = "immature" => Total(e.credits[x], Miners) = Reward[x]
    BY <2>2, <2>5, <2>7 DEF Balanced
  <2>11. Balanced(e)
    BY <2>7, <2>9, <2>10 DEF Balanced
  <2> QED
    BY <2>11 DEF e, split
<1> QED
  BY <1>1, <1>2

LEMMA MatureBalanced ==
  ASSUME NEW d, Balanced(d), NEW b \in Blocks
  PROVE  Balanced(MatureBlock(d, b))
<1> DEFINE e == MatureBlock(d, b)
<1>1. CASE d.status[b] # "immature"
  BY <1>1 DEF MatureBlock
<1>2. CASE d.status[b] = "immature"
  <2>1. d \in Ledger
    BY DEF Balanced
  <2>2. e \in Ledger
    BY <2>1, MatureBlockType
  <2> DEFINE status == [d.status EXCEPT ![b] = "matured"]
             owed == [m \in Miners |-> d.owed[m] + d.credits[b][m]]
  <2>3. /\ status[b] = "matured"
        /\ \A x \in Blocks \ {b} : status[x] = d.status[x]
    BY <2>1 DEF Ledger
  <2>4. e = [d EXCEPT !.owed = owed, !.status = status]
    BY <1>2 DEF MatureBlock
  <2>5. /\ d.owed \in [Miners -> Nat] /\ d.credits[b] \in [Miners -> Nat]
    BY <2>1 DEF Ledger
  <2>6. \A m \in Miners : owed[m] = d.owed[m] + d.credits[b][m]
    OBVIOUS
  <2> HIDE DEF e, status, owed
  <2>7. e.status = status /\ e.owed = owed /\ e.credits = d.credits
    BY <2>1, <2>4 DEF Ledger
  <2>8. Total(owed, Miners) = Total(d.owed, Miners) + Total(d.credits[b], Miners)
    BY <2>5, <2>6, TablesFinite, TotalPlus
  <2>9. Matured(e) = Matured(d) \cup {b} /\ b \notin Matured(d)
    BY <1>2, <2>3, <2>7 DEF Matured
  <2>10. IsFiniteSet(Matured(d)) /\ \A x \in Matured(d) \cup {b} : Reward[x] \in Nat
    BY TablesFinite, FS_Subset, RewardNat DEF Matured
  <2>11. Total(Reward, Matured(d) \cup {b}) = Reward[b] + Total(Reward, Matured(d))
    BY <2>9, <2>10, TotalAdd
  <2>12. Total(Reward, Matured(e)) = Reward[b] + Total(Reward, Matured(d))
    BY <2>9, <2>11
  <2>13. /\ Reward[b] \in Nat /\ Total(Reward, Matured(d)) \in Nat
    BY <2>10, TotalNat, RewardNat
  <2>14. Total(d.credits[b], Miners) = Reward[b]
         /\ Total(d.owed, Miners) = Total(Reward, Matured(d))
    BY <1>2 DEF Balanced
  <2>15. Total(e.owed, Miners) = Total(Reward, Matured(e))
    BY <2>7, <2>8, <2>12, <2>13, <2>14
  <2>16. \A x \in Blocks :
           e.status[x] = "immature" => Total(e.credits[x], Miners) = Reward[x]
    BY <2>3, <2>7 DEF Balanced
  <2>17. Balanced(e)
    BY <2>2, <2>15, <2>16 DEF Balanced
  <2> QED
    BY <2>17 DEF e
<1> QED
  BY <1>1, <1>2

LEMMA OrphanBalanced ==
  ASSUME NEW d, Balanced(d), NEW b \in Blocks
  PROVE  Balanced(OrphanBlock(d, b))
<1> DEFINE e == OrphanBlock(d, b)
           fate == IF d.status[b] = "immature" THEN "orphaned" ELSE d.status[b]
           status == [d.status EXCEPT ![b] = fate]
           credits == [d.credits EXCEPT ![b] = Nothing]
<1>1. d \in Ledger
  BY DEF Balanced
<1>2. e \in Ledger
  BY <1>1, OrphanBlockType
<1>3. /\ status[b] = fate
      /\ \A x \in Blocks \ {b} : status[x] = d.status[x] /\ credits[x] = d.credits[x]
  BY <1>1 DEF Ledger
<1>4. fate # "immature" /\ (fate = "matured" <=> d.status[b] = "matured")
  OBVIOUS
<1>5. e = [d EXCEPT !.credits = credits, !.status = status]
  BY DEF OrphanBlock
<1> HIDE DEF e, fate, status, credits
<1>6. e.status = status /\ e.credits = credits /\ e.owed = d.owed
  BY <1>1, <1>5 DEF Ledger
<1>7. Matured(e) = Matured(d)
  BY <1>3, <1>4, <1>6 DEF Matured
<1>8. Total(Reward, Matured(e)) = Total(Reward, Matured(d))
  BY <1>7
<1>9. \A x \in Blocks :
        e.status[x] = "immature" => Total(e.credits[x], Miners) = Reward[x]
  BY <1>3, <1>4, <1>6 DEF Balanced
<1>10. Balanced(e)
  BY <1>2, <1>6, <1>8, <1>9 DEF Balanced
<1> QED
  BY <1>10 DEF e

\* The tables: no floor is above the rows a window holds.
TableInv ==
  /\ shares \in Seq(Row)
  /\ pruned \in Nat
  /\ floor \in Nat
  /\ floor > 0 => floor + Window <= pruned + Len(shares)

BooksInv ==
  /\ Balanced(db)
  /\ TableInv
  /\ finder \in [Blocks -> Miners]

LEMMA InitBooks == Init => BooksInv
<1> SUFFICES ASSUME Init PROVE BooksInv
  OBVIOUS
<1>1. Balanced(db)
  BY EmptyBalanced DEF Init
<1>2. TableInv
  BY DEF Init, TableInv
<1>3. finder \in [Blocks -> Miners]
  BY FaucetIsMiner DEF Init
<1> QED
  BY <1>1, <1>2, <1>3 DEF BooksInv

LEMMA RecordShareTable ==
  ASSUME TableInv, NEW m \in Miners \cup OtherCoin, NEW w \in Works, RecordShare(m, w)
  PROVE  TableInv'
<1>1. /\ shares' = Append(shares, [miner |-> m, work |-> w])
      /\ UNCHANGED <<pruned, floor>>
  BY DEF RecordShare
<1>2. [miner |-> m, work |-> w] \in Row
  BY DEF Row
<1>3. shares' \in Seq(Row) /\ Len(shares') = Len(shares) + 1
  BY <1>1, <1>2, AppendProperties DEF TableInv
<1> QED
  BY <1>1, <1>3, LenProperties, WindowPositive DEF TableInv

\* The rows that are left when n of the oldest go.
LEMMA RestOfTable ==
  ASSUME NEW s \in Seq(Row), NEW n \in 0..Len(s)
  PROVE  LET r == SubSeq(s, n + 1, Len(s))
         IN  /\ r \in Seq(Row)
             /\ Len(r) = Len(s) - n
             /\ \A i \in 1..(Len(s) - n) : r[i] = s[n + i]
<1> DEFINE r == SubSeq(s, n + 1, Len(s))
<1>1. Len(s) \in Nat /\ \A i \in (n + 1)..Len(s) : s[i] \in Row
  BY TableProperties
<1>2. /\ r \in Seq(Row)
      /\ Len(r) = IF n + 1 <= Len(s) THEN Len(s) - (n + 1) + 1 ELSE 0
      /\ \A i \in 1..(Len(s) - (n + 1) + 1) : r[i] = s[(n + 1) + i - 1]
  BY <1>1, SubSeqProperties
<1> HIDE DEF r
<1>3. \A i \in 1..(Len(s) - n) : r[i] = s[n + i]
  BY <1>1, <1>2
<1>4. Len(r) = Len(s) - n
  BY <1>1, <1>2
<1> QED
  BY <1>2, <1>3, <1>4 DEF r

LEMMA PruneTable ==
  ASSUME TableInv, PruneChunk
  PROVE  /\ TableInv'
         /\ \E n \in 0..Len(shares) :
              /\ pruned' = pruned + n
              /\ shares' = SubSeq(shares, n + 1, Len(shares))
              /\ n + Window <= Len(shares)
<1>1. PICK n \in 0..Chunk :
        /\ floor > 0
        /\ pruned + n <= floor
        /\ shares' = SubSeq(shares, n + 1, Len(shares))
        /\ pruned' = pruned + n
        /\ floor' = IF n < Chunk THEN 0 ELSE floor
  BY DEF PruneChunk
<1>2. /\ n \in Nat /\ Len(shares) \in Nat /\ pruned \in Nat /\ floor \in Nat
      /\ shares \in Seq(Row) /\ Window \in Nat
  BY ChunkPositive, TableProperties, WindowPositive DEF TableInv
<1>3. n + Window <= Len(shares)
  BY <1>1, <1>2 DEF TableInv
<1>4. n \in 0..Len(shares)
  BY <1>2, <1>3
<1>5. shares' \in Seq(Row) /\ Len(shares') = Len(shares) - n
  BY <1>1, <1>2, <1>4, RestOfTable
<1>6. pruned' \in Nat /\ floor' \in Nat
  BY <1>1, <1>2
<1>7. floor' > 0 => floor' + Window <= pruned' + Len(shares')
  <2>1. floor + Window <= pruned + Len(shares)
    BY <1>1 DEF TableInv
  <2>2. pruned' + Len(shares') = pruned + Len(shares)
    <3>1. pruned' = pruned + n
      BY <1>1
    <3> QED
      BY <1>2, <1>5, <3>1
  <2>3. floor' = 0 \/ floor' = floor
    BY <1>1
  <2> QED
    BY <2>1, <2>2, <2>3
<1>8. TableInv'
  BY <1>5, <1>6, <1>7 DEF TableInv
<1> QED
  BY <1>1, <1>3, <1>4, <1>8

LEMMA NextBooks ==
  ASSUME ChainTypeOK, BooksInv, [Next]_vars
  PROVE  BooksInv'
<1>1. Balanced(db) /\ TableInv /\ finder \in [Blocks -> Miners] /\ shares \in Seq(Row)
  BY DEF BooksInv, TableInv
<1>2. ASSUME UNCHANGED <<db, shares, pruned, floor, finder>>
      PROVE  BooksInv'
  BY <1>1, <1>2 DEF BooksInv, TableInv
<1>3. ASSUME NEW m \in Miners \cup OtherCoin, NEW w \in Works, Share(m, w)
      PROVE  BooksInv'
  BY <1>1, <1>3, RecordShareTable DEF Share, submission, BooksInv
<1>4. ASSUME NEW b \in Blocks, NEW m \in Miners, NEW w \in Works, Solve(b, m, w)
      PROVE  BooksInv'
  <2>1. RecordShare(m, w) /\ UNCHANGED db /\ finder' = [finder EXCEPT ![b] = m]
    BY <1>4 DEF Solve
  <2> QED
    BY <1>1, <2>1, RecordShareTable DEF BooksInv
<1>5. ASSUME NEW b \in Blocks, db' = Credited(b), UNCHANGED <<table, finder>>
      PROVE  BooksInv'
  <2>1. Balanced(Credited(b))
    BY <1>1, CreditBalanced DEF Credited
  <2> QED
    BY <1>1, <1>5, <2>1 DEF BooksInv, TableInv, table
<1>6. ASSUME NEW b \in Blocks, Submission(b)
      PROVE  BooksInv'
  <2>1. UNCHANGED <<table, finder>> /\ (UNCHANGED db \/ db' = Credited(b))
    BY <1>6 DEF Submission, SubmitReturns, SubmitFails, SubmitTimesOut, CheckAnswers,
                NotFound, CheckFails, SubmissionEnds
  <2> QED
    BY <1>2, <1>5, <2>1 DEF table
<1>7. ASSUME NEW b \in Blocks, NodeExecutes(b) \/ Ask(b)
      PROVE  BooksInv'
  BY <1>2, <1>7 DEF NodeExecutes, Ask, table, submission
<1>8. CASE NewTip \/ Poll \/ UNCHANGED vars
  BY <1>2, <1>8
  DEF NewTip, Extend, Reorganise, Adopt, Outgrow, NewChain, Poll, vars, table, submission
<1>9. CASE Settle
  <2>1. PICK b \in Blocks, hash \in Links : asked = <<b, hash>> /\ asked # NoAnswer
    BY <1>9, AskedTyped DEF Settle
  <2>2. db' = Verdict(b, hash) /\ UNCHANGED <<table, finder>>
    BY <1>9, <2>1 DEF Settle, submission
  <2>3. Balanced(Verdict(b, hash))
    BY <1>1, MatureBalanced, OrphanBalanced DEF Verdict
  <2> QED
    BY <1>1, <2>2, <2>3 DEF BooksInv, TableInv, table
<1>10. CASE PruneStarts
  <2>1. /\ BeyondFloor(shares) > 0
        /\ floor' = pruned + BeyondFloor(shares)
        /\ UNCHANGED <<db, shares, pruned, finder>>
    BY <1>10 DEF PruneStarts, submission
  <2>2. Len(shares) \in Nat /\ pruned \in Nat /\ Window \in Nat
    BY <1>1, TableProperties, WindowPositive DEF TableInv
  <2>3. BeyondFloor(shares) = Len(shares) - Window
    BY <2>1, <2>2 DEF BeyondFloor, Clamp
  <2> QED
    BY <1>1, <2>1, <2>2, <2>3 DEF BooksInv, TableInv
<1>11. CASE PruneChunk
  <2>1. UNCHANGED <<db, finder>>
    BY <1>11 DEF PruneChunk, submission
  <2> QED
    BY <1>1, <1>11, <2>1, PruneTable DEF BooksInv
<1>12. CASE Crash
  BY <1>1, <1>12 DEF Crash, BooksInv, TableInv
<1> QED
  BY <1>3, <1>4, <1>6, <1>7, <1>8, <1>9, <1>10, <1>11, <1>12 DEF Next

LEMMA BooksHold == Spec => []BooksInv
<1>1. Init => BooksInv
  BY InitBooks
<1>2. ChainTypeOK /\ BooksInv /\ [Next]_vars => BooksInv'
  BY NextBooks
<1> QED
  BY <1>1, <1>2, ChainTypeCorrect, PTL DEF Spec

\* Every variable keeps its type: no amount that is owed or credited is negative.
THEOREM TypeCorrect == Spec => []TypeOK
<1>1. BooksInv /\ ChainTypeOK => TypeOK
  BY DEF BooksInv, TableInv, Balanced, TypeOK
<1> QED
  BY <1>1, BooksHold, ChainTypeCorrect, PTL

\* The miners are owed the rewards of the matured blocks, to the last unit,
\* under every fault.
THEOREM SolventHolds == Spec => []Solvent
<1>1. BooksInv => Solvent
  BY DEF BooksInv, Balanced, Solvent, Matured, MaturedBlocks
<1> QED
  BY <1>1, BooksHold, PTL

-----------------------------------------------------------------------------
(* The prune.                                                              *)

\* When every row is of this coin, its window is the last rows of the table.
LEMMA WindowIsLast ==
  ASSUME OtherCoin = {}, NEW s \in Seq(Row)
  PROVE  WindowRows(s) = {i \in 1..Len(s) : Len(s) - i < Window}
<1>1. Len(s) \in Nat /\ DOMAIN s = 1..Len(s) /\ \A i \in 1..Len(s) : s[i].miner \in Miners
  BY TableProperties DEF Row
<1>2. Ours(s) = 1..Len(s)
  BY <1>1 DEF Ours
<1>3. ASSUME NEW i \in 1..Len(s)
      PROVE  Cardinality({j \in 1..Len(s) : j > i}) = Len(s) - i
  <2>1. {j \in 1..Len(s) : j > i} = (i + 1)..Len(s)
    BY <1>1
  <2>2. i + 1 \in Int /\ Len(s) \in Int
    BY <1>1
  <2>3. Cardinality((i + 1)..Len(s)) = IF i + 1 > Len(s) THEN 0 ELSE Len(s) - (i + 1) + 1
    BY <2>2, FS_Interval
  <2>4. Cardinality((i + 1)..Len(s)) = Len(s) - i
    BY <1>1, <2>3
  <2> QED
    BY <2>1, <2>4
<1> QED
  BY <1>2, <1>3 DEF WindowRows

\* A prune takes no row a block found next would be split over, when the
\* database holds the shares of one coin.
THEOREM PruneKeepsWindowHolds ==
  ASSUME OtherCoin = {}
  PROVE  Spec => PruneKeepsWindow
<1>1. ASSUME TableInv, PruneChunk
      PROVE  NextWindow' = NextWindow
  <2>1. PICK n \in 0..Len(shares) :
          /\ pruned' = pruned + n
          /\ shares' = SubSeq(shares, n + 1, Len(shares))
          /\ n + Window <= Len(shares)
    BY <1>1, PruneTable
  <2>2. shares \in Seq(Row) /\ shares' \in Seq(Row) /\ pruned \in Nat /\ n \in Nat
    BY <1>1, PruneTable, <2>1 DEF TableInv
  <2> DEFINE k == Len(shares)
  <2>3. /\ Len(shares') = k - n /\ k \in Nat /\ Window \in Nat
        /\ \A i \in 1..(k - n) : shares'[i] = shares[n + i]
    BY <2>1, <2>2, RestOfTable, TableProperties, WindowPositive
  <2>4. /\ WindowRows(shares) = {i \in 1..k : k - i < Window}
        /\ WindowRows(shares') = {i \in 1..(k - n) : (k - n) - i < Window}
    BY <2>2, <2>3, WindowIsLast
  <2> HIDE DEF k
  <2>5. /\ NextWindow = {<<pruned + i, shares[i]>> : i \in WindowRows(shares)}
        /\ NextWindow' = {<<pruned' + i, shares'[i]>> : i \in WindowRows(shares')}
    BY DEF NextWindow
  <2>6. ASSUME NEW i \in WindowRows(shares')
        PROVE  /\ n + i \in WindowRows(shares)
               /\ <<pruned' + i, shares'[i]>> = <<pruned + (n + i), shares[n + i]>>
    BY <2>1, <2>2, <2>3, <2>4
  <2>7. ASSUME NEW i \in WindowRows(shares)
        PROVE  /\ i - n \in WindowRows(shares')
               /\ <<pruned' + (i - n), shares'[i - n]>> = <<pruned + i, shares[i]>>
    <3>1. i \in 1..k /\ k - i < Window /\ n + Window <= k
      BY <2>1, <2>4 DEF k
    <3>2. i - n \in 1..(k - n) /\ (k - n) - (i - n) < Window
      BY <2>2, <2>3, <3>1
    <3>3. shares'[i - n] = shares[n + (i - n)] /\ n + (i - n) = i
      BY <2>2, <2>3, <3>1, <3>2
    <3>4. pruned' + (i - n) = pruned + i
      BY <2>1, <2>2, <3>1, <2>3
    <3>5. i - n \in WindowRows(shares')
      BY <2>4, <3>2
    <3> QED
      BY <3>3, <3>4, <3>5
  <2>8. \A x \in NextWindow' : x \in NextWindow
    BY <2>5, <2>6
  <2>9. \A x \in NextWindow : x \in NextWindow'
    BY <2>5, <2>7
  <2> QED
    BY <2>8, <2>9, <2>5
<1>2. ASSUME TableInv, [Next]_vars, pruned' > pruned
      PROVE  PruneChunk
  <2>1. pruned' # pruned
    BY <1>2 DEF TableInv
  <2> QED
    BY <1>2, <2>1
    DEF Next, Share, Solve, RecordShare, Submission, SubmitReturns, SubmitFails,
        SubmitTimesOut, CheckAnswers, NotFound, CheckFails, SubmissionEnds, NodeExecutes, NewTip,
        Extend, Reorganise, Adopt, Outgrow, NewChain, Poll, Ask, Settle, PruneStarts,
        Crash, vars, table
<1>3. BooksInv /\ [Next]_vars => [pruned' > pruned => NextWindow' = NextWindow]_vars
  BY <1>1, <1>2 DEF BooksInv
<1> QED
  BY <1>3, BooksHold, PTL DEF Spec, PruneKeepsWindow
=============================================================================
