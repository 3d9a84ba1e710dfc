---------------------------- MODULE IdealPayouts ----------------------------
(***************************************************************************)
(* What the payout side of the pool promises, without intents, wallet      *)
(* replies, reconciliation or a process that crashes.                      *)
(*                                                                         *)
(* Books say what each miner has been credited in all, and which blocks    *)
(* have been settled.  A payment is one step, made out of what has been    *)
(* credited and not yet paid, and never undone.  The books may fall back   *)
(* to their last durable copy, but never below what has been paid.         *)
(***************************************************************************)
EXTENDS Integers, Sums

CONSTANTS Miners, Faucet, Blocks, Credits

VARIABLES
  books,   \* [credited, settled]
  saved,   \* the durable copy of books
  paid     \* what each miner has been paid

vars == <<books, saved, paid>>

Covers(b) == \A m \in Miners : paid[m] <= b.credited[m]

Init ==
  /\ books = [credited |-> [m \in Miners |-> 0], settled |-> {}]
  /\ saved = books
  /\ paid = [m \in Miners |-> 0]

\* A block is settled once: its split is credited, or it is orphaned.
Settle(b) ==
  /\ b \notin books.settled
  /\ \/ books' = [settled  |-> books.settled \cup {b},
                  credited |-> [m \in Miners |-> books.credited[m] + Credits[b][m]]]
     \/ books' = [books EXCEPT !.settled = @ \cup {b}]
  /\ UNCHANGED <<saved, paid>>

\* The whole unpaid credit of some miners moves to the faucet.
Sweep(idle) ==
  LET left == [m \in Miners |-> books.credited[m] - paid[m]]
  IN  /\ books' = [books EXCEPT !.credited =
                     [m \in Miners |->
                        CASE m \in idle -> paid[m]
                          [] m = Faucet -> books.credited[m]
                                           + Total(left, idle)
                          [] OTHER      -> books.credited[m]]]
      /\ UNCHANGED <<saved, paid>>

\* The operator corrects one miner's credit, not below what has been paid.
Correct(m) ==
  /\ books'.settled = books.settled
  /\ \A n \in Miners \ {m} : books'.credited[n] = books.credited[n]
  /\ paid[m] <= books'.credited[m]
  /\ UNCHANGED <<saved, paid>>

\* One payment to some miners, out of credit that is already durable.
Pay ==
  /\ \A m \in Miners : /\ paid[m] <= paid'[m]
                       /\ paid'[m] <= books.credited[m]
                       /\ paid'[m] <= saved.credited[m]
  /\ UNCHANGED <<books, saved>>

Save == saved' = books /\ UNCHANGED <<books, paid>>

FallBack == books' = saved /\ UNCHANGED <<saved, paid>>

Next ==
  \/ \E b \in Blocks : Settle(b)
  \/ \E idle \in SUBSET (Miners \ {Faucet}) : Sweep(idle)
  \/ \E m \in Miners : Correct(m)
  \/ Pay
  \/ Save
  \/ FallBack

Spec == Init /\ [][Next]_vars
=============================================================================
