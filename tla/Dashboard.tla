------------------------------ MODULE Dashboard -----------------------------
(***************************************************************************)
(* The HTTP side of the pool (StatsServer._handle and HttpRateLimiter in   *)
(* stats.py): a connection is admitted or closed at once, its request must *)
(* arrive before a deadline, is metered against the window of its client,  *)
(* and is answered before another deadline.  What the pages say is left    *)
(* out: nothing of the pool reads it back.                                 *)
(*                                                                         *)
(* Time is counted in ticks.  The ages of hits, waits and of the last      *)
(* prune grow with every tick, up to a value from which on nothing tells   *)
(* them apart.                                                             *)
(***************************************************************************)
EXTENDS Naturals, Sequences, FiniteSetsExt

CONSTANTS
  Sockets,      \* sockets a peer may open
  Addresses,    \* addresses requests come from, or say that they come from
  NoAddress,    \* a request that names no other address than its peer's
  PeerOf,       \* the address at the other end of each socket
  Proxies,      \* the peers whose X-Forwarded-For is believed
  KeyOf,        \* what an address counts as: itself, or its IPv6 prefix
  MaxConns,     \* MAX_HTTP_CONNS
  Limit,        \* rate_limit_per_min
  Window,       \* how long a request counts
  MaxKeys,      \* MAX_KEYS
  PruneAfter,   \* how long keys without requests are left alone
  ReadTime,     \* how long a request may take to arrive
  RefuseTime,   \* how long a refusal may take to be sent
  AnswerTime    \* how long an answer may take to be sent

Keys == {KeyOf[a] : a \in Addresses}

ASSUME AddressesGiven ==
  /\ NoAddress \notin Addresses /\ Proxies \subseteq Addresses
  /\ PeerOf \in [Sockets -> Addresses] /\ DOMAIN KeyOf = Addresses
ASSUME LimitsPositive ==
  {MaxConns, Limit, MaxKeys, ReadTime, RefuseTime, AnswerTime} \subseteq Nat \ {0}
ASSUME AgesNat == Window \in Nat /\ PruneAfter \in Nat

VARIABLES
  phase,     \* where the handler of each socket waits
  waited,    \* and for how long it has
  active,    \* _active_conns
  hits,      \* _hits: the hits of the keys it holds, oldest first
  order,     \* which of these keys entered before which
  pruned,    \* the age of the last prune
  answered   \* history: the ages of the requests answered under each key
             \* since the key was last evicted

sockets == <<phase, waited, active>>
limiter == <<hits, order, pruned, answered>>
dashboardVars == <<sockets, limiter>>

Waiting == {"reading", "refusing", "answering"}

Deadline ==
  [reading |-> ReadTime, refusing |-> RefuseTime, answering |-> AnswerTime]

DashboardInit ==
  /\ phase = [c \in Sockets |-> "closed"]
  /\ waited = [c \in Sockets |-> 0]
  /\ active = 0
  /\ hits = <<>>
  /\ order = {}
  /\ pruned = PruneAfter + 1
  /\ answered = [k \in Keys |-> <<>>]

-----------------------------------------------------------------------------
(* HttpRateLimiter.                                                        *)

\* How many hits have left the window, from the oldest to the first that has not.
Expired(ages) ==
  CHOOSE n \in 0..Len(ages) :
    /\ \A i \in 1..n : ages[i] > Window
    /\ n < Len(ages) => ages[n + 1] <= Window

Recent(ages) == SubSeq(ages, Expired(ages) + 1, Len(ages))

\* Mutation: a key is dropped with the first hit that leaves the window.
PruneByOldest ==
  [k \in {k \in DOMAIN hits : Head(hits[k]) <= Window} |-> hits[k]]

\* Keys without a hit in the window are dropped.
Prune == [k \in {k \in DOMAIN hits : Recent(hits[k]) # <<>>} |-> Recent(hits[k])]

Pruned == IF pruned > PruneAfter THEN Prune ELSE hits

Oldest ==
  CHOOSE k \in DOMAIN Pruned : \A j \in DOMAIN Pruned : <<j, k>> \notin order

\* A new key takes the place of the one that has been there the longest.
Evicted(k) ==
  IF k \in DOMAIN Pruned \/ Cardinality(DOMAIN Pruned) < MaxKeys THEN {} ELSE {Oldest}

Remaining(k) == DOMAIN Pruned \ Evicted(k)

AgesOf(k) == IF k \in DOMAIN Pruned THEN Recent(Pruned[k]) ELSE <<>>

UnderLimit(k) == Len(AgesOf(k)) < Limit

\* allow: a request counts if it is not over the limit already.
Meter(k) ==
  /\ hits' = [j \in Remaining(k) \cup {k} |->
                IF j # k THEN Pruned[j]
                ELSE AgesOf(k) \o (IF UnderLimit(k) THEN <<0>> ELSE <<>>)]
  /\ order' = (order \cap (Remaining(k) \X Remaining(k)))
               \cup ((Remaining(k) \ {k}) \X ({k} \ Remaining(k)))
  /\ pruned' = IF pruned > PruneAfter THEN 0 ELSE pruned

\* The history, when the request is answered, and when it is not.
Records(k, requests) ==
  answered' = [j \in Keys |->
    (IF j \in Evicted(k) THEN <<>> ELSE answered[j])
      \o (IF j = k THEN requests ELSE <<>>)]

-----------------------------------------------------------------------------
(* StatsServer._handle.                                                    *)

GoesTo(c, p) ==
  /\ phase' = [phase EXCEPT ![c] = p]
  /\ waited' = [waited EXCEPT ![c] = 0]

\* A socket over the cap is closed before anything is awaited.
Admit(c) ==
  /\ phase[c] = "closed"
  /\ active < MaxConns
  /\ active' = active + 1
  /\ GoesTo(c, "reading")
  /\ UNCHANGED limiter

\* The address of the last hop before a proxy, or that of the peer.
ClientIp(c, forwarded) ==
  IF forwarded # NoAddress /\ PeerOf[c] \in Proxies THEN forwarded ELSE PeerOf[c]

\* A request in which something is too long or too much is not parsed: it
\* counts for the peer, and is refused.
Malformed(c) ==
  /\ phase[c] = "reading"
  /\ Meter(KeyOf[PeerOf[c]])
  /\ Records(KeyOf[PeerOf[c]], <<>>)
  /\ GoesTo(c, "refusing")
  /\ UNCHANGED active

\* The probe of a monitor is not metered.
Probe(c) ==
  /\ phase[c] = "reading"
  /\ GoesTo(c, "answering")
  /\ UNCHANGED <<active, limiter>>

Answer(c, k) ==
  /\ phase[c] = "reading"
  /\ UnderLimit(k)
  /\ Meter(k)
  /\ Records(k, <<0>>)
  /\ GoesTo(c, "answering")
  /\ UNCHANGED active

Refuse(c, k) ==
  /\ phase[c] = "reading"
  /\ ~UnderLimit(k)
  /\ Meter(k)
  /\ Records(k, <<>>)
  /\ GoesTo(c, "refusing")
  /\ UNCHANGED active

Request(c, forwarded) ==
  LET k == KeyOf[ClientIp(c, forwarded)] IN Answer(c, k) \/ Refuse(c, k)

Ends(c) ==
  /\ active' = active - 1
  /\ GoesTo(c, "closed")
  /\ UNCHANGED limiter

\* The response is sent, or the peer has gone.
Finishes(c) == phase[c] \in Waiting /\ Ends(c)

\* Mutation: only the request has a deadline.
ExpiresReading(c) == phase[c] = "reading" /\ waited[c] = ReadTime /\ Ends(c)

Expires(c) ==
  /\ phase[c] \in Waiting
  /\ waited[c] = Deadline[phase[c]]
  /\ Ends(c)

Aged(ages) == [i \in DOMAIN ages |-> Min({ages[i] + 1, Window + 1})]

\* Time passes, and no further than a deadline that nobody has acted on.
TimePasses ==
  /\ \A c \in Sockets : phase[c] \in Waiting => waited[c] < Deadline[phase[c]]
  /\ waited' = [c \in Sockets |-> IF phase[c] \in Waiting THEN waited[c] + 1 ELSE 0]
  /\ hits' = [k \in DOMAIN hits |-> Aged(hits[k])]
  /\ pruned' = Min({pruned + 1, PruneAfter + 1})
  /\ answered' = [k \in Keys |-> Recent(Aged(answered[k]))]
  /\ UNCHANGED <<phase, active, order>>

Handler(c) ==
  \/ Malformed(c) \/ Probe(c) \/ Finishes(c) \/ Expires(c)
  \/ \E a \in Addresses \cup {NoAddress} : Request(c, a)

DashboardNext == TimePasses \/ \E c \in Sockets : Admit(c) \/ Handler(c)

\* Time passes, and the loop runs the timeouts that are due.
DashboardFairness == WF_dashboardVars(TimePasses) /\ \A c \in Sockets : WF_dashboardVars(Expires(c))

DashboardSpec == DashboardInit /\ [][DashboardNext]_dashboardVars

DashboardFairSpec == DashboardSpec /\ DashboardFairness

-----------------------------------------------------------------------------
(* Properties.                                                             *)

DashboardTypeOK ==
  /\ phase \in [Sockets -> Waiting \cup {"closed"}]
  /\ waited \in [Sockets -> Nat]
  /\ \A c \in Sockets : phase[c] \in Waiting => waited[c] <= Deadline[phase[c]]
  /\ active \in 0..MaxConns
  /\ DOMAIN hits \subseteq Keys
  /\ Cardinality(DOMAIN hits) <= MaxKeys
  /\ \A k \in DOMAIN hits : hits[k] \in Seq(Nat) /\ Len(hits[k]) <= Limit
  /\ order \subseteq (DOMAIN hits) \X (DOMAIN hits)
  /\ pruned \in 0..(PruneAfter + 1)
  /\ answered \in [Keys -> Seq(Nat)]

\* No client is answered more often in a window than the limit allows, from
\* whatever sockets, unless its key was evicted to make room for others
\* (HttpRateLimiter: "a sliding-window rate limit"; the prune must not
\* forget what still counts).
LimitHolds == \A k \in Keys : Len(answered[k]) <= Limit

\* An admitted connection is over in the end, whatever its peer does
\* (_handle: every wait has a deadline, on the way in and on the way out).
ConnectionsEnd == \A c \in Sockets : phase[c] \in Waiting ~> phase[c] = "closed"
=============================================================================
