---------------------------- MODULE ReplayGuard ----------------------------
(***************************************************************************)
(* CryptoManager::checkReplay(): the cache of nonces seen, one bucket per  *)
(* sender, with a time to live and two caps.  Any packet may arrive at any *)
(* time, any number of times; a refusal changes nothing.                   *)
(*                                                                         *)
(* The nonce of a packet is the packet itself: a sender draws a new one    *)
(* for every packet and signs it with the timestamp.                       *)
(***************************************************************************)
EXTENDS Integers, FiniteSets, QtHash

CONSTANTS
    Senders,          \* bucket keys: identities, and addresses without one
    Stamps,           \* timestamps, by the senders' clocks
    Window,           \* kReplayWindowSec
    Ttl,              \* kNonceCacheTtlSec
    MaxNoncesPerPeer, \* kMaxNoncesPerPeer
    MaxNoncePeers,    \* kMaxNoncePeers
    MaxClock,         \* bound on the clock
    MaxArrivals       \* bound on the packets admitted

ASSUME ReplayGuardAssumption ==
    /\ Stamps \subseteq Int
    /\ Window \in Nat
    /\ Ttl \in Nat
    /\ Ttl >= 2 * Window
    /\ MaxNoncesPerPeer \in Nat \ {0}
    /\ MaxNoncePeers \in Nat \ {0}
    /\ MaxClock \in Nat
    /\ MaxArrivals \in Nat

Packets == [from : Senders, ts : Stamps]
Seen == [ts : 0..MaxClock, seq : Nat]

VARIABLES
    now,
    seenNonces,         \* bucket -> nonce -> when and in which order
    nonceBucketTouched, \* bucket -> its newest sequence number
    nonceSeq,           \* arrivals, ever
    admissions,         \* packet -> how often it passed (history)
    forgotten           \* packet -> how often a cap forgot it (history)

vars == <<now, seenNonces, nonceBucketTouched, nonceSeq, admissions, forgotten>>

Abs(n) == IF n < 0 THEN -n ELSE n
Bucket(b) == Value(seenNonces, b, EmptyHash)
-----------------------------------------------------------------------------
FreshFromThePast(p) == now - p.ts <= Window
Fresh(p) == Abs(now - p.ts) <= Window

ExpiredEarly(seen) == now - seen.ts >= 2 * Window
Expired(seen) == now - seen.ts > Ttl

\* The entries of a bucket that outlive the sweep.
Young(bucket) ==
    Remove(bucket, {n \in DOMAIN bucket : Expired(bucket[n])})

\* How many entries of a bucket arrived before n.
Before(bucket, n) ==
    Cardinality({m \in DOMAIN bucket : bucket[m].seq < bucket[n].seq})

\* A bucket past its cap loses the older half of its arrivals.
AllButNewest(bucket) ==
    IF Cardinality(DOMAIN bucket) <= MaxNoncesPerPeer THEN {}
    ELSE {n \in DOMAIN bucket :
              Before(bucket, n) < Cardinality(DOMAIN bucket) - 1}
OlderHalf(bucket) ==
    IF Cardinality(DOMAIN bucket) <= MaxNoncesPerPeer THEN {}
    ELSE {n \in DOMAIN bucket :
              Before(bucket, n) < Cardinality(DOMAIN bucket) \div 2}

\* evictOldestNoncePeers(): the least recently touched buckets, until the rest
\* fit.
LeastRecent(touched) ==
    {b \in DOMAIN touched :
        Cardinality({c \in DOMAIN touched : touched[c] > touched[b]})
            >= MaxNoncePeers}

EvictOldestNoncePeers(buckets, touched) ==
    LET gone == LeastRecent(touched)
        tooMany == Cardinality(DOMAIN buckets \ gone) > MaxNoncePeers
    IN /\ seenNonces' = IF tooMany THEN EmptyHash ELSE Remove(buckets, gone)
       /\ nonceBucketTouched' =
              IF tooMany THEN EmptyHash ELSE Remove(touched, gone)

\* checkReplay() answers yes.
CheckReplay(p) ==
    LET young == Young(Insert(Bucket(p.from), p,
                              [ts |-> now, seq |-> nonceSeq + 1]))
        kept == Remove(young, OlderHalf(young))
    IN /\ nonceSeq < MaxArrivals
       /\ Fresh(p)
       /\ p \notin DOMAIN Bucket(p.from)
       /\ nonceSeq' = nonceSeq + 1
       /\ EvictOldestNoncePeers(
              Insert(seenNonces, p.from, kept),
              Insert(nonceBucketTouched, p.from, nonceSeq + 1))
       /\ admissions' = [admissions EXCEPT ![p] = @ + 1]
       /\ forgotten' = [q \in Packets |->
              IF /\ q \in DOMAIN (IF q.from = p.from THEN young ELSE Bucket(q.from))
                 /\ q \notin DOMAIN Value(seenNonces', q.from, EmptyHash)
              THEN forgotten[q] + 1 ELSE forgotten[q]]
       /\ UNCHANGED now

\* Time passes; it may jump, as the guard runs only when a packet comes in.
Pass ==
    /\ now < MaxClock
    /\ now' \in (now + 1)..MaxClock
    /\ UNCHANGED <<seenNonces, nonceBucketTouched, nonceSeq, admissions, forgotten>>

Init ==
    /\ now = 0
    /\ seenNonces = EmptyHash
    /\ nonceBucketTouched = EmptyHash
    /\ nonceSeq = 0
    /\ admissions = [p \in Packets |-> 0]
    /\ forgotten = [p \in Packets |-> 0]

Next == Pass \/ \E p \in Packets : CheckReplay(p)

Spec == Init /\ [][Next]_vars
-----------------------------------------------------------------------------
(* Properties *)

Types ==
    /\ now \in 0..MaxClock
    /\ IsHash(nonceBucketTouched, Senders, Nat)
    /\ nonceSeq \in Nat
    /\ DOMAIN seenNonces \subseteq Senders
    /\ \A b \in DOMAIN seenNonces :
           /\ IsHash(seenNonces[b], Packets, Seen)
           /\ \A p \in DOMAIN seenNonces[b] : p.from = b
    /\ admissions \in [Packets -> Nat]
    /\ forgotten \in [Packets -> Nat]

\* "Both with hard caps so a flood cannot grow them without bound" (README).
WithinCaps ==
    /\ Cardinality(DOMAIN seenNonces) <= MaxNoncePeers
    /\ \A b \in DOMAIN seenNonces :
           Cardinality(DOMAIN seenNonces[b]) <= MaxNoncesPerPeer

TypeOK == Types /\ WithinCaps

\* The two hashes agree: every bucket is filed under its newest arrival, which
\* it still holds, and the newest of all is never lost; so the branch that
\* clears the cache outright stays "unreachable unless the hashes disagree".
NewestKept ==
    /\ DOMAIN nonceBucketTouched = DOMAIN seenNonces
    /\ \A b \in DOMAIN seenNonces :
           \E p \in DOMAIN seenNonces[b] :
               seenNonces[b][p].seq = nonceBucketTouched[b]
    /\ nonceSeq > 0 => \E b \in DOMAIN seenNonces :
                            nonceBucketTouched[b] = nonceSeq

\* A packet passes once, and once more for each time a cap forgot it: what the
\* time to live retires could not pass any more.
AtMostOnce == \A p \in Packets : admissions[p] <= 1 + forgotten[p]

\* What has newer arrivals in its own bucket than half the cap, or belongs to a
\* bucket less recently heard than every one that stays, may be forgotten
\* early; a real peer's recent nonces survive a flood from others.
Newer(b, p) ==
    {q \in DOMAIN seenNonces'[b] : seenNonces'[b][q].seq > seenNonces[b][p].seq}

RecentSurvive ==
    [][\A b \in DOMAIN seenNonces : \A p \in DOMAIN seenNonces[b] :
           \/ b \in DOMAIN seenNonces' /\ p \in DOMAIN seenNonces'[b]
           \/ Expired(seenNonces[b][p])
           \/ /\ b \in DOMAIN seenNonces'
              /\ Cardinality(Newer(b, p)) > MaxNoncesPerPeer \div 2
           \/ /\ b \notin DOMAIN seenNonces'
              /\ Cardinality(DOMAIN seenNonces') = MaxNoncePeers
              /\ \A c \in DOMAIN seenNonces' :
                     nonceBucketTouched'[c] > nonceBucketTouched[b]]_vars

\* The cache answers as a log from which only the caps strike anything: that
\* nonces past their time to live are gone changes no answer.
Log == INSTANCE NonceLog WITH struck <- forgotten
Implements == Log!Spec
=============================================================================
