------------------------------ MODULE RateGate ------------------------------
(***************************************************************************)
(* CryptoManager::checkRate(), a sliding window of one second per source   *)
(* address, and who asks it: handleDatagram() for a signed packet,         *)
(* dispatch() for everything that is not a file chunk or its ACK.  So a    *)
(* beacon asks once, a chunk once, and any other signed packet twice.      *)
(***************************************************************************)
EXTENDS Integers, FiniteSets, QtHash

CONSTANTS
    Sources,      \* source addresses, forged ones included
    MaxPerSec,    \* checkRate()'s maxPerSec
    MaxRatePeers, \* kMaxRatePeers
    Second,       \* a second, in ticks of the clock
    MaxClock      \* bound on the clock

VARIABLES
    now,
    rateCounters,   \* source -> its window, the calls granted and kept
    granted         \* source -> every call ever granted (history)

vars == <<now, rateCounters, granted>>

\* A call that was granted is its time and its place among those of that time.
\* The clock does not go back, so a window's last entry is its newest.
Old(grants) == {g \in grants : now - g.at >= Second}
Recent(grants) == grants \ Old(grants)
Now(grants) == {g \in grants : g.at = now}
Grant(grants) == grants \cup {[at |-> now, nth |-> Cardinality(Now(grants))]}

\* Windows nobody added to for a second; looked for only past the cap.
IdleForHalf(counters) ==
    IF Cardinality(DOMAIN counters) <= MaxRatePeers THEN {}
    ELSE {s \in DOMAIN counters :
             \A g \in counters[s] : 2 * (now - g.at) >= Second}
IdleForTwo(counters) ==
    IF Cardinality(DOMAIN counters) <= MaxRatePeers THEN {}
    ELSE {s \in DOMAIN counters :
             \A g \in counters[s] : now - g.at >= 2 * Second}
Idle(counters) ==
    IF Cardinality(DOMAIN counters) <= MaxRatePeers THEN {}
    ELSE {s \in DOMAIN counters : Old(counters[s]) = counters[s]}

\* The windows after one call of checkRate(s), and whether it is granted.
Swept(counters, s) ==
    LET left == Remove(counters, Idle(counters))
    IN Insert(left, s, Recent(Value(left, s, {})))
Granted(counters, s) == Cardinality(Swept(counters, s)[s]) < MaxPerSec
CheckRate(counters, s) ==
    LET swept == Swept(counters, s)
    IN IF Granted(counters, s) THEN Insert(swept, s, Grant(swept[s]))
                               ELSE swept

\* A beacon or a file chunk: one call.
AskOnce(s) ==
    /\ rateCounters' = CheckRate(rateCounters, s)
    /\ granted' = IF Granted(rateCounters, s)
                  THEN [granted EXCEPT ![s] = Grant(@)] ELSE granted
    /\ UNCHANGED now

\* A signed packet that handleDatagram() lets through to dispatch().
AskTwice(s) ==
    LET first == CheckRate(rateCounters, s)
    IN /\ Granted(rateCounters, s)
       /\ rateCounters' = CheckRate(first, s)
       /\ granted' = [granted EXCEPT ![s] =
              IF Granted(first, s) THEN Grant(Grant(@)) ELSE Grant(@)]
       /\ UNCHANGED now

Tick ==
    /\ now < MaxClock
    /\ now' = now + 1
    /\ UNCHANGED <<rateCounters, granted>>

Init ==
    /\ now = 0
    /\ rateCounters = EmptyHash
    /\ granted = [s \in Sources |-> {}]

Next == Tick \/ \E s \in Sources : AskOnce(s) \/ AskTwice(s)

Spec == Init /\ [][Next]_vars
-----------------------------------------------------------------------------
(* Properties *)

\* No source is granted more than MaxPerSec calls within a second, though its
\* window may be thrown away and begun again in between.
InASecond(grants, t) == {g \in grants : g.at \in t..(t + Second - 1)}

RateHeld ==
    \A s \in Sources, t \in 0..MaxClock :
        Cardinality(InASecond(granted[s], t)) <= MaxPerSec

\* "Both with hard caps so a flood cannot grow them without bound" (README.md): how
\* far this table does grow.  Past its cap, and the one window a call may add to a
\* full table, it has a window only for sources that were granted a call within the
\* last second (checkRate's purge).
Heard == {s \in Sources : Recent(granted[s]) # {}}
GrowsByTheHeard ==
    [][rateCounters' # rateCounters /\ Cardinality(DOMAIN rateCounters') > MaxRatePeers + 1
           => DOMAIN rateCounters' \subseteq Heard']_vars

\* What README.md says of it.
HardCap == Cardinality(DOMAIN rateCounters) <= MaxRatePeers + 1
=============================================================================
