---------------------------- MODULE DecryptQueue ----------------------------
(***************************************************************************)
(* CryptoManager::decryptAsync() and its worker thread: the line in which  *)
(* incoming texts wait for an Argon2id derivation, and the cache of        *)
(* derived keys.  Texts are numbered in arrival order.                     *)
(*                                                                         *)
(* A fast text (session key, cached key, cleartext, error) needs no        *)
(* derivation; a sealed one needs the key of its salt, which it may find   *)
(* in the cache.  The worker is one thread and answers in its own time;    *)
(* meanwhile the receive path runs on.                                     *)
(***************************************************************************)
EXTENDS Naturals, Sequences, FiniteSets

CONSTANTS
    Salts,          \* salts drawn by senders
    Fast,           \* no salt: the text needs no derivation
    MaxPending,     \* kMaxPendingDecrypts
    MaxCached,      \* kMaxPassphraseCacheSize
    MaxArrivals     \* bound on the texts received

ASSUME DecryptQueueAssumption ==
    /\ Fast \notin Salts
    /\ MaxPending \in Nat \ {0}
    /\ MaxCached \in Nat \ {0}
    /\ MaxArrivals \in Nat


VARIABLES
    arrived,    \* texts handed to decryptAsync()
    pending,    \* m_pendingDecrypts
    inFlight,   \* the salt the worker derives for, or Fast (m_derivationInFlight)
    cache,      \* salts in m_passphraseKeyCache
    surfaced,   \* texts delivered, in order
    refused     \* texts turned away: done({}, false)

vars == <<arrived, pending, inFlight, cache, surfaced, refused>>

Ids(entries) == [i \in DOMAIN entries |-> entries[i].id]
Text(salt) == [id |-> arrived + 1, salt |-> salt]
Full == Len(pending) >= MaxPending
-----------------------------------------------------------------------------
\* A text that needs no derivation and finds nobody in front.
LineIgnored == TRUE
LineEmpty == pending = <<>> /\ inFlight = Fast

DeliverAtOnce(salt) ==
    /\ salt \in {Fast} \cup cache
    /\ LineEmpty
    /\ surfaced' = Append(surfaced, arrived')
    /\ UNCHANGED <<pending, inFlight, cache, refused>>

\* The same behind somebody: it takes the back of the line.
QueueFast(salt) ==
    /\ salt \in {Fast} \cup cache
    /\ ~LineEmpty
    /\ ~Full
    /\ pending' = Append(pending, Text(Fast))
    /\ UNCHANGED <<inFlight, cache, surfaced, refused>>

\* startDerivation(): the head gets the worker, if it needs one and it is free.
StartDerivation(line, flight) ==
    IF flight = Fast /\ line # <<>> THEN line[1].salt ELSE flight

QueueSealed(salt) ==
    /\ salt \notin {Fast} \cup cache
    /\ ~Full
    /\ pending' = Append(pending, Text(salt))
    /\ inFlight' = StartDerivation(pending', inFlight)
    /\ UNCHANGED <<cache, surfaced, refused>>

\* The line is full, or the body is larger than a message may be.
Refuse(salt) ==
    /\ \/ salt \in {Fast} \cup cache /\ ~LineEmpty /\ Full
       \/ salt \in Salts \ cache
    /\ refused' = refused \cup {arrived'}
    /\ UNCHANGED <<pending, inFlight, cache, surfaced>>

DecryptAsync ==
    /\ arrived < MaxArrivals
    /\ arrived' = arrived + 1
    /\ \E salt \in Salts \cup {Fast} :
           \/ DeliverAtOnce(salt)
           \/ QueueFast(salt)
           \/ QueueSealed(salt)
           \/ Refuse(salt)

\* How many texts leave with the head: it and the fast ones right behind it.
HeadOnly(line) == 1
Leaving(line) ==
    CHOOSE n \in 1..Len(line) :
        /\ \A i \in 2..n : line[i].salt = Fast
        /\ n < Len(line) => line[n + 1].salt # Fast

\* onDerived(): the answer is the head's, right or wrong, and its key is cached
\* when there is one.
OnDerived ==
    /\ inFlight # Fast
    /\ LET n == Leaving(pending)
           rest == SubSeq(pending, n + 1, Len(pending))
       IN /\ surfaced' = surfaced \o Ids(SubSeq(pending, 1, n))
          /\ pending' = rest
          /\ inFlight' = StartDerivation(rest, Fast)
          /\ \E ok \in BOOLEAN :
                 cache' = IF ok THEN cache \cup {inFlight} ELSE cache
    /\ UNCHANGED <<arrived, refused>>

\* encrypt() or decrypt() on the spot: deriveKey() caches the key of a salt,
\* and at the cap throws every other key away first.
DeriveKey ==
    /\ \E salt \in Salts \ cache :
           cache' = IF Cardinality(cache) >= MaxCached THEN {salt}
                    ELSE cache \cup {salt}
    /\ UNCHANGED <<arrived, pending, inFlight, surfaced, refused>>

Init ==
    /\ arrived = 0
    /\ pending = <<>>
    /\ inFlight = Fast
    /\ cache = {}
    /\ surfaced = <<>>
    /\ refused = {}

Next == DecryptAsync \/ OnDerived \/ DeriveKey

Spec == Init /\ [][Next]_vars

\* The worker thread answers every derivation it is given.
FairSpec == Spec /\ WF_vars(OnDerived)
-----------------------------------------------------------------------------
(* Properties *)

\* "The text arrives through done() in arrival order (a fast message never
\* overtakes a slow one in front of it)", and none is lost or doubled.
Line == INSTANCE MessageLine WITH
            Capacity <- MaxPending,
            waiting <- Ids(pending)
ServedInOrder == Line!Spec

\* Everything that arrived either surfaces or was refused when it came.
Answered ==
    \A id \in 1..MaxArrivals :
        id <= arrived ~> (\E i \in DOMAIN surfaced : surfaced[i] = id)
                         \/ id \in refused
=============================================================================
