----------------------------- MODULE PeerTable -----------------------------
(***************************************************************************)
(* The identity index of CryptoManager and the peer table of               *)
(* NetworkManager, driven by presence beacons.                             *)
(*                                                                         *)
(* A peer is an identity key; it may be heard from any of its addresses,   *)
(* an address may pass from one peer to another (DHCP), and a beacon is    *)
(* one datagram sent out of every interface, so its copies share one nonce *)
(* and arrive from several addresses, late, twice or never.  A room call   *)
(* installs a shared session under the address its event names, which      *)
(* nobody checks, and takes it down again.                                 *)
(*                                                                         *)
(* Datagrams dropped by the two rate gates are datagrams never delivered.  *)
(* A nonce is kept for ever here: ReplayGuard shows that forgetting it     *)
(* after its time to live changes no answer.                               *)
(***************************************************************************)
EXTENDS Integers, Sequences, FiniteSets, QtHash

CONSTANTS
    Peers,      \* the peers' identity ids, a digest of their identity keys
    Addrs,      \* network addresses
    None,       \* the empty QString
    Routes,     \* the pairs <<peer, address>> a peer may send from
    Kind,       \* peer -> what its beacons carry, one of Kinds
    RoomNames,  \* what the events of room calls name as an address
    MaxPeers,   \* kMaxPeers
    MaxPeerAddresses, \* kMaxPeerAddresses
    Window,     \* kReplayWindowSec
    StaleAfter, \* the age past which pruneStalePeers() removes an entry
    MaxClock    \* bound on the clock

\* What a beacon can carry: a handshake that gives a session; one that proves
\* its identity and no more, as its DH key is our own (a profile copied to a
\* second machine) or degenerate; one that proves nothing; none; not even a
\* nonce.  A program sends what its key store holds, so always the same.
Kinds == {"sound", "unusable", "unproved", "bare", "nonceless"}

ASSUME PeerTableAssumption ==
    /\ Peers \cap Addrs = {}
    /\ IsFiniteSet(Addrs)
    /\ None \notin Peers \cup Addrs
    /\ Routes \subseteq Peers \X Addrs
    /\ Kind \in [Peers -> Kinds]
    /\ RoomNames \subseteq Peers \cup Addrs
    /\ MaxPeers \in Nat \ {0}
    /\ MaxPeerAddresses \in Nat \ {0}
    /\ Window \in Nat
    /\ StaleAfter \in Nat
    /\ MaxClock \in Nat

\* A shared session names its peer by what the room call gave as its address.
Ids == Peers \cup Addrs

Nonces == Peers \X (0..MaxClock)
Beacons == [id : Peers, ts : 0..MaxClock, from : Addrs]
Entries == [from_id : Peers \cup {None}, proved : BOOLEAN, last_seen : 0..MaxClock]

VARIABLES
    clock,
    sessionKeys,    \* ids with a session
    pins,           \* m_peerIdPub: the peers a handshake was established with
    addressToId,    \* address -> id
    idToAddresses,  \* id -> addresses, newest first
    warnedIdPub,    \* address -> the peer last warned about
    seenNonces,     \* replay bucket -> nonces
    peers,          \* address first heard -> entry; .proved is history
    peerKeyById,    \* peer -> its key in peers
    credits,        \* nonce -> how often it refreshed an entry (history)
    named           \* the peers whose id a room call gave as an address (history)

indexVars == <<sessionKeys, pins, addressToId, idToAddresses>>
cryptoVars == <<indexVars, warnedIdPub>>
tableVars == <<peers, peerKeyById>>
historyVars == <<credits, named>>
vars == <<clock, cryptoVars, seenNonces, tableVars, historyVars>>

Nonce(m) == <<m.id, m.ts>>
-----------------------------------------------------------------------------
(* CryptoManager *)

\* resolveIdentity() for an address, else the address itself: the replay bucket.
Bucket(a) == Value(addressToId, a, a)

\* checkReplay(): inside the window and not seen in this bucket.
Fresh(m) == clock - m.ts <= Window
CheckReplay(bucket, m) == Fresh(m) /\ Nonce(m) \notin seenNonces[bucket]

\* Someone else is at this address and still has a session.
TakenNever(a, p) == FALSE
TakenByAnyone(a, p) == Value(addressToId, a, None) \in sessionKeys
Taken(a, p) ==
    /\ a \in DOMAIN addressToId
    /\ addressToId[a] # p
    /\ addressToId[a] \in sessionKeys

Elements(s) == {s[i] : i \in DOMAIN s}

\* removeAll(a), prepend(a), and takeLast() past the cap.
NewestFirst(s, a) ==
    LET at == IF a \in Elements(s) THEN CHOOSE i \in DOMAIN s : s[i] = a
                                   ELSE Len(s) + 1
        n == IF a \in Elements(s) THEN Len(s) ELSE Len(s) + 1
    IN [j \in 1..(IF n > MaxPeerAddresses THEN MaxPeerAddresses ELSE n) |->
            IF j = 1 THEN a ELSE IF j <= at THEN s[j - 1] ELSE s[j]]

AddressesFor(ids, p) == Value(ids, p, <<>>)

\* removeAll(a), of a list that holds nothing twice.
Without(s, a) ==
    IF a \in Elements(s)
    THEN LET at == CHOOSE i \in DOMAIN s : s[i] = a
         IN [j \in 1..(Len(s) - 1) |-> IF j < at THEN s[j] ELSE s[j + 1]]
    ELSE s

\* noteObservedAddress(): the address moves to p; what falls off p's list is
\* forgotten only while it still points to p.
NoteObservedAddress(p, a) ==
    LET previous == Value(addressToId, a, None)
        theirs == Without(AddressesFor(idToAddresses, previous), a)
        without == IF previous \in {None, p} THEN idToAddresses
                   ELSE IF theirs = <<>> THEN Remove(idToAddresses, {previous})
                   ELSE Insert(idToAddresses, previous, theirs)
        list == NewestFirst(AddressesFor(without, p), a)
        moved == Insert(addressToId, a, p)
        dropped == {x \in Elements(AddressesFor(without, p)) \ Elements(list) :
                        x \in DOMAIN moved /\ moved[x] = p}
    IN /\ idToAddresses' = Insert(without, p, list)
       /\ addressToId' = Remove(moved, dropped)

\* The tail of processHandshakeFrom(): session and pin, then the index.
Establish(a, p) ==
    /\ sessionKeys' = sessionKeys \cup {p}
    /\ pins' = pins \cup {p}
    /\ NoteObservedAddress(p, a)

\* processHandshakeFrom() of a beacon that proved its identity, from an address
\* nobody else holds: Established, or Refused for a key that gives no session.
ProvesIdentity(p) == Kind[p] \in {"sound", "unusable"}
ProcessHandshake(a, p) ==
    \/ Kind[p] = "sound" /\ Establish(a, p)
    \/ Kind[p] = "unusable" /\ UNCHANGED indexVars

\* installSharedSession(a): the address names itself, whoever it named before.
\* A pinned peer's own id given for an address takes over the peer's session.
InstallSharedSession(a) ==
    LET addresses == AddressesFor(idToAddresses, a)
    IN /\ addressToId' = Insert(addressToId, a, a)
       /\ idToAddresses' = Insert(idToAddresses, a,
                                  IF a \in Elements(addresses) THEN addresses
                                  ELSE <<a>> \o addresses)
       /\ sessionKeys' = sessionKeys \cup {a}
       /\ named' = named \cup ({a} \cap Peers)
       /\ UNCHANGED <<clock, pins, warnedIdPub, seenNonces, tableVars, credits>>

\* resolveIdentity(): an id names itself, else what the address leads to.
ResolveIdentity(a) == IF a \in pins THEN a ELSE Value(addressToId, a, None)

\* dropSharedSession(a): nothing for an address a handshake owns.
DropWhoeverOwns(a) ==
    LET id == ResolveIdentity(a)
    IN /\ id # None
       /\ sessionKeys' = sessionKeys \ {id}
       /\ addressToId' = Remove(addressToId, {a})
       /\ idToAddresses' = Remove(idToAddresses, {id})
       /\ named' = named \cup ({a} \cap Peers)
       /\ UNCHANGED <<clock, pins, warnedIdPub, seenNonces, tableVars, credits>>
DropKeyOnly(a) ==
    /\ ResolveIdentity(a) = a
    /\ sessionKeys' = sessionKeys \ {a}
    /\ named' = named \cup ({a} \cap Peers)
    /\ UNCHANGED <<clock, pins, addressToId, idToAddresses, warnedIdPub,
                   seenNonces, tableVars, credits>>
DropSharedSession(a) ==
    /\ ResolveIdentity(a) = a
    /\ sessionKeys' = sessionKeys \ {a}
    /\ addressToId' = Remove(addressToId, {a})
    /\ idToAddresses' = Remove(idToAddresses, {a})
    /\ named' = named \cup ({a} \cap Peers)
    /\ UNCHANGED <<clock, pins, warnedIdPub, seenNonces, tableVars, credits>>
-----------------------------------------------------------------------------
(* NetworkManager *)

\* The keys left once the entries at the addresses in gone are removed:
\* only an identity whose entry is the removed one loses its key.
KeysKept(gone) == peerKeyById
KeysWithout(gone) ==
    Remove(peerKeyById,
           {p \in DOMAIN peerKeyById :
                /\ peerKeyById[p] \in gone
                /\ peers[peerKeyById[p]].from_id = p})

\* The entries evictOldestPeer() may take: none newer than another's.
Oldest == {a \in DOMAIN peers :
               \A b \in DOMAIN peers : peers[a].last_seen <= peers[b].last_seen}

\* A newcomer finds the table full.
Full(key) ==
    key \notin DOMAIN peers /\ Cardinality(DOMAIN peers) >= MaxPeers

\* The tail of handlePresence(): the entry at key is written, a newcomer at a
\* full table in the place of the oldest.  Only a proved identity is keyed;
\* what an unproved packet says its from_id is, stays in its entry.
File(key, p, proved) ==
    LET entry == [from_id |-> p, proved |-> proved, last_seen |-> clock]
        Refile(gone) ==
            /\ peers' = Insert(Remove(peers, gone), key, entry)
            /\ peerKeyById' = IF proved THEN Insert(KeysWithout(gone), p, key)
                              ELSE KeysWithout(gone)
    IN IF Full(key)
       THEN \E oldest \in Oldest : Refile({oldest})
       ELSE Refile({})

\* Where a beacon is filed: the address its identity was first heard from.
Key(m) == Value(peerKeyById, m.id, m.from)

\* The second replay gate, on the identity: only for an address that did not
\* resolve before the handshake, or it would refuse what the first admitted.
NoIdentityGate(m) == TRUE
IdentityGate(m) == m.from \notin DOMAIN addressToId => CheckReplay(m.id, m)

\* A beacon with a handshake, from an address another identity holds: refused
\* before it can touch the record, and the user is warned once per key.
PresenceTaken(m) ==
    /\ ProvesIdentity(m.id)
    /\ CheckReplay(Bucket(m.from), m)
    /\ seenNonces' = [seenNonces EXCEPT ![Bucket(m.from)] = @ \cup {Nonce(m)}]
    /\ Taken(m.from, m.id)
    /\ warnedIdPub' = Insert(warnedIdPub, m.from, m.id)
    /\ UNCHANGED <<clock, indexVars, tableVars, historyVars>>

\* A second copy, from an address not seen before: its handshake, if sound,
\* teaches the index the address, and then the identity's bucket refuses it.
PresenceRepeated(m) ==
    /\ ProvesIdentity(m.id)
    /\ CheckReplay(Bucket(m.from), m)
    /\ seenNonces' = [seenNonces EXCEPT ![Bucket(m.from)] = @ \cup {Nonce(m)}]
    /\ ~Taken(m.from, m.id)
    /\ ~IdentityGate(m)
    /\ ProcessHandshake(m.from, m.id)
    /\ UNCHANGED <<clock, warnedIdPub, tableVars, historyVars>>

\* A beacon with a handshake that is filed, and its identity keyed - also when
\* the handshake was refused after it had proved who sent it.
PresenceFiled(m) ==
    /\ ProvesIdentity(m.id)
    /\ CheckReplay(Bucket(m.from), m)
    /\ ~Taken(m.from, m.id)
    /\ IdentityGate(m)
    /\ seenNonces' = [b \in Ids |->
            IF b = Bucket(m.from) \/ (b = m.id /\ m.from \notin DOMAIN addressToId)
            THEN seenNonces[b] \cup {Nonce(m)} ELSE seenNonces[b]]
    /\ ProcessHandshake(m.from, m.id)
    /\ File(Key(m), m.id, TRUE)
    /\ credits' = [credits EXCEPT ![Nonce(m)] = @ + 1]
    /\ UNCHANGED <<clock, warnedIdPub, named>>

\* A beacon that proves nothing: filed by address, under whatever from_id it
\* claims, and let through the replay gate if it carries no nonce to check.
PresenceUnproved(m, claimed) ==
    /\ ~ProvesIdentity(m.id)
    /\ \/ /\ Kind[m.id] = "nonceless"
          /\ UNCHANGED seenNonces
       \/ /\ Kind[m.id] # "nonceless"
          /\ CheckReplay(Bucket(m.from), m)
          /\ seenNonces' = [seenNonces EXCEPT ![Bucket(m.from)] = @ \cup {Nonce(m)}]
    /\ File(m.from, claimed, FALSE)
    /\ UNCHANGED <<clock, cryptoVars, historyVars>>

\* Entries not refreshed for longer than StaleAfter.
Stale == {a \in DOMAIN peers : clock - peers[a].last_seen > StaleAfter}

\* pruneStalePeers(), at the end of every onBroadcastTimer().
PruneStalePeers ==
    /\ Stale # {}
    /\ peers' = Remove(peers, Stale)
    /\ peerKeyById' = KeysWithout(Stale)
    /\ UNCHANGED <<clock, cryptoVars, seenNonces, historyVars>>
-----------------------------------------------------------------------------
(* The environment: time, and the other ends' broadcast timers.  Every peer
   sends one beacon a tick, one payload and so one nonce, out of every address
   of its Routes; a peer that is away is one whose copies are all lost. *)

OnTheWire ==
    {m \in Beacons : m.ts <= clock /\ <<m.id, m.from>> \in Routes}

Tick ==
    /\ clock < MaxClock
    /\ clock' = clock + 1
    /\ UNCHANGED <<cryptoVars, seenNonces, tableVars, historyVars>>

Presence(m) ==
    \/ PresenceTaken(m)
    \/ PresenceRepeated(m)
    \/ PresenceFiled(m)
    \/ \E claimed \in Peers \cup {None} : PresenceUnproved(m, claimed)

Init ==
    /\ clock = 0
    /\ sessionKeys = {}
    /\ pins = {}
    /\ addressToId = EmptyHash
    /\ idToAddresses = EmptyHash
    /\ warnedIdPub = EmptyHash
    /\ seenNonces = [b \in Ids |-> {}]
    /\ peers = EmptyHash
    /\ peerKeyById = EmptyHash
    /\ credits = [n \in Nonces |-> 0]
    /\ named = {}

\* The LAN on its own, and with room calls that borrow its addresses.
LanNext ==
    \/ Tick
    \/ \E m \in OnTheWire : Presence(m)
    \/ PruneStalePeers

Next ==
    \/ LanNext
    \/ \E a \in RoomNames : InstallSharedSession(a) \/ DropSharedSession(a)

LanSpec == Init /\ [][LanNext]_vars
Spec == Init /\ [][Next]_vars
-----------------------------------------------------------------------------
(* Properties *)

Types ==
    /\ clock \in 0..MaxClock
    /\ sessionKeys \subseteq Ids
    /\ pins \subseteq Peers
    /\ IsHash(addressToId, Ids, Ids)
    /\ IsHash(idToAddresses, Ids, Seq(Ids))
    /\ \A p \in DOMAIN idToAddresses \ named :
           Len(idToAddresses[p]) \in 1..MaxPeerAddresses
    /\ IsHash(warnedIdPub, Addrs, Peers)
    /\ seenNonces \in [Ids -> SUBSET Nonces]
    /\ IsHash(peers, Addrs, Entries)
    /\ IsHash(peerKeyById, Peers, Addrs)
    /\ credits \in [Nonces -> Nat]
    /\ named \subseteq Peers

WithinCap == Cardinality(DOMAIN peers) <= MaxPeers

TypeOK == Types /\ WithinCap

\* An address that resolves, resolves to an identity that has a session and
\* that lists the address: what signPacket() and deliveryAddresses() rely on
\* when they go from an address to an identity and back to its addresses.  Not
\* for a peer whose own id a room call gave for an address: nothing in
\* MatrixRoomBridge or here checks what the event says, and the end of that
\* call takes the peer's session and its list while its addresses stay.
IndexResolves ==
    \A a \in DOMAIN addressToId : addressToId[a] \notin named =>
        /\ addressToId[a] \in sessionKeys
        /\ a \in Elements(AddressesFor(idToAddresses, addressToId[a]))

\* "One entry per identity, filed under the address first heard": whatever
\* addresses a peer is heard from, the table never lists it twice on the
\* strength of its own proof (any packet may claim a from_id).
OneEntryPerIdentity ==
    \A a, b \in DOMAIN peers :
        peers[a].proved /\ peers[b].proved /\ peers[a].from_id = peers[b].from_id
            => a = b

\* The converse direction: no two peers with sound handshakes are filed under
\* one address, so a signed packet's from_ip, rewritten to peerKeyById[peer],
\* names its sender.  A peer whose handshake is refused learns no address, and
\* the next peer at the one it was filed under shares it.
NoSharedEntry ==
    \A p, q \in DOMAIN peerKeyById :
        /\ Kind[p] = "sound"
        /\ Kind[q] = "sound"
        /\ peerKeyById[p] = peerKeyById[q]
        => p = q

\* The table and the keys go together: no peer is listed twice, and a key leads
\* to the entry of the identity it is kept for.  An entry that is evicted or
\* pruned takes its identity's key along, and no other identity's beacon takes
\* the entry over, or the peer's next beacon would be filed under an address
\* that is somebody else's by now.  Two kinds of peer can bring that about: one
\* that proves nothing and beacons from the same address, as it is filed over
\* what stands there, and one whose handshakes are refused, if it roams.
KeysLeadHome ==
    \A p \in DOMAIN peerKeyById : Kind[p] = "sound" =>
        /\ peerKeyById[p] \in DOMAIN peers
        /\ peers[peerKeyById[p]].from_id = p
KeysFollowEntries == OneEntryPerIdentity /\ KeysLeadHome

\* What the comment in handlePresence() says of that key: it is only written
\* for a handshake "meaning a session was established or refreshed".
KeyMeansSession == DOMAIN peerKeyById \subseteq pins

\* One beacon keeps a peer alive once, however many copies of it arrive, from
\* however many addresses: a delayed copy never revives a peer that has left.
\* An address that leads to a peer whose session a room call took stands in
\* for that peer's bucket and skips the second gate, hence the condition.
NoRevival == named = {} => \A n \in Nonces : credits[n] <= 1

\* An address is warned about only when someone new turned up at it, never for
\* a peer that was heard there before (CryptoManager.h, peerIdentityChanged).
OnlyNewcomersAlarm ==
    [][\A a \in Addrs, p \in Peers :
            /\ Value(warnedIdPub', a, None) = p
            /\ Value(warnedIdPub, a, None) # p
            => a \notin Elements(AddressesFor(idToAddresses, p))]_vars

\* The end of a room call takes down its own session and no handshake's,
\* unless the call itself was given the peer's id for an address.
HandshakeSessionsStay ==
    [][sessionKeys \cap (Peers \ named') \subseteq sessionKeys']_vars
=============================================================================
