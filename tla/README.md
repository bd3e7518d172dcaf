# Koutnet: a TLA+ verification of its protocols and state

Koutnet is a Qt messenger. It finds its peers on a LAN by UDP broadcast, pins
their identity keys, and exchanges messages, files and calls with them directly;
a second backend speaks Matrix through libQuotient. This directory models the
program's own protocol and state: what it decides, not the libraries it stands
on (libsodium, Qt, libQuotient, the desktop).

Paths below are relative to `src/` of the repository unless they name a module.

## 1. Inventory

Almost everything runs on the Qt main thread, driven by sockets, timers and the
user. The one thread the program starts itself is the key derivation of
`CryptoManager`, and Qt's audio output pulls samples from the mixer behind a mutex. A handler
runs to its end before the next one starts, with two exceptions that matter:
Qt delivers signals between objects of one thread on the spot, so a handler may
come back into an object it has just left (`hangup()` in the calls), and
`connectToHost()`/`abort()` may emit from inside. What is hard here is therefore
the *order* in which handlers run, what the network does to the datagrams
between them, and state kept twice.

| Component (source) | State it keeps | Operations | Interacts with | Hard because of | Correct when |
|---|---|---|---|---|---|
| Identity, sessions, pins (`core/security/CryptoManager`) | session keys, pinned identities, address→identity, identity→addresses, warnings | `processHandshakeFrom`, `noteObservedAddress`, `installSharedSession`, `dropSharedSession` | beacons, room calls, every packet signed or verified | roaming, addresses handed on, handshakes refused half way, room calls that borrow whatever their event names, the address cap | what an address resolves to is its owner; no call takes down a handshake's session but that of a peer it named; only strangers raise the warning |
| Presence, peer table (`network/NetworkManager`) | one entry per address first heard, key per identity | `handlePresence`, `evictOldestPeer`, `pruneStalePeers` | identity index, replay guard, contact list | several copies of a beacon, caps, ageing | one entry per identity, no two identities in one, keys go with their entries |
| Replay guard (`CryptoManager::checkReplay`) | nonces per sender, order of the buckets | admit, sweep, evict | every signed packet | two hashes kept in step, floods, clock skew | nothing passes twice unless a cap forgot it |
| Rate limiter (`CryptoManager::checkRate`) | times of the calls granted, per source | ask, purge | `handleDatagram`, `dispatch` | idle windows thrown away and begun again | no source exceeds its allowance, past its cap the table grows by sources just heard only |
| Derivation queue (`CryptoManager::decryptAsync`) | line of texts, salt in flight, cached keys | arrive, derive, drain | receive path, worker thread | a late answer, fast texts behind slow ones | arrival order, nobody forgotten |
| File transfer (`network/FileTransferHandler`, `NetworkManager`) | sender: transfers awaiting an ACK; receiver: a count of chunks and, apart from it, the chunks | announce, send in batches, ACK, retransmit, time out | rate limiter, the disk | loss, reordering, caps, two records of one transfer | memory bounded, saved once, the sender learns |
| Calls (`NetworkManager`, `network/VoiceCallManager`, `Main.qml`) | requests, rings, sockets and buffers per peer, calls that are on, windows | ask, answer, reject, end, connect, accept, close | audio devices, notifications, Matrix rooms | crossing messages, re-entrant signals, sockets deleted late | the microphone is open only in a call the user wanted |
| Delivery (`NetworkManager::sendPrivate` … `decryptMessageText`) | passphrase, group keys | seal, sign, address, send, verify, open, amend | sessions, derivation queue, timeline | keys that change between sealing and opening | a text is never in the clear and never shown as a cipher |
| Discovery sweep (`network/DiscoverySweep.h`) | interval, silent rounds | back off, reset | broadcast timer | long idle runs | bounded traffic, prompt discovery |
| Key store (`core/security/KeepSecret`, `initKeypairs`, `AppSettings`) | an encrypted file, plaintext left by older builds | read, write, remove, migrate, generate, set aside | start-up, group messages | failed writes, an end between any two of them | a secret a run made known is that of every later run |
| Wire format (`network/Protocol`) | none | serialise, parse | all traffic | – | round trip |
| Chat timeline (`core/chat/ChatModel`, `HistoryManager`) | rows, message ids, polls, votes put aside, the log | append, edit, delete, reveal, vote, persist, load | both backends, reversed view, unread counts | duplicates, votes before their poll, a log that is trimmed, fails or is switched off | what is shown is what survives, each voter counts once |
| Reactions (`core/chat/ReactionStore`) | reactions per message, by the name shown | add, remove, toggle, delayed save | timeline, Matrix rooms | two members by one name | one per name and emoji |
| Conversation list, unread (`ChatListModel`, `UnreadManager`) | rows, counters | open, note a message, presence, mark read, restore, delayed save | timelines, notifications | a chat opened while messages arrive, an index that was not written | the counter is what was not seen |
| Groups (`core/chat/GroupManager`) | names and members | create, rename, add, remove, delete, load, save | group messages | – | what is saved is what is loaded |
| Reversed view (`core/chat/ReversedChatModel`) | a proxy of a timeline | map rows, forward signals | list views | row arithmetic under insertion and removal | the view is the reversal |
| Addresses and registry (`ChatAddress`, `ChatBackendRegistry`) | a table filled at start | classify | – | – | – |
| Jitter buffers and mixer (`core/audio/AudioMixer`) | samples per source | push, mix | voice sockets | bounds, saturation | bounded delay, no wrap |
| Audio devices (`AudioEngine`, `AudioDevices`) | open devices | start, stop | calls | – | – |
| Matrix session (`matrix/MatrixManager`) | state, connection, timers, ids and tokens on disk | sign in (password, browser, stored token), sync, give up, sign out | libQuotient, key store, whoever follows the connection | answers later than their timeout, an end between writes | every attempt ends, what is stored is what is live, a sign-out lasts |
| Matrix rooms (`matrix/MatrixRoomBridge`, `MatrixTranslate`) | stamps and reactions of this run, tracked rooms, invitations | publish, reveal, send, edit, redact, react, vote, join, leave, invite, ban | timeline, reactions, list, homeserver | batches in any order, late keys, restarts, edits shown before they are sent, namesakes, three objects for one room | a message that stands has its row, one taken back has none, badges are of reactions that stand, lines tell who is in, rooms have doors |
| Room calls (`MatrixRoomBridge::callRoom` …) | a call per room, one pending call, shared sessions | call, answer, decline, hang up, read call events | identity index, voice sockets, windows | crossing, lost and stale events | members of one call seal under one key |
| Matrix verification (`matrix/MatrixVerification`) | one session, its outcome | start, accept, confirm, reject, cancel, dismiss | libQuotient, connections | two requests at once, connections replaced under way | only what the user compared is trusted |
| Popups (`core/notify/NotificationManager`) | a popup per chat, idle and focus | notify, replace, close, clear | desktop, which reports late | a closing reported after its successor came | no popup of a chat is forgotten or lost |
| Tray; settings, theme, text; window | desktop integration | – | – | – | – |

## 2. The modules

Every module is translated from the source it names; the map in `PROJECT.json`
gives the lines of each definition.

| Module | Extends or instantiates | What it models |
|---|---|---|
| `QtHash` | – | the few `QHash` operations the others use: insert, remove, value with a default |
| `PeerTable` | `QtHash` | identity index, presence, peer table; room calls that borrow addresses |
| `ReplayGuard` | `QtHash`, instantiates `NonceLog` | the nonce cache with its time to live and two caps |
| `NonceLog` | – | what the cache promises: a log from which only the caps strike anything |
| `RateGate` | `QtHash` | the sliding window per source, a set of the calls granted, and its purge |
| `DecryptQueue` | instantiates `MessageLine` | the line in front of the key derivation |
| `MessageLine` | – | what the line promises: a bounded queue served from the front |
| `FileReassembly` | `QtHash` | the receiver's table of incomplete transfers |
| `FileTransfer` | instantiates `FileReassembly` | both ends of a file transfer over a lossy, reordering network |
| `VoiceLine` | `QtHash` | the voice side of a host as functions on one record: sockets, maps, calls, microphone |
| `Calls` | `VoiceLine` | call signalling, the sockets' events, the user and the windows |
| `KeyStore` | `QtHash` | the encrypted file, the start-up that loads, migrates or makes an identity, the passphrase and a group key |
| `Delivery` | `QtHash` | signed messages between two hosts, from what seals them to what is shown |
| `ChatTimeline` | community modules | one conversation: rows, log, reversed view, unread marker |
| `ChatList` | `QtHash` | the list of conversations, both unread counts, the index on disk |
| `Popups` | `QtHash` | popups of chats and calls, closed late |
| `MatrixLink` | – | what `MatrixManager` promises about its connections |
| `MatrixSession` | `QtHash`, instantiates `MatrixLink` | sign-ins, sync, deadlines, sign-out, the disk write by write |
| `MatrixVerification` | `MatrixLink` | the dialog that compares emoji, over the connections of `MatrixLink` |
| `MatrixRooms` | `QtHash` | a room's events to rows and badges, and what is sent into it |
| `RoomCalls` | `QtHash` | calls of the members of one room |
| `RoomDoors` | community modules | memberships of a room: lines, column, row, invitation |
| `MCGuards` | `ReplayGuard`, instantiates `RateGate`, `FileReassembly`, `KeyStore`, `Delivery` | one run of five parts |
| `MCChats` | `ChatTimeline`, instantiates `ChatList`, `Popups` | one run of three parts |
| `MCMatrix` | `MatrixVerification`, instantiates `MatrixRooms`, `RoomCalls`, `RoomDoors` | one run of four parts |
| other `MC…` | the module they are named after | symmetry sets and definitions for the small instances |
| `GuardsProofs`, `ChatsProofs`, `MatrixProofs` | `MCGuards`, `MCChats`, `MCMatrix` and `TLAPS` | the theorems about the parts of these runs, and about the runs |
| other `…Proofs` | the module they are named after and `TLAPS` | the theorems about it |

In a run of several parts a behaviour is of one part from its first state on and
the variables of the others stay as they began: the parts do not interact, the
state spaces add up instead of multiplying, and every property is checked of
every part it speaks about.

### PeerTable

State: `sessionKeys`, `pins` (`m_peerIdPub`), `addressToId`, `idToAddresses`,
`warnedIdPub` of `CryptoManager`; `peers` and `peerKeyById` of `NetworkManager`;
`seenNonces`, the replay buckets without expiry (that expiry changes no answer is
what `ReplayGuard` shows). A peer *is* its identity key; `Kind` says what its
beacons carry. A beacon is one datagram sent out of every interface: its copies
share one nonce and may arrive from several addresses, late, twice, or never. The
tail of `handlePresence()` has four outcomes and each is an action:
`PresenceTaken` (another identity holds the address), `PresenceRepeated` (a second
copy, which teaches the index an address and is refused by the identity's
bucket), `PresenceFiled`, and `PresenceUnproved` (no usable proof: filed by its
address under whatever `from_id` the packet claims). `ProcessHandshake` has both
ends of a handshake that proved its identity: `Established`, or `Refused` for a DH
key that is our own or degenerate, which the code finds out after it has filled in
the identity; the packet is then filed and its identity keyed with no session and
no address learnt. `PruneStalePeers` is the end of every `onBroadcastTimer()`.
`InstallSharedSession` and `DropSharedSession` are what a Matrix room call does to
the index, with the name its event gives for an address (`RoomNames`): an address
or, since nothing checks it, the id of a peer. `named` remembers the peers a call
named so; what `IndexResolves`, `HandshakeSessionsStay` and `NoRevival` say, they
say of the others, because the code does nothing to keep it of those. Signatures
are assumed to do what they promise: what proves an identity is from it.

### ReplayGuard and RateGate

`CheckReplay` is an admission, with the sweep of its own bucket, the halving of
a bucket past its cap and the eviction of the least recent buckets in the order
of the code; a refusal changes nothing and is no step. Time jumps, since nothing
runs between two packets. `NonceLog` counts how often each packet passed and was
struck by a cap; `ReplayGuard` implements it with `struck <- forgotten`, so expiry
by time never shows. In `RateGate` a call granted is its time and its place among
the calls of that time; a window is a set of them, as the code's list is ordered
by time and cut at its old end. A beacon or a chunk asks `checkRate()` once
(`AskOnce`) and any other signed packet twice (`AskTwice`), as the two callers do.
The purge of a table past its cap drops idle windows only, so the cap bounds
nothing by itself; `GrowsByTheHeard` says what does.

### DecryptQueue

A text is its arrival number and the salt it needs, or `Fast`. `DecryptAsync` has
the four ways out of `decryptAsync()`; `OnDerived` is the worker's answer together
with the drain of the fast texts behind the head and the start of the next
derivation; `DeriveKey` is a derivation on the main thread that fills the same
cache. `MessageLine` is the abstract queue, implemented under
`waiting <- Ids(pending)`.

### FileReassembly and FileTransfer

`FileReassembly` alone faces peers that announce and send anything; a chunk is
its size, and whether the assembled file decrypts and can be written is open.
`FileTransfer` adds the sender's three timers (batches, the pause before waiting,
retransmission), the network, and the receiver's *other* record: `handleDatagram()`
counts chunks and acknowledges them without asking the reassembler. The rate
limiter appears as `RateBurst`, the datagrams of one burst that are let in.

### VoiceLine and Calls

`VoiceLine` writes each function of `NetworkManager` and `VoiceCallManager` as one
step on a record, with everything it sets off on the spot: `hangup()` calls
`disconnectVoice()`, whose `disconnected()` comes back into `hangup()` when the
socket had nothing left to write (`quick`), and later otherwise. A socket is an
address in memory: once deleted it may be allocated again, which is what makes
`m_voiceRxBuffers`, keyed by bare pointers, worth a property. `Calls` adds the
messages (`Dispatch`), the buttons (`User`) and the socket events (`Sockets`). The
other ends are open: any peer may send any call message and open or close a
connection at any time. `room` stands for a Matrix room being the chat on screen
when a button is pressed, which decides whether the message is sent at all.

### KeyStore

The file is a map from names to values; `Write` may fail, and a read may misread
(`MaxMisreads`), which the code cannot tell from an empty store. Start-up is a
sequence of steps (`pc`), one for each access to the file: `ReadId`, `ReadDh`,
then `Migrate…` for a pair an older build left in the config, `Check`,
`Generate…`, and the dropping of the plaintext with its comparison (`Compare`) and
the copies set aside (`Stash…`). The program may `Quit` before any of them, and a
user may put an old config back. `promised` remembers what the program told nobody
it could not keep.

### Delivery

A datagram carries its type, the key it was sealed with, whether it was signed,
and the message it is about. `session` says where a host finds its session with
the other: under the chat's address, under another address only, or nowhere, which
is what decides between session, passphrase and clear in each of the `Send…`.
`HandleDatagram` is verification, `dispatch()` and `decryptMessageText()`;
`TakeAmendment`, `TakeDelete` and `TakeRead` are what `Main.qml` does with them.
Datagrams stay on the wire: they are lost, late and out of order. That none is
taken twice is `ReplayGuard`'s `AtMostOnce`; the order in which texts come out of
the derivation is `DecryptQueue`'s.

### ChatTimeline, ChatList and Popups

`ChatTimeline` is one chat of either transport. Besides the rows it has the three
other places that must agree with them: HistoryManager's cache and file, the
window's delegates (with the author line each last drew, so a missing
`dataChanged` shows), and the unread count that places the marker. Writes fail,
the switch that saves history is turned, the file may not parse, and the program
restarts. Votes arrive before their poll, twice, and after a restart. `ChatList`
has the rows in their order, the counts of `UnreadManager` and of the rows, and
the index that is saved later than it changes and may not be written then
(`WriteIndex`: saving is off, the old file could not be read, the disk refuses;
`unsaved` remembers it); `Popups` the popups whose closing
the desktop reports when it likes.

### MatrixSession and MatrixLink

Each handler of `MatrixManager` is an action; what it writes to settings and key
store is queued as successive states of the disk (`writes`) and `Flush`ed one by
one, and the program may `Quit` between two. Timers count ticks. libQuotient's
answers (`Resolved`, `OnConnected`, `OnSyncDone`, `OnSyncError`, …) come in any order
its progress allows, or never. An attempt given up lives on until the abandon
timer (`OnAbandon`), a signed-out connection until its logout is answered.
`MatrixLink` is what the rest of the program sees of all this, implemented under
`link <- IF conn = None THEN 0 ELSE conn.id`, and it is `MatrixLink`, not
`MatrixSession`, that `MatrixVerification` is composed with.

### MatrixRooms, RoomCalls, RoomDoors, MatrixVerification

`MatrixRooms` delivers a room's events in batches to `PublishEvent`, whose branches
come in the code's order (reaction, redaction, edit, row); a sealed event is
revealed later or never; restart forgets the stamps and keeps the rows. Anybody
may edit or take back any message, an edit and a line of an unknown kind among
them (`About`). A badge is what `ReactionStore` keeps: a message and the name of
who reacted (`Label`), which two members may share. `SendEdit` is
`ChatPage.commitEdit()`: the row says what was typed (`Typed`) before the edit is
sent, refused or lost, and nothing puts it back. `RoomCalls`
has every member run this program over one log of call events that may be lost on
the way in; a key is the place of the event that carried it. `RoomDoors` has the
homeserver change memberships by its own rules (`Allowed`), a sync that brings part
of what happened, and libQuotient's two objects for a room, against the row, the
invitation and the lines that `classifyMember()` makes. `MatrixVerification` has the
library begin, advance and end sessions on any connection that still lives.

## 3. The runs

Every run is on a small instance; the bounds are constants of the modules,
named in the `.cfg` files.

| Run | Instance | Shows |
|---|---|---|
| `peer_lan` | 3 peers, two roaming over 3 addresses of which they share one and one whose handshakes are refused; table of 2, cap not below the addresses, clock to 2 | `NoSharedEntry`, `KeysFollowEntries` (one entry per identity with it), `OnlyNewcomersAlarm` |
| `peer_room` | a peer with 2 addresses of which 1 is remembered, two hosts without keys at them, one without nonces too, room calls that name an address and the peer's id; clock to 1 | `IndexResolves`, `NoRevival`, `HandshakeSessionsStay` |
| `guards`, replay part | 3 senders, 3 timestamps on both sides of the clock, buckets and caps of 2, 6 arrivals | `AtMostOnce`, `RecentSurvive`, `NonceLog` is implemented |
| `guards`, rate part | 3 sources, allowance 2, table cap 1, clock to 4 | `RateHeld` across purges, `GrowsByTheHeard` |
| `guards`, files part | 3 transfers, table of 2, memory cap below their sum, limit changed meanwhile | `PendingTrue`: true byte counts, the caps, nothing complete or stale kept |
| `guards`, keys part | 2 old key pairs, 2 keys made, 2 faults, restarts at every step | `SecretsComeBack`, `PlaintextGoesLast` |
| `guards`, mail part | 2 hosts, 2 datagrams, 2 group keys, passphrases changed at any time | `TextsHold` |
| `decrypt` | 5 texts, line of 3, cache of 1 | `MessageLine` is implemented, everyone is answered |
| `file` | 1 file of 3 chunks in batches of 2, loss and reordering, sender may quit | ACKs, single write, termination on both sides |
| `calls` | 2 peers, 2 sockets | accepts, live pointers, connected calls, the microphone |
| `chats`, timeline part | LAN chat and room, logs of 2, up to 3 rows, votes put aside, one fault, restarts | `TallyTrue`, `LogIsWhole`, `ScreenTrue` |
| `chats`, list part | a peer and two rooms, 2 stamps, writes of the index that fail, a restart | `ListTrue` |
| `chats`, desk part | 2 chats, 3 popups | `PopupsHeld` |
| `matrix_session` | 2 accounts and a short name of one, 3 connections, a fault, 2 starts | `StoredIsLive`, `Settles`, `SignedOutStaysOut`, `MatrixLink` is implemented |
| `matrix`, rooms part | 3 events of every kind, batches of 2, 2 runs | `TakenBackIsGone`, `EveryMessageHasItsRow` |
| `matrix`, badges part | 4 events: texts, reactions of this account and of two members by one name, redactions | `BadgesTrue` |
| `matrix`, calls part | 2 members, 4 call events, 1 lost | `KeysAgree` |
| `matrix`, verification part | 2 devices, 2 connections, 3 sessions | `VerificationTrue` |
| `matrix`, doors part | the user and two others, 2 events under way, both join rules | `LinesTellWho`, `DoorsTrue` |
| `calls_window` | as `calls` | finds a call on without a window |
| `session_lost` | as `matrix_session` | finds a stored session gone that nobody refused |
| `room_keys` | 3 members, 3 call events, none lost | finds two members of a call with two keys |

**Why the bounds are enough.** Where a property is about a cap, the cap is reached
and passed: a table of two peers with a third address to file under, a peer with
more addresses than are remembered, a bucket of two with a third nonce, a rate
table of one window with three sources, a memory cap below what the announced
transfers need, a log of two rows with a third, a clock that runs past the time to
live. (`peer_room` never fills its table of peers; `peer_lan` does, and the
theorems hold for every cap.) In `peer_lan` the peer whose handshakes are refused
has one address; were it to roam, it would take over entries of others, which
`KeysFollowEntries` then says no more (section 5). Two peers are what a confusion between
identities takes, three senders what an eviction order takes, two sockets what a
replaced connection and its successor take (`CallsProofs` covers any number). Three
events of a room are a message with two that amend it, in every order and every
split into batches of one and two, four a message, the reactions of two members
and the redaction of one; two runs are the one that published a message and the one that only
reads it back. Three connections are the one signed out of, the one given up and
the one that counts. Three call events of two members are an invite, its answer
and a hangup, the fourth one that crosses them. Deadlock is an error in
`peer_room`, `file` and `calls`; elsewhere the bounds on arrivals, events and
connections end every behaviour.

**Fairness.** `DecryptQueue`: the worker answers what it is given. `FileTransfer`:
the sender's and receiver's timers fire (weak), and a datagram that is sent again
and again arrives in the end (strong, per datagram); the user may close the sender
at any time. `MatrixSession`: Qt's timers fire and a handler finishes its writes;
no server need answer and no user need act. Nothing is assumed of users or of
peers in any other run.

Every property of a passing run has a mutant in `PROJECT.json`: a definition with
one plausible mistake under which the run fails.

## 4. What is proved

TLAPS checks these for every value of the constants that satisfies the module's
assumptions:

| Module | Theorem | Property |
|---|---|---|
| `PeerTableProofs` | `TablesWellFormed`, `AddressesResolve`, `OneEntry`, `BeaconsCountOnce`, `SessionsStay` | types and caps, `IndexResolves`, `OneEntryPerIdentity`, `NoRevival`, `HandshakeSessionsStay`, room calls included |
| | `OnlyStrangersAlarm` | `OnlyNewcomersAlarm`, without room calls |
| | `NobodySharesAnEntry` | `NoSharedEntry`, without room calls and as long as the address cap makes the index forget nothing |
| | `KeysAlwaysFollowEntries` | `KeysFollowEntries`, under the same conditions and where every handshake is sound |
| `GuardsProofs` | `CacheBounded`, `HashesAgree`, `PassesOnce`, `RecentAlwaysSurvive` | types and caps, agreement of the two hashes, `AtMostOnce`, `RecentSurvive` |
| | `CacheImplementsLog` | `Implements`, the refinement of `NonceLog` |
| | `RateAlwaysHeld`, `TableGrowsByTheHeard` | `RateHeld`, `GrowsByTheHeard` |
| | `PendingAlwaysTrue` | `PendingTrue` |
| | `SecretsAlwaysComeBack`, `PlaintextAlwaysGoesLast` | `SecretsComeBack`, `PlaintextGoesLast`, when the store reads what it holds (`StoreReads`) |
| | `TextsAlwaysHold` | `TextsHold` |
| | `GuardsHold` | all of these invariants of the run `guards` |
| `FileTransferProofs` | `SavedAtMostOnce`, `AckedAlwaysSettled` | `SavedOnce`, `AckedAreSettled` |
| `CallsProofs` | `CallsTypeOK`, `AcceptsAreSpent`, `PointersNeverDangle`, `CallsCanEnd`, `LastCallShutsMicrophone` | types, `AcceptsAreAskedFor`, `SocketsLive`, `Connectable`, `MicrophoneShut` |
| `DecryptQueueProofs` | `LineIsServed` | `ServedInOrder`, the refinement of `MessageLine` |
| `ChatsProofs` | `TalliesAlwaysTrue`, `LogAlwaysWhole`, `ScreenAlwaysTrue` | `TallyTrue`, `LogIsWhole`, `ScreenTrue` |
| | `ListAlwaysTrue` | `ListTrue` |
| | `PopupsAlwaysHeld` | `PopupsHeld` |
| | `ChatsAlwaysHold` | all of these, of the run `chats` |
| `MatrixSessionProofs` | `StoredSessionIsLive`, `SignOutLasts` | `StoredIsLive`, `SignedOutStaysOut` |
| | `LinkIsKept` | `KeepsLink`, the refinement of `MatrixLink` |
| `MatrixProofs` | `NothingUncompared` | `VerificationTrue` |
| | `TakenBackIsAlwaysGone`, `BadgesAlwaysTrue`, `EveryMessageAlwaysHasItsRow` | `TakenBackIsGone`, `BadgesTrue`, `EveryMessageHasItsRow` |
| | `KeysAlwaysAgree` | `KeysAgree`, in a room of two |
| | `CallersAlwaysAgree` | in a room of any size: the caller and whoever it knows of in the call |
| | `LinesAlwaysTellWho`, `DoorsAlwaysTrue` | `LinesTellWho`, `DoorsTrue` |
| | `MatrixHolds` | all of these, of the run `matrix` |

So every invariant and every action property of the passing runs is proved; the
three properties left to TLC are liveness.

**Peer table.** None of the properties is inductive alone. `IInv` adds that an
entry's proved identity is keyed to that very entry (`KeyedEntries`), that a nonce
that refreshed an entry is in its sender's bucket (`CreditsAreSeen`, as long as no
room call named a peer), and that an address resolves to a peer or to itself
(`SharedNamesItself`), so a call under an address that is no peer's id can never
take down a handshake; one under a peer's id can, and `HandshakeSessionsStay`
excepts it. `NoRevival` needs
`IndexResolves`: were an address resolved to an identity without a session, a
beacon could be filed on the strength of another's bucket. `NoSharedEntry` needs one
conjunct more, `FiledWhereOwned`: the address a peer with a sound handshake is
keyed to is its own in the index. It holds only while the index forgets nothing,
and it is false of a refused handshake, which keys an identity to an address
nobody owns: hence the conditions, and `Kind[p] = "sound"` in the property.
`KeysFollowEntries` rests on it: no other sound peer writes to that entry, and
what takes the entry away takes the key.

**Replay guard.** `ReplayInv` numbers the arrivals (`Numbered`: no two buckets were
touched last by the same arrival) and says of every packet either that it is in
the cache, having arrived inside its window, or that it was forgotten as often
as it passed, or that it is past its window for good (`Remembered`). Expiry after
two windows then moves a packet from the first case to the third, which is where
`Ttl >= 2 * Window` is used. The halving of a bucket never removes the newest
arrival since fewer than half of a nonempty set are before it; the eviction
leaves at most the cap, so the branch that clears the cache is never taken.
`RecentSurvive` is an action property and follows from the same invariant: the
nonces dropped from a bucket are the older half of it, so each has more than half
of the cap's entries after it, and the buckets evicted are those touched before
every one that stays (a bijection of the buckets with their ranks counts them).

**Rate limiter.** `RateInv` relates each window to the history: what it holds was
granted, and every call granted within the last second is in it, though the
window was thrown away in between (`WindowsTrue`): the purge takes only windows
whose calls are all old. A new call is numbered after those of its time, so the
history grows by exactly one; the second that ends now holds the window and the
new call, and a second that ended before does not change. `TableGrowsByTheHeard`
goes by what one call leaves: past the cap a purge leaves only windows with a
recent call, and the window it files is of a source that is granted one or has
one already; a table within the cap grows by one window, to the cap and one more
(`CapTyped`: the cap is a number and the allowance is above zero).

**Incomplete files.** `FilesInv` says of each transfer that its byte count is the
sum of its chunks (`TransferTrue`) and of the table that the sum of the counts is
below the cap. Sums over sets are folds, which the proofs handle by the least
counterexample: two sums over one set, taken in any order, cannot begin to differ,
since the smallest set on which they do would lose an element. From that follow a
sum without one of its terms and a sum with one term changed, which is all the
handlers do.

**File transfer.** The receiver keeps two records of a transfer, the chunks it
counted and the chunks the reassembler holds, and nothing in the code compares
them. `CountedAreHeld` is what keeps them together: as long as a transfer is not
settled, every chunk counted is held, so that a full count means a complete file;
`AnnouncedOnce` (where the announcement is still to come nothing has begun, and
what is pending was not written) is why a file is never written twice.

**Calls.** Each function of `VoiceLine` keeps `LineInv` (types, live pointers,
connected calls, microphone) or, for `disconnectVoice()` on its own, the half of
it that `hangup()` then completes: inside `hangup()` a call is listed with no
connection, and the lemma `HangupKeepsInv` asks for connected calls only outside
the peers that are hung up. That is also what lets the same lemma serve a dial
that failed and a connection that closed, whose map entry is gone by then. For
the accepts the inductive invariant is `Paid`: what is pending has been asked for
by the user, once.

**Derivation queue.** A step surfaces a stretch of the line at once; that it maps to
`MessageLine`'s step needs `HeadServed`, that the worker derives for the head and
that the line is empty exactly when nothing is in flight: without it the drain
could start behind a text that still waits.

**Key store.** `StartFound` says for every step of the start-up what it must have in
hand if something was promised: that the migration and the generation are then
out of reach, and that the halves read so far are the promised ones. `CopiedFirst` says the
same of the plaintext at the steps before its deletion. `StoreReads` (no misread, and
nothing that is no key taken for one) is what the code cannot establish: without
it `SecretsComeBack` fails (section 5).

**Delivery.** The strengthening is that a datagram's number names what was
sealed in it (`MailNumbered`): what is shown is related to the datagram by that number.

**Chat timeline.** The operators of `ChatTimeline` are folds over sets of places.
A lemma unrolls a fold by its greatest place (or, for a sum, by any element),
and picking, voting and summing are instances of it. `RowsTyped` carries the
tallies: a voter is counted under one answer at most, and under the one last
given. The log (`LogInv`): while nothing was missed, what the cache holds of the
conversation is the end of what the rows say, entry by entry (`Ends`), and all of
it below the cap (`Whole`); the file is the cache once the last write went
through. The screen (`ScreenInv`) adds that the delegates mirror the rows
(`Mirrors`; one whose neighbour was revealed since may still draw the old author)
and that the marker leaves as many unseen rows below it as the count says
(`Marked`). A restart is the hard step: the rows are loaded from the log, which
dropped the notices, so the marker is found again by counting from the end; that
it is the same message is a bijection between the unseen rows before and after.

**Conversation list.** `ListInv` is one row to a conversation, its badge the
count of that conversation, the rows in order until the first restart, and the
index equal to the list up to presence when no save is due and the last one
reached the disk (`unsaved`): a write that fails is not tried again before the
next change, and nobody is told. The order is not
computed but chosen (`ByActivity`); that a sorted arrangement exists and is
unique is proved by ranking the rows. The total of the tray is a sum over the
counts on one side and over the rows on the other, equal by renaming.

**Popups.** The property is inductive once popups are numbered by `serial`.

**Matrix session.** The invariant is about the disk after every write still to
come (`Final`): on it the session that is up can be found, or the user was told
otherwise (`Kept`), and after a sign-out it holds no device (`Quiet`), whatever
slots are left. The token's slot is that of the name it is stored under, so a
start reads the token with the ids it belongs to. `LinkIsKept` maps each handler
to a step of `MatrixLink`.

**Verification.** `Clicked`: what waits for the other side's MAC has been
confirmed while the emoji were shown; `Fresh`: a list of names that would be taken
was asked of the current connection.

**Rows and badges of a room.** A sync publishes a batch by a recursive function
over its events. `Run` names what such a function computes (the memberships and
the reader of lines are two more), and a lemma by induction over the places says
that a run is a step from the run of the events before: so a batch keeps whatever
each single event keeps. What it keeps is `Published`, stated of the view *after
event i*, not only of the state between batches, with four parts. `RowsReached`: a
row that is no line of the room is in the index, so the redaction that comes
later finds it, and what waits for its key is not such a line, so revealing it
brings nothing back. Lines are not promised to go: that of an unknown kind keeps
its words. `BadgesReached`: a badge under a message of this run is that of a
reaction in `m_reactions`, and one whose badge no other member bears (`Sole`) has
it; the homeserver refuses a second standing reaction of one member to one message
(`Alone`), so the redaction of one reaction takes the badge of a namesake's at
most. `RowsKept`: a message that stands has its row, with its own text, that of an
edit or what was typed (`Tells`), and if it is one's own and not as typed, with the
text of the last edit sent here or of a later one, since one's own edits are never
sealed. `Within` bounds all of them by `first` and `i`.
Leaving, joining and restarting empty the indexes and the timeline
of the run at once.

**Calls of a room.** A key is the place of its event in the log. `CallOk` says of
a caller that what it holds for each of its peers is an answer of that peer to
its own invite, and of somebody who answered that what it holds for the caller is
its only answer. Both rest on `PendOk`: while a call is still offered to a
member, that member has not answered it, so nobody answers twice.
Two who answered have no such relation, which is why `KeysAlwaysAgree` asks for a
room of two, where one of any two is the caller; `room_keys` is the
counterexample with three.

**Doors of a room.** `Chained`: the events under way lead from the memberships
served to those the homeserver has, each from the membership the one before left,
and each allowed by its rules (`Lawful`). Reading them in order then tells the
memberships they end in. `Shown`, `NotStale` and `NoLitter` say when an invitation
and a row may be there and what under way they wait for.

**Runs of several parts.** `GuardsHold`, `ChatsAlwaysHold` and `MatrixHolds` state the
invariants of the composed specification itself: a step of it is a step of one
part and leaves the variables of the others, so that each part's invariant is
kept by it.

Assumptions. Each module names what its constants must satisfy (`…Assumption`,
evaluated by TLC in its run): caps are numbers, `None` is no peer or place, the
time to live of a nonce is at least two windows, the kinds of events of a room
that amend others are those four, and what the room says of itself is never
encrypted. `RateTyped`, `CapTyped`, `FilesTyped` and `StoreReads` are hypotheses of the
theorems of the parts of `MCGuards` they are about.

Only model-checked: `Answered`, `Acknowledged` and `Settles`.
They are liveness under fairness, which the prover cannot reach.

## 5. What the runs found

Three runs end in a counterexample, each about something the documentation or a
comment promises; `PROJECT.json` quotes the lines.

- `calls_window`: the end of any ring or request closes the window of the call
  that is on, and leaves the microphone open with no button to shut it.
- `session_lost`: the sign-in page stores the name it was given before the
  attempt; if the program ends before another sign-in succeeds, the next start
  looks for that name's token, finds none and drops the session that was stored.
- `room_keys`: two members who answer one invite at the same time each install the
  key of the other's answer.

The models state further properties that do not hold and that no run spends its
time on; each is listed under `findings` with the line that promises otherwise:
`NoSharedEntry` with room calls, `AckMeansHandled` and `Acknowledged` (with a burst
beyond the receiver's allowance) of `FileTransfer`, `SecretsComeBack` with a
misread, `KeyMeansSession` of `PeerTable`, `HardCap` of `RateGate`,
`StampNamesTheMessage` of `ChatTimeline`, `SectionsInOrder` of `ChatList` after a
restart, `EditsAreSealed`, `EditsOpen` and `ReadIsRead` of `Delivery`, `RedactedRowsGo`,
`EditsReachTheRoom` and `EditsAreNoRows` of `MatrixRooms`, `DialogOfThisAccount` of `MatrixVerification`,
`RingsForACall` and `KeysGoWithTheCall` of `RoomCalls`.

Observed while modelling, and part of the models where it says so:

- `checkRate()`: the table of sources has no hard cap (`HardCap`). The purge takes
  only sources idle for a second (`CryptoManager.cpp:981-1002`), so as many stay as
  were heard within one second; `README.md:42-44` promises hard caps for both
  tables. (`RateGate`.) A clock set back after a nonce expired lets its packet
  in again (`CryptoManager.cpp:905`); the model's clock only runs forward.
- A handshake that is refused after it proved its identity (a profile copied to a
  second machine sends our own DH key) keys that identity to an address the index
  does not know, so the next peer heard from there is filed under the same entry,
  and from another address it takes over whoever is filed there by then
  (`NetworkManager.cpp:856-858`, 898-899; `KeyMeansSession`).
- A room call whose event gives a peer's id for its address overwrites that
  peer's session and its end erases it with the list of its addresses
  (`MatrixRoomBridge.cpp:1715-1725`; `CryptoManager.cpp:549`, 699, 707-717). (`PeerTable`, `named`.)
- `onDerived()` files a key without looking at `kMaxPassphraseCacheSize`
  (`CryptoManager.cpp:1303`); only `deriveKey()` keeps the cap. (`DecryptQueue`.)
- A room call over a peer's own address makes that peer's next beacon raise
  `peerIdentityChanged` (`CryptoManager.cpp:621`), which `CryptoManager.h:181-185`
  reserves for a changed key. (`PeerTable`.)
- Calls, all in the model: a connection that fails inside `connectToHost()` ends
  a call that is not yet listed, and `call()` then lists it with nothing to end
  it but the user (`VoiceCallManager.cpp:38-46`, `stillborn`). The `disconnected()`
  of a socket that closed slowly takes down a new call with the same peer
  (`NetworkManager.cpp:985-991`). With a room on screen the buttons of a LAN call
  do not send `call_end` and the request stays pending, so a late accept still
  opens the microphone. `openActiveCall()` opens no window for a second call.
- File transfer: `m_incomingTransfers` has neither a cap nor a time to live
  (`NetworkManager.cpp:660`); a second `file_meta` of an unusable size is refused
  while the transfer it names goes on (`FileTransferHandler.cpp:91`); an empty file
  is always refused; the README speaks of 48000-byte chunks, the code sends 60000.
- Delivery, in the model: a text sealed under the passphrase for want of a session
  goes out unsigned and is always dropped (`NetworkManager.cpp:616-631`); `sendText()`
  returns true when `sendPrivate()` failed (1520-1526); `sendGroupMessage()` sends an
  empty text when `encrypt()` fails (1144-1145); a received reaction is filed under
  the chat id its sender uses, which is the receiver's own address
  (`Main.qml:974-982`). Amendments carry no `text` and pass the derivation queue by (774).
- Key store, in the model: a passphrase whose plaintext could not be removed
  comes back at the next start; a second pair set aside overwrites the first.
- Chats, in the model: `persistAll()` drops notices, so placeholders are gone after
  a restart; a vote is written to the log only when some other change rewrites it;
  deleting an unread message does not lower the count; two messages of one millisecond share a
  stamp; every change postpones the save of the list by another 400 ms and none
  is made on quitting; an index that could not be written is not tried again;
  `dropChatLocally()` leaves the popups.
- Matrix session: the outcome of `whoami` does not hold the sync back (in the
  model); a token that could not be removed is not reported.
- Rooms, in the model: an edit made to a message that is still sealed is
  overwritten when the key comes; the badge of a reaction redacted after a restart
  stays; what one reacts with from another device is not shown; of two members by
  one name the redaction of one's reaction takes the other's badge down
  (`MatrixRoomBridge.cpp:708-721`, `ReactionStore.cpp:31-55`); a redacted message of an
  unknown kind keeps its words on the screen and one edited meanwhile keeps those
  of the edit that was itself taken back (`MatrixRoomBridge.cpp:738-740`, 818); an
  edit that is refused or lost stays in the row of this session (`ChatPage.qml:361-367`).
  Read only: the
  callback of `joinRoom()` uses the connection after a sign-out may have cleared it
  (`MatrixRoomBridge.cpp:1609`); `sendReply()` and pins read a number where QML
  passes an event id (`Main.qml:1331-1332`).
- Doors, in the model: an invitation shown at a sign-out is not withdrawn, and a
  row outlives a leave made meanwhile, hence the first session in `DoorsTrue`;
  `memberInfo()` says a banned member is still listed (1991-1993), the column has
  joined members only; a withdrawn or refused knock reads as having left or been removed.

## 6. What is not modelled

Cryptography is assumed ideal throughout, and so is what libQuotient and the
homeserver do beyond the order of their answers. Not modelled at all, with the
reason:

- the wire format, the chat addresses and the backend registry, tray, settings, theme,
  text and emoji, the window's layout: no state of their own, or pure I/O;
- `GroupManager` and the file of `ReactionStore`: sets saved whole, where no order of
  operations matters (the badges of a room, where it does, are in `MatrixRooms`);
- the discovery sweep and the audio mixer: a counter with a cap and arithmetic on
  samples, with one actor or copies taken under a lock;
- audio devices: Qt Multimedia.

Left out of modelled components: muting and audio frames (`Calls`), typing notices
(`Delivery`), replies, pins, day headers and text formatting (`ChatTimeline`), names,
pictures and previews (`ChatList`), sounds (`Popups`), topics, media, directories
and search (`MatrixRooms`, which also has one emoji, no two messages of one stamp,
names that do not change, no redaction of a redaction, and none sent from here: the window
offers no such button in a room, `ChatPage.qml:315`), the flows a homeserver offers (`MatrixSession`). The
composition of `RoomCalls` with `VoiceLine` is made only at its edges: a room call
enters `PeerTable` as a shared session and `VoiceLine` as a call.
