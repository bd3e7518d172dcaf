------------------------------ MODULE RoomCalls ------------------------------
(***************************************************************************)
(* Calls over one Matrix room (MatrixRoomBridge): invite, answer and hangup *)
(* are events of the room, the media goes from member to member under keys *)
(* that the events carry.  Every member runs this program and reads the    *)
(* room's events in their order, each at its own pace.  An offer's key is   *)
(* the place of its event: no two offers have the same.                    *)
(***************************************************************************)
EXTENDS Naturals, Sequences, QtHash

CONSTANTS
    Members,        \* the members, each with its own address
    None,
    MaxEvents,      \* call events of the room (bound)
    MaxLost         \* events the homeserver never took (bound)

VARIABLES
    log,        \* call events: [kind, id, sender]
    seen,       \* the events a member's sync has brought
    call,       \* m_calls: [id, role, peers] or None
    pending,    \* m_pending: [id, from] or None
    shared,     \* CryptoManager's sessions of room calls: peer -> key
    voice,      \* the peers VoiceCallManager was told to call
    windows,    \* outgoingCallWindow and activeCallWindow
    ringing,    \* the incoming call dialog is open, for this call, or None
    lost        \* events lost (bound)

media == <<shared, voice>>
screen == <<windows, ringing>>
vars == <<log, seen, call, pending, media, screen, lost>>

Key(event) == event
Offer == Key(Len(log) + 1)

\* postJson(): what cannot be sent is reported, and nothing else is undone.
Post(kind, id, m) ==
    /\ Len(log) < MaxEvents
    /\ \/ /\ log' = Append(log, [kind |-> kind, id |-> id, sender |-> m])
          /\ UNCHANGED lost
       \/ /\ lost < MaxLost /\ lost' = lost + 1
          /\ log' = Append(log, [kind |-> "lost", id |-> id, sender |-> m])

\* The key is there before the peer is dialled.
Connect(m, peer, key) ==
    /\ shared' = [shared EXCEPT ![m] = Insert(@, peer, key)]
    /\ voice' = [voice EXCEPT ![m] = @ \cup {peer}]
Release(m) ==
    /\ shared' = [shared EXCEPT ![m] = Remove(@, call[m].peers)]
    /\ voice' = [voice EXCEPT ![m] = @ \ call[m].peers]
EndCall(m) ==
    /\ Release(m)
    /\ call' = [call EXCEPT ![m] = None]
    /\ windows' = [windows EXCEPT ![m] = {}]
    /\ ringing' = [ringing EXCEPT ![m] = None]

OpenActiveCall(m) == windows' = [windows EXCEPT ![m] = (@ \ {"outgoing"}) \cup {"active"}]
-----------------------------------------------------------------------------
(* What the user does *)

\* The window opens whether or not there was a call to make.
CallRoom(m) ==
    /\ "outgoing" \notin windows[m]
    /\ windows' = [windows EXCEPT ![m] = @ \cup {"outgoing"}]
    /\ IF call[m] = None
       THEN /\ Post("invite", Offer, m)
            /\ call' = [call EXCEPT ![m] = [id |-> Offer, role |-> "caller", peers |-> {}]]
       ELSE UNCHANGED <<log, lost, call>>
    /\ UNCHANGED <<seen, pending, media, ringing>>

\* The answer carries the key of both directions.
AcceptWith(m, key) ==
    /\ ringing[m] # None
    /\ ringing' = [ringing EXCEPT ![m] = None]
    /\ OpenActiveCall(m)
    /\ IF pending[m] # None /\ pending[m].id = ringing[m]
       THEN LET from == pending[m].from
            IN /\ Post("answer", ringing[m], m)
               /\ call' = [call EXCEPT ![m] = [id |-> ringing[m], role |-> "answerer",
                                               peers |-> {from}]]
               /\ Connect(m, from, key)
               /\ pending' = [pending EXCEPT ![m] = None]
       ELSE UNCHANGED <<log, lost, call, media, pending>>
    /\ UNCHANGED seen
AcceptUnderInvite(m) == AcceptWith(m, Key(ringing[m]))
AcceptCall(m) == AcceptWith(m, Offer)

DeclineCall(m) ==
    /\ ringing[m] # None
    /\ ringing' = [ringing EXCEPT ![m] = None]
    /\ IF pending[m] # None /\ pending[m].id = ringing[m]
       THEN /\ Post("hangup", ringing[m], m)
            /\ pending' = [pending EXCEPT ![m] = None]
       ELSE UNCHANGED <<log, lost, pending>>
    /\ UNCHANGED <<seen, call, media, windows>>

\* The button of either call window; without a call there is no signal back.
HangupRoomCall(m) ==
    /\ \E w \in windows[m] :
           IF call[m] # None
           THEN Post("hangup", call[m].id, m) /\ EndCall(m)
           ELSE /\ windows' = [windows EXCEPT ![m] = @ \ {w}]
                /\ UNCHANGED <<log, lost, call, media, ringing>>
    /\ UNCHANGED <<seen, pending>>
-----------------------------------------------------------------------------
(* handleCallEvent() *)

KnownTo(m, e) == call[m] # None /\ call[m].id = log[e].id

\* Of a call this member is in the invite adds a peer, of another it rings.
OnInvite(m, e) ==
    /\ log[e].kind = "invite"
    /\ IF KnownTo(m, e)
       THEN /\ IF call[m].role = "answerer" /\ log[e].sender \notin call[m].peers
               THEN /\ Connect(m, log[e].sender, Key(e))
                    /\ call' = [call EXCEPT ![m].peers = @ \cup {log[e].sender}]
               ELSE UNCHANGED <<media, call>>
            /\ UNCHANGED <<pending, screen>>
       ELSE /\ IF pending[m] = None
               THEN /\ pending' = [pending EXCEPT ![m] =
                                      [id |-> log[e].id, from |-> log[e].sender]]
                    /\ ringing' = [ringing EXCEPT ![m] =
                                      IF windows[m] = {} THEN log[e].id ELSE @]
               ELSE UNCHANGED <<pending, ringing>>
            /\ UNCHANGED <<call, media, windows>>

OnAnswer(m, e) ==
    /\ log[e].kind = "answer"
    /\ IF KnownTo(m, e)
       THEN /\ IF log[e].sender \notin call[m].peers
               THEN /\ Connect(m, log[e].sender, Key(e))
                    /\ call' = [call EXCEPT ![m].peers = @ \cup {log[e].sender}]
               ELSE UNCHANGED <<media, call>>
            /\ OpenActiveCall(m)
       ELSE UNCHANGED <<call, media, windows>>
    /\ UNCHANGED <<pending, ringing>>

\* Whichever call it is of.
OnHangup(m, e) ==
    /\ log[e].kind = "hangup"
    /\ IF call[m] # None THEN EndCall(m) ELSE UNCHANGED <<call, media, screen>>
    /\ pending' = [pending EXCEPT ![m] = None]

HandleCallEvent(m) ==
    /\ seen[m] < Len(log)
    /\ seen' = [seen EXCEPT ![m] = @ + 1]
    /\ LET e == seen'[m]
       IN IF log[e].sender = m \/ log[e].kind = "lost"
          THEN UNCHANGED <<call, pending, media, screen>>
          ELSE OnInvite(m, e) \/ OnAnswer(m, e) \/ OnHangup(m, e)
    /\ UNCHANGED <<log, lost>>

\* leftRoom() of m: the record of the call goes, and nothing it set up.
LeftRoom(m) ==
    /\ call[m] # None
    /\ call' = [call EXCEPT ![m] = None]
    /\ UNCHANGED <<log, seen, pending, media, screen, lost>>

Init ==
    /\ log = <<>> /\ lost = 0
    /\ seen = [m \in Members |-> 0]
    /\ call = [m \in Members |-> None] /\ pending = [m \in Members |-> None]
    /\ shared = [m \in Members |-> EmptyHash] /\ voice = [m \in Members |-> {}]
    /\ windows = [m \in Members |-> {}] /\ ringing = [m \in Members |-> None]

Next ==
    \E m \in Members :
        \/ CallRoom(m) \/ AcceptCall(m) \/ DeclineCall(m) \/ HangupRoomCall(m)
        \/ HandleCallEvent(m) \/ LeftRoom(m)
Spec == Init /\ [][Next]_vars
-----------------------------------------------------------------------------
InOneCall(a, b) ==
    /\ call[a] # None /\ call[b] # None /\ call[a].id = call[b].id
    /\ a \in call[b].peers /\ b \in call[a].peers

\* "Both sides dial each other ... the shared key is in place first, so neither
\* side has a moment in the clear" (acceptCall): two who are in one call and know
\* of each other seal for each other with the same key, whatever calls, hangups
\* and departures came before.
KeysAgree ==
    \A a, b \in Members : InOneCall(a, b) => shared[a][b] = shared[b][a]

\* The dialog rings for a call that can be answered (handleCallEvent's hangup
\* clears the pending call and leaves the dialog).
RingsForACall ==
    \A m \in Members : ringing[m] # None => pending[m] # None

\* A session key of a call does not outlive the call here (leftRoom).
KeysGoWithTheCall ==
    \A m \in Members : DOMAIN shared[m] # {} => call[m] # None
=============================================================================
