----------------------------- MODULE VoiceLine -----------------------------
(***************************************************************************)
(* The voice side of one host, as functions of its state: the sockets that *)
(* NetworkManager keeps per peer and the calls of VoiceCallManager.  The   *)
(* two call each other through signals that are delivered on the spot, so  *)
(* a function below is one outermost call with all it sets off.            *)
(*                                                                         *)
(* A state v is a record:                                                  *)
(*   active    VoiceCallManager::m_active, and its mirror m_activeCalls    *)
(*   running   the audio engine captures the microphone                    *)
(*   socks     the sockets that exist, each with its peer and its phase    *)
(*   voice     m_voiceConnections                                          *)
(*   dialing   m_pendingVoice                                              *)
(*   buffers   keys of m_voiceRxBuffers                                    *)
(*   stillborn active calls whose connection had failed before (history)   *)
(***************************************************************************)
EXTENDS QtHash

CONSTANTS
    Peers,      \* the addresses of other hosts
    Socks       \* QTcpSocket objects; the memory of one may be used again

Phases == {"dialing", "open", "closing"}

Idle == [active |-> {}, running |-> FALSE, socks |-> EmptyHash,
         voice |-> EmptyHash, dialing |-> EmptyHash, buffers |-> {},
         stillborn |-> {}]

Free(v) == Socks \ DOMAIN v.socks
Values(h, ps) == {h[p] : p \in ps \cap DOMAIN h}

\* disconnectVoice() for every peer in ps: an attempt is aborted, a connection
\* is closed, at once if it has nothing left to write (those of quick) and
\* later otherwise.  Its entry goes either way.
Aborted(v, ps, quick) ==
    Values(v.dialing, ps) \cup Values(v.voice, ps \cap quick)
Lingering(v, ps, quick) == Values(v.voice, ps \ quick)

Disconnecting(v, ps, quick) ==
    [s \in DOMAIN v.socks \ Aborted(v, ps, quick) |->
        [peer |-> v.socks[s].peer,
         phase |-> IF s \in Lingering(v, ps, quick) THEN "closing"
                   ELSE v.socks[s].phase]]

DisconnectVoice(v, ps, quick) ==
    [v EXCEPT !.dialing = Remove(@, ps),
              !.voice = Remove(@, ps),
              !.buffers = @ \ Values(v.voice, ps),
              !.socks = Disconnecting(v, ps, quick)]

\* hangup() for every peer in ps; it ignores the ones it does not hold, and
\* shuts the audio devices with the last one.
HangupAudio(v, ps, quick) ==
    [DisconnectVoice(v, ps \cap v.active, quick) EXCEPT
       !.active = @ \ ps,
       !.running = FALSE,
       !.stillborn = @ \ ps]
Hangup(v, ps, quick) ==
    LET ours == ps \cap v.active
        left == v.active \ ps
    IN [DisconnectVoice(v, ours, quick) EXCEPT
          !.active = left,
          !.running = @ /\ (ours = {} \/ left # {}),
          !.stillborn = @ \ ours]

\* The calls among ps whose connection closes at once: callEnded() is emitted
\* for them from inside hangup().
EndsAtOnce(v, ps, quick) == ps \cap v.active \cap DOMAIN v.voice \cap quick

\* onVoiceDisconnected() of s, and hangup() through voiceDisconnected().
ClosedSilently(v, s) ==
    [v EXCEPT !.socks = Remove(@, {s}), !.buffers = @ \ {s},
              !.voice = Remove(@, {v.socks[s].peer})]
Closed(v, s) ==
    LET p == v.socks[s].peer
    IN Hangup([v EXCEPT !.socks = Remove(@, {s}), !.buffers = @ \ {s},
                        !.voice = Remove(@, {p})], {p}, {})

\* replaceVoiceSocket(): what p had before is silenced and aborted.
ReplaceKeepingBuffer(v, p, s) ==
    LET previous == Values(v.voice, {p}) \ {s}
    IN [v EXCEPT
          !.voice = Insert(@, p, s),
          !.socks = Insert(Remove(@, previous), s, [peer |-> p, phase |-> "open"])]
ReplaceVoiceSocket(v, p, s) ==
    LET previous == Values(v.voice, {p}) \ {s}
    IN [v EXCEPT
          !.voice = Insert(@, p, s),
          !.buffers = @ \ previous,
          !.socks = Insert(Remove(@, previous), s, [peer |-> p, phase |-> "open"])]

\* connectVoice(), with the socket s if it needs one.  An attempt that fails
\* before connectToHost() returns has told the rest already.
ConnectVoice(v, p, s, fails) ==
    IF p \in DOMAIN v.voice \cup DOMAIN v.dialing THEN v
    ELSE IF fails THEN Hangup(v, {p}, {})
    ELSE [v EXCEPT !.dialing = Insert(@, p, s),
                   !.socks = Insert(@, s, [peer |-> p, phase |-> "dialing"])]

\* call(): mic tells whether the audio devices can be opened.
Call(v, p, s, mic, fails) ==
    IF p \in v.active \/ ~(v.running \/ mic) THEN v
    ELSE [ConnectVoice(v, p, s, fails) EXCEPT
            !.running = TRUE,
            !.active = @ \cup {p},
            !.stillborn = IF p \in DOMAIN v.voice \cup DOMAIN v.dialing \/ ~fails
                          THEN @ ELSE @ \cup {p}]

\* The attempt s succeeds, or fails after connectToHost() has returned.
Connected(v, s) ==
    LET p == v.socks[s].peer
    IN ReplaceVoiceSocket([v EXCEPT !.dialing = Remove(@, {p})], p, s)

DialFailed(v, s, quick) ==
    LET p == v.socks[s].peer
    IN Hangup([v EXCEPT !.dialing = Remove(@, {p}), !.socks = Remove(@, {s})],
              {p}, quick)

\* onVoiceData(): the bytes of an unfinished frame wait in the buffer of s.
Read(v, s) == [v EXCEPT !.buffers = @ \cup {s}]
-----------------------------------------------------------------------------
Types(v) ==
    /\ DOMAIN v = DOMAIN Idle
    /\ v.active \subseteq Peers
    /\ v.running \in BOOLEAN
    /\ IsHash(v.socks, Socks, [peer : Peers, phase : Phases])
    /\ IsHash(v.voice, Peers, Socks)
    /\ IsHash(v.dialing, Peers, Socks)
    /\ v.buffers \subseteq Socks
    /\ v.stillborn \subseteq Peers

\* Every pointer the maps hold is to a socket that exists, in the phase the map
\* is for: m_voiceRxBuffers is keyed by the bare pointer, so a key that outlives
\* its socket would put the rest of an old frame in front of a new stream.
Leads(v, s, p, phase) ==
    s \in DOMAIN v.socks /\ v.socks[s].peer = p /\ v.socks[s].phase = phase

PointersLive(v) ==
    /\ \A p \in DOMAIN v.voice : Leads(v, v.voice[p], p, "open")
    /\ \A p \in DOMAIN v.dialing : Leads(v, v.dialing[p], p, "dialing")
    /\ \A s \in v.buffers : s \in DOMAIN v.socks /\ v.socks[s].phase # "dialing"

\* A call that is on has a connection or an attempt at one, unless the attempt
\* had failed before call() listed it: what ends the last of them ends the call.
CallsAreConnected(v) ==
    v.active \subseteq DOMAIN v.voice \cup DOMAIN v.dialing \cup v.stillborn

\* The microphone is open exactly while some call is on.
MicrophoneOnlyInCalls(v) == v.running <=> v.active # {}
=============================================================================
