------------------------------- MODULE Calls -------------------------------
(***************************************************************************)
(* One host's calls: the call signalling of NetworkManager, the voice side *)
(* (VoiceLine), and the places of Main.qml where a call is on screen.      *)
(*                                                                         *)
(* The other ends are open: any peer may send any call message and open or *)
(* close a connection at any time, so lost, late and repeated messages and *)
(* restarted peers are all among the behaviours.  Calls over Matrix rooms  *)
(* are not part of this module, except that a room may be the chat on      *)
(* screen when a button is pressed (room).                                 *)
(***************************************************************************)
EXTENDS Integers, VoiceLine

CONSTANT None   \* no peer: nothing on screen

ASSUME CallsAssumption == None \notin Peers

VARIABLES
    pending,    \* m_pendingCalls: asked, no answer yet
    ringing,    \* m_ringingCalls: their ring waits for the user
    line,       \* the voice side
    asking,     \* outgoingCallWindow: the peer it calls
    talking,    \* activeCallWindow: the peer it talks with
    dialog,     \* incomingCall: the caller, while the dialog is open
    noted,      \* peers with a call notification on the desktop
    balance     \* peer -> 1 for a request of the user nothing has spent (history)

signalling == <<pending, ringing, balance>>
screen == <<asking, talking, dialog, noted>>
vars == <<signalling, line, screen>>
-----------------------------------------------------------------------------
(* What several handlers share *)

\* Main.qml onCallEnded() for the peers in ps, but for its hangup(): one that
\* ended closes whatever is on screen.
OnCallEnded(ps) ==
    IF ps = {} THEN UNCHANGED screen
    ELSE /\ asking' = None /\ talking' = None /\ dialog' = None
         /\ noted' = noted \ ps

\* openActiveCall()
OpenActiveCall(p) ==
    /\ asking' = None
    /\ talking' = IF talking = None THEN p ELSE talking

\* The bookkeeping of sendCallEnd(): the request is withdrawn.
SendCallEnd(p) ==
    /\ pending' = pending \ {p}
    /\ ringing' = ringing \ {p}
    /\ balance' = [balance EXCEPT ![p] = 0]
-----------------------------------------------------------------------------
(* dispatch() *)

\* A call_req: answered with call_busy during a call, else it rings.
CallRequest(p) ==
    /\ line.active = {}
    /\ ringing' = ringing \cup {p}
    /\ dialog' = p
    /\ noted' = noted \cup {p}
    /\ UNCHANGED <<pending, balance, line, asking, talking>>

\* A call_accept counts against a request of ours, and spends it.
AnybodyAsked(p) == TRUE
Asked(p) == p \in pending
CallAccept(p) ==
    /\ Asked(p)
    /\ pending' = pending \ {p}
    /\ balance' = [balance EXCEPT ![p] = @ - 1]
    /\ \E s \in Free(line), mic, fails \in BOOLEAN :
           line' = Call(line, p, s, mic, fails)
    /\ OpenActiveCall(p)
    /\ UNCHANGED <<ringing, dialog, noted>>

\* A call_reject or a call_busy.
CallRefused(p) ==
    /\ Asked(p)
    /\ pending' = pending \ {p}
    /\ balance' = [balance EXCEPT ![p] = 0]
    /\ asking' = None
    /\ UNCHANGED <<ringing, line, talking, dialog, noted>>

\* A call_end, for a request, a ring or a call, the first of them there is.
CallEnd(p) ==
    /\ p \in pending \cup ringing \cup line.active
    /\ pending' = pending \ {p}
    /\ ringing' = IF p \in pending THEN ringing ELSE ringing \ {p}
    /\ balance' = [balance EXCEPT ![p] = 0]
    /\ OnCallEnded({p})
    /\ \E quick \in SUBSET {p} : line' = Hangup(line, {p}, quick)
-----------------------------------------------------------------------------
(* The user *)

\* startOutgoingCall(): nothing is sent if a room is the chat on screen.
Ask(p) ==
    /\ asking = None
    /\ asking' = p
    /\ \E room \in BOOLEAN :
           IF room THEN UNCHANGED <<pending, balance>>
           ELSE /\ pending' = pending \cup {p}
                /\ balance' = [balance EXCEPT ![p] = 1]
    /\ UNCHANGED <<ringing, line, talking, dialog, noted>>

Cancel ==
    /\ asking # None
    /\ asking' = None
    /\ \E room \in BOOLEAN :
           IF room THEN UNCHANGED signalling ELSE SendCallEnd(asking)
    /\ UNCHANGED <<line, talking, dialog, noted>>

\* The button of the call window.
HangUp ==
    /\ talking # None
    /\ \E room \in BOOLEAN :
           IF room THEN UNCHANGED signalling ELSE SendCallEnd(talking)
    /\ \E quick \in SUBSET {talking} :
           /\ line' = Hangup(line, {talking}, quick)
           /\ talking' = None
           /\ IF EndsAtOnce(line, {talking}, quick) = {}
              THEN UNCHANGED <<asking, dialog, noted>>
              ELSE asking' = None /\ dialog' = None /\ noted' = noted \ {talking}

\* sendCallAccept() and call(): the connection is attempted by the first, and
\* again by the second if it has failed by then.
Answer(p) ==
    /\ ringing' = ringing \ {p}
    /\ \E s \in Free(line), mic, fails, again \in BOOLEAN :
           line' = Call(ConnectVoice(line, p, s, fails), p, s, mic, again)
    /\ OpenActiveCall(p)
    /\ dialog' = None
    /\ UNCHANGED <<pending, balance>>

Decline(p) ==
    /\ ringing' = ringing \ {p}
    /\ dialog' = None
    /\ UNCHANGED <<pending, balance, line, asking, talking>>

AnswerDialog == dialog # None /\ Answer(dialog) /\ UNCHANGED noted
DeclineDialog == dialog # None /\ Decline(dialog) /\ UNCHANGED noted

\* The notification's buttons work without the dialog, and close it.
AnswerNoted(p) == p \in noted /\ Answer(p) /\ noted' = noted \ {p}
DeclineNoted(p) == p \in noted /\ Decline(p) /\ noted' = noted \ {p}
ShowNoted(p) ==
    /\ p \in noted
    /\ noted' = noted \ {p}
    /\ dialog' = p
    /\ UNCHANGED <<signalling, line, asking, talking>>

\* A notification times out or is closed; the dialog is closed unanswered.
Dismiss ==
    /\ \/ \E p \in noted : noted' = noted \ {p} /\ UNCHANGED dialog
       \/ dialog # None /\ dialog' = None /\ UNCHANGED noted
    /\ UNCHANGED <<signalling, line, asking, talking>>

EndAllCalls ==
    /\ talking # None \/ asking # None
    /\ \E quick \in SUBSET line.active :
           LET ended == EndsAtOnce(line, line.active, quick)
           IN /\ line' = Hangup(line, line.active, quick)
              /\ noted' = noted \ ended
              /\ dialog' = IF ended = {} THEN dialog ELSE None
    /\ asking' = None
    /\ talking' = None
    /\ UNCHANGED signalling
-----------------------------------------------------------------------------
(* The sockets *)

\* onNewTcpConnection()
NewConnection(p) ==
    /\ \E s \in Free(line) : line' = ReplaceVoiceSocket(line, p, s)
    /\ UNCHANGED <<signalling, screen>>

VoiceConnected(s) ==
    /\ line.socks[s].phase = "dialing"
    /\ line' = Connected(line, s)
    /\ UNCHANGED <<signalling, screen>>

VoiceFailed(s) ==
    /\ line.socks[s].phase = "dialing"
    /\ LET p == line.socks[s].peer
       IN \E quick \in SUBSET {p} :
              /\ line' = DialFailed(line, s, quick)
              /\ OnCallEnded(EndsAtOnce(line, {p}, quick))
    /\ UNCHANGED signalling

\* The far end closes, our own closing is through, or a frame has an impossible
\* length and the connection is aborted.
VoiceDisconnected(s) ==
    /\ line.socks[s].phase # "dialing"
    /\ line' = Closed(line, s)
    /\ OnCallEnded({line.socks[s].peer})
    /\ UNCHANGED signalling

VoiceData(s) ==
    /\ line.socks[s].phase # "dialing"
    /\ line' = Read(line, s)
    /\ UNCHANGED <<signalling, screen>>

Init ==
    /\ pending = {}
    /\ ringing = {}
    /\ line = Idle
    /\ asking = None
    /\ talking = None
    /\ dialog = None
    /\ noted = {}
    /\ balance = [p \in Peers |-> 0]

Dispatch(p) == CallRequest(p) \/ CallAccept(p) \/ CallRefused(p) \/ CallEnd(p)

User ==
    \/ \E p \in Peers : Ask(p) \/ AnswerNoted(p) \/ DeclineNoted(p) \/ ShowNoted(p)
    \/ Cancel \/ HangUp \/ AnswerDialog \/ DeclineDialog \/ Dismiss \/ EndAllCalls

Sockets ==
    \/ \E p \in Peers : NewConnection(p)
    \/ \E s \in DOMAIN line.socks :
           VoiceConnected(s) \/ VoiceFailed(s) \/ VoiceDisconnected(s) \/ VoiceData(s)

Next == User \/ Sockets \/ \E p \in Peers : Dispatch(p)

Spec == Init /\ [][Next]_vars
-----------------------------------------------------------------------------
(* Properties *)

TypeOK ==
    /\ pending \cup ringing \cup noted \subseteq Peers
    /\ {asking, talking, dialog} \subseteq Peers \cup {None}
    /\ Types(line)
    /\ balance \in [Peers -> Int]

\* "That is what keeps a forged accept from opening the microphone"
\* (NetworkManager.h): whatever call messages arrive, an accept gets through only
\* for a request the user made, and one request lets one through.
AcceptsAreAskedFor == \A p \in Peers : balance[p] >= 0

\* No socket pointer outlives its socket, though sockets are replaced, hung up,
\* closed late and allocated again.
SocketsLive == PointersLive(line)

\* No call stays on with nothing that could end it, except one whose connection
\* failed inside call().
Connectable == CallsAreConnected(line)

\* However calls to several peers begin and end, the last one shuts the
\* microphone and nothing else does.
MicrophoneShut == MicrophoneOnlyInCalls(line)

\* "call_end carries two meanings" (NetworkManager.cpp), and the end of a ring
\* is not the end of a call: a step that leaves the voice side alone leaves the
\* window of a call that is on alone.
CallKeepsItsWindow ==
    [][\A p \in line.active :
           talking = p /\ UNCHANGED line => talking' = p]_vars
=============================================================================
