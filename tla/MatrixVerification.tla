------------------------- MODULE MatrixVerification -------------------------
(***************************************************************************)
(* MatrixVerification: the one comparison of emoji the dialog shows, and   *)
(* the names of the account's devices, over the connections of MatrixLink. *)
(* libQuotient runs the protocol; this class adopts a session, forwards    *)
(* the clicks and says how it ended.  It is never disconnected from a      *)
(* connection it attached to: one that is signing out still reports here.  *)
(***************************************************************************)
EXTENDS MatrixLink

CONSTANTS
    Devices,        \* devices that can be verified
    None,
    MaxSessions     \* key verification sessions (bound)

VARIABLES
    session,    \* m_session: [conn, device, phase, incoming, theirMac, shown]
    outcome,    \* m_finished, m_verified, m_remoteDeviceId: [device, ok] or None
    names,      \* the connection whose device names are kept, 0 when none are
    generation, \* m_devicesGeneration
    jobs,       \* device lists asked for: [conn, generation]
    trusted,    \* the library's trust table: [conn, device]
    compared,   \* what the user said matches, while it was shown (history)
    sessions    \* count (bound)

dialog == <<session, outcome>>
lists == <<names, generation, jobs>>
vars == <<linkVars, dialog, lists, trusted, compared, sessions>>

Alive == (IF link = 0 THEN {} ELSE {link}) \cup leaving
available == link # 0
NewSession(c, d, phase, incoming) ==
    [conn |-> c, device |-> d, phase |-> phase, incoming |-> incoming,
     theirMac |-> FALSE, shown |-> FALSE]
-----------------------------------------------------------------------------
(* connectionChanged: nothing of the old connection is kept *)

Forget ==
    /\ session' = None /\ outcome' = None
    /\ names' = 0 /\ generation' = generation + 1
LinkChanges ==
    /\ NewLink \/ DropLink \/ SignOut
    /\ Forget
    /\ jobs' = {j \in jobs : j.conn \in Alive'}
    /\ UNCHANGED <<trusted, compared, sessions>>

\* A deleted connection takes its jobs and its sessions along, silently.
ConnectionDies ==
    /\ Gone
    /\ jobs' = {j \in jobs : j.conn \in Alive'}
    /\ session' = IF session = None \/ session.conn \in Alive' THEN session
                  ELSE None
    /\ UNCHANGED <<outcome, names, generation, trusted, compared, sessions>>
-----------------------------------------------------------------------------
(* The session *)

\* A session from outside, or one the library began with another of the
\* account's own devices.  A second one is left to time out.
Adopt(c, d, phase) ==
    /\ sessions < MaxSessions /\ sessions' = sessions + 1
    /\ IF session = None
       THEN session' = NewSession(c, d, phase, TRUE) /\ outcome' = None
       ELSE UNCHANGED dialog
    /\ UNCHANGED <<linkVars, lists, trusted, compared>>
Arrives == \E c \in Alive, d \in Devices : Adopt(c, d, "INCOMING")
VerifyFromVerifiedSessions ==
    /\ available /\ session = None
    /\ \E d \in Devices :
           [conn |-> link, device |-> d] \in trusted
               /\ Adopt(link, d, "WAITINGFORREADY")

VerifyDevice(d) ==
    /\ available /\ session = None
    /\ sessions < MaxSessions /\ sessions' = sessions + 1
    /\ session' = NewSession(link, d, "WAITINGFORREADY", FALSE)
    /\ outcome' = None
    /\ UNCHANGED <<linkVars, lists, trusted, compared>>

awaitingAccept == session # None /\ session.incoming /\ session.phase = "INCOMING"
AcceptRequest ==
    /\ awaitingAccept
    /\ session' = [session EXCEPT !.phase = "READY"]
    /\ UNCHANGED <<linkVars, outcome, lists, trusted, compared, sessions>>

\* onSessionStateChanged(): both ends of a session are the end of the dialog's.
Ends(s, ok) ==
    /\ outcome' = [device |-> s.device, ok |-> ok]
    /\ session' = None
    /\ trusted' = IF ok THEN trusted \cup {[conn |-> s.conn, device |-> s.device]}
                  ELSE trusted

\* The library's side: keys, emoji, the other side's MAC.
Proceeds ==
    /\ session # None
    /\ \/ /\ session.phase \in {"WAITINGFORREADY", "READY"}
          /\ session' = [session EXCEPT !.phase = "WAITINGFORVERIFICATION",
                                        !.shown = TRUE]
          /\ UNCHANGED <<outcome, trusted>>
       \/ /\ session.phase \in {"READY", "WAITINGFORVERIFICATION"}
          /\ ~session.theirMac
          /\ session' = [session EXCEPT !.theirMac = TRUE]
          /\ UNCHANGED <<outcome, trusted>>
       \/ session.phase = "WAITINGFORMAC" /\ Ends(session, TRUE)
    /\ UNCHANGED <<linkVars, lists, compared, sessions>>

\* sendMac(): the end of it when the other side's is there already.
SendMac ==
    /\ compared' = IF session.shown
                   THEN compared \cup {[conn |-> session.conn, device |-> session.device]}
                   ELSE compared
    /\ IF session.theirMac THEN Ends(session, TRUE)
       ELSE /\ session' = [session EXCEPT !.phase = "WAITINGFORMAC"]
            /\ UNCHANGED <<outcome, trusted>>
    /\ UNCHANGED <<linkVars, lists, sessions>>
ConfirmAnyTime == session # None /\ SendMac
ConfirmMatch == session # None /\ session.phase = "WAITINGFORVERIFICATION" /\ SendMac

\* rejectMismatch(), cancel(), a cancel from the other side or a timeout.
Cancel ==
    /\ session # None
    /\ Ends(session, FALSE)
    /\ UNCHANGED <<linkVars, lists, compared, sessions>>

Dismiss ==
    /\ session = None /\ outcome # None
    /\ outcome' = None
    /\ UNCHANGED <<linkVars, session, lists, trusted, compared, sessions>>
-----------------------------------------------------------------------------
(* The names of the account's devices *)

RefreshDevices ==
    /\ link # 0
    /\ LET job == [conn |-> link, generation |-> generation]
       IN jobs' = jobs \cup {job}
    /\ UNCHANGED <<linkVars, dialog, names, generation, trusted, compared, sessions>>
Listed(j) ==
    /\ jobs' = jobs \ {j}
    /\ names' \in IF j.generation = generation THEN {names, j.conn} ELSE {names}
    /\ UNCHANGED <<linkVars, dialog, generation, trusted, compared, sessions>>

Init ==
    /\ LinkInit
    /\ session = None /\ outcome = None
    /\ names = 0 /\ generation = 0 /\ jobs = {}
    /\ trusted = {} /\ compared = {} /\ sessions = 0

Next ==
    \/ LinkChanges \/ ConnectionDies
    \/ Arrives \/ VerifyFromVerifiedSessions
    \/ \E d \in Devices : VerifyDevice(d)
    \/ AcceptRequest \/ Proceeds \/ ConfirmMatch \/ Cancel \/ Dismiss
    \/ RefreshDevices \/ \E j \in jobs : Listed(j)
Spec == Init /\ [][Next]_vars
-----------------------------------------------------------------------------
\* A device is trusted only if the user said its emoji match, of this account
\* and with the emoji on screen: neither an early click nor a MAC that came
\* before it, nor a session that took another's place, does (confirmMatch).
TrustedMeansCompared == trusted \subseteq compared

\* The names in the device list are those of the account it is drawn for, also
\* when the list of another one is answered late (refreshDevices).
NamesOfThisAccount == names \in {0, link}

\* Neither a late answer nor an early click makes the dialog say more than was
\* done, for another account or another device (MatrixVerification).
VerificationTrue == TrustedMeansCompared /\ NamesOfThisAccount

\* "The old connection took its sessions with it when it died" (the constructor):
\* the dialog is about a device of the account that is signed in.
DialogOfThisAccount == session # None => session.conn = link
=============================================================================
