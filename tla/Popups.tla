------------------------------- MODULE Popups -------------------------------
(***************************************************************************)
(* NotificationManager: a popup to a chat, replaced by the next message's, *)
(* closed when the chat is read.  The desktop answers a close() later, and *)
(* its user closes popups too.  Calls have popups of the same kind, kept   *)
(* under the caller's address.  A popup is a number.                       *)
(***************************************************************************)
EXTENDS Integers, QtHash

CONSTANTS Chats, MaxPopups

VARIABLES
    idle,       \* m_userIdle
    focused,    \* windowHasFocus()
    tracked,    \* m_messageNotifications, m_callNotifications: key -> popup
    popups,     \* on the screen: popup -> key
    closing,    \* told to close, closed() still to come
    serial      \* popups made (bound)

vars == <<idle, focused, tracked, popups, closing, serial>>

Watching == ~idle /\ focused
Close(c) == IF c \in DOMAIN tracked THEN {tracked[c]} \cap DOMAIN popups ELSE {}

Post(c) ==
    /\ serial < MaxPopups
    /\ serial' = serial + 1
    /\ closing' = closing \cup Close(c)
    /\ popups' = Insert(popups, serial, c)
    /\ tracked' = Insert(tracked, c, serial)
    /\ UNCHANGED <<idle, focused>>

\* Who watches the window hears a sound and sees no popup.
NotifyMessage(c) == ~Watching /\ Post(c)
NotifyCall(c) == Post(c)

ClearChat(c) ==
    /\ closing' = closing \cup Close(c)
    /\ tracked' = Remove(tracked, {c})
    /\ UNCHANGED <<idle, focused, popups, serial>>

ForgottenAlways(p) == Remove(tracked, {popups[p]})
Forgotten(p) ==
    IF Value(tracked, popups[p], -1) = p THEN Remove(tracked, {popups[p]})
    ELSE tracked

\* closed(), of a popup that was told to or that the user closed.
Closed(p) ==
    /\ popups' = Remove(popups, {p})
    /\ closing' = closing \ {p}
    /\ tracked' = Forgotten(p)
    /\ UNCHANGED <<idle, focused, serial>>

Attention ==
    /\ \/ idle' = ~idle /\ UNCHANGED focused
       \/ focused' = ~focused /\ UNCHANGED idle
    /\ UNCHANGED <<tracked, popups, closing, serial>>

Init ==
    /\ idle = FALSE /\ focused = TRUE /\ serial = 0
    /\ tracked = EmptyHash /\ popups = EmptyHash /\ closing = {}

Next ==
    \/ \E c \in Chats : NotifyMessage(c) \/ NotifyCall(c) \/ ClearChat(c)
    \/ \E p \in DOMAIN popups : Closed(p)
    \/ Attention

\* A popup that is up and was not told to close is the one its chat holds: the
\* next message replaces it and reading the chat takes it away, and a closed()
\* that comes late forgets no newer popup (notifyMessage, clearChat).
PopupsHeld ==
    \A p \in DOMAIN popups \ closing : Value(tracked, popups[p], -1) = p
=============================================================================
