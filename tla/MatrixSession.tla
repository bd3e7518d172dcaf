---------------------------- MODULE MatrixSession ----------------------------
(***************************************************************************)
(* MatrixManager: signing in with a password, through the browser or from  *)
(* what the last run stored, the sync that follows, the deadlines over     *)
(* both, and signing out.  libQuotient and the homeserver answer, in any   *)
(* order the connection's own progress allows, or never.                   *)
(*                                                                         *)
(* A handler changes the memory at once and leaves what it writes to the   *)
(* disk in `writes', one state of the disk after the other: the program    *)
(* may end between any two of them.                                        *)
(***************************************************************************)
EXTENDS Integers, Sequences, QtHash

CONSTANTS
    Accounts,       \* full user ids
    Names,          \* what the user may type, the full ids and short forms
    Account,        \* [Names -> Accounts]
    None,
    LoginTimeout,   \* kLoginTimeoutMs in ticks
    SyncTimeout,    \* kSyncTimeoutMs
    Abandon,        \* kLoginAbandonMs
    MaxLinks,       \* connections ever made (bound)
    MaxFaults,      \* accesses to the key store that fail (bound)
    MaxStarts       \* runs of the program (bound)

\* The slot of the builds before there was one slot for each account.
LegacySlot == "legacy"
\* What makeConnection() makes, and what becomes of it.
Connections ==
    [id : Nat \ {0}, how : {"password", "token", "resume"},
     user : Accounts \cup Names, token : Accounts,
     phase : {"resolving", "asking", "up"}, asked : BOOLEAN]

ASSUME MatrixSessionAssumption ==
    /\ Account \in [Names -> Accounts]
    /\ LegacySlot \notin Accounts \cup Names
    /\ None \notin Nat \cup Connections

VARIABLES
    state,          \* m_state, "off" while the program does not run
    conn,           \* m_connection: [id, how, user, token, phase, asked] or None
    resuming,       \* m_resuming
    loginLeft, syncLeft,    \* m_loginTimeout, m_syncTimeout; None when stopped
    abandons,       \* the pending kLoginAbandonMs: [id, left]
    leaving,        \* signed-out connections not gone yet
    unlocked,       \* m_keyBackupUnlocked
    disk,           \* [user, device, tokens] of the settings and the key store
    writes,         \* states of the disk a handler has still to write
    warned,         \* sessionNotPersisted() was the last word on storing
    links, faults, starts,      \* counts (bounds)
    good,           \* the account whose session was stored last (history)
    signedOut       \* the user signed out and has not come back (history)

bounds == <<links, faults, starts>>
timers == <<loginLeft, syncLeft, abandons>>
history == <<good, signedOut>>
vars == <<state, conn, resuming, timers, leaving, unlocked, disk, writes,
          warned, bounds, history>>

loggedIn == state \in {"Syncing", "Online", "Reconnecting"}
busy == state = "Connecting"
Due == 0
Current(c) == conn # None /\ conn.id = c
-----------------------------------------------------------------------------
(* What is stored *)

\* storeSession(), when the token could be written: slot, ids, old slot.
Stored(c) ==
    LET one == [disk EXCEPT !.tokens = Insert(@, c.user, c.token)]
        two == [one EXCEPT !.user = c.user, !.device = c.id]
    IN <<one, two, [two EXCEPT !.tokens = Remove(@, {LegacySlot})]>>
StoreSession ==
    \/ /\ writes' = Stored(conn) /\ warned' = FALSE
       /\ good' = conn.user /\ signedOut' = FALSE
       /\ UNCHANGED faults
    \/ /\ faults < MaxFaults /\ faults' = faults + 1
       /\ warned' = TRUE
       /\ UNCHANGED <<writes, history>>

\* clearStoredSession(): a slot that cannot be removed is left, the ids go.
WithoutUser(d) == [d EXCEPT !.user = None]
WithoutIds(d) == [d EXCEPT !.user = None, !.device = None]
ClearStoredSession ==
    /\ \E stuck \in SUBSET {disk.user, LegacySlot} :
           LET one == [disk EXCEPT !.tokens = Remove(@, {disk.user} \ stuck)]
               two == [one EXCEPT !.tokens = Remove(@, {LegacySlot} \ stuck)]
           IN /\ faults + (IF stuck = {} THEN 0 ELSE 1) <= MaxFaults
              /\ faults' = faults + (IF stuck = {} THEN 0 ELSE 1)
              /\ writes' = <<one, two, WithoutIds(two)>>
    /\ good' = None

Flush ==
    /\ writes # <<>>
    /\ disk' = Head(writes) /\ writes' = Tail(writes)
    /\ UNCHANGED <<state, conn, resuming, timers, leaving, unlocked, warned,
                   bounds, history>>
-----------------------------------------------------------------------------
(* Attempts to sign in *)

MakeConnection(how, user, token, phase) ==
    /\ links < MaxLinks
    /\ links' = links + 1
    /\ conn' = [id |-> links', how |-> how, user |-> user, token |-> token,
                phase |-> phase, asked |-> how = "resume"]
    /\ state' = "Connecting"
    /\ loginLeft' = LoginTimeout

\* The page writes the name it was given before it signs in with it.
Login(name) ==
    /\ ~loggedIn /\ ~busy /\ state # "off"
    /\ MakeConnection("password", Account[name], Account[name], "resolving")
    /\ disk' = [disk EXCEPT !.user = name]
    /\ resuming' = FALSE /\ syncLeft' = None
    /\ UNCHANGED <<abandons, leaving, unlocked, writes, warned, faults, starts,
                   history>>
\* A name with no server in it and no server beside it.
LoginNowhere(name) ==
    /\ ~loggedIn /\ ~busy /\ state # "off"
    /\ links < MaxLinks /\ links' = links + 1
    /\ conn' = None /\ state' = "Failed"
    /\ disk' = [disk EXCEPT !.user = name]
    /\ resuming' = FALSE /\ loginLeft' = None /\ syncLeft' = None
    /\ UNCHANGED <<abandons, leaving, unlocked, writes, warned, faults, starts,
                   history>>

\* The browser hands a token back whenever it likes, the page only if idle.
LoginWithToken(user) ==
    /\ state # "off"
    /\ MakeConnection("token", user, user, "asking")
    /\ resuming' = FALSE /\ syncLeft' = None
    /\ UNCHANGED <<abandons, leaving, unlocked, disk, writes, warned, faults,
                   starts, history>>
CompleteSsoNowhere ==
    /\ ~loggedIn /\ ~busy /\ state # "off"
    /\ state' = "Failed"
    /\ UNCHANGED <<conn, resuming, timers, leaving, unlocked, disk, writes,
                   warned, bounds, history>>

\* The token of the slot that can be read, None when neither can.
Readable(user, slots) ==
    IF user \in slots /\ user \in DOMAIN disk.tokens THEN disk.tokens[user]
    ELSE IF LegacySlot \in slots THEN Value(disk.tokens, LegacySlot, None)
    ELSE None
ResumeSession ==
    /\ state = "off" /\ starts < MaxStarts
    /\ starts' = starts + 1
    /\ IF None \in {disk.user, disk.device}
       THEN /\ state' = "LoggedOut"
            /\ UNCHANGED <<conn, resuming, loginLeft, writes, links, faults, good>>
       ELSE LET token == Readable(disk.user, {disk.user, LegacySlot})
            IN IF token # None
               THEN /\ MakeConnection("resume", disk.user, token, "asking")
                    /\ resuming' = TRUE
                    /\ UNCHANGED <<writes, faults, good>>
               ELSE /\ ClearStoredSession
                    /\ state' = "Failed"
                    /\ UNCHANGED <<conn, resuming, loginLeft, links>>
    /\ UNCHANGED <<syncLeft, abandons, leaving, unlocked, disk, warned, signedOut>>
-----------------------------------------------------------------------------
(* What the connection reports *)

Retire(reason) == conn' = None /\ state' = reason

\* The address answers, and the credentials go out, or cannot.
Resolved ==
    /\ conn # None /\ conn.phase = "resolving"
    /\ \/ /\ conn' = [conn EXCEPT !.phase = "asking"]
          /\ UNCHANGED <<state, loginLeft>>
       \/ Retire("Failed") /\ loginLeft' = None
    /\ UNCHANGED <<resuming, syncLeft, abandons, leaving, unlocked, disk, writes,
                   warned, bounds, history>>

OnConnected ==
    /\ conn # None /\ conn.phase = "asking"
    /\ conn' = [conn EXCEPT !.phase = "up"]
    /\ state' = "Syncing"
    /\ loginLeft' = None /\ syncLeft' = SyncTimeout
    /\ IF resuming THEN UNCHANGED <<writes, warned, faults, history>>
       ELSE StoreSession
    /\ UNCHANGED <<resuming, abandons, leaving, unlocked, disk, links, starts>>

\* The homeserver says no: a stored session is not tried again.
OnLoginError ==
    /\ conn # None
    /\ conn.phase = "asking" \/ conn.how = "resume"
    /\ Retire("Failed")
    /\ loginLeft' = None /\ syncLeft' = None /\ resuming' = FALSE
    /\ IF resuming THEN ClearStoredSession
       ELSE UNCHANGED <<writes, faults, good>>
    /\ UNCHANGED <<abandons, leaving, unlocked, disk, warned, links, starts,
                   signedOut>>
OnResolveError ==
    /\ conn # None /\ conn.phase = "resolving"
    /\ Retire("Failed")
    /\ loginLeft' = None /\ syncLeft' = None /\ resuming' = FALSE
    /\ UNCHANGED <<abandons, leaving, unlocked, disk, writes, warned, bounds,
                   history>>

OnSyncDoneUnsaved ==
    /\ conn # None /\ conn.phase = "up"
    /\ state' = "Online" /\ syncLeft' = None
    /\ resuming' = FALSE
    /\ UNCHANGED <<conn, loginLeft, abandons, leaving, unlocked, disk, writes,
                   warned, bounds, history>>
OnSyncDone ==
    /\ conn # None /\ conn.phase = "up"
    /\ state' = "Online" /\ syncLeft' = None
    /\ resuming' = FALSE
    /\ IF resuming THEN StoreSession
       ELSE UNCHANGED <<writes, warned, faults, history>>
    /\ UNCHANGED <<conn, loginLeft, abandons, leaving, unlocked, disk, links,
                   starts>>
ErrorState == IF state = "Online" THEN "Reconnecting" ELSE state
OnSyncErrorAgain ==
    /\ conn # None /\ conn.phase = "up"
    /\ state' = ErrorState
    /\ syncLeft' = SyncTimeout
    /\ UNCHANGED <<conn, resuming, loginLeft, abandons, leaving, unlocked, disk,
                   writes, warned, bounds, history>>
OnSyncError ==
    /\ conn # None /\ conn.phase = "up"
    /\ state' = ErrorState
    /\ syncLeft' = IF syncLeft = None THEN SyncTimeout ELSE syncLeft
    /\ UNCHANGED <<conn, resuming, loginLeft, abandons, leaving, unlocked, disk,
                   writes, warned, bounds, history>>
\* The session was ended from elsewhere.
OnLoggedOut ==
    /\ conn # None /\ conn.phase = "up"
    /\ Retire("Failed")
    /\ ClearStoredSession
    /\ UNCHANGED <<resuming, timers, leaving, unlocked, disk, warned, links,
                   starts, signedOut>>

\* Whose token a resumed session holds.
OnTokenOwner ==
    /\ conn # None /\ conn.asked
    /\ IF conn.token = conn.user
       THEN /\ conn' = [conn EXCEPT !.asked = FALSE]
            /\ UNCHANGED <<state, writes, faults, good>>
       ELSE Retire("Failed") /\ ClearStoredSession
    /\ UNCHANGED <<resuming, timers, leaving, unlocked, disk, warned, links,
                   starts, signedOut>>

\* The key of the backup fits.  Whoever asked may be signed out meanwhile.
KeyBackupUnlocked ==
    /\ conn # None \/ leaving # {}
    /\ unlocked' = TRUE
    /\ UNCHANGED <<state, conn, resuming, timers, leaving, disk, writes, warned,
                   bounds, history>>
-----------------------------------------------------------------------------
(* Time *)

Tick ==
    /\ Due \notin {loginLeft, syncLeft}
    /\ \A a \in abandons : a.left # Due
    /\ loginLeft' = IF loginLeft = None THEN None ELSE loginLeft - 1
    /\ syncLeft' = IF syncLeft = None THEN None ELSE syncLeft - 1
    /\ abandons' = {[a EXCEPT !.left = @ - 1] : a \in abandons}
    /\ UNCHANGED <<state, conn, resuming, leaving, unlocked, disk, writes, warned,
                   bounds, history>>

\* The attempt is left running for a while after it was called failed.
OnLoginTimeout ==
    /\ loginLeft = Due /\ loginLeft' = None
    /\ IF busy
       THEN state' = "Failed" /\ abandons' = abandons \cup {[id |-> conn.id, left |-> Abandon]}
       ELSE UNCHANGED <<state, abandons>>
    /\ UNCHANGED <<conn, resuming, syncLeft, leaving, unlocked, disk, writes,
                   warned, bounds, history>>
OnAbandon(a) ==
    /\ a.left = Due
    /\ abandons' = abandons \ {a}
    /\ conn' = IF Current(a.id) /\ state = "Failed" THEN None ELSE conn
    /\ UNCHANGED <<state, resuming, loginLeft, syncLeft, leaving, unlocked, disk,
                   writes, warned, bounds, history>>

OnSyncDeadline ==
    /\ syncLeft = Due /\ syncLeft' = None
    /\ IF state \in {"Syncing", "Reconnecting"} THEN Retire("Failed")
       ELSE UNCHANGED <<state, conn>>
    /\ UNCHANGED <<resuming, loginLeft, abandons, leaving, unlocked, disk, writes,
                   warned, bounds, history>>
-----------------------------------------------------------------------------
(* Signing out, and the end of the program *)

LogoutWaits ==
    /\ loggedIn
    /\ leaving' = leaving \cup {conn.id}
    /\ ClearStoredSession
    /\ signedOut' = TRUE
    /\ UNCHANGED <<state, conn, resuming, timers, unlocked, disk, warned, links,
                   starts>>
Logout ==
    /\ loggedIn
    /\ conn' = None /\ state' = "LoggedOut"
    /\ leaving' = leaving \cup {conn.id}
    /\ loginLeft' = None /\ syncLeft' = None /\ resuming' = FALSE
    /\ unlocked' = FALSE
    /\ ClearStoredSession
    /\ signedOut' = TRUE
    /\ UNCHANGED <<abandons, disk, warned, links, starts>>
\* The logout is answered, or kLogoutGraceMs is over.
LogoutOver ==
    /\ \E c \in leaving : leaving' = leaving \ {c}
    /\ UNCHANGED <<state, conn, resuming, timers, unlocked, disk, writes, warned,
                   bounds, history>>

Quit ==
    /\ state # "off" /\ state' = "off"
    /\ conn' = None /\ resuming' = FALSE
    /\ loginLeft' = None /\ syncLeft' = None /\ abandons' = {} /\ leaving' = {}
    /\ unlocked' = FALSE /\ warned' = FALSE
    /\ writes' = <<>>
    /\ IF writes = <<>> THEN UNCHANGED history
       ELSE good' = None /\ signedOut' = FALSE
    /\ UNCHANGED <<disk, bounds>>

\* A first start, or one after a build that had one slot for every account.
Init ==
    /\ state = "off" /\ conn = None /\ resuming = FALSE
    /\ loginLeft = None /\ syncLeft = None /\ abandons = {} /\ leaving = {}
    /\ unlocked = FALSE /\ warned = FALSE /\ writes = <<>>
    /\ \/ disk = [user |-> None, device |-> None, tokens |-> EmptyHash]
       \/ \E u, v \in Accounts :
              disk = [user |-> u, device |-> 0,
                      tokens |-> Insert(EmptyHash, LegacySlot, v)]
    /\ links = 0 /\ faults = 0 /\ starts = 0
    /\ good = None /\ signedOut = FALSE

Next ==
    \/ Flush \/ Quit
    \/ writes = <<>> /\
       \/ \E n \in Names : Login(n) \/ LoginNowhere(n)
       \/ \E u \in Accounts : LoginWithToken(u)
       \/ CompleteSsoNowhere \/ ResumeSession
       \/ Resolved \/ OnConnected \/ OnLoginError \/ OnResolveError
       \/ OnSyncDone \/ OnSyncError \/ OnLoggedOut \/ OnTokenOwner
       \/ KeyBackupUnlocked
       \/ Tick \/ OnLoginTimeout \/ (\E a \in abandons : OnAbandon(a))
       \/ OnSyncDeadline \/ Logout \/ LogoutOver
Spec == Init /\ [][Next]_vars

\* Qt's timers fire, and what a handler writes it writes.
Fairness ==
    /\ WF_vars(Flush)
    /\ WF_vars(writes = <<>> /\ (Tick \/ OnLoginTimeout \/ OnSyncDeadline))
    /\ WF_vars(writes = <<>> /\ \E a \in abandons : OnAbandon(a))
-----------------------------------------------------------------------------
\* "Every non-failure state has a deadline" (MatrixManager.h): a sign-in or a
\* sync that is under way comes to an end, whatever answers and however often
\* the sync reports an error on the way (onSyncDeadline, syncError).
Settles ==
    state \in {"Connecting", "Syncing", "Reconnecting"}
        ~> state \in {"Online", "Failed", "LoggedOut", "off"}

\* A session that is up, and of which nobody was told it could not be stored,
\* is the one the next start finds: the ids and the token belong together
\* whichever sign-ins came before it (storeSession, resumeSession).
StoredIsLive ==
    state = "Online" /\ ~warned /\ writes = <<>> =>
        /\ disk.user = conn.user /\ disk.device # None
        /\ Readable(disk.user, {disk.user}) = conn.token

\* Once the user has signed out no start signs in again by itself, whatever
\* slots other sign-ins left behind and whatever could not be removed (logout).
SignedOutStaysOut ==
    [][state = "off" /\ signedOut => state' # "Connecting"]_vars

\* "A network that went away is not a token that was revoked, and the next start
\* should be allowed to try it" (onSyncDeadline): a stored session nobody
\* refused or signed out of is there at the next start.
SessionKept ==
    state = "off" /\ good # None =>
        /\ disk.user = good /\ disk.device # None
        /\ Readable(disk.user, {disk.user}) # None

Link == INSTANCE MatrixLink WITH link <- IF conn = None THEN 0 ELSE conn.id
\* Those who follow connectionChanged see the promise of MatrixLink kept.
KeepsLink == Link!LinkSpec
=============================================================================
