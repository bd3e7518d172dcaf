------------------------ MODULE MatrixSessionProofs ------------------------
(***************************************************************************)
(* What a Matrix session keeps, for any accounts, any timeouts and any     *)
(* number of connections, failures of the key store and starts.            *)
(***************************************************************************)
EXTENDS MatrixSession, SequenceTheorems, TLAPS

Users == Accounts \cup Names
Slots == Users \cup {LegacySlot}
Tokens == UNION {[D -> Accounts] : D \in SUBSET Slots}
Disks == [user : Users \cup {None}, device : Nat \cup {None}, tokens : Tokens]

\* What the disk will be once the handler has written everything.
Final == IF writes = <<>> THEN disk ELSE writes[Len(writes)]

\* The next start finds this session.
Finds(d, c) ==
    /\ d.user = c.user /\ d.device # None
    /\ c.user \in DOMAIN d.tokens /\ d.tokens[c.user] = c.token

Typed ==
    /\ links \in Nat /\ conn \in Connections \cup {None}
    /\ disk \in Disks /\ writes \in Seq(Disks)
Phases ==
    /\ loggedIn => conn # None
    /\ conn # None /\ conn.phase = "up" => loggedIn
    /\ state = "off" => conn = None
    /\ state = "Online" => ~resuming
Kept == loggedIn /\ ~resuming /\ ~warned => Finds(Final, conn)
Quiet == signedOut => Final.device = None

IInv == Typed /\ Phases /\ Kept /\ Quiet
-----------------------------------------------------------------------------
(* What the disk is made of *)

LEMMA TokensType ==
    \A t : t \in Tokens <=> /\ t = [k \in DOMAIN t |-> t[k]]
                            /\ DOMAIN t \subseteq Slots
                            /\ \A k \in DOMAIN t : t[k] \in Accounts
  BY DEF Tokens

LEMMA TokenAdded ==
    ASSUME NEW t \in Tokens, NEW u \in Slots, NEW v \in Accounts
    PROVE  Insert(t, u, v) \in Tokens
<1>1. Insert(t, u, v) \in [DOMAIN t \cup {u} -> Accounts]
  BY TokensType DEF Insert
<1>2. QED
  BY <1>1, TokensType DEF Tokens

LEMMA TokensGone ==
    ASSUME NEW t \in Tokens, NEW gone
    PROVE  Remove(t, gone) \in Tokens
<1>1. Remove(t, gone) \in [DOMAIN t \ gone -> Accounts]
  BY TokensType DEF Remove
<1>2. QED
  BY <1>1, TokensType DEF Tokens

LEMMA ThreeWrites ==
    ASSUME NEW a \in Disks, NEW b \in Disks, NEW c \in Disks
    PROVE  /\ <<a, b, c>> \in Seq(Disks) /\ <<a, b, c>> # <<>>
           /\ Len(<<a, b, c>>) = 3 /\ <<a, b, c>>[3] = c
  OBVIOUS

\* storeSession() leaves a disk on which the next start finds the session.
LEMMA StoredFinds ==
    ASSUME Typed, NEW c \in Connections
    PROVE  /\ Stored(c) \in Seq(Disks) /\ Stored(c) # <<>>
           /\ Finds(Stored(c)[Len(Stored(c))], c)
<1> DEFINE one == [disk EXCEPT !.tokens = Insert(@, c.user, c.token)]
           two == [one EXCEPT !.user = c.user, !.device = c.id]
           three == [two EXCEPT !.tokens = Remove(@, {LegacySlot})]
<1>1. /\ disk \in Disks /\ c.user \in Users /\ c.user # LegacySlot
      /\ c.id \in Nat /\ c.id # None /\ c.token \in Accounts
  BY MatrixSessionAssumption DEF Typed, Connections, Users
<1>2. Insert(disk.tokens, c.user, c.token) \in Tokens
  BY <1>1, TokenAdded DEF Disks, Slots
<1>3. one \in Disks /\ one.tokens = Insert(disk.tokens, c.user, c.token)
  BY <1>1, <1>2 DEF Disks
<1> HIDE DEF one
<1>4. /\ two \in Disks /\ two.tokens = one.tokens
      /\ two.user = c.user /\ two.device = c.id
  BY <1>1, <1>3 DEF Disks
<1> HIDE DEF two
<1>5. Remove(two.tokens, {LegacySlot}) \in Tokens
  BY <1>4, TokensGone DEF Disks
<1>6. /\ three \in Disks /\ three.tokens = Remove(two.tokens, {LegacySlot})
      /\ three.user = c.user /\ three.device = c.id
  BY <1>4, <1>5 DEF Disks
<1> HIDE DEF three
<1>7. c.user \in DOMAIN three.tokens /\ three.tokens[c.user] = c.token
  BY <1>1, <1>3, <1>4, <1>6 DEF Insert, Remove
<1>8. Stored(c) = <<one, two, three>>
  BY DEF Stored, one, two, three
<1>9. QED
  BY <1>1, <1>3, <1>4, <1>6, <1>7, <1>8, ThreeWrites DEF Finds

\* clearStoredSession() leaves one on which it finds none.
LEMMA ClearedFinds ==
    ASSUME Typed, ClearStoredSession
    PROVE  writes' \in Seq(Disks) /\ writes' # <<>>
           /\ writes'[Len(writes')].device = None
<1>1. PICK gone, rest :
          LET one == [disk EXCEPT !.tokens = Remove(@, gone)]
              two == [one EXCEPT !.tokens = Remove(@, rest)]
          IN writes' = <<one, two, WithoutIds(two)>>
  BY DEF ClearStoredSession
<1> DEFINE one == [disk EXCEPT !.tokens = Remove(@, gone)]
           two == [one EXCEPT !.tokens = Remove(@, rest)]
<1>2. one \in Disks
  <2>1. disk \in Disks /\ Remove(disk.tokens, gone) \in Tokens
    BY TokensGone DEF Typed, Disks
  <2>2. QED
    BY <2>1 DEF Disks
<1> HIDE DEF one
<1>3. two \in Disks
  <2>1. Remove(one.tokens, rest) \in Tokens
    BY <1>2, TokensGone DEF Disks
  <2>2. QED
    BY <1>2, <2>1 DEF Disks
<1>4. writes' = <<one, two, WithoutIds(two)>>
  BY <1>1 DEF one
<1> HIDE DEF two
<1>5. WithoutIds(two) \in Disks /\ WithoutIds(two).device = None
  BY <1>3 DEF WithoutIds, Disks
<1>6. QED
  BY <1>2, <1>3, <1>4, <1>5, ThreeWrites

\* One write closer to the end the end is the same.
LEMMA FlushFinal ==
    ASSUME Typed, Flush
    PROVE  Typed' /\ Final' = Final
<1>1. /\ writes \in Seq(Disks) /\ writes # <<>>
      /\ disk' = Head(writes) /\ writes' = Tail(writes)
      /\ UNCHANGED <<links, conn>>
  BY DEF Flush, Typed, bounds
<1>2. /\ disk' \in Disks /\ writes' \in Seq(Disks)
      /\ Len(writes') = Len(writes) - 1
      /\ \A i \in 1..Len(writes') : writes'[i] = writes[i + 1]
  BY <1>1, HeadTailProperties
<1>3. Len(writes) \in Nat \ {0}
  BY <1>1, EmptySeq
<1>4. ASSUME Len(writes) = 1 PROVE Final' = Final
  <2>1. writes' = <<>> /\ disk' = writes[1]
    BY <1>1, <1>2, <1>4, EmptySeq
  <2>2. QED
    BY <1>1, <1>4, <2>1 DEF Final
<1>5. ASSUME Len(writes) > 1 PROVE Final' = Final
  <2>1. Len(writes') \in 1..Len(writes') /\ Len(writes') + 1 = Len(writes)
    BY <1>2, <1>3, <1>5
  <2>2. writes' # <<>>
    BY <2>1, EmptySeq
  <2>3. QED
    BY <1>1, <1>2, <2>1, <2>2 DEF Final
<1>6. QED
  BY <1>1, <1>2, <1>3, <1>4, <1>5 DEF Typed
-----------------------------------------------------------------------------
LEMMA InitHolds == Init => IInv
<1> SUFFICES ASSUME Init PROVE IInv
  OBVIOUS
<1>1. EmptyHash \in Tokens
  BY TokensType DEF EmptyHash
<1>2. disk \in Disks
  <2>1. CASE disk = [user |-> None, device |-> None, tokens |-> EmptyHash]
    BY <1>1, <2>1 DEF Disks
  <2>2. CASE \E u, v \in Accounts :
                 disk = [user |-> u, device |-> 0,
                         tokens |-> Insert(EmptyHash, LegacySlot, v)]
    <3>1. PICK u \in Accounts, v \in Accounts :
              disk = [user |-> u, device |-> 0,
                      tokens |-> Insert(EmptyHash, LegacySlot, v)]
      BY <2>2
    <3>2. Insert(EmptyHash, LegacySlot, v) \in Tokens
      BY <1>1, TokenAdded DEF Slots
    <3>3. QED
      BY <3>1, <3>2 DEF Disks, Users
  <2>3. QED
    BY <2>1, <2>2 DEF Init
<1>3. QED
  BY <1>2 DEF Init, IInv, Typed, Phases, Kept, Quiet, loggedIn

\* A new connection, and what the attempts to sign in leave as it was.
LEMMA ConnectionMade ==
    ASSUME Typed, NEW how \in {"password", "token", "resume"},
           NEW user \in Users, NEW token \in Accounts,
           NEW phase \in {"resolving", "asking"},
           MakeConnection(how, user, token, phase)
    PROVE  /\ links' = links + 1 /\ links < MaxLinks
           /\ conn' \in Connections /\ conn' # None /\ conn'.id = links'
           /\ conn'.phase # "up" /\ state' = "Connecting"
<1>1. links \in Nat
  BY DEF Typed
<1>2. links' \in Nat \ {0}
  BY <1>1 DEF MakeConnection
<1>3. conn' \in Connections /\ conn'.id = links' /\ conn'.phase = phase
  BY <1>2 DEF MakeConnection, Connections, Users
<1>4. QED
  BY <1>3, MatrixSessionAssumption DEF MakeConnection
-----------------------------------------------------------------------------
(* The actions, by what they do to the disk *)

\* Where nothing is stored or cleared and no sign-in is under way before or
\* after, the disk stays as good as it was.
LEMMA DiskUntouched ==
    ASSUME IInv, UNCHANGED <<disk, writes, links, signedOut>>,
           conn' \in Connections \cup {None}, Phases',
           \/ ~loggedIn'
           \/ /\ loggedIn /\ UNCHANGED warned /\ resuming' = resuming
              /\ conn'.user = conn.user /\ conn'.token = conn.token
    PROVE  IInv'
<1>1. Typed' /\ Final' = Final
  BY DEF IInv, Typed, Final
<1>2. QED
  BY <1>1 DEF IInv, Kept, Quiet, Finds

\* Where the stored session is cleared there is none to keep.
LEMMA DiskCleared ==
    ASSUME IInv, ClearStoredSession, UNCHANGED <<disk, links>>,
           conn' \in Connections \cup {None}, Phases', ~loggedIn'
    PROVE  IInv'
<1>1. Typed' /\ Final'.device = None
  BY ClearedFinds DEF IInv, Typed, Final
<1>2. QED
  BY <1>1 DEF IInv, Kept, Quiet

\* Where it is stored the next start finds it, or somebody is told.
LEMMA DiskStored ==
    ASSUME IInv, StoreSession, UNCHANGED <<disk, links>>,
           conn \in Connections, conn' \in Connections, Phases',
           conn'.user = conn.user, conn'.token = conn.token
    PROVE  IInv'
<1>1. CASE writes' = Stored(conn) /\ signedOut' = FALSE
  <2>1. Typed' /\ Finds(Final', conn)
    BY <1>1, StoredFinds DEF IInv, Typed, Final
  <2>2. QED
    BY <1>1, <2>1 DEF IInv, Kept, Quiet, Finds
<1>2. CASE warned' = TRUE /\ UNCHANGED <<writes, history>>
  <2>1. Typed' /\ Final' = Final /\ signedOut' = signedOut
    BY <1>2 DEF IInv, Typed, Final, history
  <2>2. QED
    BY <1>2, <2>1 DEF IInv, Kept, Quiet
<1>3. QED
  BY <1>1, <1>2 DEF StoreSession

\* The page writes the name first: of the stored session the ids are the only
\* thing that changes, and whoever signed out has no device.
LEMMA NameWritten ==
    ASSUME IInv, NEW name \in Names, writes = <<>>,
           disk' = [disk EXCEPT !.user = name], UNCHANGED <<writes, signedOut>>,
           links' \in Nat, conn' \in Connections \cup {None}, Phases', ~loggedIn'
    PROVE  IInv'
<1>1. disk' \in Disks /\ disk'.device = disk.device
  BY DEF IInv, Typed, Disks, Users
<1>2. QED
  BY <1>1 DEF IInv, Typed, Kept, Quiet, Final
-----------------------------------------------------------------------------
(* The actions *)

LEMMA SignInKeeps ==
    ASSUME IInv, writes = <<>>,
           \/ \E n \in Names : Login(n) \/ LoginNowhere(n)
           \/ \E u \in Accounts : LoginWithToken(u)
           \/ CompleteSsoNowhere
           \/ ResumeSession
    PROVE  IInv'
<1>1. ASSUME NEW n \in Names, Login(n)
      PROVE  IInv'
  <2>1. Account[n] \in Accounts /\ Account[n] \in Users
    BY MatrixSessionAssumption DEF Users
  <2>2. MakeConnection("password", Account[n], Account[n], "resolving")
    BY <1>1 DEF Login
  <2>3. /\ links' = links + 1 /\ links \in Nat
        /\ conn' \in Connections /\ conn' # None
        /\ conn'.phase # "up" /\ state' = "Connecting"
    BY <2>1, <2>2, ConnectionMade DEF IInv, Typed
  <2>4. QED
    BY <1>1, <2>3, NameWritten DEF Login, Phases, loggedIn, history
<1>2. ASSUME NEW n \in Names, LoginNowhere(n)
      PROVE  IInv'
  BY <1>2, NameWritten DEF LoginNowhere, IInv, Typed, Phases, loggedIn, history
<1>3. ASSUME NEW u \in Accounts, LoginWithToken(u)
      PROVE  IInv'
  <2>1. /\ links' = links + 1 /\ links \in Nat
        /\ conn' \in Connections /\ conn' # None
        /\ conn'.phase # "up" /\ state' = "Connecting"
    BY <1>3, ConnectionMade DEF LoginWithToken, IInv, Typed, Users
  <2>2. UNCHANGED <<disk, writes, signedOut>>
    BY <1>3 DEF LoginWithToken, history
  <2>3. Typed' /\ Final' = Final
    BY <2>1, <2>2 DEF IInv, Typed, Final
  <2>4. QED
    BY <2>1, <2>2, <2>3 DEF IInv, Phases, Kept, Quiet, loggedIn
<1>4. CASE CompleteSsoNowhere
  <2>1. Phases' /\ ~loggedIn'
    BY <1>4 DEF CompleteSsoNowhere, IInv, Phases, loggedIn
  <2>2. QED
    BY <1>4, <2>1, DiskUntouched
    DEF CompleteSsoNowhere, IInv, Typed, history, bounds
<1>5. CASE ResumeSession
  <2>1. CASE None \in {disk.user, disk.device}
    <3>1. Phases' /\ ~loggedIn'
      BY <1>5, <2>1 DEF ResumeSession, IInv, Phases, loggedIn
    <3>2. QED
      BY <1>5, <2>1, <3>1, DiskUntouched DEF ResumeSession, IInv, Typed
  <2> DEFINE token == Readable(disk.user, {disk.user, LegacySlot})
  <2>2. CASE None \notin {disk.user, disk.device} /\ token # None
    <3>1. disk \in Disks
      BY DEF IInv, Typed
    <3>2. disk.user \in Users /\ token \in Accounts
      BY <2>2, <3>1, TokensType DEF Disks, Readable, Value
    <3>3. MakeConnection("resume", disk.user, token, "asking")
      BY <1>5, <2>2 DEF ResumeSession
    <3>4. /\ links' = links + 1 /\ links \in Nat
          /\ conn' \in Connections /\ conn' # None
          /\ conn'.phase # "up" /\ state' = "Connecting"
      BY <3>2, <3>3, ConnectionMade DEF IInv, Typed
    <3>5. UNCHANGED <<disk, writes, signedOut>>
      BY <1>5, <2>2 DEF ResumeSession
    <3>6. Typed' /\ Final' = Final
      BY <3>4, <3>5 DEF IInv, Typed, Final
    <3>7. QED
      BY <3>4, <3>5, <3>6 DEF IInv, Phases, Kept, Quiet, loggedIn
  <2>3. CASE None \notin {disk.user, disk.device} /\ token = None
    <3>1. /\ ClearStoredSession /\ state' = "Failed"
          /\ UNCHANGED <<conn, disk, links>>
      BY <1>5, <2>3 DEF ResumeSession
    <3>2. Phases' /\ ~loggedIn'
      BY <1>5, <3>1 DEF ResumeSession, IInv, Phases, loggedIn
    <3>3. QED
      BY <3>1, <3>2, DiskCleared DEF IInv, Typed
  <2>4. QED
    BY <2>1, <2>2, <2>3
<1>6. QED
  BY <1>1, <1>2, <1>3, <1>4, <1>5

LEMMA ConnectionKeeps ==
    ASSUME IInv, writes = <<>>,
           \/ Resolved \/ OnConnected \/ OnLoginError \/ OnResolveError
           \/ OnSyncDone \/ OnSyncError \/ OnLoggedOut \/ OnTokenOwner
           \/ KeyBackupUnlocked
    PROVE  IInv'
<1>1. CASE Resolved
  <2>1. conn \in Connections
    BY <1>1 DEF Resolved, IInv, Typed
  <2>2. CASE /\ conn' = [conn EXCEPT !.phase = "asking"]
             /\ UNCHANGED <<state, loginLeft>>
    <3>1. /\ conn' \in Connections /\ conn' # None /\ conn'.phase = "asking"
          /\ conn'.user = conn.user /\ conn'.token = conn.token
      BY <2>1, <2>2, MatrixSessionAssumption DEF Connections
    <3>2. Phases' /\ loggedIn' = loggedIn
      BY <1>1, <2>2, <3>1 DEF Resolved, IInv, Phases, loggedIn
    <3>3. QED
      BY <1>1, <3>1, <3>2, DiskUntouched DEF Resolved, history, bounds
  <2>3. CASE Retire("Failed")
    <3>1. Phases' /\ ~loggedIn' /\ conn' = None
      BY <2>3 DEF Retire, Phases, loggedIn
    <3>2. QED
      BY <1>1, <3>1, DiskUntouched DEF Resolved, history, bounds
  <2>4. QED
    BY <1>1, <2>2, <2>3 DEF Resolved
<1>2. CASE OnConnected
  <2>1. conn \in Connections
    BY <1>2 DEF OnConnected, IInv, Typed
  <2>2. /\ conn' \in Connections /\ conn' # None /\ conn'.phase = "up"
        /\ conn'.user = conn.user /\ conn'.token = conn.token
    BY <1>2, <2>1, MatrixSessionAssumption DEF OnConnected, Connections
  <2>3. Phases'
    BY <1>2, <2>2 DEF OnConnected, IInv, Phases, loggedIn
  <2>4. CASE resuming
    <3>1. Typed' /\ Final' = Final /\ UNCHANGED signedOut /\ resuming'
      BY <1>2, <2>2, <2>4 DEF OnConnected, IInv, Typed, Final, history
    <3>2. QED
      BY <2>3, <3>1 DEF IInv, Kept, Quiet
  <2>5. CASE ~resuming
    BY <1>2, <2>1, <2>2, <2>3, <2>5, DiskStored DEF OnConnected
  <2>6. QED
    BY <2>4, <2>5
<1>3. CASE OnLoginError \/ OnResolveError
  <2>1. Phases' /\ ~loggedIn' /\ conn' = None
    BY <1>3 DEF OnLoginError, OnResolveError, Retire, Phases, loggedIn
  <2>2. UNCHANGED <<disk, links>>
    BY <1>3 DEF OnLoginError, OnResolveError, bounds
  <2>3. ClearStoredSession \/ UNCHANGED <<writes, signedOut>>
    BY <1>3 DEF OnLoginError, OnResolveError, history
  <2>4. QED
    BY <2>1, <2>2, <2>3, DiskCleared, DiskUntouched
<1>4. CASE OnSyncDone
  <2>1. conn \in Connections /\ conn.phase = "up" /\ loggedIn /\ conn' = conn
    BY <1>4 DEF OnSyncDone, IInv, Typed, Phases
  <2>2. Phases'
    BY <1>4, <2>1 DEF OnSyncDone, IInv, Phases, loggedIn
  <2>3. CASE resuming
    BY <1>4, <2>1, <2>2, <2>3, DiskStored DEF OnSyncDone
  <2>4. CASE ~resuming
    <3>1. Typed' /\ Final' = Final /\ UNCHANGED <<signedOut, warned>>
      BY <1>4, <2>1, <2>4 DEF OnSyncDone, IInv, Typed, Final, history
    <3>2. QED
      BY <2>1, <2>2, <2>4, <3>1 DEF IInv, Kept, Quiet
  <2>5. QED
    BY <2>3, <2>4
<1>5. CASE OnSyncError
  <2>1. conn \in Connections /\ conn.phase = "up" /\ loggedIn /\ conn' = conn
    BY <1>5 DEF OnSyncError, IInv, Typed, Phases
  <2>2. Phases'
    BY <1>5, <2>1 DEF OnSyncError, ErrorState, IInv, Phases, loggedIn
  <2>3. QED
    BY <1>5, <2>1, <2>2, DiskUntouched DEF OnSyncError, history, bounds
<1>6. CASE OnLoggedOut
  <2>1. Phases' /\ ~loggedIn' /\ conn' = None
    BY <1>6 DEF OnLoggedOut, Retire, Phases, loggedIn
  <2>2. QED
    BY <1>6, <2>1, DiskCleared DEF OnLoggedOut
<1>7. CASE OnTokenOwner
  <2>1. conn \in Connections
    BY <1>7 DEF OnTokenOwner, IInv, Typed
  <2>2. CASE conn.token = conn.user
    <3>1. conn' = [conn EXCEPT !.asked = FALSE] /\ UNCHANGED state
      BY <1>7, <2>2 DEF OnTokenOwner
    <3>2. /\ conn' \in Connections /\ conn' # None /\ conn'.phase = conn.phase
          /\ conn'.user = conn.user /\ conn'.token = conn.token
      BY <2>1, <3>1, MatrixSessionAssumption DEF Connections
    <3>3. Phases' /\ loggedIn' = loggedIn /\ conn # None
      BY <1>7, <3>1, <3>2 DEF OnTokenOwner, IInv, Phases, loggedIn
    <3>4. QED
      BY <1>7, <2>2, <3>2, <3>3, DiskUntouched DEF OnTokenOwner
  <2>3. CASE conn.token # conn.user
    <3>1. Phases' /\ ~loggedIn' /\ conn' = None
      BY <1>7, <2>3 DEF OnTokenOwner, Retire, Phases, loggedIn
    <3>2. QED
      BY <1>7, <2>3, <3>1, DiskCleared DEF OnTokenOwner
  <2>4. QED
    BY <2>2, <2>3
<1>8. CASE KeyBackupUnlocked
  <2>1. Typed' /\ Final' = Final /\ UNCHANGED <<signedOut, warned, resuming, state, conn>>
    BY <1>8 DEF KeyBackupUnlocked, IInv, Typed, Final, history, bounds
  <2>2. QED
    BY <2>1 DEF IInv, Phases, Kept, Quiet, loggedIn
<1>9. QED
  BY <1>1, <1>2, <1>3, <1>4, <1>5, <1>6, <1>7, <1>8

LEMMA TimeKeeps ==
    ASSUME IInv, writes = <<>>,
           \/ Tick \/ OnLoginTimeout \/ OnSyncDeadline
           \/ \E a \in abandons : OnAbandon(a)
    PROVE  IInv'
<1>1. UNCHANGED <<disk, writes, links, signedOut, warned, resuming>>
  BY DEF Tick, OnLoginTimeout, OnSyncDeadline, OnAbandon, history, bounds
<1>2. Typed' /\ Final' = Final
  BY <1>1 DEF Tick, OnLoginTimeout, OnSyncDeadline, OnAbandon, Retire, IInv, Typed,
              Final
<1>3. CASE UNCHANGED <<state, conn>>
  BY <1>1, <1>2, <1>3 DEF IInv, Phases, Kept, Quiet, loggedIn
<1>4. CASE ~loggedIn' /\ Phases'
  BY <1>1, <1>2, <1>4 DEF IInv, Kept, Quiet
<1>5. CASE Tick
  BY <1>3, <1>5 DEF Tick
<1>6. CASE OnLoginTimeout
  BY <1>3, <1>4, <1>6 DEF OnLoginTimeout, busy, IInv, Phases, loggedIn
<1>7. CASE OnSyncDeadline
  BY <1>3, <1>4, <1>7 DEF OnSyncDeadline, Retire, Phases, loggedIn
<1>8. CASE \E a \in abandons : OnAbandon(a)
  BY <1>3, <1>4, <1>8 DEF OnAbandon, IInv, Phases, loggedIn
<1>9. QED
  BY <1>5, <1>6, <1>7, <1>8

LEMMA EndKeeps ==
    ASSUME IInv, Quit \/ (writes = <<>> /\ (Logout \/ LogoutOver))
    PROVE  IInv'
<1>1. CASE Quit
  <2>1. Typed' /\ conn' = None /\ state' = "off" /\ writes' = <<>> /\ disk' = disk
    BY <1>1 DEF Quit, IInv, Typed, bounds
  <2>2. signedOut' => signedOut /\ writes = <<>>
    BY <1>1 DEF Quit, history
  <2>3. QED
    BY <2>1, <2>2 DEF IInv, Phases, Kept, Quiet, Final, loggedIn
<1>2. CASE Logout
  <2>1. Phases' /\ ~loggedIn' /\ conn' = None
    BY <1>2 DEF Logout, Phases, loggedIn
  <2>2. QED
    BY <1>2, <2>1, DiskCleared DEF Logout
<1>3. CASE LogoutOver
  <2>1. Typed' /\ Final' = Final /\ UNCHANGED <<signedOut, warned, resuming, state, conn>>
    BY <1>3 DEF LogoutOver, IInv, Typed, Final, history, bounds
  <2>2. QED
    BY <2>1 DEF IInv, Phases, Kept, Quiet, loggedIn
<1>4. QED
  BY <1>1, <1>2, <1>3

LEMMA NextKeeps == IInv /\ [Next]_vars => IInv'
<1> SUFFICES ASSUME IInv, [Next]_vars PROVE IInv'
  OBVIOUS
<1>1. CASE Flush
  <2>1. Typed' /\ Final' = Final /\ UNCHANGED <<signedOut, warned, resuming, state, conn>>
    BY <1>1, FlushFinal DEF Flush, IInv, history
  <2>2. QED
    BY <2>1 DEF IInv, Phases, Kept, Quiet, loggedIn
<1>2. CASE UNCHANGED vars
  BY <1>2 DEF vars, bounds, history, IInv, Typed, Phases, Kept, Quiet, Final, loggedIn
<1>3. QED
  BY <1>1, <1>2, SignInKeeps, ConnectionKeeps, TimeKeeps, EndKeeps DEF Next

LEMMA SpecIInv == Spec => []IInv
  BY InitHolds, NextKeeps, PTL DEF Spec
-----------------------------------------------------------------------------
\* For any accounts and however often the key store fails: a session that is
\* online, and of which nobody was told otherwise, is the one that is stored,
\* its ids and its token together (MatrixManager::storeSession).
THEOREM StoredSessionIsLive == Spec => []StoredIsLive
<1>1. IInv => StoredIsLive
  BY DEF IInv, Phases, Kept, Final, Finds, StoredIsLive, loggedIn, Readable
<1>2. QED
  BY <1>1, SpecIInv, PTL

\* No start after a sign-out signs in by itself, whatever could not be removed
\* and whichever sign-ins failed since (MatrixManager::logout, resumeSession).
THEOREM SignOutLasts == Spec => SignedOutStaysOut
<1>1. IInv /\ [Next]_vars => [state = "off" /\ signedOut => state' # "Connecting"]_vars
  <2> SUFFICES ASSUME IInv, Next, state = "off", signedOut
               PROVE  state' # "Connecting"
    OBVIOUS
  <2>1. CASE ResumeSession /\ writes = <<>>
    BY <2>1 DEF ResumeSession, IInv, Quiet, Final
  <2>2. CASE Flush \/ Quit
    BY <2>2 DEF Flush, Quit
  <2>3. conn = None
    BY DEF IInv, Phases
  <2>4. CASE Tick \/ OnLoginTimeout \/ OnSyncDeadline
             \/ \E a \in abandons : OnAbandon(a)
    BY <2>4 DEF Tick, OnLoginTimeout, OnSyncDeadline, OnAbandon, Retire
  <2>5. CASE \/ Resolved \/ OnConnected \/ OnLoginError \/ OnResolveError
             \/ OnSyncDone \/ OnSyncError \/ OnLoggedOut \/ OnTokenOwner
    BY <2>3, <2>5 DEF Resolved, OnConnected, OnLoginError, OnResolveError,
                      OnSyncDone, OnSyncError, OnLoggedOut, OnTokenOwner
  <2>6. CASE KeyBackupUnlocked \/ Logout \/ LogoutOver \/ CompleteSsoNowhere
    BY <2>6 DEF KeyBackupUnlocked, Logout, LogoutOver, CompleteSsoNowhere
  <2>7. CASE \/ \E n \in Names : Login(n) \/ LoginNowhere(n)
             \/ \E u \in Accounts : LoginWithToken(u)
    BY <2>7 DEF Login, LoginNowhere, LoginWithToken
  <2>8. QED
    BY <2>1, <2>2, <2>4, <2>5, <2>6, <2>7 DEF Next
<1>2. QED
  BY <1>1, SpecIInv, PTL DEF Spec, SignedOutStaysOut

\* Those who follow connectionChanged see one connection or none, never one that
\* was dropped again (MatrixManager::makeConnection, retireConnection, logout).
THEOREM LinkIsKept == Spec => KeepsLink
<1>1. Init => Link!LinkInit
  BY DEF Init, Link!LinkInit
<1>2. IInv /\ [Next]_vars => [Link!LinkNext]_(Link!linkVars)
  <2> SUFFICES ASSUME IInv, [Next]_vars
               PROVE  Link!LinkNext \/ UNCHANGED Link!linkVars
    OBVIOUS
  <2> DEFINE link == IF conn = None THEN 0 ELSE conn.id
  <2>1. /\ links \in Nat
        /\ conn # None => conn \in Connections /\ link = conn.id /\ link # 0
        /\ conn = None => link = 0
    BY DEF IInv, Typed, Connections
  <2>2. ASSUME links < MaxLinks, links' = links + 1, link' \in {0, links'},
               UNCHANGED leaving
        PROVE  Link!LinkNext
    BY <2>2 DEF Link!LinkNext, Link!NewLink
  <2>3. ASSUME link' = 0 \/ link' = link, UNCHANGED <<links, leaving>>
        PROVE  Link!LinkNext \/ UNCHANGED Link!linkVars
    BY <2>3 DEF Link!LinkNext, Link!DropLink, Link!linkVars
  <2>4. CASE \E n \in Names : Login(n)
    <3>1. PICK n \in Names : Login(n)
      BY <2>4
    <3>2. MakeConnection("password", Account[n], Account[n], "resolving")
      BY <3>1 DEF Login
    <3>3. conn' # None /\ conn'.id = links' /\ links' = links + 1 /\ links < MaxLinks
      BY <3>2, MatrixSessionAssumption, ConnectionMade DEF IInv, Users
    <3>4. QED
      BY <2>2, <3>1, <3>3 DEF Login
  <2>5. CASE \E n \in Names : LoginNowhere(n)
    BY <2>2, <2>5 DEF LoginNowhere
  <2>6. CASE \E u \in Accounts : LoginWithToken(u)
    <3>1. PICK u \in Accounts : LoginWithToken(u)
      BY <2>6
    <3>2. MakeConnection("token", u, u, "asking")
      BY <3>1 DEF LoginWithToken
    <3>3. conn' # None /\ conn'.id = links' /\ links' = links + 1 /\ links < MaxLinks
      BY <3>2, ConnectionMade DEF IInv, Users
    <3>4. QED
      BY <2>2, <3>1, <3>3 DEF LoginWithToken
  <2>7. CASE ResumeSession
    <3>1. leaving' = leaving
      BY <2>7 DEF ResumeSession
    <3>2. CASE UNCHANGED <<conn, links>>
      BY <2>3, <3>1, <3>2
    <3>3. CASE \E token : /\ token # None
                          /\ token = Readable(disk.user, {disk.user, LegacySlot})
                          /\ disk.user # None
                          /\ MakeConnection("resume", disk.user, token, "asking")
      <4>1. PICK token : /\ token # None
                         /\ token = Readable(disk.user, {disk.user, LegacySlot})
                         /\ disk.user # None
                         /\ MakeConnection("resume", disk.user, token, "asking")
        BY <3>3
      <4>2. disk.user \in Users /\ token \in Accounts
        BY <4>1, TokensType DEF IInv, Typed, Disks, Readable, Value
      <4>3. conn' # None /\ conn'.id = links' /\ links' = links + 1
            /\ links < MaxLinks
        BY <4>1, <4>2, ConnectionMade DEF IInv
      <4>4. QED
        BY <2>2, <3>1, <4>3
    <3>4. QED
      BY <2>7, <3>2, <3>3 DEF ResumeSession
  <2>8. CASE Resolved \/ OnConnected \/ OnTokenOwner
    <3>1. conn \in Connections /\ UNCHANGED <<links, leaving>>
      BY <2>8 DEF Resolved, OnConnected, OnTokenOwner, IInv, Typed, bounds
    <3>2. \/ conn' = None
          \/ conn' = [conn EXCEPT !.phase = "asking"]
          \/ conn' = [conn EXCEPT !.phase = "up"]
          \/ conn' = [conn EXCEPT !.asked = FALSE]
      BY <2>8 DEF Resolved, OnConnected, OnTokenOwner, Retire
    <3>3. conn' = None \/ (conn' # None /\ conn'.id = conn.id /\ conn # None)
      BY <3>1, <3>2, MatrixSessionAssumption DEF Connections
    <3>4. QED
      BY <2>3, <3>1, <3>3
  <2>9. CASE \/ OnLoginError \/ OnResolveError \/ OnSyncDone \/ OnSyncError
             \/ OnLoggedOut \/ KeyBackupUnlocked \/ CompleteSsoNowhere \/ Flush
             \/ Tick \/ OnLoginTimeout \/ OnSyncDeadline
             \/ (\E a \in abandons : OnAbandon(a)) \/ UNCHANGED vars
    <3>1. UNCHANGED <<links, leaving>> /\ conn' \in {conn, None}
      BY <2>9 DEF OnLoginError, OnResolveError, OnSyncDone, OnSyncError,
                  OnLoggedOut, KeyBackupUnlocked, CompleteSsoNowhere, Flush, Tick,
                  OnLoginTimeout, OnSyncDeadline, OnAbandon, Retire, bounds, vars
    <3>2. QED
      BY <2>3, <3>1
  <2>10. CASE Logout
    <3>1. conn # None /\ conn' = None /\ leaving' = leaving \cup {conn.id}
          /\ links' = links
      BY <2>10 DEF Logout, IInv, Phases
    <3>2. QED
      BY <2>1, <3>1 DEF Link!LinkNext, Link!SignOut
  <2>11. CASE LogoutOver
    BY <2>11 DEF LogoutOver, Link!LinkNext, Link!Gone, bounds
  <2>12. CASE Quit
    BY <2>12 DEF Quit, Link!LinkNext, Link!EndAll, bounds
  <2>13. QED
    BY <2>4, <2>5, <2>6, <2>7, <2>8, <2>9, <2>10, <2>11, <2>12 DEF Next
<1>3. QED
  BY <1>1, <1>2, SpecIInv, PTL DEF Spec, KeepsLink, Link!LinkSpec
=============================================================================
