----------------------------- MODULE RoomDoors -----------------------------
(***************************************************************************)
(* Who is in a room: the membership events of one room, what the timeline  *)
(* says of them, and the doors MatrixRoomBridge and the window keep of it: *)
(* the row in the list, the invitation, the room that is tracked.          *)
(*                                                                         *)
(* The homeserver changes memberships by its own rules; a sync brings what *)
(* happened so far, or some of it.  libQuotient keeps a Room object for a  *)
(* room that is joined and another for an invitation to it.                *)
(***************************************************************************)
EXTENDS Integers, SequencesExt

CONSTANTS
    Me, Others,     \* the users
    MaxWaiting      \* events no sync has brought yet (bound)

VARIABLES
    public,     \* its join rule: whoever is not invited may join, or may knock
    served,     \* user -> membership, up to the account's last sync
    waiting,    \* the events since: [sender, user, from, to, profile]
    linked,     \* signed in
    session,    \* 1 until the first sign-out, then 2
    rooms,      \* the library's Room objects: "join", "invite"
    tracked,    \* the room is in m_tracked
    listed,     \* the room has a row in the list
    invites,    \* its invitation stands in invitesModel
    leaving,    \* a leave was sent and is not answered
    told,       \* user -> membership, as the timeline's lines tell it
    column      \* the members the room's column lists

doors == <<tracked, listed, invites>>
reading == <<told, column>>
kept == <<public, linked, session>>
vars == <<kept, served, waiting, rooms, doors, leaving, reading>>

Users == Others \cup {Me}
Apply(members, events) ==
    LET after[i \in 0..Len(events)] ==
            IF i = 0 THEN members
            ELSE [after[i - 1] EXCEPT ![events[i].user] = events[i].to]
    IN after[Len(events)]
Current == Apply(served, waiting)
Joined(members) == {u \in Users : members[u] = "join"}
-----------------------------------------------------------------------------
(* The homeserver *)

Event(sender, user, to, profile) ==
    [sender |-> sender, user |-> user, from |-> Current[user], to |-> to,
     profile |-> profile]
Allowed(e) ==
    IF e.sender = e.user
    THEN CASE e.to = "join" -> \/ e.from \in {"invite", "join"}
                               \/ public /\ e.from \in {"leave", "knock"}
           [] e.to = "knock" -> e.from = "leave" /\ ~public /\ e.user # Me
           [] e.to = "leave" -> e.from \in {"invite", "join", "knock"}
           [] OTHER -> FALSE
    ELSE /\ Current[e.sender] = "join"
         /\ CASE e.to = "invite" -> e.from \notin {"join", "ban"}
              [] e.to = "leave" -> e.from # "leave"
              [] e.to = "ban" -> e.from # "ban"
              [] OTHER -> FALSE
Happens(e) ==
    Allowed(e) /\ Len(waiting) < MaxWaiting /\ waiting' = Append(waiting, e)
\* What the homeserver refuses changes nothing.
Asks(e) == Happens(e) \/ (~Allowed(e) /\ UNCHANGED waiting)

OthersAct ==
    /\ \/ \E s \in Others, u \in Users,
             to \in {"invite", "leave", "ban", "knock"} :
              Happens(Event(s, u, to, "none"))
       \/ \E s \in Others, p \in {"none", "name", "nothing"} :
              /\ (Current[s] = "join") = (p # "none")
              /\ Happens(Event(s, s, "join", p))
    /\ UNCHANGED <<kept, served, rooms, doors, leaving, reading>>
-----------------------------------------------------------------------------
(* The line of an event: classifyState(), classifyMember() *)

ClassifyMemberByResult(e) ==
    CASE e.to = "invite" -> "Invited"
      [] e.to = "join" /\ e.from # "join" -> "Joined"
      [] e.to = "join" /\ e.from = "join" ->
             IF e.profile = "name" THEN "DisplayNameChanged" ELSE "None"
      [] e.to = "leave" -> IF e.sender = e.user THEN "Left" ELSE "Kicked"
      [] e.to = "ban" -> "Banned"
      [] e.to = "knock" -> "KnockRequested"
\* What had not been, joined, invited or banned, has different words.
ClassifyMember(e) ==
    CASE e.to = "invite" -> "Invited"
      [] e.to = "join" /\ e.from # "join" -> "Joined"
      [] e.to = "join" /\ e.from = "join" ->
             IF e.profile = "name" THEN "DisplayNameChanged" ELSE "None"
      [] e.to = "leave" /\ e.from = "invite" ->
             IF e.sender = e.user THEN "InviteRejected" ELSE "InviteWithdrawn"
      [] e.to = "leave" /\ e.from = "ban" -> "Unbanned"
      [] e.to = "leave" /\ e.from \notin {"invite", "ban"} ->
             IF e.sender = e.user THEN "Left" ELSE "Kicked"
      [] e.to = "ban" -> "Banned"
      [] e.to = "knock" -> "KnockRequested"

\* stateSentence(), read: whom it is about, what that user was and is now.
Out == {"leave", "invite", "knock"}
Sentence(change, e) ==
    LET Line(user, was, is) == [of |-> user, was |-> was, is |-> is]
    IN CASE change = "Joined" -> Line(e.sender, Out, "join")
         [] change = "Left" -> Line(e.sender, {"join", "knock"}, "leave")
         [] change = "Invited" -> Line(e.user, Out, "invite")
         [] change = "InviteRejected" -> Line(e.sender, {"invite"}, "leave")
         [] change = "InviteWithdrawn" -> Line(e.user, {"invite"}, "leave")
         [] change = "Kicked" -> Line(e.user, {"join", "knock"}, "leave")
         [] change = "Banned" -> Line(e.user, Out \cup {"join"}, "ban")
         [] change = "Unbanned" -> Line(e.user, {"ban"}, "leave")
         [] change = "KnockRequested" -> Line(e.sender, {"leave"}, "knock")
         [] change = "DisplayNameChanged" -> Line(e.sender, {"join"}, "join")

\* A reader of the lines; an event that changed nothing has none.
ReadLine(known, e) ==
    IF ClassifyMember(e) = "None" THEN known
    ELSE LET line == Sentence(ClassifyMember(e), e)
         IN [known EXCEPT ![line.of] =
                IF @ \in line.was THEN line.is ELSE "puzzled"]
Reads(known, events) ==
    LET after[i \in 0..Len(events)] ==
            IF i = 0 THEN known ELSE ReadLine(after[i - 1], events[i])
    IN after[Len(events)]
-----------------------------------------------------------------------------
(* A sync *)

MyJoin(events) ==
    SelectLastInSeq(events,
        LAMBDA e : e.user = Me /\ e.to = "join" /\ e.from # "join")

\* A room that is tracked is listed again when its name or its state comes.
PublishRoom == listed' \in IF tracked THEN {listed, TRUE} ELSE {TRUE}

\* joinedRoom() and trackRoom(); an invitation that is still there is retired,
\* aboutToDeleteRoom().
OnJoined(events, members) ==
    /\ rooms' = {"join"}
    /\ invites' = (invites /\ "invite" \notin rooms)
    /\ tracked' = TRUE
    /\ PublishRoom
    /\ LET i == IF served[Me] = "join" THEN 0 ELSE MyJoin(events)
           before == IF i = 0 THEN told ELSE Apply(served, SubSeq(events, 1, i))
       IN told' = Reads(before, SubSeq(events, i + 1, Len(events)))
    /\ column' = Joined(members)

\* Nothing is read in a room one is not in.
Closed == told' = served' /\ column' = {}

\* invitedRoom() of a new invite object; the object of the room joined before
\* is left to itself.
OnInvited ==
    /\ rooms' = rooms \cup {"invite"}
    /\ invites' = (invites \/ "invite" \notin rooms)
    /\ Closed
    /\ UNCHANGED <<tracked, listed>>

\* leftRoom(): of a room that was joined, of an invitation that is over, or of
\* a room this run never saw.
OnLeftOnly ==
    /\ rooms' = {}
    /\ tracked' = FALSE
    /\ listed' = FALSE
    /\ Closed
    /\ UNCHANGED invites
OnLeft ==
    /\ rooms' = {}
    /\ tracked' = FALSE
    /\ listed' = FALSE
    /\ invites' = (invites /\ "invite" \notin rooms)
    /\ Closed

Sync ==
    /\ linked
    /\ \E n \in 1..Len(waiting) :
           LET events == SubSeq(waiting, 1, n)
               members == Apply(served, events)
           IN /\ served' = members
              /\ waiting' = SubSeq(waiting, n + 1, Len(waiting))
              /\ \/ members[Me] = "join" /\ OnJoined(events, members)
                 \/ members[Me] = "invite" /\ OnInvited
                 \/ /\ members[Me] \notin {"join", "invite"}
                    /\ IF \E e \in Range(events) : e.user = Me THEN OnLeft
                       ELSE Closed /\ UNCHANGED <<rooms, doors>>
    /\ UNCHANGED <<kept, leaving>>
-----------------------------------------------------------------------------
(* What the user does *)

Asked ==
    UNCHANGED <<kept, served, rooms, doors, leaving, reading>>

\* memberInfo(): which buttons the card of a member has.  What the homeserver has
\* since made of the member it decides by: a kick lifts no ban, nor is one lifted
\* that is not there.
IsBanned(u) == served[u] = "ban"
\* roomFor() finds rooms that are joined, invitedRoomFor() invitations.
InviteMember(u) ==
    "join" \in rooms /\ Asks(Event(Me, u, "invite", "none")) /\ Asked
KickMember(u) ==
    /\ "join" \in rooms /\ ~IsBanned(u) /\ Current[u] # "ban"
    /\ Asks(Event(Me, u, "leave", "none")) /\ Asked
UnbanMember(u) ==
    /\ "join" \in rooms /\ IsBanned(u) /\ Current[u] = "ban"
    /\ Asks(Event(Me, u, "leave", "none")) /\ Asked
BanMember(u) ==
    "join" \in rooms /\ ~IsBanned(u) /\ Asks(Event(Me, u, "ban", "none")) /\ Asked

AcceptInvite ==
    /\ invites /\ "invite" \in rooms
    /\ Asks(Event(Me, Me, "join", "none"))
    /\ Asked
DeclineInvite ==
    /\ invites /\ "invite" \in rooms
    /\ Asks(Event(Me, Me, "leave", "none"))
    /\ Asked

\* By its address; the answer of the homeserver is a room that is tracked before
\* any sync brings it.
JoinRoom ==
    /\ linked /\ Current[Me] # "join"
    /\ Happens(Event(Me, Me, "join", "none"))
    /\ rooms' = {"join"} /\ tracked' = TRUE /\ listed' = TRUE
    /\ invites' = (invites /\ "invite" \notin rooms)
    /\ UNCHANGED <<kept, served, leaving, reading>>

\* The row goes with the answer, or with the sync.
LeaveChat ==
    /\ "join" \in rooms /\ Current[Me] = "join"
    /\ Happens(Event(Me, Me, "leave", "none"))
    /\ leaving' = TRUE
    /\ UNCHANGED <<kept, served, rooms, doors, reading>>
DropChatLocally ==
    /\ listed' = FALSE
    /\ told' = served
    /\ UNCHANGED <<kept, served, waiting, rooms, tracked, invites, column>>
LeaveAnswered == leaving /\ leaving' = FALSE /\ DropChatLocally
DeleteHere == listed /\ DropChatLocally /\ UNCHANGED leaving
-----------------------------------------------------------------------------
(* Signing out and in, and the end of the program *)

\* What is there again: the room as the library has it, from its cache or from
\* a first sync; of a room left in the meantime there is nothing.
Rebuilt(members) ==
    /\ rooms' = {members[Me]} \cap {"join", "invite"}
    /\ tracked' = (members[Me] = "join")
    /\ listed' = (listed \/ members[Me] = "join")
    /\ told' = members /\ column' = Joined(members)
    /\ leaving' = FALSE

\* connectionChanged(): what was tracked is dropped, the window keeps the rest.
SignOut ==
    /\ linked /\ session = 1
    /\ linked' = FALSE /\ session' = 2
    /\ rooms' = {} /\ tracked' = FALSE /\ leaving' = FALSE
    /\ UNCHANGED <<public, served, waiting, listed, invites>>
    /\ Closed
SignIn ==
    /\ ~linked /\ linked' = TRUE
    /\ served' = Current /\ waiting' = <<>>
    /\ Rebuilt(Current)
    /\ invites' = (invites \/ Current[Me] = "invite")
    /\ UNCHANGED <<public, session>>
Restart ==
    /\ linked
    /\ Rebuilt(served)
    /\ invites' = (served[Me] = "invite")
    /\ UNCHANGED <<kept, served, waiting>>

\* createRoom(), of this user or another.
Init ==
    /\ public \in BOOLEAN
    /\ served = [u \in Users |-> "leave"]
    /\ \E founder \in Users :
           waiting = <<[sender |-> founder, user |-> founder, from |-> "leave",
                        to |-> "join", profile |-> "none"]>>
    /\ linked = TRUE /\ session = 1
    /\ rooms = {} /\ tracked = FALSE /\ listed = FALSE /\ invites = FALSE
    /\ leaving = FALSE
    /\ told = served /\ column = {}

Next ==
    \/ OthersAct \/ Sync
    \/ \E u \in Others :
           InviteMember(u) \/ KickMember(u) \/ BanMember(u) \/ UnbanMember(u)
    \/ AcceptInvite \/ DeclineInvite \/ JoinRoom \/ LeaveChat \/ LeaveAnswered
    \/ DeleteHere \/ SignOut \/ SignIn \/ Restart
Spec == Init /\ [][Next]_vars
-----------------------------------------------------------------------------
\* In a room that is joined, the lines of the timeline tell who is in, invited,
\* banned or at the door, every line fits what the lines before it told, and the
\* column lists the same members (classifyMember, stateSentence, roomMembers).
LinesTellWho ==
    linked /\ tracked /\ served[Me] = "join" =>
        told = served /\ column = Joined(served)

\* Whoever is invited finds the invitation, and until the first sign-out no
\* invitation outlives what it invites to and "a row with no way back in is
\* litter" (onRoomLeft): a row's room is joined, about to be, or invited to.
DoorsTrue ==
    /\ linked /\ served[Me] = "invite" => invites \/ "join" \in rooms
    /\ session = 1 =>
           /\ invites => served[Me] = "invite"
           /\ listed => \/ served[Me] \in {"join", "invite"}
                        \/ \E i \in DOMAIN waiting :
                               waiting[i].user = Me /\ waiting[i].to = "join"
=============================================================================
