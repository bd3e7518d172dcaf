------------------------------- MODULE MCChats -------------------------------
(***************************************************************************)
(* Three parts of the conversations, each checked by itself in one run: a  *)
(* behaviour is of one part, and the others stay as they began.            *)
(***************************************************************************)
EXTENDS ChatTimeline

CONSTANTS Peer, Room, Space, ListStamp, ListUnread, MaxPopups

ASSUME MCChatsAssumption == ListStamp \in Nat

VARIABLES part,
    list, counts, index, armed, unsaved, restarts,
    idle, focused, tracked, popups, closing, serial

MCAuthor == [e \in Events |-> IF e = "mine" THEN "me" ELSE "peer"]
MCKind == [e \in Events |-> CASE e = "poll" -> "poll"
                              [] e = "sealed" -> "notice"
                              [] OTHER -> "text"]
MCChats ==
    {[transport |-> "lan", rows |-> 3, faults |-> 0],
     [transport |-> "lan", rows |-> 2, faults |-> 1],
     [transport |-> "matrix", rows |-> 3, faults |-> 0]}

List == INSTANCE ChatList WITH
            Chats <- {Peer, Room, Space},
            Group <- [c \in {Peer, Room, Space} |-> IF c = Peer THEN 0 ELSE 1],
            MaxStamp <- ListStamp, MaxUnread <- ListUnread
Desk == INSTANCE Popups WITH Chats <- {Room, Space}

listVars == <<list, counts, index, armed, unsaved, restarts>>
deskVars == <<idle, focused, tracked, popups, closing, serial>>
allVars == <<part, vars, listVars, deskVars>>

MCInit ==
    /\ part \in {"timeline", "list", "desk"}
    /\ Init /\ List!Init /\ Desk!Init
    /\ part # "timeline" => chat.rows = 2 /\ file # Garbage

MCNext ==
    \/ part = "timeline" /\ Next /\ UNCHANGED <<part, listVars, deskVars>>
    \/ part = "list" /\ List!Next /\ UNCHANGED <<part, vars, deskVars>>
    \/ part = "desk" /\ Desk!Next /\ UNCHANGED <<part, vars, listVars>>

MCSpec == MCInit /\ [][MCNext]_allVars

Rooms == Permutations({Room, Space})

\* ChatList's and Popups' properties, under the names the run checks.
ListTrue == List!ListTrue
PopupsHeld == Desk!PopupsHeld
=============================================================================
