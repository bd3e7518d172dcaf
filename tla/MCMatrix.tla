------------------------------- MODULE MCMatrix -------------------------------
(***************************************************************************)
(* Four parts of the Matrix side, each checked by itself in one run: a     *)
(* behaviour is of one part, and the others stay as they began.  A room is *)
(* checked twice, with a few events of every kind and with more of those   *)
(* that badges are about.                                                  *)
(***************************************************************************)
EXTENDS MatrixVerification, Sequences, TLC

CONSTANTS
    Parts,                          \* the parts the run is about
    Plain, Amending, Sealable, MaxEvents, MaxBatch, MaxRuns,
    MaxMixed,                       \* events of a room of every kind (bound)
    Members, MaxCallEvents, MaxLost,
    Me, Others, MaxWaiting, Label

\* An event of its own names no other, one that amends does, and what the room
\* says of itself is never encrypted.
ASSUME KindsAssumption ==
    /\ Plain \cap {"edit", "vote", "reaction", "redaction"} = {}
    /\ Amending \subseteq {"edit", "vote", "reaction", "redaction"}
    /\ "state" \notin Sealable

VARIABLES part,
    calls, seen, call, pending, shared, voice, windows, ringing, lost,
    log, sealed, first, at, joined, rows, badges, votes, stamps, reactions,
    unsent, runs,
    public, served, waiting, linked, visits, rooms, tracked, listed, invites,
    departing, told, column

RoomCall == INSTANCE RoomCalls WITH log <- calls, MaxEvents <- MaxCallEvents
Room == INSTANCE MatrixRooms
Doors == INSTANCE RoomDoors WITH session <- visits, leaving <- departing

callVars == <<calls, seen, call, pending, shared, voice, windows, ringing, lost>>
roomVars == <<log, sealed, first, at, joined, rows, badges, votes, stamps,
              reactions, unsent, runs>>
doorVars == <<public, served, waiting, linked, visits, rooms, tracked, listed,
              invites, departing, told, column>>
allVars == <<part, vars, callVars, roomVars, doorVars>>

MCInit ==
    /\ part \in Parts
    /\ Init /\ RoomCall!Init /\ Room!Init /\ Doors!Init
    /\ part # "doors" => public /\ waiting[1].user = Me

OfBadges == {"text", "reaction", "redaction"}
OnlyBadges ==
    /\ \A e \in DOMAIN log : log[e].kind \in OfBadges
    /\ unsent # None => unsent.event.kind \in OfBadges
    /\ sealed = {}
MCNext ==
    \/ /\ part \in {"rooms", "badges"}
       /\ Room!Next /\ UNCHANGED <<part, vars, callVars, doorVars>>
       /\ IF part = "rooms" THEN Len(log') <= MaxMixed ELSE OnlyBadges'
    \/ part = "calls" /\ RoomCall!Next /\ UNCHANGED <<part, vars, roomVars, doorVars>>
    \/ part = "verify" /\ Next /\ UNCHANGED <<part, roomVars, callVars, doorVars>>
    \/ part = "doors" /\ Doors!Next /\ UNCHANGED <<part, vars, callVars, roomVars>>
MCSpec == MCInit /\ [][MCNext]_allVars

Alike == Permutations(Others)

\* Those others are all of one name.
Namesakes == [m \in Others \cup {Me} |-> IF m = Me THEN 0 ELSE 1]

\* The properties of the other parts, under the names the run checks.
TakenBackIsGone == Room!TakenBackIsGone
BadgesTrue == Room!BadgesTrue
EveryMessageHasItsRow == Room!EveryMessageHasItsRow
KeysAgree == RoomCall!KeysAgree
LinesTellWho == Doors!LinesTellWho
DoorsTrue == Doors!DoorsTrue
=============================================================================
