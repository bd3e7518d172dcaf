---------------------------- MODULE MatrixRooms ----------------------------
(***************************************************************************)
(* MatrixRoomBridge and MatrixTranslate over one room: the events libQuotient *)
(* delivers, in batches, become rows, amendments of rows and badges; what  *)
(* the user does becomes events.  An event is its place in the room's log. *)
(*                                                                         *)
(* Rows and badges are on disk and outlive the program, the lines in       *)
(* between messages (system rows, placeholders) and the two indexes do not.*)
(* libQuotient's timeline starts anew with every run: nothing asks the     *)
(* homeserver for history.                                                 *)
(*                                                                         *)
(* Reactions are of one emoji; no two messages have one stamp, and nobody  *)
(* changes the name others see: Label says whom that name does not tell    *)
(* apart.                                                                  *)
(***************************************************************************)
EXTENDS Integers, Sequences, QtHash

CONSTANTS
    Plain,          \* kinds of events that are about nothing else
    Amending,       \* kinds that name another event
    Sealable,       \* kinds that may arrive without their key
    None,
    Me, Others,     \* this session, and the members that react
    Label,          \* memberLabel(): the name each of them is shown by
    MaxEvents,      \* events of the room (bound)
    MaxBatch,       \* events of one sync (bound)
    MaxRuns         \* runs of the program (bound)

VARIABLES
    log,        \* the room's events: [kind, target, by]; None is anybody else
    sealed,     \* the delivered events whose key is not here yet
    first, at,  \* the timeline of this run: the events first + 1 to at
    joined,     \* the room is joined, and in m_tracked
    rows,       \* ChatModel's: id -> [kind, text], the event the text is of,
                \* or Typed: words typed here, of no event
    stamps,     \* m_eventIdToTs and its inverse: the ids it finds
    reactions,  \* m_reactions: ids of the reactions of this run
    badges,     \* ReactionStore's: what others are shown to have reacted to,
                \* and under which name
    votes,      \* the votes the rows of polls count
    unsent,     \* an event on its way out: [event, stage] or None
    runs        \* runs of the program so far (bound)

index == <<stamps, reactions>>
window == <<rows, badges, votes>>
timeline == <<sealed, first, at>>
vars == <<log, timeline, joined, window, index, unsent, runs>>

Typed == 0
Ids == 1..Len(log)
Mine(e) == log[e].by = Me
Here == first + 1 .. at
-----------------------------------------------------------------------------
(* MatrixTranslate: what kind of row an event is *)

Messages == {"text", "blank", "media", "unknown", "poll", "vote", "edit"}
OpenKind(kind) ==
    CASE kind \in {"media", "poll", "vote"} -> kind
      [] kind = "unknown" -> "system"
      [] kind \in {"text", "edit"} -> "text"
      [] OTHER -> "skip"
RowKind(kind, isRedacted, isSealed) ==
    IF kind = "state" THEN "system"
    ELSE IF kind \in Messages /\ isRedacted THEN "deleted"
    ELSE IF isSealed /\ kind \notin {"artefact", "call"} THEN "sealed"
    ELSE OpenKind(kind)
IsLine(kind) == kind \in {"system", "deleted", "sealed"}
-----------------------------------------------------------------------------
(* publishEvent(), on what the window and the indexes hold.  `gone' are the *)
(* events libQuotient has the redacted form of, `shut' those it cannot open *)

View == [rows |-> rows, badges |-> badges, votes |-> votes, stamps |-> stamps,
         reactions |-> reactions]
Shows(v) ==
    /\ rows' = v.rows /\ badges' = v.badges /\ votes' = v.votes
    /\ stamps' = v.stamps /\ reactions' = v.reactions

\* A badge is under a message and bears a name, which may be another's too.
Badge(e) == <<log[e].target, Label[log[e].by]>>
TakeDown(v, e) ==
    [v EXCEPT !.badges = @ \ {Badge(e)}, !.reactions = @ \ {e}]
PublishReaction(v, e, gone) ==
    IF e \in gone THEN IF e \in v.reactions THEN TakeDown(v, e) ELSE v
    ELSE IF log[e].target \notin v.stamps THEN v
    ELSE [v EXCEPT !.badges = IF Mine(e) THEN @ ELSE @ \cup {Badge(e)},
                   !.reactions = @ \cup {e}]

\* A reaction loses its badge, a message that can be found its row, unless the
\* row is a line of the room (deleteMessage).
RowsOnly(v, e) ==
    IF log[e].target \in v.stamps
    THEN [v EXCEPT !.rows =
              Remove(@, {x \in DOMAIN @ : x = log[e].target /\ ~IsLine(@[x].kind)})]
    ELSE v
PublishRedaction(v, e) ==
    IF log[e].target \in v.reactions THEN TakeDown(v, log[e].target)
    ELSE RowsOnly(v, e)

\* The corrected text, whoever sent it, replaces what is on the screen, be that a
\* line, or nothing does.
EditOfOthers(v, e) ==
    IF log[e].target \in DOMAIN v.rows /\ ~Mine(e)
    THEN [v EXCEPT !.rows[log[e].target].text = e] ELSE v
PublishEdit(v, e) ==
    IF log[e].target \in DOMAIN v.rows
    THEN [v EXCEPT !.rows[log[e].target].text = e] ELSE v

\* What can be found by its stamp: lines of the room itself cannot.
MessagesOnly(kind) == ~IsLine(kind)
Indexed(kind) == kind \notin {"system", "deleted"}
PublishRow(v, e, kind) ==
    CASE kind = "skip" -> v
      [] kind = "vote" ->
             IF log[e].target \in DOMAIN v.rows /\ v.rows[log[e].target].kind = "poll"
             THEN [v EXCEPT !.votes = @ \cup {e}] ELSE v
      [] OTHER ->
             [v EXCEPT !.rows = IF e \in DOMAIN @ THEN @
                                ELSE Insert(@, e, [kind |-> kind, text |-> e]),
                       !.stamps = IF Indexed(kind) THEN @ \cup {e} ELSE @]

PublishEvent(v, e, gone, shut) ==
    CASE log[e].kind = "reaction" -> PublishReaction(v, e, gone)
      [] log[e].kind = "redaction" -> PublishRedaction(v, e)
      [] log[e].kind = "edit" /\ e \notin gone \cup shut -> PublishEdit(v, e)
      [] OTHER -> PublishRow(v, e, RowKind(log[e].kind, e \in gone, e \in shut))

\* Oldest first.
PublishRange(from, to, gone, shut) ==
    LET after[i \in from - 1 .. to] ==
            IF i = from - 1 THEN View ELSE PublishEvent(after[i - 1], i, gone, shut)
    IN after[to]
-----------------------------------------------------------------------------
(* What others do, and what a sync brings *)

Appends(kind, target, by) ==
    /\ Len(log) < MaxEvents
    /\ log' = Append(log, [kind |-> kind, target |-> target, by |-> by])

\* Anybody may send an event about any other, a moderator take any back; only
\* the reaction that is already there is refused.
Live(e) == ~\E x \in Ids : log[x].kind = "redaction" /\ log[x].target = e
Targets(kind) ==
    CASE kind = "vote" -> {"poll"}
      [] kind \in {"edit", "reaction"} -> {"text", "media", "poll", "unknown"}
      [] kind = "redaction" ->
             {"text", "media", "poll", "unknown", "edit", "vote", "reaction"}
About(kind) == {e \in Ids : log[e].kind \in Targets(kind)}
HasReacted(e, by) ==
    \E r \in Ids : /\ log[r].kind = "reaction" /\ log[r].target = e
                   /\ log[r].by = by /\ Live(r)

OthersPost ==
    /\ \/ \E kind \in Plain : Appends(kind, 0, None)
       \/ \E kind \in Amending \ {"reaction"} : \E e \in About(kind) :
              Appends(kind, e, None)
       \/ \E e \in About("reaction"), m \in Others :
              /\ "reaction" \in Amending /\ ~HasReacted(e, m)
              /\ Appends("reaction", e, m)
    /\ UNCHANGED <<timeline, joined, index, window, unsent, runs>>

\* The homeserver serves what was taken back before it was asked without its
\* content; the library opens what it has the key of.
Sync ==
    /\ joined
    /\ \E to \in at + 1 .. Len(log) :
           LET batch == at + 1 .. to
               gone == {e \in batch : ~Live(e)}
           IN /\ to <= at + MaxBatch
              /\ \E shut \in SUBSET {e \in batch \ gone :
                                        log[e].kind \in Sealable /\ ~Mine(e)} :
                     /\ sealed' = sealed \cup shut
                     /\ Shows(PublishRange(at + 1, to, gone, shut))
              /\ at' = to
    /\ UNCHANGED <<log, first, joined, unsent, runs>>

\* The events of this run that were taken back by one the sync has brought.
Taken(e) == \E x \in Here : log[x].kind = "redaction" /\ log[x].target = e

\* revealEvent(): a key that came late.  The line becomes a text, or is left.
Reveal(e) ==
    /\ e \in sealed /\ ~Taken(e)
    /\ sealed' = sealed \ {e}
    /\ rows' = IF e \in DOMAIN rows /\ RowKind(log[e].kind, FALSE, FALSE) # "vote"
               THEN [rows EXCEPT ![e] = [kind |-> "text", text |-> e]]
               ELSE rows
    /\ UNCHANGED <<log, first, at, joined, badges, votes, index, unsent, runs>>
-----------------------------------------------------------------------------
(* What the user does here *)

Posts(kind, target, stage) ==
    unsent' = [event |-> [kind |-> kind, target |-> target, by |-> Me],
               stage |-> stage]
\* A spoiler is a text, a place and a sticker by its address are media.
Immediate == {"text", "media", "poll"}
SendNow(kind) ==
    /\ joined /\ unsent = None
    /\ kind \in Immediate /\ Posts(kind, 0, "sending")
    /\ UNCHANGED <<log, timeline, joined, index, window, runs>>
\* A recording or a picture is uploaded first.
Upload ==
    /\ joined /\ unsent = None
    /\ Posts("media", 0, "uploading")
    /\ UNCHANGED <<log, timeline, joined, index, window, runs>>
\* The room is looked up again: left meanwhile, nothing is sent or said.
Uploaded ==
    /\ unsent # None /\ unsent.stage = "uploading"
    /\ unsent' = IF joined THEN [unsent EXCEPT !.stage = "sending"] ELSE None
    /\ UNCHANGED <<log, timeline, joined, index, window, runs>>

\* commitEdit(): the row first, the room second.  sendEdit() may refuse, for want
\* of keys, and what was sent may fail: nothing puts the row back.
SendEdit(e) ==
    /\ joined /\ e \in DOMAIN rows /\ Mine(e) /\ rows[e].kind \in {"text", "poll"}
    /\ rows' = [rows EXCEPT ![e].text = Typed]
    /\ \/ unsent = None /\ Posts("edit", e, "sending")
       \/ UNCHANGED unsent
    /\ UNCHANGED <<log, timeline, joined, index, badges, votes, runs>>
SendPollVote(e) ==
    /\ joined /\ unsent = None
    /\ e \in DOMAIN rows /\ rows[e].kind = "poll" /\ Posts("vote", e, "sending")
    /\ UNCHANGED <<log, timeline, joined, index, window, runs>>

\* What the room's timeline says of this account's reaction goes before what
\* the local store says: an addition of what is there takes it back.  One whose
\* redaction is on its way is there or not, as it came whole or empty.
SendReaction(e, added) ==
    LET own == {r \in Here : /\ log[r].kind = "reaction" /\ Mine(r)
                             /\ log[r].target = e /\ ~Taken(r)}
    IN /\ joined /\ unsent = None /\ e \in DOMAIN rows
       /\ log[e].kind \in Targets("reaction")
       /\ \/ \E r \in own : Posts("redaction", r, "sending")
          \/ (\A r \in own : ~Live(r)) /\ added /\ Posts("reaction", e, "sending")
       /\ UNCHANGED <<log, timeline, joined, index, window, runs>>

\* The homeserver takes it; the sync that brings it back is what shows it.
Accepted ==
    /\ unsent # None /\ unsent.stage = "sending"
    /\ unsent.event.kind = "reaction" => ~HasReacted(unsent.event.target, Me)
    /\ Appends(unsent.event.kind, unsent.event.target, Me)
    /\ unsent' = None
    /\ UNCHANGED <<timeline, joined, index, window, runs>>
\* reportPendingFailure(), or the failure of the upload: said in the window.
SendFailed ==
    /\ unsent # None /\ unsent' = None
    /\ UNCHANGED <<log, timeline, joined, index, window, runs>>
-----------------------------------------------------------------------------
(* The room and the program come and go *)

\* The row of the conversation goes with the room, and so does what was known.
LeaveChat ==
    /\ joined /\ joined' = FALSE
    /\ rows' = EmptyHash /\ votes' = {}
    /\ stamps' = {} /\ reactions' = {}
    /\ UNCHANGED <<log, timeline, badges, unsent, runs>>
\* The join is a new Room, whose timeline begins with what comes after it.
JoinRoom ==
    /\ ~joined /\ joined' = TRUE
    /\ first' = Len(log) /\ at' = Len(log) /\ sealed' = {}
    /\ UNCHANGED <<log, window, index, unsent, runs>>
Restart ==
    /\ runs < MaxRuns /\ runs' = runs + 1
    /\ first' = at /\ sealed' = {}
    /\ rows' = Remove(rows, {e \in DOMAIN rows : IsLine(rows[e].kind)})
    /\ votes' = {} /\ unsent' = None
    /\ stamps' = {} /\ reactions' = {}
    /\ UNCHANGED <<log, at, joined, badges>>

Init ==
    /\ log = <<>> /\ sealed = {} /\ first = 0 /\ at = 0 /\ joined = TRUE
    /\ rows = EmptyHash /\ badges = {} /\ votes = {}
    /\ stamps = {} /\ reactions = {}
    /\ unsent = None /\ runs = 1

Next ==
    \/ OthersPost \/ Sync \/ \E e \in Ids : Reveal(e)
    \/ (\E kind \in Plain : SendNow(kind)) \/ Upload \/ Uploaded
    \/ \E e \in Ids : SendEdit(e) \/ SendPollVote(e)
    \/ \E e \in Ids, added \in BOOLEAN : SendReaction(e, added)
    \/ Accepted \/ SendFailed
    \/ LeaveChat \/ JoinRoom \/ Restart
Spec == Init /\ [][Next]_vars
-----------------------------------------------------------------------------
\* Of a message of this run that was taken back no row stays that was one of a
\* message, whether it came whole, sealed or already empty, in one batch with its
\* redaction or in another (publishEvent's redaction, rowFor's redacted).  What
\* stays is a line: that it was deleted, that there is no key, or what the room
\* said in its place.  The line of an unknown kind keeps its words, and a line or
\* a row those of an edit that was itself taken back.
TakenBackIsGone ==
    joined => \A e \in Here \cap DOMAIN rows : Taken(e) => IsLine(rows[e].kind)

\* A badge under a message of this run is of a reaction of somebody by that name
\* that stands; a reaction that stands has its badge, unless another member by
\* the same name reacted too (publishEvent's reaction and redaction).
BadgesTrue ==
    LET Reaction(r) == log[r].kind = "reaction"
    IN joined =>
        /\ \A b \in badges : b[1] \in Here =>
               \E r \in Here : Reaction(r) /\ ~Mine(r) /\ Badge(r) = b /\ ~Taken(r)
        /\ \A r \in Here :
               /\ Reaction(r) /\ ~Mine(r) /\ log[r].target \in stamps /\ Live(r)
               /\ \A q \in Here : Reaction(q) /\ Badge(q) = Badge(r) =>
                                    log[q].by = log[r].by
               => Badge(r) \in badges

\* "A message that leaves no trace reads as one that was never sent" (rowFor):
\* every message of this run that stands has its row, be it sealed, of a kind
\* unknown here or poll, with its own text or that of an edit; one's own, which
\* is never sealed, with that of the last edit sent here that stands, of a later
\* one of somebody else, or with what was typed here last (publishEvent, commitEdit).
EveryMessageHasItsRow ==
    joined => \A e \in Here :
        LET texts == {e} \cup {x \in Here : log[x].kind = "edit" /\ log[x].target = e}
            text == rows[e].text
        IN log[e].kind \in {"text", "media", "poll", "unknown", "state"} /\ ~Taken(e)
               => /\ e \in DOMAIN rows
                  /\ text \in texts \/ (Mine(e) /\ text = Typed)
                  /\ Mine(e) /\ text # Typed =>
                         \A x \in texts : Mine(x) /\ Live(x) => x <= text

\* "A message that was already on the screen was redacted. The row goes the way
\* an unsent LAN message does: gone" (Main.qml, onRoomMessageRemoved): what is left
\* of a message taken back is at most that it was deleted.
RedactedRowsGo ==
    joined => \A e \in Here \cap DOMAIN rows :
        Taken(e) => rows[e].kind = "deleted"

\* An edit that does not reach the homeserver is never shown (MessageDelegate.qml,
\* canEditMessages; ChatPage.qml, canEditRow): words of no event are in a row only
\* while their edit is on its way.
EditsReachTheRoom ==
    \A e \in DOMAIN rows : rows[e].text = Typed =>
        \/ unsent # None /\ unsent.event = [kind |-> "edit", target |-> e, by |-> Me]
        \/ \E x \in at + 1 .. Len(log) :
               log[x].kind = "edit" /\ log[x].target = e /\ Mine(x)

\* "An edit is dealt with first and never becomes a row" (publishEvent).  One that
\* comes sealed, or was taken back, does.
EditsAreNoRows == \A e \in DOMAIN rows : log[e].kind # "edit"
=============================================================================
