---------------------------- MODULE ChatTimeline ----------------------------
(***************************************************************************)
(* One conversation: the rows of its ChatModel, the log HistoryManager     *)
(* keeps of them, the rows of the ReversedChatModel the window draws, and  *)
(* the unread count UnreadManager holds for it.                            *)
(*                                                                         *)
(* A chat is of one transport for good.  On a LAN chat a row is named by a *)
(* time stamp and the handlers of Main.qml make the rows; in a room it is  *)
(* named by an event id and the rows come from the server.  Texts are      *)
(* values, media and replies are left out, all rows are of one day.        *)
(***************************************************************************)
EXTENDS Integers, FiniteSets, Sequences, SequencesExt

CONSTANTS
    Events,     \* event ids of the room
    Author,     \* event -> "me" or "peer"
    Kind,       \* event -> "text", "file", "notice" or "poll"
    Voters, Answers,
    Strange,    \* an answer no poll has
    Delays,     \* milliseconds a LAN message is on its way
    Original, Texts, \* the text of a row at first, and what edits make of it
    None, Garbage,   \* no answer; a log that does not parse
    MaxMessages,     \* kMaxMessagesPerChat
    MaxStamp, MaxStash, MaxUnread, \* bounds of the model
    Chats            \* [transport: "lan" or "matrix", rows: bound of its rows,
                     \* faults: failed writes and changes of the setting]

ASSUME ChatTimelineAssumption ==
    /\ "me" \in Voters /\ IsFiniteSet(Voters)
    /\ Strange \notin Answers
    /\ None \notin Answers \cup {Strange}
    /\ Original \notin Texts
    /\ MaxMessages \in Nat \ {0}
    /\ Delays \subseteq Nat

VARIABLES
    chat,       \* the chat, of Chats
    clock,      \* stamps are milliseconds
    rows,       \* m_messages
    stash,      \* m_pendingPollVotes
    cache, file,\* what HistoryManager holds and what is on disk
    saving,     \* m_savingEnabled
    unread,     \* UnreadManager's count
    view,       \* the window's delegates, newest first
    missed,     \* a change was not written since the log was last whole (history)
    failed,     \* the last write failed (history)
    mark, exact,\* first row not seen, and whether that is still known (history)
    faults,     \* faults so far (bound)
    revealed    \* ids of notices that became messages (history)

log == <<cache, file, missed, failed, faults>>
vars == <<chat, clock, rows, stash, log, saving, unread, view, mark,
          exact, revealed>>

Entry(id, of, own, kind) ==
    [id |-> id, of |-> of, own |-> own, system |-> kind = "notice",
     isFile |-> kind = "file", poll |-> kind = "poll", text |-> Original,
     edited |-> FALSE, read |-> FALSE, pending |-> FALSE,
     counts |-> [a \in Answers |-> 0], total |-> 0, myVotes |-> {},
     voters |-> [v \in Voters |-> None]]

\* The entries at some places, in their order.
Picked(seq, places) ==
    MapThenFoldSet(LAMBDA i, picked : Append(picked, seq[i]), <<>>,
                   LAMBDA i : i, LAMBDA S : Max(S), places)

\* First row of an id, 0 for none: rowForMsgId() and, as stamps name rows of a
\* LAN chat, rowForStamp().
RowForMsgId(id) ==
    LET at == {i \in DOMAIN rows : rows[i].id = id}
    IN IF at = {} THEN 0 ELSE Min(at)
RowForStamp(ts) == RowForMsgId(ts)

\* Does the row show its author; gaps in time are left out.
StartsRun(seq, i) ==
    /\ ~seq[i].system
    /\ \/ i = 1
       \/ seq[i - 1].system
       \/ seq[i - 1].own # seq[i].own

FirstUnreadRow ==
    LET counted == {i \in DOMAIN rows : ~rows[i].own /\ ~rows[i].system}
        newest == {i \in counted :
                      Cardinality({j \in counted : j >= i}) <= unread}
    IN IF newest = {} THEN 0 ELSE Min(newest)
-----------------------------------------------------------------------------
(* The log *)

Trim(msgs) ==
    IF Len(msgs) > MaxMessages
    THEN SubSeq(msgs, Len(msgs) - MaxMessages + 1, Len(msgs))
    ELSE msgs

\* writeChatFile(): all of it or, when the disk is full, none; a log that did
\* not parse is left alone.
WriteChatFile(msgs) ==
    \/ /\ file # Garbage
       /\ file' = msgs
       /\ failed' = FALSE
       /\ UNCHANGED faults
    \/ /\ file = Garbage
       /\ UNCHANGED <<file, failed, faults>>
    \/ /\ file # Garbage /\ faults < chat.faults
       /\ faults' = faults + 1
       /\ failed' = TRUE
       /\ UNCHANGED file

\* fromJson() of toJson(): whether a message is on its way is not written.
Stored(e) == [e EXCEPT !.pending = FALSE]

HistoryAppend(e) ==
    IF saving
    THEN /\ cache' = Trim(Append(cache, Stored(e)))
         /\ WriteChatFile(cache')
         /\ UNCHANGED missed
    ELSE missed' = TRUE /\ UNCHANGED <<cache, file, failed, faults>>

ReplaceLog(msgs) ==
    IF saving
    THEN /\ cache' = [i \in DOMAIN Trim(msgs) |-> Stored(Trim(msgs)[i])]
         /\ WriteChatFile(cache')
         /\ missed' = FALSE
    ELSE missed' = TRUE /\ UNCHANGED <<cache, file, failed, faults>>

Spoken(seq) == Picked(seq, {i \in DOMAIN seq : ~seq[i].system})
PersistAsTheyWere == ReplaceLog(Spoken(rows))
PersistAll == ReplaceLog(Spoken(rows'))

Loaded == IF file = Garbage THEN <<>> ELSE file
-----------------------------------------------------------------------------
(* The reversed view, told of the source's changes by row *)

FromSourceRow(n, i) == n + 1 - i
Delegate(seq, i) == [id |-> seq[i].id, author |-> StartsRun(seq, i)]
Drawn(seq) == [k \in DOMAIN seq |-> Delegate(seq, FromSourceRow(Len(seq), k))]

\* rowsAboutToBeInserted of row first, counted before the insert.
ViewInsert(first) ==
    InsertAt(view, Len(rows) + 2 - first, Delegate(rows', first))

ViewRemoveOnly(row) == RemoveAt(view, FromSourceRow(Len(rows), row))
\* rowsAboutToBeRemoved, and the author line of the row that moved up.
ViewRemove(row) ==
    LET left == RemoveAt(view, FromSourceRow(Len(rows), row))
    IN IF row > Len(rows') THEN left
       ELSE [left EXCEPT ![FromSourceRow(Len(rows'), row)] =
                 Delegate(rows', row)]
-----------------------------------------------------------------------------
(* ChatModel *)

Counted(e) == ~e.own /\ ~e.system

MarkRead == unread' = 0 /\ mark' = 0 /\ exact' = TRUE

\* appendEntry() of a persisted entry, which shows as "drawn"; "at once" is
\* markChatRead() of a chat that is open and scrolled to its end.
AppendEntry(e, drawn, atOnce) ==
    /\ Len(rows) < chat.rows
    /\ rows' = Append(rows, drawn)
    /\ view' = ViewInsert(Len(rows) + 1)
    /\ HistoryAppend(e)
    /\ \/ Counted(e) /\ atOnce /\ MarkRead
       \/ /\ Counted(e) /\ ~atOnce /\ unread < MaxUnread
          /\ unread' = unread + 1
          /\ mark' = IF exact /\ mark = 0 THEN Len(rows') ELSE mark
          /\ UNCHANGED exact
       \/ ~Counted(e) /\ UNCHANGED <<unread, mark, exact>>

ChangeRow(row, e) == rows' = [rows EXCEPT ![row] = e]

\* deleteMessage(): the count of unread messages is not told.
DeleteMessage(row) ==
    /\ ~rows[row].system
    /\ rows' = RemoveAt(rows, row)
    /\ view' = ViewRemove(row)
    /\ PersistAll
    /\ exact' = (exact /\ (mark = 0 \/ row < mark \/ rows[row].own))
    /\ mark' = IF ~exact' THEN 0 ELSE IF row < mark THEN mark - 1 ELSE mark
    /\ UNCHANGED <<chat, clock, stash, saving, unread, revealed>>

EditMessage(row, text) ==
    /\ ~rows[row].system /\ ~rows[row].isFile
    /\ text # rows[row].text
    /\ ChangeRow(row, [rows[row] EXCEPT !.text = text, !.edited = TRUE])
    /\ PersistAll
    /\ UNCHANGED <<chat, clock, stash, saving, unread, view, mark, exact,
                   revealed>>

MarkOwnMessagesRead ==
    /\ \E i \in DOMAIN rows : rows[i].own /\ ~rows[i].read
    /\ rows' = [i \in DOMAIN rows |->
                   IF rows[i].own /\ ~rows[i].read
                   THEN [rows[i] EXCEPT !.read = TRUE, !.pending = FALSE]
                   ELSE rows[i]]
    /\ PersistAll
    /\ UNCHANGED <<chat, clock, stash, saving, unread, view, mark, exact,
                   revealed>>

MarkAllRead ==
    /\ unread > 0
    /\ MarkRead
    /\ UNCHANGED <<chat, clock, rows, stash, log, saving, view, revealed>>

\* clearMessages(), of the chat's menu and of a room that was left.
ClearMessages ==
    /\ rows # <<>>
    /\ rows' = <<>> /\ view' = <<>>
    /\ ReplaceLog(<<>>)
    /\ MarkRead
    /\ UNCHANGED <<chat, clock, stash, saving, revealed>>
-----------------------------------------------------------------------------
(* A LAN chat: Main.qml's handlers *)

MarkSent(seq, ts) ==
    LET at == {i \in DOMAIN seq : seq[i].id = ts}
    IN [seq EXCEPT ![Min(at)].pending = FALSE]

\* The row first, with an hourglass that only ends when the bytes are out: a
\* file whose announcement failed keeps it.
Send(kind, sent) ==
    LET e == [Entry(clock, 0, TRUE, kind) EXCEPT !.pending = TRUE]
        all == Append(rows, e)
    IN /\ chat.transport = "lan" /\ Len(rows) < chat.rows
       /\ sent \/ kind = "file"
       /\ rows' = IF sent THEN MarkSent(all, clock) ELSE all
       /\ view' = ViewInsert(Len(all))
       /\ HistoryAppend(e)
       /\ UNCHANGED <<chat, clock, stash, saving, unread, mark, exact,
                      revealed>>

\* A message the peer stamped is filed under the time it arrives.
Receive(kind, delay, atOnce) ==
    /\ chat.transport = "lan" /\ delay < clock
    /\ LET e == Entry(clock, clock - delay, FALSE, kind) IN AppendEntry(e, e, atOnce)
    /\ UNCHANGED <<chat, clock, stash, saving, revealed>>

ReceiveEdit(ts, text) ==
    /\ chat.transport = "lan" /\ RowForStamp(ts) # 0
    /\ EditMessage(RowForStamp(ts), text)
ReceiveDelete(ts) ==
    /\ chat.transport = "lan" /\ RowForStamp(ts) # 0
    /\ DeleteMessage(RowForStamp(ts))

Tick ==
    /\ chat.transport = "lan" /\ clock < MaxStamp
    /\ clock' = clock + 1
    /\ UNCHANGED <<chat, rows, stash, log, saving, unread, view, mark,
                   exact, revealed>>
-----------------------------------------------------------------------------
(* A room: what the sync brings, in any order and again after a restart *)

VotedAgain(e, answer, voter) ==
    IF ~e.poll \/ answer \notin Answers \/ answer = e.voters[voter] THEN e
    ELSE [e EXCEPT !.counts[answer] = @ + 1, !.total = @ + 1,
                   !.voters[voter] = answer,
                   !.myVotes = IF voter = "me" THEN {answer} ELSE @]
\* applyPollResponse() on a row: a vote moves, it is never counted twice.
Voted(e, answer, voter) ==
    LET prev == e.voters[voter]
        lifted == IF prev = None THEN e
                  ELSE [e EXCEPT !.counts[prev] = Max({0, @ - 1}),
                                 !.total = Max({0, @ - 1}),
                                 !.myVotes = IF voter = "me" THEN @ \ {prev}
                                             ELSE @]
    IN IF ~e.poll \/ answer \notin Answers \/ answer = prev THEN e
       ELSE [lifted EXCEPT !.counts[answer] = @ + 1, !.total = @ + 1,
                           !.voters[voter] = answer,
                           !.myVotes = IF voter = "me" THEN @ \cup {answer}
                                       ELSE @]

VotesFor(id) == {i \in DOMAIN stash : stash[i].poll = id}
OtherVotes(id) == Picked(stash, DOMAIN stash \ VotesFor(id))
\* In the order they came.
Replayed(e) ==
    MapThenFoldSet(LAMBDA i, r : Voted(r, stash[i].answer, stash[i].voter), e,
                   LAMBDA i : i, LAMBDA S : Max(S), VotesFor(e.id))

\* A row of a poll is written bare; the votes that came before it count after.
Ingest(event, atOnce) ==
    LET e == [Entry(event, 0, Author[event] = "me", Kind[event])
                 EXCEPT !.read = (Author[event] = "me")]
    IN /\ chat.transport = "matrix" /\ RowForMsgId(event) = 0
       /\ Kind[event] = "poll" => ~atOnce
       /\ AppendEntry(e, IF e.poll THEN Replayed(e) ELSE e, atOnce)
       /\ stash' = IF e.poll THEN OtherVotes(event) ELSE stash
       /\ UNCHANGED <<chat, clock, saving, revealed>>

\* A vote is not written; one for a poll that is not here yet is put aside.
ApplyPollResponse(event, answer, voter) ==
    LET row == RowForMsgId(event)
    IN /\ chat.transport = "matrix"
       /\ IF row = 0
          THEN /\ Len(stash) < MaxStash
               /\ stash' = Append(stash, [poll |-> event, answer |-> answer,
                                          voter |-> voter])
               /\ UNCHANGED rows
          ELSE /\ ChangeRow(row, Voted(rows[row], answer, voter))
               /\ UNCHANGED stash
       /\ UNCHANGED <<chat, clock, log, saving, unread, view, mark, exact,
                      revealed>>

\* applyRemoteEdit(): an edit, or a notice the key has come for.  The row says
\* that its text changed and not that it now has an author.
ApplyRemoteEdit(event, text, markEdited) ==
    LET row == RowForMsgId(event)
        wasNotice == ~markEdited /\ rows[row].system
    IN /\ chat.transport = "matrix" /\ row # 0
       /\ rows[row].text # text
       /\ ChangeRow(row, [rows[row] EXCEPT !.text = text,
                              !.edited = @ \/ markEdited,
                              !.system = @ /\ markEdited])
       /\ PersistAll
       /\ revealed' = IF wasNotice THEN revealed \cup {event} ELSE revealed
       /\ exact' = (exact /\ (wasNotice => mark = 0 \/ row < mark
                                           \/ rows[row].own))
       /\ mark' = IF exact' THEN mark ELSE 0
       /\ UNCHANGED <<chat, clock, stash, saving, unread, view>>

RoomMessageRemoved(event) ==
    /\ chat.transport = "matrix" /\ RowForMsgId(event) # 0
    /\ DeleteMessage(RowForMsgId(event))
-----------------------------------------------------------------------------
(* Settings and restarts *)

SetHistorySavingEnabled ==
    /\ faults < chat.faults
    /\ faults' = faults + 1
    /\ saving' = ~saving
    /\ UNCHANGED <<chat, clock, rows, stash, cache, file, missed, failed,
                   unread, view, mark, exact, revealed>>

\* Where the row that was first not seen is in the log.
Rank(seq, i) == Cardinality({j \in 1..i : ~seq[j].system})
MarkIn(seq) ==
    LET same == {j \in DOMAIN seq :
                    ~seq[j].system /\ Rank(seq, j) = Rank(rows, mark)}
    IN IF mark = 0 \/ same = {} THEN 0 ELSE Min(same)

\* The process ends and starts again: reload(), with the count restored from an
\* index that is up to date (ChatList models the one that is not).
Restart ==
    /\ rows' = Loaded /\ cache' = Loaded
    /\ view' = Drawn(rows')
    /\ stash' = <<>> /\ revealed' = {}
    /\ exact' = (exact /\ ~missed /\ ~failed /\ file # Garbage
                       /\ Len(Spoken(rows)) <= Len(Spoken(Loaded)))
    /\ mark' = IF exact' THEN MarkIn(Loaded) ELSE 0
    /\ missed' = FALSE /\ failed' = FALSE
    /\ UNCHANGED <<chat, clock, file, faults, saving, unread>>
-----------------------------------------------------------------------------
Init ==
    /\ chat \in Chats
    /\ clock = 1
    /\ file \in {<<>>, Garbage}
    /\ rows = <<>> /\ cache = <<>> /\ view = <<>> /\ stash = <<>>
    /\ saving = TRUE /\ faults = 0 /\ unread = 0 /\ mark = 0 /\ exact = TRUE
    /\ missed = FALSE /\ failed = FALSE /\ revealed = {}

Next ==
    \/ \E kind \in {"text", "file"}, sent \in BOOLEAN : Send(kind, sent)
    \/ \E kind \in {"text", "file"}, d \in Delays, b \in BOOLEAN :
           Receive(kind, d, b)
    \/ \E ts \in 1..clock, text \in Texts : ReceiveEdit(ts, text)
    \/ \E ts \in 1..clock : ReceiveDelete(ts)
    \/ Tick
    \/ \E event \in Events, b \in BOOLEAN : Ingest(event, b)
    \/ \E event \in {e \in Events : Kind[e] = "poll"},
          a \in Answers \cup {Strange}, v \in Voters :
           ApplyPollResponse(event, a, v)
    \/ \E event \in Events, text \in Texts, b \in BOOLEAN :
           ApplyRemoteEdit(event, text, b)
    \/ \E event \in Events : RoomMessageRemoved(event)
    \/ \E row \in DOMAIN rows, text \in Texts : EditMessage(row, text)
    \/ \E row \in DOMAIN rows : DeleteMessage(row)
    \/ MarkOwnMessagesRead
    \/ MarkAllRead
    \/ ClearMessages
    \/ SetHistorySavingEnabled
    \/ Restart

Spec == Init /\ [][Next]_vars
-----------------------------------------------------------------------------
\* A poll counts every voter once, under the answer they chose last, however
\* votes and polls overtake each other and restarts fall between
\* (ChatModel::applyPollResponse, ingestRemotePoll).
TallyTrue ==
    \A i \in DOMAIN rows :
        LET r == rows[i] IN
        /\ \A a \in Answers :
               r.counts[a] = Cardinality({v \in Voters : r.voters[v] = a})
        /\ r.total = Cardinality({v \in Voters : r.voters[v] # None})
        /\ r.myVotes = {r.voters["me"]} \ {None}

\* What the log is to keep of a row; votes are not written.
Kept(e) == [id |-> e.id, text |-> e.text, edited |-> e.edited, read |-> e.read]
KeptOf(seq) == [i \in DOMAIN Spoken(seq) |-> Kept(Spoken(seq)[i])]

\* While saving is on and the last write went through, a restart brings back
\* the newest messages as they are on the screen: edited, read and without the
\* deleted ones (ChatModel::persistAll, HistoryManager::append, replaceAll).
LogIsWhole ==
    ~missed /\ ~failed /\ file # Garbage =>
        /\ IsSuffix(KeptOf(file), KeptOf(rows))
        /\ Len(rows) <= MaxMessages => KeptOf(file) = KeptOf(rows)

\* The window's rows are the model's in reverse, and each shows its author when
\* it starts a run; those a revealed notice touches excepted
\* (ReversedChatModel, ChatModel::deleteMessage).
Touched(i) == \/ rows[i].id \in revealed
              \/ i > 1 /\ rows[i - 1].id \in revealed
ViewMirrors ==
    \A k \in DOMAIN rows :
        LET i == FromSourceRow(Len(rows), k) IN
        /\ view[k].id = rows[i].id
        /\ Touched(i) \/ view[k] = Delegate(rows, i)

\* The unread marker stands above the first message that was not seen, across
\* restarts too, as long as none of the unseen was deleted, revealed or lost
\* (ChatModel::firstUnreadRow).
MarkerHonest == exact => FirstUnreadRow = mark

\* What the window shows of a chat is what the model holds: its rows, the lines
\* above them and the marker (ReversedChatModel, ChatModel::firstUnreadRow).
ScreenTrue == ViewMirrors /\ MarkerHonest

\* Main.qml says of the stamp in a peer's edit, deletion or reaction that it is
\* the identifier the two ends share: it names the row of that message.
StampNamesTheMessage ==
    \A i \in DOMAIN rows :
        rows[i].of # 0 => RowForStamp(rows[i].of) = i
=============================================================================
