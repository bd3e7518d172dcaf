------------------------------ MODULE ChatList ------------------------------
(***************************************************************************)
(* The conversations beside the timeline: ChatListModel's rows, the index  *)
(* it saves a while after they change, and UnreadManager's counts.         *)
(*                                                                         *)
(* Names, avatars, previews and the stamp of a peer that was last seen are *)
(* left out; a change of one saves the index as the others do.             *)
(***************************************************************************)
EXTENDS Integers, FiniteSetsExt, Sequences, Functions, TLC, QtHash

CONSTANTS
    Chats,
    Group,      \* transportGroup(): chat -> its section
    MaxStamp, MaxUnread \* bounds of the model

VARIABLES
    list,       \* m_rows
    counts,     \* UnreadManager's m_counts, but for its zeros
    index,      \* the chat index on disk
    armed,      \* m_saveTimer runs
    unsaved,    \* the last save did not reach the disk (history)
    restarts    \* 1 once the program was started again (history)

vars == <<list, counts, index, armed, unsaved, restarts>>

SE == INSTANCE SequencesExt

NewRow(c, stamp, unread) ==
    [chat |-> c, stamp |-> stamp, unread |-> unread, online |-> FALSE]
RowOf(c) ==
    LET at == {i \in DOMAIN list : list[i].chat = c}
    IN IF at = {} THEN 0 ELSE Min(at)
Unread(c) == Value(counts, c, 0)
\* A count of 0 stays in m_counts.  get() and total() cannot tell it from one that
\* is not there, and restore() only meets a manager that is empty.
Counted(c, n) == IF n = 0 THEN Remove(counts, {c}) ELSE Insert(counts, c, n)
SumOf(f) == FoldFunction(LAMBDA a, b : a + b, 0, f)
Total == SumOf(counts)

\* destinationFor(): behind the rows of earlier sections and the newer ones of
\* its own, up to the first that is neither.
DestinationFor(seq, stamp, group) ==
    LET stops == {i \in DOMAIN seq :
                     \/ Group[seq[i].chat] > group
                     \/ Group[seq[i].chat] = group /\ seq[i].stamp <= stamp}
    IN IF stops = {} THEN Len(seq) + 1 ELSE Min(stops)
Placed(seq, row) ==
    SE!InsertAt(seq, DestinationFor(seq, row.stamp, Group[row.chat]), row)
MoveToSortedPosition(seq, i) == Placed(SE!RemoveAt(seq, i), seq[i])

ScheduleSave == armed' = TRUE
-----------------------------------------------------------------------------
(* Rows and counts *)

OpenChat(c) ==
    /\ RowOf(c) = 0
    /\ list' = Placed(list, NewRow(c, 0, 0))
    /\ ScheduleSave
    /\ UNCHANGED <<counts, index, unsaved, restarts>>

\* UnreadManager's increment() and markRead(), and the row they tell.
Told(c, count) ==
    [i \in DOMAIN list |->
        IF list[i].chat = c THEN [list[i] EXCEPT !.unread = count]
        ELSE list[i]]

\* noteMessage(), the row of a chat with one.
Noted(seq, i, stamp) ==
    MoveToSortedPosition(
        [seq EXCEPT ![i].stamp = IF stamp > @ THEN stamp ELSE @], i)

\* appendEntry() of a message: the count first, the row after it.
Message(c, own, stamp) ==
    LET count == IF own THEN Unread(c) ELSE Unread(c) + 1
        i == RowOf(c)
    IN /\ count <= MaxUnread
       /\ counts' = IF own THEN counts ELSE Counted(c, count)
       /\ list' = IF i = 0 THEN Placed(list, NewRow(c, stamp, count))
                  ELSE Noted(IF own THEN list ELSE Told(c, count), i, stamp)
       /\ ScheduleSave
       /\ UNCHANGED <<index, unsaved, restarts>>

\* setPresence(): that a peer is still there is not worth a write.
SetPresence(c, online) ==
    LET i == RowOf(c)
    IN /\ Group[c] = 0 /\ i # 0
       /\ list' = [list EXCEPT ![i].online = online]
       /\ armed' = (armed \/ (list[i].online /\ ~online))
       /\ UNCHANGED <<counts, index, unsaved, restarts>>

\* markRead(), when the chat is opened.
MarkRead(c) ==
    /\ Unread(c) > 0
    /\ counts' = Counted(c, 0)
    /\ list' = Told(c, 0)
    /\ armed' = (armed \/ RowOf(c) # 0)
    /\ UNCHANGED <<index, unsaved, restarts>>

\* dropChatLocally(): left or deleted.
DropChatLocally(c) ==
    /\ RowOf(c) # 0
    /\ counts' = IF Unread(c) > 0 THEN Counted(c, 0) ELSE counts
    /\ list' = SE!RemoveAt(list, RowOf(c))
    /\ ScheduleSave
    /\ UNCHANGED <<index, unsaved, restarts>>
-----------------------------------------------------------------------------
(* The index *)

Written(row) == [row EXCEPT !.online = FALSE]
IndexOf(seq) == [i \in DOMAIN seq |-> Written(seq[i])]

\* HistoryManager writes the index like any chat (and would cut it at
\* kMaxMessagesPerChat rows): not while saving is off, nor over a file it could
\* not read, nor if the disk refuses.  Nobody is told of it.
WriteIndex ==
    \/ index' = IndexOf(list) /\ unsaved' = FALSE
    \/ UNCHANGED index /\ unsaved' = TRUE

\* The timer runs out 400 ms after the last change; a write that failed is not
\* tried again before the next one.
Save ==
    /\ armed
    /\ armed' = FALSE
    /\ WriteIndex
    /\ UNCHANGED <<list, counts, restarts>>

\* stable_sort() by the stamp alone, newest first: where each place of the
\* sorted list comes from.
Newer(seq, i, j) ==
    \/ seq[i].stamp > seq[j].stamp
    \/ seq[i].stamp = seq[j].stamp /\ i < j
ByActivity(seq) ==
    CHOOSE from \in Injection(DOMAIN seq, DOMAIN seq) :
        \A i, j \in DOMAIN seq : i < j => Newer(seq, from[i], from[j])
Loaded(seq) == [i \in DOMAIN seq |-> seq[ByActivity(seq)[i]]]

RestoredNone(seq) == EmptyHash
\* restoreUnreadCounts(), of a manager that is empty.
Restored(seq) ==
    LET some == {i \in DOMAIN seq : seq[i].unread > 0}
    IN [c \in {seq[i].chat : i \in some} |->
           seq[CHOOSE i \in some : seq[i].chat = c].unread]

\* The program ends, however it ends, and starts again.
Restart ==
    /\ list' = Loaded(index)
    /\ counts' = Restored(list')
    /\ armed' = FALSE /\ unsaved' = FALSE /\ restarts' = 1
    /\ UNCHANGED index
-----------------------------------------------------------------------------
Init ==
    /\ list = <<>> /\ index = <<>> /\ counts = EmptyHash
    /\ armed = FALSE /\ unsaved = FALSE /\ restarts = 0

Next ==
    \/ \E c \in Chats : OpenChat(c) \/ MarkRead(c) \/ DropChatLocally(c)
    \/ \E c \in Chats, own \in BOOLEAN, stamp \in 1..MaxStamp : Message(c, own, stamp)
    \/ \E c \in Chats, online \in BOOLEAN : SetPresence(c, online)
    \/ Save
    \/ Restart

Spec == Init /\ [][Next]_vars
-----------------------------------------------------------------------------
\* The badge of each row is the manager's count, one row to a chat, and the
\* total of the tray is the sum of the badges, after a restart too
\* (ChatListModel::restoreUnreadCounts, unreadChanged, noteMessage).
BadgesAgree ==
    /\ \A i \in DOMAIN list :
           list[i].unread = Unread(list[i].chat) /\ RowOf(list[i].chat) = i
    /\ Total = SumOf([i \in DOMAIN list |-> list[i].unread])

\* The sections stand in their order and each is newest first
\* (ChatListModel::destinationFor, transportGroup).
Before(a, b) ==
    \/ Group[a.chat] < Group[b.chat]
    \/ Group[a.chat] = Group[b.chat] /\ a.stamp >= b.stamp
SectionsInOrder == \A i, j \in DOMAIN list : i < j => Before(list[i], list[j])

\* They do for as long as the list was not loaded from the index.
SortedUntilRestart == restarts = 0 => SectionsInOrder

\* With no save due, and the last one on the disk, the index there is the list
\* on the screen: no handler forgets to have its change saved
\* (ChatListModel::scheduleSave and the handlers that call it).
Lasting(seq) ==
    {[chat |-> seq[i].chat, stamp |-> seq[i].stamp, unread |-> seq[i].unread] :
        i \in DOMAIN seq}
IndexSettled == ~armed /\ ~unsaved => Lasting(index) = Lasting(list)

\* The list, the counts and the index on disk say the same, in the order the
\* sections ask for (ChatListModel).
ListTrue == BadgesAgree /\ SortedUntilRestart /\ IndexSettled
=============================================================================
