--------------------------- MODULE FileReassembly ---------------------------
(***************************************************************************)
(* FileTransferHandler: the receiver's table of incomplete transfers.  Any *)
(* peer may announce anything and send any chunk of anything, in any order *)
(* and any number of times.                                                *)
(*                                                                         *)
(* A chunk is its size: two chunks of one index are the same bytes exactly *)
(* when they have the same size.  Whether the assembled file decrypts and  *)
(* whether it can be written is decided elsewhere, so either is possible.  *)
(***************************************************************************)
EXTENDS Integers, FiniteSets, FiniteSetsExt, QtHash

CONSTANTS
    Tids,           \* transfer ids
    Sizes,          \* sizes a peer may announce, -1 for one that is no length
    ChunkSizes,     \* sizes of chunks
    Totals,         \* chunk counts a peer may claim
    Limits,         \* values setMaxTransferBytes() may be given
    MaxPendingTransfers, \* kMaxPendingTransfers
    MaxPendingBytes,     \* kMaxPendingBytes
    BytesPerChunk,  \* the chunk count may be limit / BytesPerChunk + SpareChunks,
    SpareChunks,    \* 1024 and 1024 in the code
    Ttl,            \* kPendingTransferTtlMs, in ticks
    Sweep           \* the interval of m_pruneTimer, in ticks

VARIABLES
    pending,        \* m_pending: tid -> transfer
    maxTransfer,    \* m_maxTransferBytes
    sinceSweep,     \* ticks since m_pruneTimer fired
    signal          \* the signal emitted last: a file was saved or refused

vars == <<pending, maxTransfer, sinceSweep, signal>>

NoSignal == [tid |-> "none", kind |-> "none"]
Saved(tid) == [tid |-> tid, kind |-> "saved"]
Rejected(tid) == [tid |-> tid, kind |-> "rejected"]

MaxChunks == maxTransfer \div BytesPerChunk + SpareChunks
Bytes(chunks) == MapThenSumSet(LAMBDA i : chunks[i], DOMAIN chunks)
-----------------------------------------------------------------------------
(* onMeta() *)

Usable(size) == size \in 0..maxTransfer
Full(tid) ==
    tid \notin DOMAIN pending /\ Cardinality(DOMAIN pending) >= MaxPendingTransfers

OnMeta(tid, size) ==
    /\ IF Usable(size) /\ ~Full(tid)
       THEN /\ pending' = Insert(pending, tid,
                    [total |-> -1, announced |-> size, received |-> 0,
                     chunks |-> EmptyHash, age |-> 0])
            /\ UNCHANGED signal
       ELSE /\ signal' = Rejected(tid)
            /\ UNCHANGED pending
    /\ UNCHANGED <<maxTransfer, sinceSweep>>
-----------------------------------------------------------------------------
(* onChunkMessage() *)

\* What m_pending still holds after a transfer has ended.
Kept(tid) == pending
Without(tid) == Remove(pending, {tid})

End(tid, how) == pending' = Without(tid) /\ signal' = how

\* The count of bytes once the chunk is in: only the difference to what the
\* index already holds.
ReceivedTwice(t, idx, size) == t.received + size
Received(t, idx, size) == t.received + size - Value(t.chunks, idx, 0)

\* pendingBufferedBytes() with this transfer's count brought up to date.
PendingBufferedBytes(tid, received) ==
    received + MapThenSumSet(LAMBDA u : pending[u].received,
                             DOMAIN pending \ {tid})

\* The chunk contradicts what the transfer has said so far.
Contradicts(t, idx, total, size) ==
    \/ total > MaxChunks
    \/ t.total >= 0 /\ t.total # total
    \/ Value(t.chunks, idx, size) # size

Over(tid, t, received) ==
    \/ received > maxTransfer
    \/ received > t.announced
    \/ PendingBufferedBytes(tid, received) > MaxPendingBytes

\* Every index is in.
Complete(chunks, total) == Cardinality(DOMAIN chunks) >= total

\* A chunk of an unknown transfer, or one outside its own count.
Ignored(tid, idx, total) == tid \notin DOMAIN pending \/ idx \notin 0..(total - 1)

OnChunkMessage(tid, idx, total, size) ==
    /\ IF Ignored(tid, idx, total) THEN UNCHANGED <<pending, signal>>
       ELSE LET t == pending[tid]
                received == Received(t, idx, size)
                chunks == Insert(t.chunks, idx, size)
            IN \/ /\ Contradicts(t, idx, total, size) \/ Over(tid, t, received)
                  /\ End(tid, Rejected(tid))
               \/ /\ ~Contradicts(t, idx, total, size)
                  /\ ~Over(tid, t, received)
                  /\ ~Complete(chunks, total)
                  /\ pending' = [pending EXCEPT ![tid].total = total,
                                                ![tid].received = received,
                                                ![tid].chunks = chunks]
                  /\ UNCHANGED signal
               \/ /\ ~Contradicts(t, idx, total, size)
                  /\ ~Over(tid, t, received)
                  /\ Complete(chunks, total)
                  /\ \/ Bytes(chunks) = t.announced /\ End(tid, Saved(tid))
                     \/ End(tid, Rejected(tid))
    /\ UNCHANGED <<maxTransfer, sinceSweep>>
-----------------------------------------------------------------------------
(* Time, the sweep and the setting *)

\* Ages past Ttl + Sweep are one.
Older(age) == IF age > Ttl + Sweep THEN age ELSE age + 1

Tick ==
    /\ sinceSweep < Sweep
    /\ sinceSweep' = sinceSweep + 1
    /\ pending' = [tid \in DOMAIN pending |->
                      [pending[tid] EXCEPT !.age = Older(@)]]
    /\ UNCHANGED <<maxTransfer, signal>>

Stale == {tid \in DOMAIN pending : pending[tid].age > Ttl}

\* The sweep refuses every stale transfer, in some order.
PruneStaleTransfers ==
    /\ sinceSweep = Sweep
    /\ sinceSweep' = 0
    /\ pending' = Remove(pending, Stale)
    /\ IF Stale = {} THEN UNCHANGED signal
       ELSE \E tid \in Stale : signal' = Rejected(tid)
    /\ UNCHANGED maxTransfer

SetMaxTransferBytes ==
    /\ maxTransfer' \in Limits
    /\ UNCHANGED <<pending, sinceSweep, signal>>

Init ==
    /\ pending = EmptyHash
    /\ maxTransfer \in Limits
    /\ sinceSweep = 0
    /\ signal = NoSignal

Next ==
    \/ \E tid \in Tids, size \in Sizes : OnMeta(tid, size)
    \/ \E tid \in Tids, total \in Totals, size \in ChunkSizes :
           \E idx \in 0..total : OnChunkMessage(tid, idx, total, size)
    \/ Tick
    \/ PruneStaleTransfers
    \/ SetMaxTransferBytes

Spec == Init /\ [][Next]_vars
-----------------------------------------------------------------------------
(* Properties *)

\* Every entry has the type of PendingTransfer, and the table its cap.
\* The running count of a transfer is what it really holds, however often its
\* chunks are resent: onChunkMessage() adds differences, and every cap is
\* measured on the count.
BytesCounted ==
    \A tid \in DOMAIN pending : pending[tid].received = Bytes(pending[tid].chunks)

\* What all peers together make us hold stays within kMaxPendingBytes, and each
\* within what it announced, though the limit is lowered in between.
MemoryBounded ==
    /\ Cardinality(DOMAIN pending) <= MaxPendingTransfers
    /\ MapThenSumSet(LAMBDA tid : Bytes(pending[tid].chunks), DOMAIN pending)
           <= MaxPendingBytes
    /\ \A tid \in DOMAIN pending :
           Bytes(pending[tid].chunks) <= pending[tid].announced

\* No transfer that has all of its chunks is left waiting: the branch "missing a
\* chunk despite count matching" is unreachable.
NoneLingers ==
    \A tid \in DOMAIN pending :
        pending[tid].total >= 0 =>
            \E i \in 0..(pending[tid].total - 1) : i \notin DOMAIN pending[tid].chunks

\* A transfer is held for its time to live and at most one sweep longer, whatever
\* trickles in for it.
StaleGone == \A tid \in DOMAIN pending : pending[tid].age <= Ttl + Sweep

\* Whatever peers announce, resend and contradict, what is held for them is
\* counted right, within the caps, unfinished and young
\* (FileTransferHandler::onChunkMessage, pruneStaleTransfers).
PendingTrue == BytesCounted /\ MemoryBounded /\ NoneLingers /\ StaleGone
=============================================================================
