---------------------------- MODULE FileTransfer ----------------------------
(***************************************************************************)
(* Files from one NetworkManager to another: the announcement, the paced   *)
(* chunks, the ACK and the retransmission, over a network that loses and   *)
(* reorders datagrams, with FileReassembly at the far end.                 *)
(*                                                                         *)
(* The receiver keeps two records of a transfer that know nothing of each  *)
(* other: handleDatagram() counts chunks and sends the ACK, the reassembler*)
(* collects them and writes the file.                                      *)
(*                                                                         *)
(* Every file has the same number of chunks and a chunk is one byte.  Each *)
(* datagram is signed under a fresh nonce, so the replay guard refuses     *)
(* copies the network makes, and copies the sender makes pass.             *)
(***************************************************************************)
EXTENDS Integers, FiniteSets, QtHash

CONSTANTS
    Tids,       \* transfer ids, one per file sent
    Chunks,     \* chunks of a file
    Batch,      \* chunks sent at once by sendChunksQueued()
    RateBurst,  \* datagrams of one burst the receiver's rate gate lets in
    MaxPendingTransfers, \* kMaxPendingTransfers
    Ttl, Sweep  \* of the reassembler

ASSUME FileTransferAssumption ==
    /\ Chunks \in Nat \ {0}
    /\ Batch \in Nat \ {0}
    /\ RateBurst \in Nat

VARIABLES
    alive,      \* the sender still runs
    cursor,     \* tid -> chunks sent, 0 before the file is, Chunks + 1 after
    outgoing,   \* m_outgoingTransfers: tids waiting for an ACK
    wire,       \* datagrams on their way; copies of one are one
    counted,    \* m_incomingTransfers: tid -> indices received
    pending, maxTransfer, sinceSweep, signal, \* the reassembler
    acked,      \* tids an ACK was sent for (history)
    early,      \* tids a chunk of which came before its meta (history)
    saves,      \* tid -> files written (history)
    refused     \* tids the reassembler refused or timed out (history)

senderVars == <<alive, cursor, outgoing>>
farVars == <<pending, maxTransfer, sinceSweep, signal>>
history == <<acked, early, saves, refused>>
vars == <<senderVars, wire, counted, farVars, history>>

Far == INSTANCE FileReassembly WITH
           Sizes <- {Chunks}, ChunkSizes <- {1}, Totals <- {Chunks},
           Limits <- {Chunks},
           MaxPendingBytes <- Chunks * MaxPendingTransfers,
           BytesPerChunk <- 1, SpareChunks <- 0

Indices == 0..(Chunks - 1)
Meta(tid) == [kind |-> "file_meta", tid |-> tid, idx |-> 0]
Chunk(tid, i) == [kind |-> "file_data", tid |-> tid, idx |-> i]
Ack(tid) == [kind |-> "file_ack", tid |-> tid, idx |-> 0]
Datagrams ==
    {Meta(t) : t \in Tids} \cup {Ack(t) : t \in Tids}
    \cup {Chunk(t, i) : t \in Tids, i \in Indices}

AtMost(m, n) == IF m < n THEN m ELSE n
ChunksOf(tid, first, end) == {Chunk(tid, i) : i \in first..(end - 1)}
-----------------------------------------------------------------------------
(* The sender *)

\* sendFileInternal(): the announcement, once, and the first batch.
SendFile(tid) ==
    LET end == AtMost(Batch, Chunks)
    IN /\ alive
       /\ cursor[tid] = 0
       /\ wire' = wire \cup {Meta(tid)} \cup ChunksOf(tid, 0, end)
       /\ cursor' = [cursor EXCEPT ![tid] = end]
       /\ UNCHANGED <<alive, outgoing, counted, farVars, history>>

\* The next batch, below the rate the receiver admits.
SendChunksQueued(tid) ==
    LET end == AtMost(cursor[tid] + Batch, Chunks)
    IN /\ alive
       /\ cursor[tid] \in 1..(Chunks - 1)
       /\ wire' = wire \cup ChunksOf(tid, cursor[tid], end)
       /\ cursor' = [cursor EXCEPT ![tid] = end]
       /\ UNCHANGED <<alive, outgoing, counted, farVars, history>>

\* One pause after the last batch the transfer begins to wait for its ACK.
AwaitAck(tid) ==
    /\ alive
    /\ cursor[tid] = Chunks
    /\ cursor' = [cursor EXCEPT ![tid] = Chunks + 1]
    /\ outgoing' = outgoing \cup {tid}
    /\ UNCHANGED <<alive, wire, counted, farVars, history>>

\* The timer: all chunks in one burst, of which the rate gate of the receiver
\* admits the first RateBurst.
RetransmitTail(tid) ==
    /\ alive
    /\ tid \in outgoing
    /\ wire' = wire \cup {Chunk(tid, Chunks - 1)}
    /\ UNCHANGED <<senderVars, counted, farVars, history>>
Retransmit(tid) ==
    /\ alive
    /\ tid \in outgoing
    /\ wire' = wire \cup ChunksOf(tid, 0, AtMost(RateBurst, Chunks))
    /\ UNCHANGED <<senderVars, counted, farVars, history>>

\* The sender is closed; nothing of a transfer outlives the process.
Quit ==
    /\ alive
    /\ alive' = FALSE
    /\ UNCHANGED <<cursor, outgoing, wire, counted, farVars, history>>

DeliverAck(tid) ==
    /\ Ack(tid) \in wire
    /\ wire' = wire \ {Ack(tid)}
    /\ outgoing' = outgoing \ {tid}
    /\ UNCHANGED <<alive, cursor, counted, farVars, history>>
-----------------------------------------------------------------------------
(* The receiver *)

\* What the reassembler's signals tell.
Outcome ==
    IF signal' = signal THEN UNCHANGED <<saves, refused>>
    ELSE IF signal'.kind = "saved"
         THEN /\ saves' = [saves EXCEPT ![signal'.tid] = @ + 1]
              /\ UNCHANGED refused
         ELSE /\ refused' = refused \cup (DOMAIN pending \ DOMAIN pending')
                                    \cup {signal'.tid}
              /\ UNCHANGED saves

DeliverMeta(tid) ==
    /\ Meta(tid) \in wire
    /\ wire' = wire \ {Meta(tid)}
    /\ Far!OnMeta(tid, Chunks)
    /\ Outcome
    /\ UNCHANGED <<senderVars, counted, acked, early>>

AllButOne(indices) == Cardinality(indices) >= Chunks - 1
AllIn(indices) == Cardinality(indices) >= Chunks

\* A chunk: the reassembler gets it first, then it is counted, and the ACK
\* leaves with the last one, which also ends the count.
DeliverChunk(tid, i) ==
    LET indices == Value(counted, tid, {}) \cup {i}
    IN /\ Chunk(tid, i) \in wire
       /\ Far!OnChunkMessage(tid, i, Chunks, 1)
       /\ Outcome
       /\ early' = IF tid \in DOMAIN pending \cup refused \/ saves[tid] > 0
                   THEN early ELSE early \cup {tid}
       /\ IF AllIn(indices)
          THEN /\ wire' = (wire \ {Chunk(tid, i)}) \cup {Ack(tid)}
               /\ acked' = acked \cup {tid}
               /\ counted' = Remove(counted, {tid})
          ELSE /\ wire' = wire \ {Chunk(tid, i)}
               /\ counted' = Insert(counted, tid, indices)
               /\ UNCHANGED acked
       /\ UNCHANGED senderVars

Receive(d) ==
    \/ d = Meta(d.tid) /\ DeliverMeta(d.tid)
    \/ d = Ack(d.tid) /\ DeliverAck(d.tid)
    \/ d = Chunk(d.tid, d.idx) /\ DeliverChunk(d.tid, d.idx)

Tick == Far!Tick /\ UNCHANGED <<senderVars, wire, counted, history>>

PruneStaleTransfers ==
    /\ Far!PruneStaleTransfers
    /\ refused' = refused \cup Far!Stale
    /\ UNCHANGED <<senderVars, wire, counted, acked, early, saves>>

Lose(d) ==
    /\ d \in wire
    /\ wire' = wire \ {d}
    /\ UNCHANGED <<senderVars, counted, farVars, history>>

Init ==
    /\ alive = TRUE
    /\ cursor = [t \in Tids |-> 0]
    /\ outgoing = {}
    /\ wire = {}
    /\ counted = EmptyHash
    /\ Far!Init
    /\ acked = {}
    /\ early = {}
    /\ saves = [t \in Tids |-> 0]
    /\ refused = {}

Next ==
    \/ \E tid \in Tids : \/ SendFile(tid)
                         \/ SendChunksQueued(tid)
                         \/ AwaitAck(tid)
                         \/ Retransmit(tid)
    \/ \E d \in wire : Receive(d) \/ Lose(d)
    \/ Quit
    \/ Tick
    \/ PruneStaleTransfers

Spec == Init /\ [][Next]_vars

\* The sender's and the receiver's timers fire, and a datagram that is sent
\* again and again arrives in the end.
FairSpec ==
    /\ Spec
    /\ \A tid \in Tids : /\ WF_vars(SendChunksQueued(tid))
                         /\ WF_vars(AwaitAck(tid))
                         /\ WF_vars(Retransmit(tid))
    /\ \A d \in Datagrams : SF_vars(Receive(d))
    /\ WF_vars(Tick)
    /\ WF_vars(PruneStaleTransfers)
-----------------------------------------------------------------------------
(* Properties *)

\* An ACK promises a file that is written or refused, unless one of its chunks
\* overtook the announcement: the two records of the receiver, which share no
\* state, end together otherwise.
AckedAreSettled ==
    \A tid \in acked : saves[tid] > 0 \/ tid \in refused \/ tid \in early

\* Chunks sent again, for a lost ACK or before the wait for it began, never
\* write a file a second time.
SavedOnce == \A tid \in Tids : saves[tid] <= 1

\* The sender of every file learns in the end that its chunks arrived, as long
\* as the rate gate admits a whole burst.
Acknowledged ==
    \A tid \in Tids :
        cursor[tid] > 0 ~> (cursor[tid] > Chunks /\ tid \notin outgoing) \/ ~alive

\* "An ACK per transfer lets the sender retransmit on loss instead of silently
\* dropping the tail" (README.md): what the sender has stopped sending is
\* written, or refused.
AckMeansHandled ==
    \A tid \in Tids :
        cursor[tid] > Chunks /\ tid \notin outgoing =>
            saves[tid] > 0 \/ tid \in refused
=============================================================================
