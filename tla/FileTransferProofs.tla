------------------------- MODULE FileTransferProofs -------------------------
(***************************************************************************)
(* The two records a receiver keeps of one file never part: for any number *)
(* of files, chunks and datagrams, whatever is lost, late or sent again.   *)
(***************************************************************************)
EXTENDS FileTransfer, FiniteSetTheorems, TLAPS

\* The datagrams are the model's, and chunks carry indices of their file.
Typed ==
    /\ wire \subseteq Datagrams
    /\ cursor \in [Tids -> 0..(Chunks + 1)]
    /\ saves \in [Tids -> Nat]
    /\ DOMAIN pending \subseteq Tids
    /\ \A tid \in DOMAIN pending :
           /\ "chunks" \in DOMAIN pending[tid]
           /\ DOMAIN pending[tid].chunks \subseteq Indices

\* A file is announced once: where the announcement is still to come, nothing
\* has begun, and what is pending was not written before.
AnnouncedOnce ==
    \A tid \in Tids :
        /\ cursor[tid] = 0 => Meta(tid) \notin wire
        /\ cursor[tid] = 0 \/ Meta(tid) \in wire =>
               tid \notin DOMAIN pending /\ saves[tid] = 0
        /\ tid \in DOMAIN pending => saves[tid] = 0
        /\ saves[tid] <= 1

\* The last signal was counted.
SignalCounted ==
    /\ signal.kind = "rejected" => signal.tid \in refused
    /\ signal.kind = "saved" => signal.tid \in Tids /\ saves[signal.tid] > 0

\* Until a transfer is settled no ACK was sent for it, and every chunk counted
\* is one the reassembler has.
Settled(tid) == saves[tid] > 0 \/ tid \in refused \/ tid \in early
CountedAreHeld ==
    \A tid \in Tids :
        ~Settled(tid) =>
            /\ tid \notin acked
            /\ tid \in DOMAIN counted =>
                   /\ tid \in DOMAIN pending
                   /\ counted[tid] \subseteq DOMAIN pending[tid].chunks

AckedAreTids == acked \subseteq Tids

IInv == Typed /\ AnnouncedOnce /\ SignalCounted /\ CountedAreHeld /\ AckedAreTids
-----------------------------------------------------------------------------
LEMMA FarCardinality == ASSUME NEW S PROVE Far!Cardinality(S) = Cardinality(S)
  BY DEF Cardinality, Far!Cardinality

LEMMA IndicesFacts ==
    /\ Chunks \in Nat \ {0} /\ Batch \in Nat \ {0} /\ RateBurst \in Nat
    /\ IsFiniteSet(Indices)
<1>1. Chunks \in Nat \ {0} /\ Batch \in Nat \ {0} /\ RateBurst \in Nat
  BY FileTransferAssumption
<1>2. \A n \in Int : IsFiniteSet(0..n)
  BY FS_Interval
<1>3. Chunks - 1 \in Int
  BY <1>1
<1>4. QED
  BY <1>1, <1>2, <1>3 DEF Indices

\* What a datagram is tells it from every other.
LEMMA KindsDiffer ==
    ASSUME NEW t, NEW u, NEW i, NEW j
    PROVE  /\ Meta(t) # Chunk(u, i) /\ Meta(t) # Ack(u) /\ Ack(t) # Chunk(u, i)
           /\ Meta(t) = Meta(u) => t = u
           /\ Chunk(t, i) = Chunk(u, j) => t = u /\ i = j
  BY DEF Meta, Ack, Chunk

LEMMA InitHolds == Init => IInv
<1> SUFFICES ASSUME Init PROVE IInv
  OBVIOUS
<1>1. DOMAIN pending = {} /\ DOMAIN counted = {} /\ signal.kind = "none"
  BY DEF Init, Far!Init, Far!EmptyHash, EmptyHash, Far!NoSignal
<1>2. QED
  BY <1>1, IndicesFacts DEF Init, IInv, Typed, AnnouncedOnce, SignalCounted,
     CountedAreHeld, AckedAreTids

-----------------------------------------------------------------------------
(* The sender *)

\* What is sent, sent again, awaited or lost changes nothing the receiver has;
\* the announcement leaves with the first chunks and never again.
LEMMA SenderKeeps ==
    ASSUME IInv, UNCHANGED <<counted, farVars, history>>,
           cursor' \in [Tids -> 0..(Chunks + 1)], wire' \subseteq Datagrams,
           \A t \in Tids : \/ Meta(t) \in wire' => Meta(t) \in wire
                           \/ cursor[t] = 0 /\ cursor'[t] # 0,
           \A t \in Tids : cursor'[t] = 0 => cursor[t] = 0
    PROVE  IInv'
<1>1. Typed'
  BY DEF IInv, Typed, farVars, history, Indices
<1>2. AnnouncedOnce'
  BY DEF IInv, Typed, AnnouncedOnce, farVars, history
<1>3. SignalCounted' /\ CountedAreHeld' /\ AckedAreTids'
  BY DEF IInv, SignalCounted, CountedAreHeld, AckedAreTids, Settled, farVars, history
<1>4. QED
  BY <1>1, <1>2, <1>3 DEF IInv

LEMMA ChunksAreDatagrams ==
    ASSUME NEW tid \in Tids, NEW first \in Nat, NEW end \in Int, end <= Chunks
    PROVE  /\ ChunksOf(tid, first, end) \subseteq Datagrams
           /\ \A t : Meta(t) \notin ChunksOf(tid, first, end)
<1>1. \A i \in first..(end - 1) : i \in Indices
  BY IndicesFacts DEF Indices
<1>2. ChunksOf(tid, first, end) \subseteq Datagrams
  BY <1>1 DEF ChunksOf, Datagrams
<1>3. \A t : Meta(t) \notin ChunksOf(tid, first, end)
  BY KindsDiffer DEF ChunksOf
<1>4. QED
  BY <1>2, <1>3

LEMMA SendKeeps ==
    ASSUME IInv, NEW tid \in Tids,
           SendFile(tid) \/ SendChunksQueued(tid) \/ AwaitAck(tid) \/ Retransmit(tid)
    PROVE  IInv'
<1>1. /\ cursor \in [Tids -> 0..(Chunks + 1)] /\ wire \subseteq Datagrams
      /\ cursor[tid] \in 0..(Chunks + 1)
  BY DEF IInv, Typed
<1>2. CASE SendFile(tid)
  <2> DEFINE end == AtMost(Batch, Chunks)
  <2>1. end \in Nat /\ end <= Chunks /\ end # 0 /\ end \in 0..(Chunks + 1)
    BY IndicesFacts DEF AtMost
  <2>2. /\ cursor' = [cursor EXCEPT ![tid] = end] /\ cursor[tid] = 0
        /\ wire' = wire \cup {Meta(tid)} \cup ChunksOf(tid, 0, end)
        /\ UNCHANGED <<counted, farVars, history>>
    BY <1>2 DEF SendFile
  <2>3. Meta(tid) \in Datagrams
    BY DEF Datagrams
  <2> HIDE DEF end
  <2>4. wire' \subseteq Datagrams
    BY <1>1, <2>1, <2>2, <2>3, ChunksAreDatagrams
  <2>5. \A t \in Tids : t # tid => (Meta(t) \in wire' => Meta(t) \in wire)
    BY <2>1, <2>2, ChunksAreDatagrams, KindsDiffer
  <2>6. cursor' \in [Tids -> 0..(Chunks + 1)] /\ cursor'[tid] # 0
        /\ \A t \in Tids : t # tid => cursor'[t] = cursor[t]
    BY <1>1, <2>1, <2>2
  <2>7. QED
    BY <2>2, <2>4, <2>5, <2>6, SenderKeeps
<1>3. CASE SendChunksQueued(tid)
  <2> DEFINE end == AtMost(cursor[tid] + Batch, Chunks)
  <2>1. /\ cursor' = [cursor EXCEPT ![tid] = end] /\ cursor[tid] \in 1..(Chunks - 1)
        /\ wire' = wire \cup ChunksOf(tid, cursor[tid], end)
        /\ UNCHANGED <<counted, farVars, history>>
    BY <1>3 DEF SendChunksQueued
  <2>2. end \in Nat /\ end <= Chunks /\ end # 0 /\ end \in 0..(Chunks + 1)
    BY <2>1, IndicesFacts DEF AtMost
  <2> HIDE DEF end
  <2>3. /\ ChunksOf(tid, cursor[tid], end) \subseteq Datagrams
        /\ \A t : Meta(t) \notin ChunksOf(tid, cursor[tid], end)
    BY <2>1, <2>2, ChunksAreDatagrams
  <2>4. cursor' \in [Tids -> 0..(Chunks + 1)] /\ cursor'[tid] # 0
        /\ \A t \in Tids : t # tid => cursor'[t] = cursor[t]
    BY <1>1, <2>1, <2>2
  <2>5. QED
    BY <1>1, <2>1, <2>3, <2>4, SenderKeeps
<1>4. CASE AwaitAck(tid)
  <2>1. /\ cursor' = [cursor EXCEPT ![tid] = Chunks + 1] /\ wire' = wire
        /\ UNCHANGED <<counted, farVars, history>>
    BY <1>4 DEF AwaitAck
  <2>2. Chunks + 1 \in 0..(Chunks + 1) /\ Chunks + 1 # 0
    BY IndicesFacts
  <2>3. cursor' \in [Tids -> 0..(Chunks + 1)] /\ cursor'[tid] # 0
        /\ \A t \in Tids : t # tid => cursor'[t] = cursor[t]
    BY <1>1, <2>1, <2>2
  <2>4. QED
    BY <1>1, <2>1, <2>3, SenderKeeps
<1>5. CASE Retransmit(tid)
  <2> DEFINE end == AtMost(RateBurst, Chunks)
  <2>1. /\ cursor' = cursor /\ wire' = wire \cup ChunksOf(tid, 0, end)
        /\ UNCHANGED <<counted, farVars, history>>
    BY <1>5 DEF Retransmit, senderVars
  <2>2. end \in Int /\ end <= Chunks
    BY IndicesFacts DEF AtMost
  <2> HIDE DEF end
  <2>3. /\ ChunksOf(tid, 0, end) \subseteq Datagrams
        /\ \A t : Meta(t) \notin ChunksOf(tid, 0, end)
    BY <2>2, ChunksAreDatagrams
  <2>4. QED
    BY <1>1, <2>1, <2>3, SenderKeeps
<1>6. QED
  BY <1>2, <1>3, <1>4, <1>5

LEMMA OthersKeep ==
    ASSUME IInv,
           \/ Quit
           \/ \E tid : DeliverAck(tid)
           \/ \E d \in wire : Lose(d)
    PROVE  IInv'
<1>1. /\ cursor' = cursor /\ wire' \subseteq wire
      /\ UNCHANGED <<counted, farVars, history>>
  BY DEF Quit, DeliverAck, Lose, senderVars
<1>2. QED
  BY <1>1, SenderKeeps DEF IInv, Typed

-----------------------------------------------------------------------------
(* The receiver *)

\* The announcement comes once: it begins the transfer, or ends it.
LEMMA MetaKeeps ==
    ASSUME IInv, NEW tid \in Tids, DeliverMeta(tid)
    PROVE  IInv'
<1>1. /\ Meta(tid) \in wire /\ wire' = wire \ {Meta(tid)}
      /\ tid \notin DOMAIN pending /\ saves[tid] = 0
      /\ UNCHANGED <<alive, cursor, outgoing, counted, acked, early>>
      /\ UNCHANGED <<maxTransfer, sinceSweep>>
  BY DEF DeliverMeta, IInv, AnnouncedOnce, Far!OnMeta, senderVars
<1>2. CASE /\ UNCHANGED signal
           /\ \E t : /\ "chunks" \in DOMAIN t /\ t.chunks = Far!EmptyHash
                     /\ pending' = Far!Insert(pending, tid, t)
  <2>1. UNCHANGED <<saves, refused>>
    BY <1>2 DEF DeliverMeta, Outcome
  <2>2. /\ DOMAIN pending' = DOMAIN pending \cup {tid}
        /\ "chunks" \in DOMAIN pending'[tid] /\ DOMAIN pending'[tid].chunks = {}
        /\ \A u \in DOMAIN pending : u # tid => pending'[u] = pending[u]
    BY <1>2 DEF Far!Insert, Far!EmptyHash
  <2>3. Typed'
    BY <1>1, <2>1, <2>2 DEF IInv, Typed, Indices
  <2>4. AnnouncedOnce'
    BY <1>1, <2>1, <2>2, KindsDiffer DEF IInv, Typed, AnnouncedOnce
  <2>5. SignalCounted' /\ AckedAreTids'
    BY <1>1, <1>2, <2>1 DEF IInv, SignalCounted, AckedAreTids
  <2>6. CountedAreHeld'
    BY <1>1, <2>1, <2>2 DEF IInv, Typed, CountedAreHeld, Settled
  <2>7. QED
    BY <2>3, <2>4, <2>5, <2>6 DEF IInv
<1>3. CASE signal' = Far!Rejected(tid) /\ UNCHANGED pending
  <2>1. UNCHANGED saves /\ refused \subseteq refused' /\ tid \in refused'
    BY <1>3 DEF DeliverMeta, Outcome, Far!Rejected, IInv, SignalCounted
  <2>2. Typed'
    BY <1>1, <1>3, <2>1 DEF IInv, Typed, Indices
  <2>3. AnnouncedOnce'
    BY <1>1, <1>3, <2>1, KindsDiffer DEF IInv, Typed, AnnouncedOnce
  <2>4. SignalCounted' /\ AckedAreTids'
    BY <1>1, <1>3, <2>1 DEF IInv, SignalCounted, AckedAreTids, Far!Rejected
  <2>5. CountedAreHeld'
    BY <1>1, <1>3, <2>1 DEF IInv, CountedAreHeld, Settled
  <2>6. QED
    BY <2>2, <2>3, <2>4, <2>5 DEF IInv
<1>4. QED
  <2>1. \/ pending' = Far!Insert(pending, tid,
                          [total |-> -1, announced |-> Chunks, received |-> 0,
                           chunks |-> Far!EmptyHash, age |-> 0]) /\ UNCHANGED signal
        \/ signal' = Far!Rejected(tid) /\ UNCHANGED pending
    BY DEF DeliverMeta, Far!OnMeta
  <2>2. QED
    BY <1>2, <1>3, <2>1

\* A chunk of a transfer the reassembler has either ends the transfer, and is
\* counted as its end, or is held; one it has not is ignored.
LEMMA ChunkEffect ==
    ASSUME IInv, NEW tid \in Tids, NEW i \in Indices, DeliverChunk(tid, i)
    PROVE  \/ /\ UNCHANGED <<pending, signal, saves, refused>>
              /\ tid \notin DOMAIN pending
           \/ /\ pending' = Far!Remove(pending, {tid}) /\ tid \in DOMAIN pending
              /\ \/ /\ signal' = Far!Rejected(tid) /\ UNCHANGED saves
                    /\ refused' = refused \cup {tid}
                 \/ /\ signal' = Far!Saved(tid) /\ UNCHANGED refused
                    /\ saves' = [saves EXCEPT ![tid] = @ + 1]
           \/ /\ UNCHANGED <<signal, saves, refused>>
              /\ tid \in DOMAIN pending /\ DOMAIN pending' = DOMAIN pending
              /\ \A u \in DOMAIN pending : u # tid => pending'[u] = pending[u]
              /\ "chunks" \in DOMAIN pending'[tid]
              /\ DOMAIN pending'[tid].chunks = DOMAIN pending[tid].chunks \cup {i}
              /\ ~(Cardinality(DOMAIN pending[tid].chunks \cup {i}) >= Chunks)
<1>1. i \in 0..(Chunks - 1)
  BY DEF Indices
<1>2. CASE tid \notin DOMAIN pending
  BY <1>2 DEF DeliverChunk, Far!OnChunkMessage, Far!Ignored, Outcome
<1>3. CASE tid \in DOMAIN pending /\ Far!End(tid, Far!Rejected(tid))
  <2>1. pending' = Far!Remove(pending, {tid}) /\ signal' = Far!Rejected(tid)
    BY <1>3 DEF Far!End, Far!Without
  <2>2. DOMAIN pending \ DOMAIN pending' = {tid}
    BY <1>3, <2>1 DEF Far!Remove
  <2>3. /\ UNCHANGED saves
        /\ refused' = refused \cup {tid}
    BY <2>1, <2>2 DEF DeliverChunk, Outcome, Far!Rejected, IInv, SignalCounted
  <2>4. QED
    BY <1>3, <2>1, <2>3
<1>4. CASE tid \in DOMAIN pending /\ Far!End(tid, Far!Saved(tid))
  <2>1. pending' = Far!Remove(pending, {tid}) /\ signal' = Far!Saved(tid)
    BY <1>4 DEF Far!End, Far!Without
  <2>2. signal' # signal
    BY <1>4, <2>1 DEF IInv, SignalCounted, AnnouncedOnce, Typed, Far!Saved
  <2>3. UNCHANGED refused /\ saves' = [saves EXCEPT ![tid] = @ + 1]
    BY <2>1, <2>2 DEF DeliverChunk, Outcome, Far!Saved
  <2>4. QED
    BY <1>4, <2>1, <2>3
<1>5. CASE LET t == pending[tid]
               chunks == Far!Insert(t.chunks, i, 1)
           IN  /\ tid \in DOMAIN pending
               /\ ~Far!Complete(chunks, Chunks)
               /\ pending' = [pending EXCEPT
                      ![tid].total = Chunks,
                      ![tid].received = Far!Received(t, i, 1),
                      ![tid].chunks = chunks]
               /\ UNCHANGED signal
  <2> DEFINE chunks == Far!Insert(pending[tid].chunks, i, 1)
  <2>1. DOMAIN chunks = DOMAIN pending[tid].chunks \cup {i}
    BY DEF Far!Insert
  <2>2. ~(Cardinality(DOMAIN chunks) >= Chunks)
    BY <1>5, FarCardinality DEF Far!Complete
  <2>3. UNCHANGED <<saves, refused>>
    BY <1>5 DEF DeliverChunk, Outcome
  <2>4. /\ DOMAIN pending' = DOMAIN pending
        /\ \A u \in DOMAIN pending : u # tid => pending'[u] = pending[u]
    BY <1>5
  <2>5. "chunks" \in DOMAIN pending'[tid] /\ DOMAIN pending'[tid].chunks = DOMAIN chunks
    <3> DEFINE t == pending[tid]
               t1 == [t EXCEPT !.total = Chunks]
               t2 == [t1 EXCEPT !.received = Far!Received(t, i, 1)]
               t3 == [t2 EXCEPT !.chunks = chunks]
    <3>1. "chunks" \in DOMAIN t
      BY <1>5 DEF IInv, Typed
    <3>2. DOMAIN t1 = DOMAIN t /\ DOMAIN t2 = DOMAIN t1
      OBVIOUS
    <3>3. pending'[tid] = t3
      BY <1>5
    <3> HIDE DEF chunks, t, t1, t2
    <3>4. DOMAIN t3 = DOMAIN t2 /\ t3.chunks = chunks
      BY <3>1, <3>2
    <3>5. QED
      BY <3>1, <3>2, <3>3, <3>4
  <2>6. QED
    BY <1>5, <2>1, <2>2, <2>3, <2>4, <2>5
<1>6. QED
  BY <1>1, <1>2, <1>3, <1>4, <1>5 DEF DeliverChunk, Far!OnChunkMessage, Far!Ignored

LEMMA ChunkKeeps ==
    ASSUME IInv, NEW tid \in Tids, NEW i \in Indices, DeliverChunk(tid, i)
    PROVE  IInv'
<1> DEFINE indices == Value(counted, tid, {}) \cup {i}
<1>1. /\ cursor' = cursor /\ early \subseteq early'
      /\ tid \notin early' => tid \in DOMAIN pending \/ tid \in refused \/ saves[tid] > 0
      /\ wire' \subseteq wire \cup {Ack(tid)}
      /\ acked' \subseteq acked \cup {tid}
      /\ \A u \in Tids : u # tid =>
             /\ u \in DOMAIN counted' <=> u \in DOMAIN counted
             /\ u \in DOMAIN counted => counted'[u] = counted[u]
  BY DEF DeliverChunk, senderVars, Insert, Remove
<1>2. /\ saves \in [Tids -> Nat] /\ saves[tid] \in Nat
      /\ tid \in DOMAIN pending => saves[tid] = 0
  BY DEF IInv, Typed, AnnouncedOnce
<1>3. /\ saves' \in [Tids -> Nat] /\ \A u \in Tids : u # tid => saves'[u] = saves[u]
      /\ saves'[tid] >= saves[tid] /\ refused \subseteq refused'
      /\ saves'[tid] > 0 \/ saves'[tid] = saves[tid]
      /\ saves'[tid] = saves[tid] \/ (tid \in DOMAIN pending /\ saves'[tid] = 1)
  <2>1. CASE UNCHANGED saves /\ refused \subseteq refused'
    BY <1>2, <2>1
  <2>2. CASE /\ saves' = [saves EXCEPT ![tid] = @ + 1] /\ tid \in DOMAIN pending
             /\ refused' = refused
    <3>1. saves'[tid] = 1 /\ \A u \in Tids : u # tid => saves'[u] = saves[u]
      BY <1>2, <2>2
    <3>2. QED
      BY <1>2, <2>2, <3>1
  <2>3. QED
    BY <2>1, <2>2, ChunkEffect
<1>4. /\ DOMAIN pending' \subseteq DOMAIN pending
      /\ \A u \in DOMAIN pending : u # tid =>
             u \in DOMAIN pending' /\ pending'[u] = pending[u]
      /\ tid \in DOMAIN pending' =>
             /\ saves'[tid] = saves[tid] /\ "chunks" \in DOMAIN pending'[tid]
             /\ DOMAIN pending'[tid].chunks = DOMAIN pending[tid].chunks \cup {i}
             /\ ~(Cardinality(DOMAIN pending[tid].chunks \cup {i}) >= Chunks)
  <2>1. CASE UNCHANGED pending /\ tid \notin DOMAIN pending
    BY <2>1
  <2>2. CASE pending' = Far!Remove(pending, {tid})
    BY <2>2 DEF Far!Remove
  <2>3. CASE /\ UNCHANGED saves
             /\ tid \in DOMAIN pending /\ DOMAIN pending' = DOMAIN pending
             /\ \A u \in DOMAIN pending : u # tid => pending'[u] = pending[u]
             /\ "chunks" \in DOMAIN pending'[tid]
             /\ DOMAIN pending'[tid].chunks = DOMAIN pending[tid].chunks \cup {i}
             /\ ~(Cardinality(DOMAIN pending[tid].chunks \cup {i}) >= Chunks)
    BY <2>3
  <2>4. QED
    BY <2>1, <2>2, <2>3, ChunkEffect
<1>5. Typed'
  <2>1. wire' \subseteq Datagrams
    BY <1>1 DEF IInv, Typed, Datagrams
  <2>2. \A u \in DOMAIN pending' :
            "chunks" \in DOMAIN pending'[u] /\ DOMAIN pending'[u].chunks \subseteq Indices
    BY <1>4 DEF IInv, Typed
  <2>3. QED
    BY <1>1, <1>3, <1>4, <2>1, <2>2 DEF IInv, Typed, Indices
<1>6. AnnouncedOnce'
  <2>1. \A t \in Tids : Meta(t) \in wire' => Meta(t) \in wire
    BY <1>1, KindsDiffer
  <2>2. QED
    BY <1>1, <1>2, <1>3, <1>4, <2>1 DEF IInv, Typed, AnnouncedOnce
<1>7. SignalCounted' /\ AckedAreTids'
  <2>1. AckedAreTids'
    BY <1>1 DEF IInv, AckedAreTids
  <2>2. SignalCounted'
    <3>1. CASE UNCHANGED signal
      BY <1>3, <3>1, <1>2 DEF IInv, SignalCounted, Typed
    <3>2. CASE signal' = Far!Rejected(tid) /\ refused' = refused \cup {tid}
      BY <3>2 DEF Far!Rejected, SignalCounted
    <3>3. CASE signal' = Far!Saved(tid) /\ saves' = [saves EXCEPT ![tid] = @ + 1]
      BY <1>2, <3>3 DEF Far!Saved, SignalCounted
    <3>4. QED
      BY <3>1, <3>2, <3>3, ChunkEffect
  <2>3. QED
    BY <2>1, <2>2
<1>8. CountedAreHeld'
  <2> SUFFICES ASSUME NEW u \in Tids, ~Settled(u)'
               PROVE  /\ u \notin acked'
                      /\ u \in DOMAIN counted' =>
                             /\ u \in DOMAIN pending'
                             /\ counted'[u] \subseteq DOMAIN pending'[u].chunks
    BY DEF CountedAreHeld
  <2>1. ~Settled(u)
    BY <1>1, <1>2, <1>3 DEF Settled
  <2>2. CASE u # tid
    BY <1>1, <1>4, <2>1, <2>2 DEF IInv, CountedAreHeld
  <2>3. CASE u = tid
    <3>1. tid \in DOMAIN pending
      BY <1>1, <2>1, <2>3 DEF Settled
    <3>2. tid \in DOMAIN pending'
      <4>1. ~(saves'[tid] > 0) /\ tid \notin refused'
        BY <2>3 DEF Settled
      <4>2. saves' = [saves EXCEPT ![tid] = @ + 1] => saves'[tid] > 0
        BY <1>2
      <4>3. QED
        BY <3>1, <4>1, <4>2, ChunkEffect
    <3>3. DOMAIN pending'[tid].chunks = DOMAIN pending[tid].chunks \cup {i}
      BY <1>4, <3>2
    <3>4. indices \subseteq DOMAIN pending'[tid].chunks
      BY <2>1, <2>3, <3>3 DEF IInv, CountedAreHeld, Value
    <3>5. ~AllIn(indices)
      <4>1. DOMAIN pending'[tid].chunks \subseteq Indices
        BY <1>5, <3>2 DEF Typed, Indices
      <4>2. /\ IsFiniteSet(DOMAIN pending'[tid].chunks)
            /\ Cardinality(DOMAIN pending'[tid].chunks) \in Nat
        BY <4>1, IndicesFacts, FS_Subset, FS_CardinalityType
      <4>3. /\ Cardinality(indices) <= Cardinality(DOMAIN pending'[tid].chunks)
            /\ Cardinality(indices) \in Nat
        BY <3>4, <4>2, FS_Subset, FS_CardinalityType
      <4>4. ~(Cardinality(DOMAIN pending'[tid].chunks) >= Chunks)
        BY <1>4, <3>2, <3>3
      <4> HIDE DEF indices
      <4>5. QED
        BY <4>2, <4>3, <4>4, IndicesFacts DEF AllIn
    <3>6. counted' = Insert(counted, tid, indices) /\ acked' = acked
      BY <3>5 DEF DeliverChunk
    <3>7. u \notin acked
      BY <2>1 DEF IInv, CountedAreHeld
    <3> HIDE DEF indices
    <3>8. counted'[tid] = indices
      BY <3>6 DEF Insert
    <3>9. QED
      BY <2>3, <3>2, <3>4, <3>6, <3>7, <3>8
  <2>4. QED
    BY <2>2, <2>3
<1>9. QED
  BY <1>5, <1>6, <1>7, <1>8 DEF IInv

LEMMA ReceiveKeeps ==
    ASSUME IInv, NEW d \in wire, Receive(d)
    PROVE  IInv'
<1>1. d \in Datagrams
  BY DEF IInv, Typed
<1>2. CASE d = Meta(d.tid) /\ DeliverMeta(d.tid)
  <2>1. d.tid \in Tids
    BY <1>1, <1>2 DEF Datagrams, Meta, Ack, Chunk
  <2>2. QED
    BY <1>2, <2>1, MetaKeeps
<1>3. CASE DeliverAck(d.tid)
  BY <1>3, OthersKeep
<1>4. CASE d = Chunk(d.tid, d.idx) /\ DeliverChunk(d.tid, d.idx)
  <2>1. d.tid \in Tids /\ d.idx \in Indices
    BY <1>1, <1>4 DEF Datagrams, Meta, Ack, Chunk
  <2>2. QED
    BY <1>4, <2>1, ChunkKeeps
<1>5. QED
  BY <1>2, <1>3, <1>4 DEF Receive

\* Time ages what is pending, and the sweep refuses what is too old.
LEMMA TimeKeeps ==
    ASSUME IInv, Tick \/ PruneStaleTransfers
    PROVE  IInv'
<1>1. /\ UNCHANGED <<cursor, wire, counted, acked, early, saves>>
      /\ refused \subseteq refused'
      /\ DOMAIN pending' \subseteq DOMAIN pending
      /\ \A u \in DOMAIN pending' :
             "chunks" \in DOMAIN pending'[u] /\ pending'[u].chunks = pending[u].chunks
      /\ DOMAIN pending \ DOMAIN pending' \subseteq refused'
      /\ signal' = signal \/ \E u \in refused' : signal' = Far!Rejected(u)
  <2>1. CASE Tick
    <3>1. /\ UNCHANGED <<cursor, wire, counted, acked, early, saves, refused, signal>>
          /\ pending' = [u \in DOMAIN pending |->
                            [pending[u] EXCEPT !.age = Far!Older(@)]]
      BY <2>1 DEF Tick, Far!Tick, senderVars, history
    <3>2. ASSUME NEW u \in DOMAIN pending
          PROVE  "chunks" \in DOMAIN pending'[u] /\ pending'[u].chunks = pending[u].chunks
      <4> DEFINE t == pending[u]
      <4>1. "chunks" \in DOMAIN t /\ pending'[u] = [t EXCEPT !.age = Far!Older(@)]
        BY <3>1 DEF IInv, Typed
      <4> HIDE DEF t
      <4>2. QED
        BY <4>1 DEF t
    <3>3. QED
      BY <3>1, <3>2
  <2>2. CASE PruneStaleTransfers
    <3>1. /\ UNCHANGED <<cursor, wire, counted, acked, early, saves>>
          /\ refused' = refused \cup Far!Stale
          /\ pending' = Far!Remove(pending, Far!Stale)
          /\ signal' = signal \/ \E u \in Far!Stale : signal' = Far!Rejected(u)
      BY <2>2 DEF PruneStaleTransfers, Far!PruneStaleTransfers, senderVars
    <3>2. QED
      BY <3>1 DEF Far!Remove, IInv, Typed
  <2>3. QED
    BY <2>1, <2>2
<1>2. Typed'
  BY <1>1 DEF IInv, Typed, Indices
<1>3. AnnouncedOnce'
  BY <1>1 DEF IInv, AnnouncedOnce
<1>4. SignalCounted' /\ AckedAreTids'
  BY <1>1 DEF IInv, SignalCounted, AckedAreTids, Far!Rejected
<1>5. CountedAreHeld'
  BY <1>1 DEF IInv, CountedAreHeld, Settled
<1>6. QED
  BY <1>2, <1>3, <1>4, <1>5 DEF IInv

LEMMA NextKeeps == IInv /\ [Next]_vars => IInv'
<1> SUFFICES ASSUME IInv, [Next]_vars PROVE IInv'
  OBVIOUS
<1>1. CASE UNCHANGED vars
  <2>1. cursor' = cursor /\ wire' = wire /\ UNCHANGED <<counted, farVars, history>>
    BY <1>1 DEF vars, senderVars
  <2>2. QED
    BY <2>1, SenderKeeps DEF IInv, Typed
<1>2. QED
  BY <1>1, SendKeeps, OthersKeep, ReceiveKeeps, TimeKeeps DEF Next

LEMMA SpecHolds == Spec => []IInv
  BY InitHolds, NextKeeps, PTL DEF Spec
-----------------------------------------------------------------------------
\* No file is written twice, however its chunks are sent again
\* (NetworkManager::sendFileInternal, FileTransferHandler::onChunkMessage).
THEOREM SavedAtMostOnce == Spec => []SavedOnce
<1>1. IInv => SavedOnce
  BY DEF IInv, AnnouncedOnce, SavedOnce
<1>2. QED
  BY <1>1, SpecHolds, PTL

\* An ACK is sent only for a file that was written or refused, or one a chunk
\* of which overtook its announcement, though the two records of the receiver
\* share no state (NetworkManager::handleDatagram, FileTransferHandler).
THEOREM AckedAlwaysSettled == Spec => []AckedAreSettled
<1>1. IInv => AckedAreSettled
  BY DEF IInv, CountedAreHeld, AckedAreTids, Settled, AckedAreSettled
<1>2. QED
  BY <1>1, SpecHolds, PTL
=============================================================================
