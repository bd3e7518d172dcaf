---------------------------- MODULE CallsProofs ----------------------------
(***************************************************************************)
(* The theorems of Calls.  Every function of VoiceLine keeps LineInv, so   *)
(* every step of Calls does; and every pending request carries an act of   *)
(* the user that nothing has spent.                                        *)
(***************************************************************************)
EXTENDS Calls, TLAPS

LineInv(v) ==
    /\ Types(v)
    /\ PointersLive(v)
    /\ CallsAreConnected(v)
    /\ MicrophoneOnlyInCalls(v)

\* disconnectVoice() of some peers, where what it leaves is still consistent
\* but for the calls of those peers, and touches none of the rest.
LEMMA DisconnectKeepsPointers ==
    ASSUME NEW v, Types(v), PointersLive(v), NEW ps, NEW quick
    PROVE  LET w == DisconnectVoice(v, ps, quick)
           IN /\ Types(w)
              /\ PointersLive(w)
              /\ w.active = v.active
              /\ w.running = v.running
              /\ w.stillborn = v.stillborn
              /\ DOMAIN w.voice = DOMAIN v.voice \ ps
              /\ DOMAIN w.dialing = DOMAIN v.dialing \ ps
<1> DEFINE w == DisconnectVoice(v, ps, quick)
<1>0. DOMAIN v = {"active", "running", "socks", "voice", "dialing", "buffers",
                   "stillborn"}
  BY DEF Types, Idle
<1>1. /\ DOMAIN w = DOMAIN v
      /\ w.active = v.active
      /\ w.running = v.running
      /\ w.stillborn = v.stillborn
      /\ w.voice = Remove(v.voice, ps)
      /\ w.dialing = Remove(v.dialing, ps)
      /\ w.buffers = v.buffers \ Values(v.voice, ps)
      /\ w.socks = Disconnecting(v, ps, quick)
  BY <1>0 DEF DisconnectVoice
<1> HIDE DEF w
<1>2. /\ DOMAIN w.socks = DOMAIN v.socks \ Aborted(v, ps, quick)
      /\ \A s \in DOMAIN w.socks :
            /\ w.socks[s] =
                  [peer |-> v.socks[s].peer,
                   phase |-> IF s \in Lingering(v, ps, quick) THEN "closing"
                             ELSE v.socks[s].phase]
            /\ w.socks[s].peer = v.socks[s].peer
            /\ s \in Lingering(v, ps, quick) => w.socks[s].phase = "closing"
            /\ s \notin Lingering(v, ps, quick) =>
                   w.socks[s].phase = v.socks[s].phase
  BY <1>1 DEF Disconnecting
<1>3. \A s \in DOMAIN v.socks : v.socks[s].peer \in Peers /\ v.socks[s].phase \in Phases
  BY DEF Types, IsHash
<1>4. Types(w)
  <2>1. IsHash(w.socks, Socks, [peer : Peers, phase : Phases])
    <3>1. ASSUME NEW s \in DOMAIN w.socks
          PROVE  w.socks[s] \in [peer : Peers, phase : Phases]
      <4>1. v.socks[s].peer \in Peers /\ v.socks[s].phase \in Phases
        BY <1>2, <1>3
      <4>2. "closing" \in Phases
        BY DEF Phases
      <4>3. PICK q \in Peers, f \in Phases : w.socks[s] = [peer |-> q, phase |-> f]
        BY <4>1, <4>2, <1>2
      <4>4. QED
        BY <4>3
    <3>2. DOMAIN w.socks \subseteq Socks
      BY <1>2 DEF Types, IsHash
    <3>3. QED
      BY <3>1, <3>2 DEF IsHash
  <2>2. IsHash(w.voice, Peers, Socks) /\ IsHash(w.dialing, Peers, Socks)
    BY <1>1 DEF Types, IsHash, Remove
  <2>3. QED
    BY <1>1, <2>1, <2>2 DEF Types
<1>5. PointersLive(w)
  <2>1. ASSUME NEW p \in DOMAIN w.voice
        PROVE  Leads(w, w.voice[p], p, "open")
    <3>1. p \in DOMAIN v.voice /\ p \notin ps /\ w.voice[p] = v.voice[p]
      BY <2>1, <1>1 DEF Remove
    <3>2. Leads(v, v.voice[p], p, "open")
      BY <3>1 DEF PointersLive
    <3>3. v.voice[p] \notin Aborted(v, ps, quick) \cup Lingering(v, ps, quick)
      BY <3>1, <3>2 DEF PointersLive, Leads, Aborted, Lingering, Values
    <3>4. QED
      BY <3>1, <3>2, <3>3, <1>2 DEF Leads
  <2>2. ASSUME NEW p \in DOMAIN w.dialing
        PROVE  Leads(w, w.dialing[p], p, "dialing")
    <3>1. p \in DOMAIN v.dialing /\ p \notin ps /\ w.dialing[p] = v.dialing[p]
      BY <2>2, <1>1 DEF Remove
    <3>2. Leads(v, v.dialing[p], p, "dialing")
      BY <3>1 DEF PointersLive
    <3>3. v.dialing[p] \notin Aborted(v, ps, quick) \cup Lingering(v, ps, quick)
      BY <3>1, <3>2 DEF PointersLive, Leads, Aborted, Lingering, Values
    <3>4. QED
      BY <3>1, <3>2, <3>3, <1>2 DEF Leads
  <2>3. ASSUME NEW s \in w.buffers
        PROVE  s \in DOMAIN w.socks /\ w.socks[s].phase # "dialing"
    <3>1. s \in v.buffers /\ s \notin Values(v.voice, ps)
      BY <2>3, <1>1
    <3>2. s \in DOMAIN v.socks /\ v.socks[s].phase # "dialing"
      BY <3>1 DEF PointersLive
    <3>3. s \notin Values(v.dialing, ps)
      BY <3>2 DEF PointersLive, Leads, Values
    <3>4. s \notin Aborted(v, ps, quick)
      BY <3>1, <3>3 DEF Aborted, Values
    <3>5. QED
      BY <3>2, <3>4, <1>2
  <2>4. QED
    BY <2>1, <2>2, <2>3 DEF PointersLive
<1>6. QED
  BY <1>1, <1>4, <1>5 DEF Remove, w

\* hangup() needs no connection for the calls it ends, and leaves the rest as
\* they were.
LEMMA HangupKeepsInv ==
    ASSUME NEW v, Types(v), PointersLive(v), MicrophoneOnlyInCalls(v),
           NEW ps, NEW quick,
           v.active \ ps \subseteq DOMAIN v.voice \cup DOMAIN v.dialing \cup v.stillborn
    PROVE  LineInv(Hangup(v, ps, quick))
<1> DEFINE ours == ps \cap v.active
           d == DisconnectVoice(v, ours, quick)
           w == Hangup(v, ps, quick)
<1>1. /\ Types(d)
      /\ PointersLive(d)
      /\ d.active = v.active
      /\ d.running = v.running
      /\ d.stillborn = v.stillborn
      /\ DOMAIN d.voice = DOMAIN v.voice \ ours
      /\ DOMAIN d.dialing = DOMAIN v.dialing \ ours
  BY DisconnectKeepsPointers
<1>2. w = [d EXCEPT !.active = v.active \ ps,
                    !.running = @ /\ (ours = {} \/ v.active \ ps # {}),
                    !.stillborn = @ \ ours]
  BY DEF Hangup
<1> HIDE DEF d
<1>3. DOMAIN d = {"active", "running", "socks", "voice", "dialing", "buffers",
                   "stillborn"}
  BY <1>1 DEF Types, Idle
<1> HIDE DEF ours, w
<1>4. /\ DOMAIN w = DOMAIN d
      /\ w.active = v.active \ ps
      /\ w.stillborn = d.stillborn \ ours
      /\ w.socks = d.socks
      /\ w.voice = d.voice
      /\ w.dialing = d.dialing
      /\ w.buffers = d.buffers
      /\ w.running = (d.running /\ (ours = {} \/ v.active \ ps # {}))
  BY <1>2, <1>3
<1>5. Types(w)
  <2>1. w.running \in BOOLEAN
    BY <1>4
  <2>2. QED
    BY <1>1, <1>4, <2>1 DEF Types
<1>6. PointersLive(w)
  BY <1>1, <1>4 DEF PointersLive, Leads
<1>7. CallsAreConnected(w)
  BY <1>1, <1>4 DEF CallsAreConnected, ours
<1>8. MicrophoneOnlyInCalls(w)
  BY <1>1, <1>4 DEF MicrophoneOnlyInCalls, ours, Types
<1>9. QED
  BY <1>5, <1>6, <1>7, <1>8 DEF LineInv, w

\* A connection is filed for p in a socket that no map knows.
LEMMA ReplaceKeepsInv ==
    ASSUME NEW v, Types(v), PointersLive(v), MicrophoneOnlyInCalls(v),
           NEW p \in Peers, NEW s \in Socks,
           v.active \subseteq DOMAIN v.voice \cup DOMAIN v.dialing \cup v.stillborn \cup {p},
           \A q \in DOMAIN v.voice : v.voice[q] # s,
           \A q \in DOMAIN v.dialing : v.dialing[q] # s,
           s \notin v.buffers
    PROVE  LineInv(ReplaceVoiceSocket(v, p, s))
<1> DEFINE w == ReplaceVoiceSocket(v, p, s)
           previous == Values(v.voice, {p}) \ {s}
           new == [peer |-> p, phase |-> "open"]
<1>1. DOMAIN v = {"active", "running", "socks", "voice", "dialing", "buffers",
                   "stillborn"}
  BY DEF Types, Idle
<1>2. /\ DOMAIN w = DOMAIN v
      /\ w.active = v.active
      /\ w.running = v.running
      /\ w.stillborn = v.stillborn
      /\ w.dialing = v.dialing
      /\ w.voice = Insert(v.voice, p, s)
      /\ w.buffers = v.buffers \ previous
      /\ w.socks = Insert(Remove(v.socks, previous), s, new)
  BY <1>1 DEF ReplaceVoiceSocket
<1>3. new \in [peer : Peers, phase : Phases] /\ new.peer = p /\ new.phase = "open"
  BY DEF Phases
<1> HIDE DEF w, new
<1>4. /\ DOMAIN w.socks = (DOMAIN v.socks \ previous) \cup {s}
      /\ w.socks[s] = new
      /\ \A t \in DOMAIN v.socks \ previous : t # s => w.socks[t] = v.socks[t]
  BY <1>2 DEF Insert, Remove
<1>5. /\ DOMAIN w.voice = DOMAIN v.voice \cup {p}
      /\ w.voice[p] = s
      /\ \A q \in DOMAIN v.voice : q # p => w.voice[q] = v.voice[q]
  BY <1>2 DEF Insert
<1>6. \A t \in previous : p \in DOMAIN v.voice /\ t = v.voice[p]
  BY DEF Values
<1>7. Types(w)
  <2>1. IsHash(w.socks, Socks, [peer : Peers, phase : Phases])
    BY <1>3, <1>4 DEF IsHash, Types
  <2>2. IsHash(w.voice, Peers, Socks)
    BY <1>5 DEF IsHash, Types
  <2>3. QED
    BY <1>2, <2>1, <2>2 DEF Types
<1>8. PointersLive(w)
  <2>1. ASSUME NEW q \in DOMAIN w.voice
        PROVE  Leads(w, w.voice[q], q, "open")
    <3>1. CASE q = p
      BY <3>1, <1>3, <1>4, <1>5 DEF Leads
    <3>2. CASE q # p
      <4>1. q \in DOMAIN v.voice /\ w.voice[q] = v.voice[q]
        BY <3>2, <1>5
      <4>2. Leads(v, v.voice[q], q, "open")
        BY <4>1 DEF PointersLive
      <4>3. v.voice[q] # s
        BY <4>1
      <4>4. SUFFICES ASSUME v.voice[q] \in previous PROVE FALSE
        BY <4>1, <4>2, <4>3, <1>4 DEF Leads
      <4>5. p \in DOMAIN v.voice /\ v.voice[q] = v.voice[p]
        BY <4>4, <1>6
      <4>6. Leads(v, v.voice[p], p, "open")
        BY <4>5 DEF PointersLive
      <4>7. QED
        BY <4>2, <4>5, <4>6, <3>2 DEF Leads
    <3>3. QED
      BY <3>1, <3>2
  <2>2. ASSUME NEW q \in DOMAIN w.dialing
        PROVE  Leads(w, w.dialing[q], q, "dialing")
    <3>1. Leads(v, v.dialing[q], q, "dialing") /\ v.dialing[q] # s
      BY <1>2 DEF PointersLive
    <3>2. v.dialing[q] \notin previous
      BY <3>1, <1>6 DEF PointersLive, Leads
    <3>3. QED
      BY <3>1, <3>2, <1>2, <1>4 DEF Leads
  <2>3. ASSUME NEW t \in w.buffers
        PROVE  t \in DOMAIN w.socks /\ w.socks[t].phase # "dialing"
    BY <1>2, <1>4 DEF PointersLive
  <2>4. QED
    BY <2>1, <2>2, <2>3 DEF PointersLive
<1>9. CallsAreConnected(w)
  BY <1>2, <1>5 DEF CallsAreConnected
<1>10. MicrophoneOnlyInCalls(w)
  BY <1>2 DEF MicrophoneOnlyInCalls
<1>11. QED
  BY <1>7, <1>8, <1>9, <1>10 DEF LineInv, w

\* What a call of connectVoice() may be handed: a socket that is free, unless
\* it needs none.
Usable(v, p, s) == s \in Free(v) \/ p \in DOMAIN v.voice \cup DOMAIN v.dialing

\* hangup() makes no sockets, so one that was free is free after it.
LEMMA HangupFrees ==
    ASSUME NEW v, Types(v), NEW ps, NEW quick
    PROVE  Free(v) \subseteq Free(Hangup(v, ps, quick))
<1> DEFINE d == DisconnectVoice(v, ps \cap v.active, quick)
           w == Hangup(v, ps, quick)
<1>1. DOMAIN v = {"active", "running", "socks", "voice", "dialing", "buffers",
                   "stillborn"}
  BY DEF Types, Idle
<1>2. /\ DOMAIN d = DOMAIN v
      /\ d.socks = Disconnecting(v, ps \cap v.active, quick)
  BY <1>1 DEF DisconnectVoice
<1>3. w = [d EXCEPT !.active = v.active \ ps,
                    !.running = @ /\ (ps \cap v.active = {} \/ v.active \ ps # {}),
                    !.stillborn = @ \ (ps \cap v.active)]
  BY DEF Hangup
<1> HIDE DEF d, w
<1>4. w.socks = d.socks
  BY <1>1, <1>2, <1>3
<1>5. DOMAIN w.socks \subseteq DOMAIN v.socks
  BY <1>2, <1>4 DEF Disconnecting
<1>6. QED
  BY <1>5 DEF Free, w

\* What connectVoice() leaves: nothing new for a peer that has a connection, an
\* attempt, or nothing at all if the attempt failed at once.
LEMMA ConnectKeepsInv ==
    ASSUME NEW v, LineInv(v), NEW p \in Peers, NEW s \in Socks, Usable(v, p, s),
           NEW fails \in BOOLEAN
    PROVE  LET w == ConnectVoice(v, p, s, fails)
           IN /\ LineInv(w)
              /\ p \in DOMAIN v.voice \cup DOMAIN v.dialing => w = v
              /\ p \notin DOMAIN v.voice \cup DOMAIN v.dialing /\ fails =>
                     w = Hangup(v, {p}, {})
              /\ p \notin DOMAIN v.voice \cup DOMAIN v.dialing /\ ~fails =>
                     /\ p \in DOMAIN w.dialing
                     /\ w.active = v.active
                     /\ w.running = v.running
                     /\ w.stillborn = v.stillborn
<1> DEFINE w == ConnectVoice(v, p, s, fails)
<1>1. CASE p \in DOMAIN v.voice \cup DOMAIN v.dialing
  BY <1>1 DEF ConnectVoice
<1>2. CASE p \notin DOMAIN v.voice \cup DOMAIN v.dialing /\ fails
  <2>1. w = Hangup(v, {p}, {})
    BY <1>2 DEF ConnectVoice
  <2>2. LineInv(Hangup(v, {p}, {}))
    BY HangupKeepsInv DEF LineInv, CallsAreConnected
  <2>3. QED
    BY <1>2, <2>1, <2>2
<1>3. CASE p \notin DOMAIN v.voice \cup DOMAIN v.dialing /\ ~fails
  <2> DEFINE new == [peer |-> p, phase |-> "dialing"]
  <2>1. DOMAIN v = {"active", "running", "socks", "voice", "dialing", "buffers",
                     "stillborn"}
    BY DEF LineInv, Types, Idle
  <2>2. /\ DOMAIN w = DOMAIN v
        /\ w.active = v.active
        /\ w.running = v.running
        /\ w.stillborn = v.stillborn
        /\ w.voice = v.voice
        /\ w.dialing = Insert(v.dialing, p, s)
        /\ w.buffers = v.buffers
        /\ w.socks = Insert(v.socks, s, new)
    BY <1>3, <2>1 DEF ConnectVoice
  <2>3. new \in [peer : Peers, phase : Phases] /\ new.peer = p /\ new.phase = "dialing"
    BY DEF Phases
  <2>4. s \in Socks /\ s \notin DOMAIN v.socks
    BY <1>3 DEF Usable, Free
  <2> HIDE DEF w, new
  <2>5. /\ DOMAIN w.socks = DOMAIN v.socks \cup {s}
        /\ w.socks[s] = new
        /\ \A t \in DOMAIN v.socks : w.socks[t] = v.socks[t]
    BY <2>2, <2>4 DEF Insert
  <2>6. /\ DOMAIN w.dialing = DOMAIN v.dialing \cup {p}
        /\ w.dialing[p] = s
        /\ \A q \in DOMAIN v.dialing : w.dialing[q] = v.dialing[q]
    BY <2>2, <1>3 DEF Insert
  <2>7. Types(w)
    <3>1. IsHash(w.socks, Socks, [peer : Peers, phase : Phases])
      BY <2>3, <2>4, <2>5 DEF IsHash, Types, LineInv
    <3>2. IsHash(w.dialing, Peers, Socks)
      BY <2>4, <2>6 DEF IsHash, Types, LineInv
    <3>3. QED
      BY <2>2, <3>1, <3>2 DEF Types, LineInv
  <2>8. PointersLive(w)
    <3>1. ASSUME NEW q \in DOMAIN w.voice
          PROVE  Leads(w, w.voice[q], q, "open")
      BY <2>2, <2>5 DEF PointersLive, Leads, LineInv
    <3>2. ASSUME NEW q \in DOMAIN w.dialing
          PROVE  Leads(w, w.dialing[q], q, "dialing")
      <4>1. CASE q = p
        BY <4>1, <2>3, <2>5, <2>6 DEF Leads
      <4>2. CASE q # p
        BY <4>2, <2>5, <2>6 DEF PointersLive, Leads, LineInv
      <4>3. QED
        BY <4>1, <4>2
    <3>3. ASSUME NEW t \in w.buffers
          PROVE  t \in DOMAIN w.socks /\ w.socks[t].phase # "dialing"
      BY <2>2, <2>5 DEF PointersLive, LineInv
    <3>4. QED
      BY <3>1, <3>2, <3>3 DEF PointersLive
  <2>9. CallsAreConnected(w) /\ MicrophoneOnlyInCalls(w)
    BY <2>2, <2>6 DEF CallsAreConnected, MicrophoneOnlyInCalls, LineInv
  <2>10. LineInv(w) /\ p \in DOMAIN w.dialing
    BY <2>6, <2>7, <2>8, <2>9 DEF LineInv
  <2>11. QED
    BY <1>3, <2>2, <2>10 DEF w
<1>4. QED
  BY <1>1, <1>2, <1>3

\* call() lists a peer whose connection it has just made sure of, or notes it
\* as stillborn.
LEMMA CallKeepsInv ==
    ASSUME NEW v, LineInv(v), NEW p \in Peers, NEW s \in Socks, Usable(v, p, s),
           NEW mic \in BOOLEAN, NEW fails \in BOOLEAN
    PROVE  LineInv(Call(v, p, s, mic, fails))
<1> DEFINE w == Call(v, p, s, mic, fails)
           c == ConnectVoice(v, p, s, fails)
           listed == p \in DOMAIN v.voice \cup DOMAIN v.dialing
<1>1. CASE p \in v.active \/ ~(v.running \/ mic)
  BY <1>1 DEF Call
<1>2. CASE ~(p \in v.active \/ ~(v.running \/ mic))
  <2>1. /\ LineInv(c)
        /\ listed => c = v
        /\ ~listed /\ fails => c = Hangup(v, {p}, {})
        /\ ~listed /\ ~fails => p \in DOMAIN c.dialing
    BY ConnectKeepsInv DEF Usable
  <2>2. w = [c EXCEPT !.running = TRUE, !.active = @ \cup {p},
                      !.stillborn = IF listed \/ ~fails THEN @ ELSE @ \cup {p}]
    BY <1>2 DEF Call
  <2> HIDE DEF c
  <2>3. DOMAIN c = {"active", "running", "socks", "voice", "dialing", "buffers",
                     "stillborn"}
    BY <2>1 DEF LineInv, Types, Idle
  <2> HIDE DEF w, listed
  <2>4. /\ DOMAIN w = DOMAIN c
        /\ w.running = TRUE
        /\ w.active = c.active \cup {p}
        /\ w.stillborn = IF listed \/ ~fails THEN c.stillborn
                         ELSE c.stillborn \cup {p}
        /\ w.socks = c.socks
        /\ w.voice = c.voice
        /\ w.dialing = c.dialing
        /\ w.buffers = c.buffers
    BY <2>2, <2>3
  <2>5. Types(w)
    BY <2>1, <2>4 DEF LineInv, Types
  <2>6. PointersLive(w)
    BY <2>1, <2>4 DEF LineInv, PointersLive, Leads
  <2>7. p \in DOMAIN w.voice \cup DOMAIN w.dialing \cup w.stillborn
    BY <2>1, <2>4 DEF listed
  <2>8. CallsAreConnected(w)
    BY <2>1, <2>4, <2>7 DEF LineInv, CallsAreConnected
  <2>9. MicrophoneOnlyInCalls(w)
    BY <2>4 DEF MicrophoneOnlyInCalls
  <2>10. QED
    BY <2>5, <2>6, <2>8, <2>9 DEF LineInv, w
<1>3. QED
  BY <1>1, <1>2

\* An attempt that succeeds gives up its place in m_pendingVoice.
LEMMA ConnectedKeepsInv ==
    ASSUME NEW v, LineInv(v), NEW s \in DOMAIN v.socks,
           v.socks[s].phase = "dialing"
    PROVE  LineInv(Connected(v, s))
<1> DEFINE p == v.socks[s].peer
           u == [v EXCEPT !.dialing = Remove(@, {p})]
<1>1. DOMAIN v = {"active", "running", "socks", "voice", "dialing", "buffers",
                   "stillborn"}
  BY DEF LineInv, Types, Idle
<1>2. /\ DOMAIN u = DOMAIN v
      /\ u.active = v.active
      /\ u.running = v.running
      /\ u.socks = v.socks
      /\ u.voice = v.voice
      /\ u.dialing = Remove(v.dialing, {p})
      /\ u.buffers = v.buffers
      /\ u.stillborn = v.stillborn
  BY <1>1
<1>3. p \in Peers /\ s \in Socks
  BY DEF LineInv, Types, IsHash
<1>4. Connected(v, s) = ReplaceVoiceSocket(u, p, s)
  BY DEF Connected
<1> HIDE DEF u, p
<1>5. Types(u)
  <2>1. IsHash(u.dialing, Peers, Socks)
    BY <1>2 DEF LineInv, Types, IsHash, Remove
  <2>2. QED
    BY <1>2, <2>1 DEF LineInv, Types
<1>6. PointersLive(u)
  BY <1>2 DEF LineInv, PointersLive, Leads, Remove
<1>7. MicrophoneOnlyInCalls(u)
  BY <1>2 DEF LineInv, MicrophoneOnlyInCalls
<1>8. u.active \subseteq DOMAIN u.voice \cup DOMAIN u.dialing \cup u.stillborn \cup {p}
  BY <1>2 DEF LineInv, CallsAreConnected, Remove
<1>9. \A q \in DOMAIN u.voice : u.voice[q] # s
  BY <1>2 DEF LineInv, PointersLive, Leads
<1>10. \A q \in DOMAIN u.dialing : u.dialing[q] # s
  <2>1. ASSUME NEW q \in DOMAIN u.dialing, u.dialing[q] = s
        PROVE  FALSE
    <3>1. q \in DOMAIN v.dialing /\ q # p /\ v.dialing[q] = s
      BY <2>1, <1>2 DEF Remove
    <3>2. v.socks[s].peer = q
      BY <3>1 DEF LineInv, PointersLive, Leads
    <3>3. QED
      BY <3>1, <3>2 DEF p
  <2>2. QED
    BY <2>1
<1>11. s \notin u.buffers
  BY <1>2 DEF LineInv, PointersLive
<1>12. LineInv(ReplaceVoiceSocket(u, p, s))
  BY <1>3, <1>5, <1>6, <1>7, <1>8, <1>9, <1>10, <1>11, ReplaceKeepsInv
<1>13. QED
  BY <1>4, <1>12

\* An attempt that fails takes the call of its peer with it.
LEMMA DialFailedKeepsInv ==
    ASSUME NEW v, LineInv(v), NEW s \in DOMAIN v.socks,
           v.socks[s].phase = "dialing", NEW quick
    PROVE  LineInv(DialFailed(v, s, quick))
<1> DEFINE p == v.socks[s].peer
           u == [v EXCEPT !.dialing = Remove(@, {p}), !.socks = Remove(@, {s})]
<1>1. DOMAIN v = {"active", "running", "socks", "voice", "dialing", "buffers",
                   "stillborn"}
  BY DEF LineInv, Types, Idle
<1>2. /\ DOMAIN u = DOMAIN v
      /\ u.active = v.active
      /\ u.running = v.running
      /\ u.socks = Remove(v.socks, {s})
      /\ u.voice = v.voice
      /\ u.dialing = Remove(v.dialing, {p})
      /\ u.buffers = v.buffers
      /\ u.stillborn = v.stillborn
  BY <1>1
<1>3. DialFailed(v, s, quick) = Hangup(u, {p}, quick)
  BY DEF DialFailed
<1> HIDE DEF u, p
<1>4. Types(u)
  <2>1. /\ IsHash(u.dialing, Peers, Socks)
        /\ IsHash(u.socks, Socks, [peer : Peers, phase : Phases])
    BY <1>2 DEF LineInv, Types, IsHash, Remove
  <2>2. QED
    BY <1>2, <2>1 DEF LineInv, Types
<1>5. PointersLive(u)
  <2>1. ASSUME NEW q \in DOMAIN u.voice
        PROVE  Leads(u, u.voice[q], q, "open")
    BY <1>2 DEF LineInv, PointersLive, Leads, Remove
  <2>2. ASSUME NEW q \in DOMAIN u.dialing
        PROVE  Leads(u, u.dialing[q], q, "dialing")
    <3>1. q \in DOMAIN v.dialing /\ q # p /\ u.dialing[q] = v.dialing[q]
      BY <1>2 DEF Remove
    <3>2. Leads(v, v.dialing[q], q, "dialing")
      BY <3>1 DEF LineInv, PointersLive
    <3>3. v.dialing[q] # s
      BY <3>1, <3>2 DEF Leads, p
    <3>4. QED
      BY <3>1, <3>2, <3>3, <1>2 DEF Leads, Remove
  <2>3. ASSUME NEW t \in u.buffers
        PROVE  t \in DOMAIN u.socks /\ u.socks[t].phase # "dialing"
    BY <1>2 DEF LineInv, PointersLive, Remove
  <2>4. QED
    BY <2>1, <2>2, <2>3 DEF PointersLive
<1>6. MicrophoneOnlyInCalls(u)
  BY <1>2 DEF LineInv, MicrophoneOnlyInCalls
<1>7. u.active \ {p} \subseteq DOMAIN u.voice \cup DOMAIN u.dialing \cup u.stillborn
  BY <1>2 DEF LineInv, CallsAreConnected, Remove
<1>8. QED
  BY <1>3, <1>4, <1>5, <1>6, <1>7, HangupKeepsInv

\* A connection that closes takes its buffer and the call of its peer with it.
LEMMA ClosedKeepsInv ==
    ASSUME NEW v, LineInv(v), NEW s \in DOMAIN v.socks,
           v.socks[s].phase # "dialing"
    PROVE  LineInv(Closed(v, s))
<1> DEFINE p == v.socks[s].peer
           u == [v EXCEPT !.socks = Remove(@, {s}), !.buffers = @ \ {s},
                          !.voice = Remove(@, {p})]
<1>1. DOMAIN v = {"active", "running", "socks", "voice", "dialing", "buffers",
                   "stillborn"}
  BY DEF LineInv, Types, Idle
<1>2. /\ DOMAIN u = DOMAIN v
      /\ u.active = v.active
      /\ u.running = v.running
      /\ u.socks = Remove(v.socks, {s})
      /\ u.voice = Remove(v.voice, {p})
      /\ u.dialing = v.dialing
      /\ u.buffers = v.buffers \ {s}
      /\ u.stillborn = v.stillborn
  BY <1>1
<1>3. Closed(v, s) = Hangup(u, {p}, {})
  BY DEF Closed
<1> HIDE DEF u, p
<1>4. Types(u)
  <2>1. /\ IsHash(u.voice, Peers, Socks)
        /\ IsHash(u.socks, Socks, [peer : Peers, phase : Phases])
    BY <1>2 DEF LineInv, Types, IsHash, Remove
  <2>2. QED
    BY <1>2, <2>1 DEF LineInv, Types
<1>5. PointersLive(u)
  <2>1. ASSUME NEW q \in DOMAIN u.voice
        PROVE  Leads(u, u.voice[q], q, "open")
    <3>1. q \in DOMAIN v.voice /\ q # p /\ u.voice[q] = v.voice[q]
      BY <1>2 DEF Remove
    <3>2. Leads(v, v.voice[q], q, "open")
      BY <3>1 DEF LineInv, PointersLive
    <3>3. v.voice[q] # s
      BY <3>1, <3>2 DEF Leads, p
    <3>4. QED
      BY <3>1, <3>2, <3>3, <1>2 DEF Leads, Remove
  <2>2. ASSUME NEW q \in DOMAIN u.dialing
        PROVE  Leads(u, u.dialing[q], q, "dialing")
    BY <1>2 DEF LineInv, PointersLive, Leads, Remove
  <2>3. ASSUME NEW t \in u.buffers
        PROVE  t \in DOMAIN u.socks /\ u.socks[t].phase # "dialing"
    BY <1>2 DEF LineInv, PointersLive, Remove
  <2>4. QED
    BY <2>1, <2>2, <2>3 DEF PointersLive
<1>6. MicrophoneOnlyInCalls(u)
  BY <1>2 DEF LineInv, MicrophoneOnlyInCalls
<1>7. u.active \ {p} \subseteq DOMAIN u.voice \cup DOMAIN u.dialing \cup u.stillborn
  BY <1>2 DEF LineInv, CallsAreConnected, Remove
<1>8. QED
  BY <1>3, <1>4, <1>5, <1>6, <1>7, HangupKeepsInv

\* Only a socket that is not being dialled has bytes to keep.
LEMMA ReadKeepsInv ==
    ASSUME NEW v, LineInv(v), NEW s \in DOMAIN v.socks,
           v.socks[s].phase # "dialing"
    PROVE  LineInv(Read(v, s))
<1> DEFINE w == Read(v, s)
<1>1. DOMAIN v = {"active", "running", "socks", "voice", "dialing", "buffers",
                   "stillborn"}
  BY DEF LineInv, Types, Idle
<1>2. /\ DOMAIN w = DOMAIN v
      /\ w.active = v.active
      /\ w.running = v.running
      /\ w.socks = v.socks
      /\ w.voice = v.voice
      /\ w.dialing = v.dialing
      /\ w.buffers = v.buffers \cup {s}
      /\ w.stillborn = v.stillborn
  BY <1>1 DEF Read
<1> HIDE DEF w
<1>3. Types(w)
  BY <1>2 DEF LineInv, Types, IsHash
<1>4. PointersLive(w)
  BY <1>2 DEF LineInv, PointersLive, Leads
<1>5. CallsAreConnected(w) /\ MicrophoneOnlyInCalls(w)
  BY <1>2 DEF LineInv, CallsAreConnected, MicrophoneOnlyInCalls
<1>6. QED
  BY <1>3, <1>4, <1>5 DEF LineInv, w
-----------------------------------------------------------------------------
\* What is pending has been paid for, and a request is paid for once.
Paid ==
    /\ balance \in [Peers -> {0, 1}]
    /\ \A p \in pending : balance[p] = 1

Screen ==
    /\ pending \cup ringing \cup noted \subseteq Peers
    /\ {asking, talking, dialog} \subseteq Peers \cup {None}

IInv == Screen /\ LineInv(line) /\ Paid

\* The program starts with no call and nothing on screen.
LEMMA InitIInv == Init => IInv
<1> SUFFICES ASSUME Init PROVE IInv
  OBVIOUS
<1>1. Screen /\ Paid
  BY DEF Init, Screen, Paid
<1>2. Types(Idle)
  BY DEF Idle, Types, IsHash, EmptyHash
<1>3. PointersLive(Idle) /\ CallsAreConnected(Idle) /\ MicrophoneOnlyInCalls(Idle)
  BY DEF Idle, PointersLive, CallsAreConnected, MicrophoneOnlyInCalls, EmptyHash
<1>4. QED
  BY <1>1, <1>2, <1>3 DEF Init, IInv, LineInv

\* Answering makes sure of the connection before call() does so again.
LEMMA AnswerKeepsInv ==
    ASSUME NEW v, LineInv(v), NEW p \in Peers, NEW s \in Free(v),
           NEW mic \in BOOLEAN, NEW fails \in BOOLEAN, NEW again \in BOOLEAN
    PROVE  LineInv(Call(ConnectVoice(v, p, s, fails), p, s, mic, again))
<1> DEFINE c == ConnectVoice(v, p, s, fails)
           listed == p \in DOMAIN v.voice \cup DOMAIN v.dialing
<1>1. s \in Socks /\ Usable(v, p, s)
  BY DEF Free, Usable
<1>2. /\ LineInv(c)
      /\ listed => c = v
      /\ ~listed /\ fails => c = Hangup(v, {p}, {})
      /\ ~listed /\ ~fails => p \in DOMAIN c.dialing
  <2> HIDE DEF c, listed
  <2>1. LineInv(c)
    BY <1>1, ConnectKeepsInv DEF Usable, c
  <2>2. listed => c = v
    BY DEF ConnectVoice, c, listed
  <2>3. ~listed /\ fails => c = Hangup(v, {p}, {})
    BY DEF ConnectVoice, c, listed
  <2>4. ~listed /\ ~fails => p \in DOMAIN c.dialing
    BY <1>1, ConnectKeepsInv DEF Usable, c, listed
  <2>5. QED
    BY <2>1, <2>2, <2>3, <2>4
<1> HIDE DEF c
<1>3. Usable(c, p, s)
  <2>1. CASE listed
    BY <2>1, <1>2 DEF Usable
  <2>2. CASE ~listed /\ fails
    BY <2>2, <1>2, HangupFrees DEF Usable, LineInv
  <2>3. CASE ~listed /\ ~fails
    BY <2>3, <1>2 DEF Usable
  <2>4. QED
    BY <2>1, <2>2, <2>3
<1>4. LineInv(Call(c, p, s, mic, again))
  BY <1>1, <1>2, <1>3, CallKeepsInv DEF Usable
<1>5. QED
  BY <1>4 DEF c

\* hangup() where every call is connected.
LEMMA HangupKeepsLine ==
    ASSUME NEW v, LineInv(v), NEW ps, NEW quick
    PROVE  LineInv(Hangup(v, ps, quick))
BY HangupKeepsInv DEF LineInv, CallsAreConnected

\* A connection comes in on a socket that was free.
LEMMA NewConnectionKeepsInv ==
    ASSUME NEW v, LineInv(v), NEW p \in Peers, NEW s \in Free(v)
    PROVE  LineInv(ReplaceVoiceSocket(v, p, s))
<1>1. s \in Socks /\ s \notin DOMAIN v.socks
  BY DEF Free
<1>2. /\ \A q \in DOMAIN v.voice : v.voice[q] # s
      /\ \A q \in DOMAIN v.dialing : v.dialing[q] # s
      /\ s \notin v.buffers
  BY <1>1 DEF LineInv, PointersLive, Leads
<1>3. v.active \subseteq DOMAIN v.voice \cup DOMAIN v.dialing \cup v.stillborn \cup {p}
  BY DEF LineInv, CallsAreConnected
<1>4. QED
  BY <1>1, <1>2, <1>3, ReplaceKeepsInv DEF LineInv
-----------------------------------------------------------------------------
\* A step of the user keeps the voice side consistent, and asks before it is
\* answered.
LEMMA UserIInv == IInv /\ User => IInv'
<1> SUFFICES ASSUME IInv, User PROVE IInv'
  OBVIOUS
<1> USE CallsAssumption
<1>0. LineInv(line)
  BY DEF IInv
<1>1. ASSUME NEW p \in Peers, Ask(p) PROVE IInv'
  <2>1. LineInv(line)' /\ Screen'
    BY <1>0, <1>1 DEF Ask, IInv, Screen
  <2>2. Paid'
    <3>1. CASE UNCHANGED <<pending, balance>>
      BY <3>1 DEF IInv, Paid
    <3>2. CASE pending' = pending \cup {p} /\ balance' = [balance EXCEPT ![p] = 1]
      BY <3>2 DEF IInv, Paid
    <3>3. QED
      BY <1>1, <3>1, <3>2 DEF Ask
  <2>3. QED
    BY <2>1, <2>2 DEF IInv
<1>2. ASSUME NEW p \in Peers, Answer(p) PROVE LineInv(line)' /\ Paid'
  <2>1. PICK s \in Free(line), mic \in BOOLEAN, fails \in BOOLEAN, again \in BOOLEAN :
            line' = Call(ConnectVoice(line, p, s, fails), p, s, mic, again)
    BY <1>2 DEF Answer
  <2>2. LineInv(Call(ConnectVoice(line, p, s, fails), p, s, mic, again))
    BY <1>0, AnswerKeepsInv
  <2>3. QED
    BY <1>2, <2>1, <2>2 DEF Answer, IInv, Paid
<1>3. ASSUME NEW p \in Peers, AnswerNoted(p) PROVE IInv'
  BY <1>2, <1>3 DEF AnswerNoted, Answer, OpenActiveCall, IInv, Screen
<1>4. ASSUME NEW p \in Peers, DeclineNoted(p) PROVE IInv'
  BY <1>0, <1>4 DEF DeclineNoted, Decline, IInv, Screen, Paid
<1>5. ASSUME NEW p \in Peers, ShowNoted(p) PROVE IInv'
  BY <1>0, <1>5 DEF ShowNoted, signalling, IInv, Screen, Paid
<1>6. ASSUME NEW p \in Peers, SendCallEnd(p) PROVE Paid'
  BY <1>6 DEF SendCallEnd, IInv, Paid
<1>7. CASE Cancel
  <2>1. asking \in Peers
    BY <1>7 DEF Cancel, IInv, Screen
  <2>2. Paid' /\ pending' \subseteq pending /\ ringing' \subseteq ringing
    BY <1>6, <1>7, <2>1 DEF Cancel, SendCallEnd, signalling, IInv, Paid
  <2>3. QED
    BY <1>0, <1>7, <2>2 DEF Cancel, IInv, Screen
<1>8. CASE HangUp
  <2>1. talking \in Peers
    BY <1>8 DEF HangUp, IInv, Screen
  <2>2. Paid' /\ pending' \subseteq pending /\ ringing' \subseteq ringing
    BY <1>6, <1>8, <2>1 DEF HangUp, SendCallEnd, signalling, IInv, Paid
  <2>3. LineInv(line)'
    BY <1>0, <1>8, HangupKeepsLine DEF HangUp
  <2>4. Screen'
    BY <1>8, <2>2 DEF HangUp, IInv, Screen
  <2>5. QED
    BY <2>2, <2>3, <2>4 DEF IInv
<1>9. CASE AnswerDialog
  <2>1. dialog \in Peers /\ Answer(dialog)
    BY <1>9 DEF AnswerDialog, IInv, Screen
  <2>2. QED
    BY <1>2, <1>9, <2>1 DEF AnswerDialog, Answer, OpenActiveCall, IInv, Screen
<1>10. CASE DeclineDialog
  BY <1>0, <1>10 DEF DeclineDialog, Decline, IInv, Screen, Paid
<1>11. CASE Dismiss
  BY <1>0, <1>11 DEF Dismiss, signalling, IInv, Screen, Paid
<1>12. CASE EndAllCalls
  <2>1. LineInv(line)'
    BY <1>0, <1>12, HangupKeepsLine DEF EndAllCalls
  <2>2. Screen' /\ Paid'
    BY <1>12 DEF EndAllCalls, signalling, IInv, Screen, Paid
  <2>3. QED
    BY <2>1, <2>2 DEF IInv
<1>13. QED
  BY <1>1, <1>3, <1>4, <1>5, <1>7, <1>8, <1>9, <1>10, <1>11, <1>12 DEF User

\* Whatever arrives keeps the voice side consistent, and an accept is counted
\* only for a request that is pending.
LEMMA DispatchIInv == ASSUME NEW p \in Peers, IInv, Dispatch(p) PROVE IInv'
<1> USE CallsAssumption
<1>0. LineInv(line)
  BY DEF IInv
<1>1. CASE CallRequest(p)
  BY <1>0, <1>1 DEF CallRequest, IInv, Screen, Paid
<1>2. CASE CallAccept(p)
  <2>1. PICK s \in Free(line), mic \in BOOLEAN, fails \in BOOLEAN :
            line' = Call(line, p, s, mic, fails)
    BY <1>2 DEF CallAccept
  <2>2. s \in Socks /\ Usable(line, p, s)
    BY DEF Free, Usable
  <2>3. LineInv(Call(line, p, s, mic, fails))
    BY <1>0, <2>2, CallKeepsInv DEF Usable
  <2>4. LineInv(line)'
    BY <2>1, <2>3
  <2>5. Paid'
    BY <1>2 DEF CallAccept, Asked, IInv, Paid
  <2>6. Screen'
    BY <1>2 DEF CallAccept, OpenActiveCall, IInv, Screen
  <2>7. QED
    BY <2>4, <2>5, <2>6 DEF IInv
<1>3. CASE CallRefused(p)
  BY <1>0, <1>3 DEF CallRefused, IInv, Screen, Paid
<1>4. CASE CallEnd(p)
  <2>1. LineInv(line)'
    BY <1>0, <1>4, HangupKeepsLine DEF CallEnd
  <2>2. Paid'
    BY <1>4 DEF CallEnd, IInv, Paid
  <2>3. Screen'
    BY <1>4 DEF CallEnd, OnCallEnded, screen, IInv, Screen
  <2>4. QED
    BY <2>1, <2>2, <2>3 DEF IInv
<1>5. QED
  BY <1>1, <1>2, <1>3, <1>4 DEF Dispatch

\* The sockets may come and go in any order.
LEMMA SocketsIInv == IInv /\ Sockets => IInv'
<1> SUFFICES ASSUME IInv, Sockets PROVE IInv'
  OBVIOUS
<1> USE CallsAssumption
<1>0. LineInv(line)
  BY DEF IInv
<1>1. ASSUME NEW p \in Peers, NewConnection(p) PROVE IInv'
  <2>1. LineInv(line)'
    BY <1>0, <1>1, NewConnectionKeepsInv DEF NewConnection
  <2>2. QED
    BY <1>1, <2>1 DEF NewConnection, signalling, screen, IInv, Screen, Paid
<1>2. ASSUME NEW s \in DOMAIN line.socks, VoiceConnected(s) PROVE IInv'
  <2>1. LineInv(line)'
    BY <1>0, <1>2, ConnectedKeepsInv DEF VoiceConnected
  <2>2. QED
    BY <1>2, <2>1 DEF VoiceConnected, signalling, screen, IInv, Screen, Paid
<1>3. ASSUME NEW s \in DOMAIN line.socks, VoiceFailed(s) PROVE IInv'
  <2>1. LineInv(line)'
    BY <1>0, <1>3, DialFailedKeepsInv DEF VoiceFailed
  <2>2. Screen' /\ Paid'
    BY <1>3 DEF VoiceFailed, OnCallEnded, screen, signalling, IInv, Screen, Paid
  <2>3. QED
    BY <2>1, <2>2 DEF IInv
<1>4. ASSUME NEW s \in DOMAIN line.socks, VoiceDisconnected(s) PROVE IInv'
  <2>1. LineInv(line)'
    BY <1>0, <1>4, ClosedKeepsInv DEF VoiceDisconnected
  <2>2. Screen' /\ Paid'
    BY <1>4 DEF VoiceDisconnected, OnCallEnded, screen, signalling, IInv, Screen, Paid
  <2>3. QED
    BY <2>1, <2>2 DEF IInv
<1>5. ASSUME NEW s \in DOMAIN line.socks, VoiceData(s) PROVE IInv'
  <2>1. LineInv(line)'
    BY <1>0, <1>5, ReadKeepsInv DEF VoiceData
  <2>2. QED
    BY <1>5, <2>1 DEF VoiceData, signalling, screen, IInv, Screen, Paid
<1>6. QED
  BY <1>1, <1>2, <1>3, <1>4, <1>5 DEF Sockets

\* IInv is inductive.
LEMMA SpecIInv == Spec => []IInv
<1>1. Init => IInv
  BY InitIInv
<1>2. IInv /\ [Next]_vars => IInv'
  <2>1. IInv /\ UNCHANGED vars => IInv'
    BY DEF vars, signalling, screen, IInv, Screen, Paid, LineInv
  <2>2. IInv /\ Next => IInv'
    BY UserIInv, SocketsIInv, DispatchIInv DEF Next
  <2>3. QED
    BY <2>1, <2>2
<1>3. QED
  BY <1>1, <1>2, PTL DEF Spec
-----------------------------------------------------------------------------
\* TypeOK holds in every behaviour: every variable keeps its type, for any
\* peers and any number of sockets.
THEOREM CallsTypeOK == Spec => []TypeOK
<1>1. IInv => TypeOK
  BY DEF IInv, Screen, Paid, LineInv, TypeOK
<1>2. QED
  BY <1>1, SpecIInv, PTL

\* AcceptsAreAskedFor holds: a call_accept that gets past dispatch() spends a
\* request the user made, and no request is spent twice.
THEOREM AcceptsAreSpent == Spec => []AcceptsAreAskedFor
<1>1. IInv => AcceptsAreAskedFor
  BY DEF IInv, Paid, AcceptsAreAskedFor
<1>2. QED
  BY <1>1, SpecIInv, PTL

\* SocketsLive holds: no map of NetworkManager keeps a pointer to a socket that
\* was deleted, or to one in another phase than the map is for.
THEOREM PointersNeverDangle == Spec => []SocketsLive
<1>1. IInv => SocketsLive
  BY DEF IInv, LineInv, SocketsLive
<1>2. QED
  BY <1>1, SpecIInv, PTL

\* Connectable holds: the only calls with neither a connection nor an attempt
\* are the ones whose attempt failed inside call().
THEOREM CallsCanEnd == Spec => []Connectable
<1>1. IInv => Connectable
  BY DEF IInv, LineInv, Connectable
<1>2. QED
  BY <1>1, SpecIInv, PTL

\* MicrophoneShut holds: the audio engine captures exactly while a call is on.
THEOREM LastCallShutsMicrophone == Spec => []MicrophoneShut
<1>1. IInv => MicrophoneShut
  BY DEF IInv, LineInv, MicrophoneShut
<1>2. QED
  BY <1>1, SpecIInv, PTL
=============================================================================
