---------------------------- MODULE MatrixProofs ----------------------------
(***************************************************************************)
(* What the Matrix side keeps, each part for every value of its constants: *)
(* the verification dialog, the doors of a room and the lines that tell    *)
(* who is in it, the keys of its calls, and the rows of its messages.      *)
(***************************************************************************)
EXTENDS MCMatrix, Sequences, WellFoundedInduction, TLAPS

(* The verification dialog: any number of devices, connections, sessions.  *)

\* A click only counts while the emoji are on screen, and what waits for the
\* other side's MAC has had it.
Clicked ==
    session # None =>
        /\ session.phase = "WAITINGFORVERIFICATION" => session.shown
        /\ session.phase = "WAITINGFORMAC" =>
               [conn |-> session.conn, device |-> session.device] \in compared

\* A list of device names that would be taken was asked of the current
\* connection: every change of the connection makes the others stale.
Fresh ==
    /\ generation \in Nat
    /\ \A j \in jobs :
           /\ j.generation \in Nat /\ j.generation <= generation
           /\ j.generation = generation => j.conn = link

DialogInv == VerificationTrue /\ Clicked /\ Fresh

LEMMA DialogInit == Init => DialogInv
  BY DEF Init, LinkInit, DialogInv, VerificationTrue, TrustedMeansCompared,
         NamesOfThisAccount, Clicked, Fresh

\* A change of the connection forgets the dialog and every list on its way.
LEMMA LinkKeeps == DialogInv /\ (LinkChanges \/ ConnectionDies) => DialogInv'
<1> SUFFICES ASSUME DialogInv, LinkChanges \/ ConnectionDies
             PROVE  DialogInv'
  OBVIOUS
<1> USE DEF DialogInv, VerificationTrue, TrustedMeansCompared, NamesOfThisAccount
<1>1. CASE LinkChanges
  <2>1. /\ jobs' \subseteq jobs /\ session' = None
        /\ names' = 0 /\ generation' = generation + 1
        /\ UNCHANGED <<trusted, compared>>
    BY <1>1 DEF LinkChanges, Forget
  <2>2. Fresh'
    BY <2>1 DEF Fresh
  <2>3. QED
    BY <2>1, <2>2 DEF Clicked
<1>2. CASE ConnectionDies
  <2>1. /\ jobs' \subseteq jobs /\ session' \in {session, None}
        /\ UNCHANGED <<link, names, generation, trusted, compared>>
    BY <1>2 DEF ConnectionDies, Gone
  <2>2. Fresh' /\ Clicked'
    BY <2>1 DEF Fresh, Clicked
  <2>3. QED
    BY <2>1, <2>2
<1>3. QED
  BY <1>1, <1>2

\* A session is made with nothing shown and nothing compared.
LEMMA AdoptKeeps ==
    ASSUME DialogInv, NEW c, NEW d, NEW phase \in {"INCOMING", "WAITINGFORREADY"},
           \/ Adopt(c, d, phase)
           \/ session = None /\ VerifyDevice(d)
    PROVE  DialogInv'
<1>1. /\ UNCHANGED <<link, names, generation, jobs, trusted, compared>>
      /\ \/ session' = session
         \/ \E s \in {c, link}, b \in BOOLEAN :
                session' = NewSession(s, d, phase, b)
         \/ session' = NewSession(link, d, "WAITINGFORREADY", FALSE)
  BY DEF Adopt, VerifyDevice, linkVars, lists, dialog
<1>2. Clicked'
  BY <1>1 DEF DialogInv, Clicked, NewSession
<1>3. Fresh' /\ VerificationTrue'
  BY <1>1 DEF DialogInv, Fresh, VerificationTrue, TrustedMeansCompared,
              NamesOfThisAccount
<1>4. QED
  BY <1>2, <1>3 DEF DialogInv

\* The end of a session trusts its device only if that was compared.
LEMMA EndsKeeps ==
    ASSUME DialogInv, NEW ok \in BOOLEAN, session # None,
           Ends(session, ok), compared \subseteq compared',
           ok => [conn |-> session.conn, device |-> session.device] \in compared',
           UNCHANGED <<link, names, generation, jobs>>
    PROVE  DialogInv'
<1>1. session' = None /\ trusted' \subseteq compared'
  BY DEF Ends, DialogInv, VerificationTrue, TrustedMeansCompared
<1>2. Fresh'
  BY DEF DialogInv, Fresh
<1>3. QED
  BY <1>1, <1>2 DEF DialogInv, VerificationTrue, TrustedMeansCompared,
                    NamesOfThisAccount, Clicked

LEMMA DialogNext == DialogInv /\ [Next]_vars => DialogInv'
<1> SUFFICES ASSUME DialogInv, [Next]_vars
             PROVE  DialogInv'
  OBVIOUS
<1>1. CASE LinkChanges \/ ConnectionDies
  BY <1>1, LinkKeeps
<1>2. CASE Arrives
  BY <1>2, AdoptKeeps DEF Arrives
<1>3. CASE VerifyFromVerifiedSessions
  BY <1>3, AdoptKeeps DEF VerifyFromVerifiedSessions
<1>4. ASSUME NEW d \in Devices, VerifyDevice(d)
      PROVE  DialogInv'
  BY <1>4, AdoptKeeps DEF VerifyDevice
<1>5. CASE AcceptRequest
  <2>1. session # None /\ session' = [session EXCEPT !.phase = "READY"]
        /\ UNCHANGED <<link, names, generation, jobs, trusted, compared>>
    BY <1>5 DEF AcceptRequest, awaitingAccept, linkVars, lists
  <2>2. Clicked'
    BY <2>1 DEF DialogInv, Clicked
  <2>3. QED
    BY <2>1, <2>2 DEF DialogInv, Fresh, VerificationTrue, TrustedMeansCompared,
                      NamesOfThisAccount
<1>6. CASE Proceeds
  <2>1. session # None
        /\ UNCHANGED <<link, names, generation, jobs, compared>>
    BY <1>6 DEF Proceeds, linkVars, lists
  <2>2. CASE session.phase = "WAITINGFORMAC" /\ Ends(session, TRUE)
    BY <2>1, <2>2, EndsKeeps DEF DialogInv, Clicked
  <2>3. CASE /\ session' = [session EXCEPT !.phase = "WAITINGFORVERIFICATION",
                                            !.shown = TRUE]
             /\ UNCHANGED trusted
    BY <2>1, <2>3 DEF DialogInv, Clicked, Fresh, VerificationTrue,
                      TrustedMeansCompared, NamesOfThisAccount
  <2>4. CASE /\ session.phase \in {"READY", "WAITINGFORVERIFICATION"}
             /\ session' = [session EXCEPT !.theirMac = TRUE]
             /\ UNCHANGED trusted
    BY <2>1, <2>4 DEF DialogInv, Clicked, Fresh, VerificationTrue,
                      TrustedMeansCompared, NamesOfThisAccount
  <2>5. QED
    BY <1>6, <2>2, <2>3, <2>4 DEF Proceeds
<1>7. CASE ConfirmMatch
  <2>1. /\ session # None /\ session.phase = "WAITINGFORVERIFICATION"
        /\ UNCHANGED <<link, names, generation, jobs>>
        /\ compared' = compared \cup
               {[conn |-> session.conn, device |-> session.device]}
    BY <1>7 DEF ConfirmMatch, SendMac, linkVars, lists, DialogInv, Clicked
  <2>2. CASE Ends(session, TRUE)
    BY <2>1, <2>2, EndsKeeps
  <2>3. CASE /\ session' = [session EXCEPT !.phase = "WAITINGFORMAC"]
             /\ UNCHANGED trusted
    BY <2>1, <2>3 DEF DialogInv, Clicked, Fresh, VerificationTrue,
                      TrustedMeansCompared, NamesOfThisAccount
  <2>4. QED
    BY <1>7, <2>2, <2>3 DEF ConfirmMatch, SendMac
<1>8. CASE Cancel
  BY <1>8, EndsKeeps DEF Cancel, linkVars, lists
<1>9. CASE Dismiss
  BY <1>9 DEF Dismiss, linkVars, lists, DialogInv, Clicked, Fresh, VerificationTrue,
              TrustedMeansCompared, NamesOfThisAccount
<1>10. CASE RefreshDevices
  <2>1. /\ jobs' = jobs \cup {[conn |-> link, generation |-> generation]}
        /\ UNCHANGED <<link, session, names, generation, trusted, compared>>
    BY <1>10 DEF RefreshDevices, linkVars, dialog
  <2>2. Fresh'
    BY <2>1 DEF DialogInv, Fresh
  <2>3. QED
    BY <2>1, <2>2 DEF DialogInv, Clicked, VerificationTrue, TrustedMeansCompared,
                      NamesOfThisAccount
<1>11. ASSUME NEW j \in jobs, Listed(j)
       PROVE  DialogInv'
  <2>1. /\ jobs' \subseteq jobs /\ names' \in {names, link}
        /\ UNCHANGED <<link, session, generation, trusted, compared>>
    BY <1>11 DEF Listed, linkVars, dialog, DialogInv, Fresh
  <2>2. QED
    BY <2>1 DEF DialogInv, Clicked, Fresh, VerificationTrue, TrustedMeansCompared,
                NamesOfThisAccount
<1>12. CASE UNCHANGED vars
  BY <1>12 DEF vars, linkVars, dialog, lists, DialogInv, Clicked, Fresh,
               VerificationTrue, TrustedMeansCompared, NamesOfThisAccount
<1>13. QED
  BY <1>1, <1>2, <1>3, <1>4, <1>5, <1>6, <1>7, <1>8, <1>9, <1>10, <1>11, <1>12
     DEF Next

\* For any devices and connections, and whatever is answered late: no device is
\* trusted that was not compared, and no names are shown of another account
\* (MatrixVerification::confirmMatch, refreshDevices).
THEOREM NothingUncompared == Spec => []VerificationTrue
<1>1. DialogInv => VerificationTrue
  BY DEF DialogInv
<1>2. QED
  BY DialogInit, DialogNext, <1>1, PTL DEF Spec
-----------------------------------------------------------------------------
(* Runs over a sequence of events, one after the other: the memberships,   *)
(* the reader of the lines and the rows of a batch are each one.           *)

Step(kind, p, i, acc) ==
    IF kind = "apply" THEN [acc EXCEPT ![p[i].user] = p[i].to]
    ELSE IF kind = "read" THEN Doors!ReadLine(acc, p[i])
    ELSE Room!PublishEvent(acc, i, p[1], p[2])

RunIs(it, kind, p, base, b, to) ==
    it = [i \in b .. to |-> IF i = b THEN base ELSE Step(kind, p, i, it[i - 1])]
Run(kind, p, base, b, to) == (CHOOSE it : RunIs(it, kind, p, base, b, to))[to]

LEMMA LeastNatural ==
    ASSUME NEW S \in SUBSET Nat, S # {}
    PROVE  \E n \in S : \A m \in S : n <= m
<1>1. PICK n \in S : \A m \in S : <<m, n>> \notin OpToRel(<, Nat)
  BY NatLessThanWellFounded, WFMin
<1>2. \A m \in S : ~(m < n)
  BY <1>1 DEF OpToRel
<1>3. QED
  BY <1>2

\* Induction over the numbers from b on.
LEMMA InductionFrom ==
    ASSUME NEW b \in Nat, NEW G, b \in G,
           \A n \in Nat : n >= b /\ n \in G => n + 1 \in G
    PROVE  \A n \in Nat : n >= b => n \in G
<1> SUFFICES ASSUME NEW k \in Nat, k >= b, k \notin G PROVE FALSE
  OBVIOUS
<1> DEFINE bad == {n \in Nat : n >= b /\ n \notin G}
<1>1. PICK n \in bad : \A m \in bad : n <= m
  BY LeastNatural
<1>2. n \in Nat /\ n >= b /\ n # b
  BY <1>1
<1>3. n - 1 \in Nat /\ n - 1 >= b /\ ~(n <= n - 1)
  BY <1>2
<1>4. n - 1 \in G
  BY <1>1, <1>3
<1>5. (n - 1) + 1 \in G /\ (n - 1) + 1 = n
  BY <1>2, <1>3, <1>4
<1>6. QED
  BY <1>1, <1>5

\* Two runs of the same events agree where both are defined.
LEMMA RunsAgree ==
    ASSUME NEW kind, NEW p, NEW base, NEW b \in Nat, NEW x \in Nat, NEW y \in Nat,
           NEW f, RunIs(f, kind, p, base, b, x),
           NEW g, RunIs(g, kind, p, base, b, y)
    PROVE  \A n \in b .. x : n <= y => f[n] = g[n]
<1> DEFINE G == {n \in Nat : n <= x /\ n <= y => f[n] = g[n]}
<1>1. /\ \A i \in b .. x :
             f[i] = IF i = b THEN base ELSE Step(kind, p, i, f[i - 1])
      /\ \A i \in b .. y :
             g[i] = IF i = b THEN base ELSE Step(kind, p, i, g[i - 1])
  BY DEF RunIs
<1>2. b \in G
  BY <1>1
<1>3. ASSUME NEW n \in Nat, n >= b, n \in G PROVE n + 1 \in G
  <2> SUFFICES ASSUME n + 1 <= x, n + 1 <= y PROVE f[n + 1] = g[n + 1]
    OBVIOUS
  <2>1. f[n] = g[n]
    BY <1>3
  <2>2. n + 1 \in b .. x /\ n + 1 \in b .. y /\ n + 1 # b /\ (n + 1) - 1 = n
    BY <1>3
  <2>3. QED
    BY <1>1, <2>1, <2>2
<1> HIDE DEF G
<1>4. \A n \in Nat : n >= b => n \in G
  BY <1>2, <1>3, InductionFrom
<1>5. QED
  BY <1>4 DEF G

LEMMA RunsExist ==
    ASSUME NEW kind, NEW p, NEW base, NEW b \in Nat, NEW to \in Nat, to >= b
    PROVE  RunIs(CHOOSE it : RunIs(it, kind, p, base, b, to), kind, p, base, b, to)
<1> DEFINE G == {n \in Nat : \E it : RunIs(it, kind, p, base, b, n)}
<1>1. b \in G
  <2> DEFINE it == [i \in b .. b |-> base]
  <2>1. \A i \in b .. b : i = b
    OBVIOUS
  <2>2. RunIs(it, kind, p, base, b, b)
    BY <2>1 DEF RunIs
  <2>3. QED
    BY <2>2
<1>2. ASSUME NEW n \in Nat, n >= b, n \in G PROVE n + 1 \in G
  <2>1. PICK f : RunIs(f, kind, p, base, b, n)
    BY <1>2
  <2> DEFINE last == Step(kind, p, n + 1, f[n])
             it == [i \in b .. n + 1 |-> IF i <= n THEN f[i] ELSE last]
  <2>2. \A i \in b .. n : f[i] = IF i = b THEN base ELSE Step(kind, p, i, f[i - 1])
    BY <2>1 DEF RunIs
  <2>3. ASSUME NEW i \in b .. n + 1
        PROVE  it[i] = IF i = b THEN base ELSE Step(kind, p, i, it[i - 1])
    <3>1. CASE i <= n
      <4>1. i # b => i - 1 \in b .. n + 1 /\ i - 1 <= n
        BY <3>1
      <4>2. it[i] = f[i] /\ (i # b => it[i - 1] = f[i - 1])
        BY <3>1, <4>1
      <4> HIDE DEF it
      <4>3. i \in b .. n
        BY <3>1
      <4>4. QED
        BY <2>2, <4>2, <4>3
    <3>2. CASE ~(i <= n)
      <4>1. i = n + 1 /\ i # b /\ i - 1 = n /\ n \in b .. n + 1
        BY <1>2, <3>2
      <4>2. it[i] = last /\ it[n] = f[n]
        BY <3>2, <4>1
      <4> HIDE DEF it
      <4>3. QED
        BY <4>1, <4>2
    <3>3. QED
      BY <3>1, <3>2
  <2>4. it = [i \in b .. n + 1 |-> it[i]]
    OBVIOUS
  <2> HIDE DEF it
  <2>5. RunIs(it, kind, p, base, b, n + 1)
    BY <2>3, <2>4 DEF RunIs
  <2>6. QED
    BY <2>5
<1> HIDE DEF G
<1>3. to \in G
  BY <1>1, <1>2, InductionFrom
<1>4. QED
  BY <1>3 DEF G

LEMMA RunOfNone ==
    ASSUME NEW kind, NEW p, NEW base, NEW b \in Nat
    PROVE  Run(kind, p, base, b, b) = base
<1>1. RunIs(CHOOSE it : RunIs(it, kind, p, base, b, b), kind, p, base, b, b)
  BY RunsExist
<1>2. QED
  BY <1>1 DEF Run, RunIs

\* A run is a step from the run of the events before.
LEMMA RunSteps ==
    ASSUME NEW kind, NEW p, NEW base, NEW b \in Nat, NEW to \in Nat, to > b
    PROVE  Run(kind, p, base, b, to)
               = Step(kind, p, to, Run(kind, p, base, b, to - 1))
<1> DEFINE f == CHOOSE it : RunIs(it, kind, p, base, b, to)
           g == CHOOSE it : RunIs(it, kind, p, base, b, to - 1)
<1>1. /\ to - 1 \in Nat /\ to - 1 >= b /\ to # b /\ to - 1 <= to
      /\ to \in b .. to /\ to - 1 \in b .. to - 1
  OBVIOUS
<1>2. RunIs(f, kind, p, base, b, to) /\ RunIs(g, kind, p, base, b, to - 1)
  BY <1>1, RunsExist
<1>3. Run(kind, p, base, b, to) = f[to] /\ Run(kind, p, base, b, to - 1) = g[to - 1]
  BY DEF Run
<1> HIDE DEF f, g
<1>4. g[to - 1] = f[to - 1]
  BY <1>1, <1>2, RunsAgree
<1>5. f[to] = Step(kind, p, to, f[to - 1])
  BY <1>1, <1>2 DEF RunIs
<1>6. QED
  BY <1>3, <1>4, <1>5

\* The runs of the model are these.
LEMMA ApplyIsRun ==
    ASSUME NEW members, NEW events
    PROVE  Doors!Apply(members, events) = Run("apply", events, members, 0, Len(events))
  BY DEF Doors!Apply, Run, RunIs, Step

LEMMA ReadsIsRun ==
    ASSUME NEW known, NEW events
    PROVE  Doors!Reads(known, events) = Run("read", events, known, 0, Len(events))
  BY DEF Doors!Reads, Run, RunIs, Step

LEMMA PublishIsRun ==
    ASSUME NEW from, NEW to, NEW gone, NEW shut
    PROVE  Room!PublishRange(from, to, gone, shut)
               = Run("publish", <<gone, shut>>, Room!View, from - 1, to)
  BY DEF Room!PublishRange, Run, RunIs, Step
-----------------------------------------------------------------------------
(* Who is in a room.                                                       *)

Memberships == {"leave", "join", "invite", "ban", "knock"}
Map == [Doors!Users -> Memberships]
MemberEvent == [sender : Doors!Users, user : Doors!Users, from : Memberships,
                to : Memberships, profile : {"none", "name", "nothing"}]
\* What a homeserver takes, of the event alone.
Lawful(e) ==
    IF e.sender = e.user
    THEN \/ e.to = "join" /\ e.from # "ban"
         \/ e.to = "knock" /\ e.from = "leave"
         \/ e.to = "leave" /\ e.from \in {"invite", "join", "knock"}
    ELSE \/ e.to = "invite" /\ e.from \notin {"join", "ban"}
         \/ e.to = "leave" /\ e.from # "leave"
         \/ e.to = "ban" /\ e.from # "ban"

\* The memberships after the first n events of s, and events of which each
\* starts from what those before it left.
After(m, s, n) ==
    (CHOOSE it : it = [i \in 0..n |->
                          IF i = 0 THEN m
                          ELSE [it[i - 1] EXCEPT ![s[i].user] = s[i].to]])[n]
Chained(m, s) ==
    /\ s \in Seq(MemberEvent)
    /\ \A i \in 1..Len(s) : Lawful(s[i]) /\ After(m, s, i - 1)[s[i].user] = s[i].from

LEMMA AfterIsRun ==
    ASSUME NEW m, NEW s, NEW n PROVE After(m, s, n) = Run("apply", s, m, 0, n)
  BY DEF After, Run, RunIs, Step
LEMMA ApplyIsAfter ==
    ASSUME NEW m, NEW s PROVE Doors!Apply(m, s) = After(m, s, Len(s))
  BY AfterIsRun, ApplyIsRun
LEMMA AfterNone == ASSUME NEW m, NEW s PROVE After(m, s, 0) = m
  BY AfterIsRun, RunOfNone
LEMMA AfterNext ==
    ASSUME NEW m, NEW s, NEW n \in Nat, n > 0
    PROVE  After(m, s, n) = [After(m, s, n - 1) EXCEPT ![s[n].user] = s[n].to]
<1>1. Run("apply", s, m, 0, n) = Step("apply", s, n, Run("apply", s, m, 0, n - 1))
  BY RunSteps
<1>2. QED
  BY <1>1, AfterIsRun DEF Step

\* Induction over the numbers up to n.
LEMMA InductionTo ==
    ASSUME NEW n \in Nat, NEW G, 0 \in G,
           \A i \in 1..n : i - 1 \in G => i \in G
    PROVE  n \in G
<1> DEFINE H == {i \in Nat : i <= n => i \in G}
<1>1. 0 \in H
  OBVIOUS
<1>2. ASSUME NEW i \in Nat, i \in H PROVE i + 1 \in H
  <2> SUFFICES ASSUME i + 1 <= n PROVE i + 1 \in G
    OBVIOUS
  <2>1. i + 1 \in 1..n /\ (i + 1) - 1 = i /\ i \in G
    BY <1>2
  <2>2. QED
    BY <2>1
<1> HIDE DEF H
<1>3. \A i \in Nat : i >= 0 => i \in H
  BY <1>1, <1>2, InductionFrom
<1>4. QED
  BY <1>3 DEF H

LEMMA AfterIsMap ==
    ASSUME NEW m \in Map, NEW s \in Seq(MemberEvent), NEW n \in 0..Len(s)
    PROVE  After(m, s, n) \in Map
<1> DEFINE G == {i \in Nat : After(m, s, i) \in Map}
<1>1. 0 \in G
  BY AfterNone
<1>2. ASSUME NEW i \in 1..n, i - 1 \in G PROVE i \in G
  <2>1. i \in Nat /\ i > 0 /\ s[i] \in MemberEvent
    OBVIOUS
  <2>2. s[i].to \in Memberships
    BY <2>1 DEF MemberEvent
  <2>3. After(m, s, i) = [After(m, s, i - 1) EXCEPT ![s[i].user] = s[i].to]
    BY <2>1, AfterNext
  <2>4. After(m, s, i - 1) \in Map
    BY <1>2
  <2>5. After(m, s, i) \in Map
    BY <2>2, <2>3, <2>4 DEF Map
  <2>6. QED
    BY <2>1, <2>5
<1> HIDE DEF G
<1>3. n \in Nat
  OBVIOUS
<1>4. n \in G
  BY <1>1, <1>2, <1>3, InductionTo
<1>5. QED
  BY <1>4 DEF G

\* Only the events themselves matter.
LEMMA AfterSame ==
    ASSUME NEW m, NEW s, NEW t, NEW n \in Nat, \A i \in 1..n : s[i] = t[i]
    PROVE  After(m, s, n) = After(m, t, n)
<1> DEFINE G == {i \in Nat : After(m, s, i) = After(m, t, i)}
<1>1. 0 \in G
  BY AfterNone
<1>2. ASSUME NEW i \in 1..n, i - 1 \in G PROVE i \in G
  <2>1. i \in Nat /\ i > 0 /\ s[i] = t[i] /\ After(m, s, i - 1) = After(m, t, i - 1)
    BY <1>2
  <2>2. After(m, s, i) = After(m, t, i)
    BY <2>1, AfterNext
  <2>3. QED
    BY <2>1, <2>2
<1> HIDE DEF G
<1>3. n \in G
  BY <1>1, <1>2, InductionTo
<1>4. QED
  BY <1>3 DEF G

\* Events may be taken in two parts.
LEMMA AfterSplit ==
    ASSUME NEW m, NEW s, NEW t, NEW k \in Nat, NEW n \in Nat,
           \A i \in 1..n : t[i] = s[k + i]
    PROVE  After(After(m, s, k), t, n) = After(m, s, k + n)
<1> DEFINE G == {i \in Nat : After(After(m, s, k), t, i) = After(m, s, k + i)}
<1>1. 0 \in G
  BY AfterNone
<1>2. ASSUME NEW i \in 1..n, i - 1 \in G PROVE i \in G
  <2>1. /\ i \in Nat /\ i > 0 /\ t[i] = s[k + i] /\ (k + i) - 1 = k + (i - 1)
        /\ k + i \in Nat /\ k + i > 0
        /\ After(After(m, s, k), t, i - 1) = After(m, s, k + (i - 1))
    BY <1>2
  <2>2. After(m, s, k + i)
            = [After(m, s, (k + i) - 1) EXCEPT ![s[k + i].user] = s[k + i].to]
    BY <2>1, AfterNext
  <2>3. After(After(m, s, k), t, i)
            = [After(After(m, s, k), t, i - 1) EXCEPT ![t[i].user] = t[i].to]
    BY <2>1, AfterNext
  <2>4. QED
    BY <2>1, <2>2, <2>3
<1> HIDE DEF G
<1>3. n \in G
  BY <1>1, <1>2, InductionTo
<1>4. QED
  BY <1>3 DEF G

\* Whoever no event is about stays what they were.
LEMMA AfterOthers ==
    ASSUME NEW m \in Map, NEW s \in Seq(MemberEvent), NEW n \in 0..Len(s),
           NEW u \in Doors!Users, \A i \in 1..n : s[i].user # u
    PROVE  After(m, s, n)[u] = m[u]
<1> DEFINE G == {i \in Nat : After(m, s, i)[u] = m[u]}
<1>1. 0 \in G
  BY AfterNone
<1>2. ASSUME NEW i \in 1..n, i - 1 \in G PROVE i \in G
  <2>1. i \in Nat /\ i > 0 /\ i - 1 \in 0..Len(s) /\ s[i].user # u
    OBVIOUS
  <2>2. After(m, s, i) = [After(m, s, i - 1) EXCEPT ![s[i].user] = s[i].to]
    BY <2>1, AfterNext
  <2>3. After(m, s, i - 1) \in Map /\ After(m, s, i - 1)[u] = m[u]
    BY <1>2, <2>1, AfterIsMap
  <2>4. After(m, s, i)[u] = m[u]
    BY <2>1, <2>2, <2>3 DEF Map
  <2>5. QED
    BY <2>1, <2>4
<1> HIDE DEF G
<1>3. n \in Nat
  OBVIOUS
<1>4. n \in G
  BY <1>1, <1>2, <1>3, InductionTo
<1>5. QED
  BY <1>4 DEF G

\* Whoever was not in and is has joined in between.
LEMMA AfterJoin ==
    ASSUME NEW m \in Map, NEW s, Chained(m, s), NEW n \in 0..Len(s),
           NEW u \in Doors!Users, m[u] # "join", After(m, s, n)[u] = "join"
    PROVE  \E i \in 1..n : s[i].user = u /\ s[i].to = "join" /\ s[i].from # "join"
<1> DEFINE Joins(i) == s[i].user = u /\ s[i].to = "join" /\ s[i].from # "join"
           G == {i \in Nat : After(m, s, i)[u] = "join" => \E j \in 1..i : Joins(j)}
<1>1. 0 \in G
  BY AfterNone
<1>2. ASSUME NEW i \in 1..n, i - 1 \in G PROVE i \in G
  <2>1. /\ i \in Nat /\ i > 0 /\ i - 1 \in 0..Len(s) /\ i \in 1..Len(s)
        /\ s \in Seq(MemberEvent)
    BY DEF Chained
  <2>2. After(m, s, i) = [After(m, s, i - 1) EXCEPT ![s[i].user] = s[i].to]
    BY <2>1, AfterNext
  <2>3. After(m, s, i - 1) \in Map
    BY <2>1, AfterIsMap
  <2>4. After(m, s, i - 1)[s[i].user] = s[i].from
    BY <2>1 DEF Chained
  <2>5. ASSUME After(m, s, i)[u] = "join" PROVE \E j \in 1..i : Joins(j)
    <3>1. CASE After(m, s, i - 1)[u] = "join"
      BY <1>2, <3>1
    <3>2. CASE After(m, s, i - 1)[u] # "join"
      <4>1. s[i].user = u /\ s[i].to = "join"
        BY <2>2, <2>3, <2>5, <3>2 DEF Map
      <4>2. Joins(i)
        BY <2>4, <3>2, <4>1
      <4>3. QED
        BY <4>2
    <3>3. QED
      BY <3>1, <3>2
  <2> HIDE DEF Joins
  <2>6. QED
    BY <2>1, <2>5
<1> HIDE DEF G
<1>3. n \in Nat
  OBVIOUS
<1>4. n \in G
  BY <1>1, <1>2, <1>3, InductionTo
<1>5. QED
  BY <1>4 DEF G

\* What each kind of line says, and of whom.
LEMMA SentenceIs ==
    ASSUME NEW e
    PROVE  /\ \A c \in {"Joined", "Left", "InviteRejected", "KnockRequested",
                        "DisplayNameChanged"} : Doors!Sentence(c, e).of = e.sender
           /\ \A c \in {"Invited", "InviteWithdrawn", "Kicked", "Banned", "Unbanned"} :
                  Doors!Sentence(c, e).of = e.user
           /\ \A c \in {"Joined", "Invited"} :
                  Doors!Sentence(c, e).was = {"leave", "invite", "knock"}
           /\ Doors!Sentence("Banned", e).was = {"leave", "invite", "knock", "join"}
           /\ \A c \in {"Left", "Kicked"} : Doors!Sentence(c, e).was = {"join", "knock"}
           /\ \A c \in {"InviteRejected", "InviteWithdrawn"} :
                  Doors!Sentence(c, e).was = {"invite"}
           /\ Doors!Sentence("Unbanned", e).was = {"ban"}
           /\ Doors!Sentence("KnockRequested", e).was = {"leave"}
           /\ Doors!Sentence("DisplayNameChanged", e).was = {"join"}
           /\ \A c \in {"Joined", "DisplayNameChanged"} :
                  Doors!Sentence(c, e).is = "join"
           /\ \A c \in {"Left", "Kicked", "InviteRejected", "InviteWithdrawn",
                        "Unbanned"} : Doors!Sentence(c, e).is = "leave"
           /\ Doors!Sentence("Invited", e).is = "invite"
           /\ Doors!Sentence("Banned", e).is = "ban"
           /\ Doors!Sentence("KnockRequested", e).is = "knock"
  BY DEF Doors!Sentence, Doors!Out

\* A line that fits tells what the event did.
LEMMA LineTells ==
    ASSUME NEW m \in Map, NEW e \in MemberEvent, Lawful(e), m[e.user] = e.from
    PROVE  Doors!ReadLine(m, e) = [m EXCEPT ![e.user] = e.to]
<1> DEFINE change == Doors!ClassifyMember(e)
           line == Doors!Sentence(change, e)
<1>1. /\ e.from \in Memberships /\ e.to \in Memberships
      /\ e.user \in Doors!Users /\ e.profile \in {"none", "name", "nothing"}
  BY DEF MemberEvent
<1>2. /\ e.to = "invite" => change = "Invited"
      /\ e.to = "ban" => change = "Banned"
      /\ e.to = "knock" => change = "KnockRequested"
  BY DEF Doors!ClassifyMember
<1>3. e.to = "join" =>
          /\ e.from # "join" => change = "Joined"
          /\ e.from = "join" => change \in {"DisplayNameChanged", "None"}
  BY DEF Doors!ClassifyMember
<1>4. e.to = "leave" =>
          /\ e.from = "invite" /\ e.sender = e.user => change = "InviteRejected"
          /\ e.from = "invite" /\ e.sender # e.user => change = "InviteWithdrawn"
          /\ e.from = "ban" => change = "Unbanned"
          /\ e.from \in {"join", "knock"} /\ e.sender = e.user => change = "Left"
          /\ e.from \in {"join", "knock"} /\ e.sender # e.user => change = "Kicked"
  BY DEF Doors!ClassifyMember
<1>5. Doors!ReadLine(m, e)
          = IF change = "None" THEN m
            ELSE [m EXCEPT ![line.of] = IF m[line.of] \in line.was THEN line.is
                                        ELSE "puzzled"]
  BY DEF Doors!ReadLine
<1> HIDE DEF change
<1>6. CASE change = "None"
  <2>1. e.to = "join" /\ e.from = "join"
    BY <1>1, <1>2, <1>3, <1>4, <1>6 DEF Memberships, Lawful
  <2>2. m = [m EXCEPT ![e.user] = e.to]
    BY <1>1, <2>1 DEF Map
  <2>3. QED
    BY <1>5, <1>6, <2>2
<1>7. CASE change # "None"
  <2>1. line.of = e.user /\ e.from \in line.was /\ line.is = e.to
    <3>1. CASE e.to = "join"
      <4>1. e.sender = e.user /\ e.from # "ban"
        BY <3>1 DEF Lawful
      <4>2. CASE e.from = "join"
        <5>1. change = "DisplayNameChanged"
          BY <1>3, <1>7, <3>1, <4>2
        <5>2. QED
          BY <3>1, <4>1, <4>2, <5>1, SentenceIs
      <4>3. CASE e.from # "join"
        <5>1. change = "Joined"
          BY <1>3, <3>1, <4>3
        <5>2. e.from \in {"leave", "invite", "knock"}
          BY <1>1, <4>1, <4>3 DEF Memberships
        <5>3. QED
          BY <3>1, <4>1, <5>1, <5>2, SentenceIs
      <4>4. QED
        BY <4>2, <4>3
    <3>2. CASE e.to = "leave"
      <4>1. e.from # "leave"
        BY <3>2 DEF Lawful
      <4>2. CASE e.from = "invite"
        <5>1. CASE e.sender = e.user
          <6>1. change = "InviteRejected"
            BY <1>4, <3>2, <4>2, <5>1
          <6>2. QED
            BY <3>2, <4>2, <5>1, <6>1, SentenceIs
        <5>2. CASE e.sender # e.user
          <6>1. change = "InviteWithdrawn"
            BY <1>4, <3>2, <4>2, <5>2
          <6>2. QED
            BY <3>2, <4>2, <6>1, SentenceIs
        <5>3. QED
          BY <5>1, <5>2
      <4>3. CASE e.from = "ban"
        <5>1. change = "Unbanned"
          BY <1>4, <3>2, <4>3
        <5>2. QED
          BY <3>2, <4>3, <5>1, SentenceIs
      <4>4. CASE e.from \in {"join", "knock"}
        <5>1. CASE e.sender = e.user
          <6>1. change = "Left"
            BY <1>4, <3>2, <4>4, <5>1
          <6>2. QED
            BY <3>2, <4>4, <5>1, <6>1, SentenceIs
        <5>2. CASE e.sender # e.user
          <6>1. change = "Kicked"
            BY <1>4, <3>2, <4>4, <5>2
          <6>2. QED
            BY <3>2, <4>4, <6>1, SentenceIs
        <5>3. QED
          BY <5>1, <5>2
      <4>5. QED
        BY <1>1, <4>1, <4>2, <4>3, <4>4 DEF Memberships
    <3>3. CASE e.to = "invite"
      <4>1. change = "Invited" /\ e.from \in {"leave", "invite", "knock"}
        BY <1>1, <1>2, <3>3 DEF Memberships, Lawful
      <4>2. QED
        BY <3>3, <4>1, SentenceIs
    <3>4. CASE e.to = "ban"
      <4>1. change = "Banned" /\ e.from \in {"leave", "invite", "knock", "join"}
        BY <1>1, <1>2, <3>4 DEF Memberships, Lawful
      <4>2. QED
        BY <3>4, <4>1, SentenceIs
    <3>5. CASE e.to = "knock"
      <4>1. change = "KnockRequested" /\ e.from = "leave" /\ e.sender = e.user
        BY <1>2, <3>5 DEF Lawful
      <4>2. QED
        BY <3>5, <4>1, SentenceIs
    <3>6. QED
      BY <1>1, <3>1, <3>2, <3>3, <3>4, <3>5 DEF Memberships
  <2> HIDE DEF line
  <2>2. QED
    BY <1>5, <1>7, <2>1
<1>8. QED
  BY <1>6, <1>7

\* A reader of lines that fit knows who is in.
LEMMA ReadsTrue ==
    ASSUME NEW m \in Map, NEW s, Chained(m, s)
    PROVE  Doors!Reads(m, s) = Doors!Apply(m, s)
<1> DEFINE R(i) == Run("read", s, m, 0, i)
           G == {i \in Nat : R(i) = After(m, s, i)}
<1>1. 0 \in G
  BY RunOfNone, AfterNone
<1>2. ASSUME NEW i \in 1..Len(s), i - 1 \in G PROVE i \in G
  <2>1. /\ i \in Nat /\ i > 0 /\ i - 1 \in 0..Len(s) /\ s[i] \in MemberEvent
        /\ s \in Seq(MemberEvent)
    BY DEF Chained
  <2>2. After(m, s, i) = [After(m, s, i - 1) EXCEPT ![s[i].user] = s[i].to]
    BY <2>1, AfterNext
  <2>3. After(m, s, i - 1) \in Map
    BY <2>1, AfterIsMap
  <2>4. Lawful(s[i]) /\ After(m, s, i - 1)[s[i].user] = s[i].from
    BY <2>1 DEF Chained
  <2>5. R(i) = Doors!ReadLine(R(i - 1), s[i])
    <3>1. R(i) = Step("read", s, i, R(i - 1))
      BY <2>1, RunSteps
    <3> HIDE DEF R
    <3>2. QED
      BY <3>1 DEF Step
  <2>6. R(i - 1) = After(m, s, i - 1)
    BY <1>2
  <2> HIDE DEF R
  <2>7. R(i) = After(m, s, i)
    BY <2>1, <2>2, <2>3, <2>4, <2>5, <2>6, LineTells
  <2>8. QED
    BY <2>1, <2>7 DEF G
<1> HIDE DEF G
<1>3. Len(s) \in Nat
  BY DEF Chained
<1>4. Len(s) \in G
  BY <1>1, <1>2, <1>3, InductionTo
<1>5. QED
  BY <1>4, ApplyIsAfter, ReadsIsRun DEF G
-----------------------------------------------------------------------------
\* A stretch of a chain is a chain.
LEMMA ChainPart ==
    ASSUME NEW m, NEW s, Chained(m, s), NEW k \in 0..Len(s), NEW n \in k..Len(s)
    PROVE  /\ Chained(After(m, s, k), SubSeq(s, k + 1, n))
           /\ Doors!Apply(After(m, s, k), SubSeq(s, k + 1, n)) = After(m, s, n)
           /\ Len(SubSeq(s, k + 1, n)) = n - k
           /\ \A i \in 1..n - k : SubSeq(s, k + 1, n)[i] = s[k + i]
<1> DEFINE t == SubSeq(s, k + 1, n)
           b == After(m, s, k)
<1>1. s \in Seq(MemberEvent) /\ Len(s) \in Nat /\ k \in Nat /\ n \in Nat /\ n - k \in Nat
  BY DEF Chained
<1>2. t \in Seq(MemberEvent) /\ Len(t) = n - k
      /\ \A i \in 1..n - k : t[i] = s[k + i]
  BY <1>1
<1> HIDE DEF t
<1>3. ASSUME NEW j \in 0..n - k PROVE After(b, t, j) = After(m, s, k + j)
  BY <1>1, <1>2, AfterSplit
<1> HIDE DEF b
<1>4. ASSUME NEW i \in 1..n - k
      PROVE  Lawful(t[i]) /\ After(b, t, i - 1)[t[i].user] = t[i].from
  <2>1. k + i \in 1..Len(s) /\ i - 1 \in 0..n - k /\ k + (i - 1) = (k + i) - 1
    BY <1>1
  <2>2. Lawful(s[k + i]) /\ After(m, s, (k + i) - 1)[s[k + i].user] = s[k + i].from
    BY <2>1 DEF Chained
  <2>3. After(b, t, i - 1) = After(m, s, (k + i) - 1)
    BY <1>3, <2>1
  <2>4. QED
    BY <1>2, <2>2, <2>3
<1>5. Chained(b, t)
  BY <1>2, <1>4 DEF Chained
<1>6. Doors!Apply(b, t) = After(m, s, n)
  <2>1. n - k \in 0..n - k /\ k + (n - k) = n
    BY <1>1
  <2>2. After(b, t, n - k) = After(m, s, n)
    BY <1>3, <2>1
  <2>3. QED
    BY <1>2, <2>2, ApplyIsAfter
<1>7. QED
  BY <1>2, <1>5, <1>6 DEF t, b

\* A chain goes on with an event that starts where it ends.
LEMMA ChainAppend ==
    ASSUME NEW m, NEW s, Chained(m, s), NEW e \in MemberEvent, Lawful(e),
           Doors!Apply(m, s)[e.user] = e.from
    PROVE  Chained(m, Append(s, e))
<1> DEFINE t == Append(s, e)
           n == Len(s)
<1>1. s \in Seq(MemberEvent) /\ n \in Nat
  BY DEF Chained
<1>2. t \in Seq(MemberEvent) /\ Len(t) = n + 1 /\ t[n + 1] = e
      /\ \A i \in 1..n : t[i] = s[i]
  BY <1>1
<1> HIDE DEF t
<1>3. ASSUME NEW i \in 0..n PROVE After(m, t, i) = After(m, s, i)
  <2>1. i \in Nat /\ \A j \in 1..i : t[j] = s[j]
    BY <1>1, <1>2
  <2>2. QED
    BY <2>1, AfterSame
<1>4. After(m, s, n)[e.user] = e.from
  BY ApplyIsAfter
<1>5. ASSUME NEW i \in 1..n + 1
      PROVE  Lawful(t[i]) /\ After(m, t, i - 1)[t[i].user] = t[i].from
  <2>1. CASE i \in 1..n
    <3>1. Lawful(s[i]) /\ After(m, s, i - 1)[s[i].user] = s[i].from
      BY <2>1 DEF Chained
    <3>2. i - 1 \in 0..n
      BY <1>1
    <3>3. QED
      BY <1>2, <1>3, <2>1, <3>1, <3>2
  <2>2. CASE i = n + 1
    <3>1. i - 1 = n /\ n \in 0..n
      BY <1>1, <2>2
    <3>2. QED
      BY <1>2, <1>3, <1>4, <2>2, <3>1
  <2>3. QED
    BY <1>1, <2>1, <2>2
<1> HIDE DEF n
<1>6. QED
  BY <1>1, <1>2, <1>5 DEF Chained, t, n

LEMMA GreatestTo ==
    ASSUME NEW n \in Nat, NEW S \in SUBSET (1..n), S # {}
    PROVE  Doors!Max(S) \in S
<1> DEFINE below == {n - x : x \in S}
<1>1. below \in SUBSET Nat /\ below # {}
  <2>1. \A x \in S : n - x \in Nat
    OBVIOUS
  <2>2. QED
    BY <2>1
<1>2. PICK d \in below : \A c \in below : d <= c
  BY <1>1, LeastNatural
<1>3. PICK x \in S : d = n - x
  BY <1>2
<1>4. \A y \in S : x >= y
  <2> SUFFICES ASSUME NEW y \in S PROVE x >= y
    OBVIOUS
  <2>1. n - x <= n - y /\ x \in Nat /\ y \in Nat
    BY <1>2, <1>3
  <2>2. QED
    BY <2>1
<1>5. QED
  BY <1>4 DEF Doors!Max

\* The join the timeline of a new Room starts with.
LEMMA MyJoinIs ==
    ASSUME NEW s \in Seq(MemberEvent),
           \E i \in 1..Len(s) :
               s[i].user = Me /\ s[i].to = "join" /\ s[i].from # "join"
    PROVE  Doors!MyJoin(s) \in 1..Len(s)
<1> DEFINE I == {i \in 1..Len(s) :
                    s[i].user = Me /\ s[i].to = "join" /\ s[i].from # "join"}
<1>1. Doors!MyJoin(s) = IF I # {} THEN Doors!Max(I) ELSE 0
  BY DEF Doors!MyJoin, Doors!SelectLastInSeq
<1>2. I # {} /\ I \in SUBSET (1..Len(s)) /\ Len(s) \in Nat
  OBVIOUS
<1> HIDE DEF I
<1>3. QED
  BY <1>1, <1>2, GreatestTo
-----------------------------------------------------------------------------
\* The reader knows who is in; whoever is invited can see it; what is listed
\* can be entered; and what no sync has brought follows from what is served.
Told == linked /\ served[Me] = "join" =>
            told = served /\ column = Doors!Joined(served)
Shown == linked /\ (served[Me] = "invite" \/ "invite" \in rooms) =>
            invites \/ "join" \in rooms
NotStale == visits = 1 /\ invites => "invite" \in rooms /\ served[Me] = "invite"
Coming(s) == \E i \in 1..Len(s) : s[i].user = Me /\ s[i].to = "join"
NoLitter == visits = 1 /\ listed => served[Me] \in {"join", "invite"} \/ Coming(waiting)
DoorsInv ==
    /\ served \in Map /\ Chained(served, waiting)
    /\ visits \in {1, 2} /\ (visits = 1 => linked)
    /\ Told /\ Shown /\ NotStale /\ NoLitter

LEMMA DoorsInit == Doors!Init => DoorsInv
<1> SUFFICES ASSUME Doors!Init PROVE DoorsInv
  OBVIOUS
<1>1. PICK founder \in Doors!Users :
          waiting = <<[sender |-> founder, user |-> founder, from |-> "leave",
                       to |-> "join", profile |-> "none"]>>
  BY DEF Doors!Init
<1>2. /\ served = [u \in Doors!Users |-> "leave"] /\ linked = TRUE /\ visits = 1
      /\ rooms = {} /\ listed = FALSE /\ invites = FALSE
      /\ Me \in Doors!Users
  BY DEF Doors!Init, Doors!Users
<1>3. served \in Map /\ served[Me] = "leave"
  BY <1>2 DEF Map, Memberships
<1>4. Chained(served, waiting)
  <2>1. waiting \in Seq(MemberEvent) /\ Len(waiting) = 1
    BY <1>1 DEF MemberEvent, Memberships
  <2>2. After(served, waiting, 1 - 1) = served
    BY AfterNone
  <2>3. waiting[1].user = founder /\ waiting[1].from = "leave" /\ Lawful(waiting[1])
    BY <1>1 DEF Lawful
  <2>4. served[waiting[1].user] = waiting[1].from
    BY <1>2, <2>3
  <2>5. QED
    BY <2>1, <2>2, <2>3, <2>4 DEF Chained
<1>5. QED
  BY <1>2, <1>3, <1>4 DEF DoorsInv, Told, Shown, NotStale, NoLitter

\* The homeserver takes what fits the memberships as they are.
LEMMA TakenIsLawful ==
    ASSUME DoorsInv, NEW sender \in Doors!Users, NEW user \in Doors!Users,
           NEW to \in Memberships, NEW profile \in {"none", "name", "nothing"},
           Doors!Happens(Doors!Event(sender, user, to, profile))
    PROVE  /\ Chained(served, waiting')
           /\ waiting' = Append(waiting, Doors!Event(sender, user, to, profile))
           /\ Coming(waiting) => Coming(waiting')
           /\ Doors!Current[user] \in Memberships
<1> DEFINE e == Doors!Event(sender, user, to, profile)
<1>1. /\ served \in Map /\ Chained(served, waiting)
      /\ waiting \in Seq(MemberEvent) /\ Len(waiting) \in Nat
  BY DEF DoorsInv, Chained
<1>2. Doors!Current \in Map
  <2>1. Doors!Current = After(served, waiting, Len(waiting))
    BY ApplyIsAfter DEF Doors!Current
  <2>2. QED
    BY <1>1, <2>1, AfterIsMap
<1>3. Doors!Current[user] \in Memberships
  BY <1>2 DEF Map
<1>4. /\ e.sender = sender /\ e.user = user /\ e.to = to
      /\ e.from = Doors!Current[user] /\ e \in MemberEvent
  BY <1>3 DEF Doors!Event, MemberEvent
<1>5. Doors!Allowed(e) /\ waiting' = Append(waiting, e)
  BY DEF Doors!Happens
<1> HIDE DEF e
<1>6. Lawful(e)
  <2>1. CASE e.sender = e.user
    BY <1>3, <1>4, <1>5, <2>1 DEF Doors!Allowed, Lawful, Memberships
  <2>2. CASE e.sender # e.user
    BY <1>3, <1>4, <1>5, <2>2 DEF Doors!Allowed, Lawful, Memberships
  <2>3. QED
    BY <2>1, <2>2
<1>7. Chained(served, waiting')
  BY <1>1, <1>4, <1>5, <1>6, ChainAppend DEF Doors!Current
<1>8. Coming(waiting) => Coming(waiting')
  BY <1>1, <1>5 DEF Coming
<1>9. QED
  BY <1>3, <1>5, <1>7, <1>8 DEF e

\* What others do, and what is only asked for, waits for a sync.
LEMMA WaitsKeeps ==
    ASSUME DoorsInv, Chained(served, waiting'), Coming(waiting) => Coming(waiting'),
           UNCHANGED <<served, linked, visits, rooms, invites, listed, told, column>>
    PROVE  DoorsInv'
<1>1. Doors!Joined(served)' = Doors!Joined(served)
  BY DEF Doors!Joined
<1>2. Chained(served, waiting)'
  OBVIOUS
<1>3. Told' /\ Shown' /\ NotStale' /\ NoLitter'
  BY <1>1 DEF DoorsInv, Told, Shown, NotStale, NoLitter, Coming
<1>4. QED
  BY <1>2, <1>3 DEF DoorsInv
-----------------------------------------------------------------------------
\* A sync takes a stretch of what is waiting.
LEMMA SyncTakes ==
    ASSUME DoorsInv, NEW n \in 1..Len(waiting),
           served' = Doors!Apply(served, SubSeq(waiting, 1, n)),
           waiting' = SubSeq(waiting, n + 1, Len(waiting))
    PROVE  /\ served' \in Map /\ Chained(served', waiting')
           /\ Chained(served, SubSeq(waiting, 1, n))
           /\ Len(SubSeq(waiting, 1, n)) = n
           /\ \A i \in 1..n : SubSeq(waiting, 1, n)[i] = waiting[i]
           /\ (\A i \in 1..n : waiting[i].user # Me) =>
                  /\ served'[Me] = served[Me]
                  /\ Coming(waiting) => Coming(waiting')
<1> DEFINE e == SubSeq(waiting, 1, n)
           L == Len(waiting)
<1>1. /\ served \in Map /\ Chained(served, waiting) /\ waiting \in Seq(MemberEvent)
      /\ L \in Nat /\ n \in Nat /\ n \in 0..L /\ 0 \in 0..L /\ L \in n..L
      /\ n \in 0..L /\ n - 0 = n /\ 0 + 1 = 1
  BY DEF DoorsInv, Chained
<1>2. After(served, waiting, 0) = served
  BY AfterNone
<1>3. /\ Chained(After(served, waiting, 0), SubSeq(waiting, 0 + 1, n))
      /\ Doors!Apply(After(served, waiting, 0), SubSeq(waiting, 0 + 1, n))
             = After(served, waiting, n)
      /\ Len(SubSeq(waiting, 0 + 1, n)) = n - 0
      /\ \A i \in 1..n - 0 : SubSeq(waiting, 0 + 1, n)[i] = waiting[0 + i]
  BY <1>1, ChainPart
<1>4. /\ Chained(served, e) /\ Doors!Apply(served, e) = After(served, waiting, n)
      /\ Len(e) = n /\ \A i \in 1..n : e[i] = waiting[i]
  <2>1. \A i \in 1..n : 0 + i = i
    OBVIOUS
  <2>2. QED
    BY <1>1, <1>2, <1>3, <2>1
<1>5. served' = After(served, waiting, n)
  BY <1>4
<1>6. /\ Chained(served', waiting') /\ Len(waiting') = L - n
      /\ \A i \in 1..L - n : waiting'[i] = waiting[n + i]
  BY <1>1, <1>5, ChainPart
<1>7. served' \in Map
  BY <1>1, <1>5, AfterIsMap
<1>8. ASSUME \A i \in 1..n : waiting[i].user # Me
      PROVE  /\ served'[Me] = served[Me]
             /\ Coming(waiting) => Coming(waiting')
  <2>1. served'[Me] = served[Me]
    BY <1>1, <1>5, <1>8, AfterOthers DEF Doors!Users
  <2>2. ASSUME NEW i \in 1..L, waiting[i].user = Me, waiting[i].to = "join"
        PROVE  Coming(waiting')
    <3>1. i - n \in 1..L - n /\ n + (i - n) = i
      BY <1>1, <1>8, <2>2
    <3>2. waiting'[i - n] = waiting[i]
      BY <1>6, <3>1
    <3>3. QED
      BY <1>6, <2>2, <3>1, <3>2 DEF Coming
  <2>3. QED
    BY <2>1, <2>2 DEF Coming
<1>9. QED
  BY <1>4, <1>6, <1>7, <1>8

\* In a room that is joined the lines say what the sync brought, in one that was
\* joined just now from the join on.
LEMMA JoinedTells ==
    ASSUME DoorsInv, linked, NEW s, Chained(served, s),
           Doors!Apply(served, s)[Me] = "join",
           Doors!OnJoined(s, Doors!Apply(served, s))
    PROVE  /\ told' = Doors!Apply(served, s)
           /\ column' = Doors!Joined(Doors!Apply(served, s))
<1> DEFINE i == IF served[Me] = "join" THEN 0 ELSE Doors!MyJoin(s)
           before == IF i = 0 THEN told ELSE Doors!Apply(served, SubSeq(s, 1, i))
           n == Len(s)
<1>1. told' = Doors!Reads(before, SubSeq(s, i + 1, n))
      /\ column' = Doors!Joined(Doors!Apply(served, s))
  BY DEF Doors!OnJoined
<1>2. /\ s \in Seq(MemberEvent) /\ n \in Nat /\ served \in Map /\ Me \in Doors!Users
      /\ n \in 0..n /\ 0 \in 0..n
  BY DEF DoorsInv, Chained, Doors!Users
<1>3. Doors!Apply(served, s) = After(served, s, n)
  BY ApplyIsAfter
<1>4. After(served, s, 0) = served
  BY AfterNone
<1>5. i \in 0..n /\ before = After(served, s, i)
  <2>1. CASE served[Me] = "join"
    BY <1>2, <1>4, <2>1 DEF DoorsInv, Told
  <2>2. CASE served[Me] # "join"
    <3>1. \E j \in 1..n : s[j].user = Me /\ s[j].to = "join" /\ s[j].from # "join"
      BY <1>2, <1>3, <2>2, AfterJoin
    <3>2. i \in 1..n
      BY <1>2, <2>2, <3>1, MyJoinIs
    <3> HIDE DEF i
    <3>3. /\ i \in Nat /\ i # 0 /\ i \in 0..n /\ n \in i..n /\ 0 + 1 = 1
          /\ i \in 0..n
      BY <1>2, <3>2
    <3>4. Doors!Apply(After(served, s, 0), SubSeq(s, 0 + 1, i)) = After(served, s, i)
      BY <1>2, <3>3, ChainPart
    <3>5. QED
      BY <1>4, <3>3, <3>4
  <2>3. QED
    BY <2>1, <2>2
<1> HIDE DEF i, before
<1>6. n \in i..n
  BY <1>2, <1>5
<1>7. /\ Chained(before, SubSeq(s, i + 1, n))
      /\ Doors!Apply(before, SubSeq(s, i + 1, n)) = After(served, s, n)
  BY <1>2, <1>5, <1>6, ChainPart
<1>8. before \in Map
  BY <1>2, <1>5, AfterIsMap
<1> HIDE DEF n
<1>9. Doors!Reads(before, SubSeq(s, i + 1, n)) = After(served, s, n)
  BY <1>7, <1>8, ReadsTrue
<1>10. QED
  BY <1>1, <1>3, <1>9

LEMMA SyncKeeps == ASSUME DoorsInv, Doors!Sync PROVE DoorsInv'
<1>1. PICK n \in 1..Len(waiting) :
          LET events == SubSeq(waiting, 1, n)
              members == Doors!Apply(served, events)
          IN /\ served' = members
             /\ waiting' = SubSeq(waiting, n + 1, Len(waiting))
             /\ \/ members[Me] = "join" /\ Doors!OnJoined(events, members)
                \/ members[Me] = "invite" /\ Doors!OnInvited
                \/ /\ members[Me] \notin {"join", "invite"}
                   /\ IF \E e \in Doors!Range(events) : e.user = Me THEN Doors!OnLeft
                      ELSE Doors!Closed /\ UNCHANGED <<rooms, tracked, listed, invites>>
  BY DEF Doors!Sync, Doors!doors
<1> DEFINE s == SubSeq(waiting, 1, n)
<1>2. linked /\ linked' = linked /\ visits' = visits
  BY DEF Doors!Sync, Doors!kept
<1>3. /\ served' \in Map /\ Chained(served', waiting')
      /\ Chained(served, s) /\ Len(s) = n /\ \A i \in 1..n : s[i] = waiting[i]
      /\ (\A i \in 1..n : waiting[i].user # Me) =>
             /\ served'[Me] = served[Me]
             /\ Coming(waiting) => Coming(waiting')
  BY <1>1, SyncTakes
<1>4. served' = Doors!Apply(served, s)
  BY <1>1
<1> HIDE DEF s
<1>5. visits' \in {1, 2} /\ (visits' = 1 => linked') /\ (visits' = 1 <=> visits = 1)
  BY <1>2 DEF DoorsInv
<1>6. CASE served'[Me] = "join" /\ Doors!OnJoined(s, served')
  <2>1. told' = served' /\ column' = Doors!Joined(served')
    BY <1>2, <1>3, <1>4, <1>6, JoinedTells
  <2>2. rooms' = {"join"} /\ invites' = (invites /\ "invite" \notin rooms)
    BY <1>6 DEF Doors!OnJoined
  <2>3. Told' /\ Shown' /\ NoLitter'
    BY <1>6, <2>1, <2>2 DEF Told, Shown, NoLitter, Doors!Joined
  <2>4. NotStale'
    BY <1>5, <2>2 DEF DoorsInv, NotStale
  <2>5. QED
    BY <1>3, <1>5, <2>3, <2>4 DEF DoorsInv
<1>7. CASE served'[Me] = "invite" /\ Doors!OnInvited
  <2>1. rooms' = rooms \cup {"invite"} /\ invites' = (invites \/ "invite" \notin rooms)
        /\ listed' = listed
    BY <1>7 DEF Doors!OnInvited
  <2>2. Told' /\ NotStale' /\ NoLitter'
    BY <1>7, <2>1 DEF Told, NotStale, NoLitter
  <2>3. Shown'
    BY <1>2, <2>1 DEF DoorsInv, Shown
  <2>4. QED
    BY <1>3, <1>5, <2>2, <2>3 DEF DoorsInv
<1>8. CASE served'[Me] \notin {"join", "invite"} /\ Doors!OnLeft
  <2>1. rooms' = {} /\ listed' = FALSE /\ invites' = (invites /\ "invite" \notin rooms)
    BY <1>8 DEF Doors!OnLeft
  <2>2. Told' /\ Shown' /\ NoLitter'
    BY <1>8, <2>1 DEF Told, Shown, NoLitter
  <2>3. NotStale'
    BY <1>5, <2>1 DEF DoorsInv, NotStale
  <2>4. QED
    BY <1>3, <1>5, <2>2, <2>3 DEF DoorsInv
<1>9. CASE /\ served'[Me] \notin {"join", "invite"}
           /\ ~\E e \in Doors!Range(s) : e.user = Me
           /\ UNCHANGED <<rooms, listed, invites>>
  <2>1. \A i \in 1..n : waiting[i].user # Me
    <3>1. s \in Seq(MemberEvent)
      BY <1>3 DEF Chained
    <3>2. \A i \in 1..n : s[i] \in Doors!Range(s)
      BY <1>3, <3>1 DEF Doors!Range
    <3>3. QED
      BY <1>3, <1>9, <3>2
  <2>2. served'[Me] = served[Me] /\ (Coming(waiting) => Coming(waiting'))
    BY <1>3, <2>1
  <2>3. Told' /\ Shown' /\ NotStale' /\ NoLitter'
    BY <1>2, <1>5, <1>9, <2>2 DEF DoorsInv, Told, Shown, NotStale, NoLitter
  <2>4. QED
    BY <1>3, <1>5, <2>3 DEF DoorsInv
<1>10. QED
  BY <1>1, <1>4, <1>6, <1>7, <1>8, <1>9 DEF s
-----------------------------------------------------------------------------
\* What was asked for and is still unanswered, or refused, shows nothing.
LEMMA AsksKeep ==
    ASSUME DoorsInv, NEW user \in Doors!Users, NEW sender \in Doors!Users,
           NEW to \in Memberships,
           Doors!Asks(Doors!Event(sender, user, to, "none")), Doors!Asked
    PROVE  DoorsInv'
<1>1. UNCHANGED <<served, linked, visits, rooms, invites, listed, told, column>>
  BY DEF Doors!Asked, Doors!kept, Doors!doors, Doors!reading
<1>2. CASE waiting' = waiting
  BY <1>1, <1>2, WaitsKeeps DEF DoorsInv
<1>3. CASE Doors!Happens(Doors!Event(sender, user, to, "none"))
  <2>1. Chained(served, waiting') /\ (Coming(waiting) => Coming(waiting'))
    BY <1>3, TakenIsLawful
  <2>2. QED
    BY <1>1, <2>1, WaitsKeeps
<1>4. QED
  BY <1>2, <1>3 DEF Doors!Asks

LEMMA OthersKeep == ASSUME DoorsInv, Doors!OthersAct PROVE DoorsInv'
<1>1. UNCHANGED <<served, linked, visits, rooms, invites, listed, told, column>>
  BY DEF Doors!OthersAct, Doors!kept, Doors!doors, Doors!reading
<1>2. \E s \in Doors!Users, u \in Doors!Users, to \in Memberships,
         p \in {"none", "name", "nothing"} : Doors!Happens(Doors!Event(s, u, to, p))
  BY DEF Doors!OthersAct, Doors!Users, Memberships
<1>3. Chained(served, waiting') /\ (Coming(waiting) => Coming(waiting'))
  BY <1>2, TakenIsLawful
<1>4. QED
  BY <1>1, <1>3, WaitsKeeps

\* A room is there from the answer on.
LEMMA JoinKeeps == ASSUME DoorsInv, Doors!JoinRoom PROVE DoorsInv'
<1>1. /\ UNCHANGED <<served, linked, visits, told, column>>
      /\ rooms' = {"join"} /\ invites' = (invites /\ "invite" \notin rooms)
      /\ Doors!Happens(Doors!Event(Me, Me, "join", "none"))
  BY DEF Doors!JoinRoom, Doors!kept, Doors!reading
<1>2. Chained(served, waiting')
      /\ waiting' = Append(waiting, Doors!Event(Me, Me, "join", "none"))
  BY <1>1, TakenIsLawful DEF Doors!Users, Memberships
<1>3. Coming(waiting')
  <2>1. waiting \in Seq(MemberEvent) /\ Len(waiting) \in Nat
    BY DEF DoorsInv, Chained
  <2>2. /\ Doors!Event(Me, Me, "join", "none").user = Me
        /\ Doors!Event(Me, Me, "join", "none").to = "join"
    BY DEF Doors!Event
  <2>3. Len(waiting') = Len(waiting) + 1
        /\ waiting'[Len(waiting) + 1] = Doors!Event(Me, Me, "join", "none")
    BY <1>2, <2>1
  <2>4. Len(waiting) + 1 \in 1..Len(waiting')
    BY <2>1, <2>3
  <2>5. QED
    BY <2>2, <2>3, <2>4 DEF Coming
<1>4. Told' /\ Shown' /\ NotStale' /\ NoLitter'
  BY <1>1, <1>3 DEF DoorsInv, Told, Shown, NotStale, NoLitter, Doors!Joined
<1>5. QED
  BY <1>1, <1>2, <1>4 DEF DoorsInv

LEMMA LeaveKeeps == ASSUME DoorsInv, Doors!LeaveChat PROVE DoorsInv'
<1>1. /\ UNCHANGED <<served, linked, visits, rooms, invites, listed, told, column>>
      /\ Doors!Happens(Doors!Event(Me, Me, "leave", "none"))
  BY DEF Doors!LeaveChat, Doors!kept, Doors!doors, Doors!reading
<1>2. Chained(served, waiting') /\ (Coming(waiting) => Coming(waiting'))
  BY <1>1, TakenIsLawful DEF Doors!Users, Memberships
<1>3. QED
  BY <1>1, <1>2, WaitsKeeps

LEMMA DropKeeps == ASSUME DoorsInv, Doors!DropChatLocally PROVE DoorsInv'
<1>1. /\ UNCHANGED <<served, waiting, linked, visits, rooms, invites, column>>
      /\ listed' = FALSE /\ told' = served
  BY DEF Doors!DropChatLocally, Doors!kept
<1>2. Told' /\ Shown' /\ NotStale' /\ NoLitter'
  BY <1>1 DEF DoorsInv, Told, Shown, NotStale, NoLitter, Doors!Joined
<1>3. QED
  BY <1>1, <1>2 DEF DoorsInv

LEMMA SignOutKeeps == ASSUME DoorsInv, Doors!SignOut PROVE DoorsInv'
<1>1. linked' = FALSE /\ visits' = 2 /\ UNCHANGED <<served, waiting>>
  BY DEF Doors!SignOut
<1>2. QED
  BY <1>1 DEF DoorsInv, Told, Shown, NotStale, NoLitter

LEMMA SignInKeeps == ASSUME DoorsInv, Doors!SignIn PROVE DoorsInv'
<1>1. /\ linked' = TRUE /\ visits' = visits /\ visits = 2
      /\ served' = Doors!Current /\ waiting' = <<>>
      /\ told' = served' /\ column' = Doors!Joined(served')
      /\ rooms' \subseteq {served'[Me]}
      /\ invites' = (invites \/ served'[Me] = "invite")
      /\ served'[Me] = "invite" => invites'
  BY DEF Doors!SignIn, Doors!Rebuilt, DoorsInv
<1>2. served' \in Map
  <2>1. Len(waiting) \in 0..Len(waiting) /\ waiting \in Seq(MemberEvent)
    BY DEF DoorsInv, Chained
  <2>2. QED
    BY <1>1, <2>1, AfterIsMap, ApplyIsAfter DEF DoorsInv, Doors!Current
<1>3. Chained(served', waiting')
  BY <1>1 DEF Chained
<1>4. Told' /\ Shown' /\ NotStale' /\ NoLitter'
  BY <1>1 DEF Told, Shown, NotStale, NoLitter, Doors!Joined
<1>5. QED
  BY <1>1, <1>2, <1>3, <1>4 DEF DoorsInv

LEMMA AgainKeeps == ASSUME DoorsInv, Doors!Restart PROVE DoorsInv'
<1>1. /\ UNCHANGED <<served, waiting, linked, visits>>
      /\ told' = served /\ column' = Doors!Joined(served)
      /\ rooms' = {served[Me]} \cap {"join", "invite"}
      /\ invites' = (served[Me] = "invite")
      /\ listed' = (listed \/ served[Me] = "join")
  BY DEF Doors!Restart, Doors!Rebuilt, Doors!kept
<1>2. Told' /\ Shown' /\ NotStale' /\ NoLitter'
  BY <1>1 DEF DoorsInv, Told, Shown, NotStale, NoLitter, Doors!Joined
<1>3. QED
  BY <1>1, <1>2 DEF DoorsInv

LEMMA DoorsNext == ASSUME DoorsInv, [Doors!Next]_doorVars PROVE DoorsInv'
<1> USE DEF Doors!Users, Memberships
<1>1. ASSUME NEW u \in Others,
             \/ Doors!InviteMember(u) \/ Doors!KickMember(u)
             \/ Doors!BanMember(u) \/ Doors!UnbanMember(u)
      PROVE  DoorsInv'
  BY <1>1, AsksKeep DEF Doors!InviteMember, Doors!KickMember, Doors!BanMember,
                        Doors!UnbanMember
<1>2. CASE Doors!AcceptInvite \/ Doors!DeclineInvite
  BY <1>2, AsksKeep DEF Doors!AcceptInvite, Doors!DeclineInvite
<1>3. CASE Doors!LeaveAnswered \/ Doors!DeleteHere
  BY <1>3, DropKeeps DEF Doors!LeaveAnswered, Doors!DeleteHere
<1>4. CASE UNCHANGED doorVars
  <2>1. UNCHANGED <<served, waiting, linked, visits, rooms, invites, listed, told, column>>
    BY <1>4 DEF doorVars
  <2>2. QED
    BY <2>1, WaitsKeeps DEF DoorsInv
<1>5. QED
  BY <1>1, <1>2, <1>3, <1>4, OthersKeep, SyncKeeps, JoinKeeps, LeaveKeeps,
     SignOutKeeps, SignInKeeps, AgainKeeps DEF Doors!Next

LEMMA DoorsHold == ASSUME DoorsInv PROVE LinesTellWho /\ DoorsTrue
<1>1. LinesTellWho
  BY DEF DoorsInv, Told, LinesTellWho, Doors!LinesTellWho
<1>2. DOMAIN waiting = 1..Len(waiting)
  BY DEF DoorsInv, Chained
<1>3. DoorsTrue
  BY <1>2 DEF DoorsInv, Shown, NotStale, NoLitter, Coming, DoorsTrue, Doors!DoorsTrue
<1>4. QED
  BY <1>1, <1>3

\* Whatever the homeserver does of its own, of others and of what was asked for,
\* the lines of a joined room tell who is in, invited, banned or at the door, and
\* the column lists the same (classifyMember, stateSentence, roomMembers).
THEOREM LinesAlwaysTellWho == Doors!Init /\ [][Doors!Next]_doorVars => []LinesTellWho
<1>1. DoorsInv => LinesTellWho
  BY DoorsHold
<1>2. Doors!Init => DoorsInv
  BY DoorsInit
<1>3. DoorsInv /\ [Doors!Next]_doorVars => DoorsInv'
  BY DoorsNext
<1>4. QED
  BY <1>1, <1>2, <1>3, PTL

\* Whoever is invited finds the invitation, and until the first sign-out neither
\* an invitation nor a row outlives what it leads to (onRoomLeft, trackRoom).
THEOREM DoorsAlwaysTrue == Doors!Init /\ [][Doors!Next]_doorVars => []DoorsTrue
<1>1. DoorsInv => DoorsTrue
  BY DoorsHold
<1>2. Doors!Init => DoorsInv
  BY DoorsInit
<1>3. DoorsInv /\ [Doors!Next]_doorVars => DoorsInv'
  BY DoorsNext
<1>4. QED
  BY <1>1, <1>2, <1>3, PTL
-----------------------------------------------------------------------------
(* The keys of the calls of a room.                                        *)

CallEvent == [kind : {"invite", "answer", "hangup", "lost"}, id : Nat, sender : Members]
Answered(m, id) ==
    {e \in 1..Len(calls) :
        calls[e].kind = "answer" /\ calls[e].sender = m /\ calls[e].id = id}

\* An invite is of the call it starts, and an answer of an invite that was seen.
LogOk ==
    /\ calls \in Seq(CallEvent)
    /\ \A e \in 1..Len(calls) :
           /\ calls[e].kind = "invite" => calls[e].id = e
           /\ calls[e].kind = "answer" => calls[e].id <= seen[calls[e].sender]
\* What rings was not answered yet.
PendOk(m) ==
    pending[m] # None =>
        /\ pending[m].id \in 1..seen[m]
        /\ pending[m].from = calls[pending[m].id].sender /\ pending[m].from # m
        /\ Answered(m, pending[m].id) = {}
\* The caller has the keys of the answers, and who answered the key of the only
\* answer there is, for the caller.
CallOk(m) ==
    call[m] # None =>
        /\ call[m] \in [id : Nat, role : {"caller", "answerer"}, peers : SUBSET Members]
        /\ call[m].id \in 1..Len(calls)
        /\ call[m].role = "caller" =>
               /\ calls[call[m].id].sender = m
               /\ \A p \in call[m].peers :
                      p \in DOMAIN shared[m] /\ shared[m][p] \in Answered(p, call[m].id)
        /\ call[m].role = "answerer" =>
               LET o == calls[call[m].id].sender
               IN /\ o # m /\ o \in call[m].peers /\ o \in DOMAIN shared[m]
                  /\ \A e \in Answered(m, call[m].id) : e = shared[m][o]
Tables == /\ DOMAIN call = Members /\ DOMAIN pending = Members
          /\ DOMAIN shared = Members
          /\ seen \in [Members -> Nat] /\ \A m \in Members : seen[m] <= Len(calls)
CallsInv == LogOk /\ Tables /\ \A m \in Members : PendOk(m) /\ CallOk(m)

LEMMA CallsInit == RoomCall!Init => CallsInv
<1> SUFFICES ASSUME RoomCall!Init PROVE CallsInv
  OBVIOUS
<1>1. /\ calls = <<>> /\ seen = [m \in Members |-> 0]
      /\ call = [m \in Members |-> None] /\ pending = [m \in Members |-> None]
      /\ DOMAIN shared = Members
  BY DEF RoomCall!Init
<1>2. LogOk /\ Tables
  BY <1>1 DEF LogOk, Tables
<1>3. \A m \in Members : PendOk(m) /\ CallOk(m)
  BY <1>1 DEF PendOk, CallOk
<1>4. QED
  BY <1>2, <1>3 DEF CallsInv

\* What is true of a member stays true while others act and the log grows.
LEMMA StaysOk ==
    ASSUME CallsInv, NEW x \in Members,
           Len(calls') \in Nat, Len(calls') >= Len(calls),
           \A e \in 1..Len(calls) : calls'[e] = calls[e],
           \A e \in 1..Len(calls') :
               e \in 1..Len(calls) \/ calls'[e].kind # "answer" \/ calls'[e].sender # x,
           seen'[x] \in Nat, seen'[x] >= seen[x]
    PROVE  /\ pending'[x] = pending[x] => PendOk(x)'
           /\ call'[x] = call[x] /\ shared'[x] = shared[x] => CallOk(x)'
<1>1. /\ Len(calls) \in Nat /\ seen[x] \in Nat /\ seen[x] <= Len(calls)
      /\ PendOk(x) /\ CallOk(x)
  BY DEF CallsInv, LogOk, Tables
<1>2. \A id : Answered(x, id)' = Answered(x, id)
  BY <1>1 DEF Answered
<1>3. \A m, id : Answered(m, id) \subseteq Answered(m, id)'
  BY <1>1 DEF Answered
<1>4. ASSUME pending'[x] = pending[x] PROVE PendOk(x)'
  <2> SUFFICES ASSUME pending[x] # None
               PROVE  /\ pending[x].id \in 1..seen'[x]
                      /\ pending[x].from = calls'[pending[x].id].sender
                      /\ pending[x].from # x
                      /\ Answered(x, pending[x].id)' = {}
    BY <1>4 DEF PendOk, Answered
  <2>1. /\ pending[x].id \in 1..seen[x]
        /\ pending[x].from = calls[pending[x].id].sender /\ pending[x].from # x
        /\ Answered(x, pending[x].id) = {}
    BY <1>1 DEF PendOk
  <2>2. pending[x].id \in 1..Len(calls) /\ pending[x].id \in 1..seen'[x]
    BY <1>1, <2>1
  <2>3. QED
    BY <1>2, <1>4, <2>1, <2>2
<1>5. ASSUME call'[x] = call[x], shared'[x] = shared[x] PROVE CallOk(x)'
  <2> SUFFICES ASSUME call[x] # None PROVE CallOk(x)'
    BY <1>5 DEF CallOk
  <2> DEFINE id == call[x].id
  <2>1. /\ call[x] \in [id : Nat, role : {"caller", "answerer"}, peers : SUBSET Members]
        /\ id \in 1..Len(calls)
    BY <1>1 DEF CallOk
  <2>2. id \in 1..Len(calls') /\ calls'[id].sender = calls[id].sender
    BY <1>1, <2>1
  <2>3. call[x].role = "caller" =>
            /\ calls[id].sender = x
            /\ \A p \in call[x].peers :
                   p \in DOMAIN shared[x] /\ shared[x][p] \in Answered(p, id)'
    BY <1>1, <1>3, <1>5 DEF CallOk
  <2>4. call[x].role = "answerer" =>
            /\ calls[id].sender # x /\ calls[id].sender \in call[x].peers
            /\ calls[id].sender \in DOMAIN shared[x]
            /\ \A e \in Answered(x, id)' : e = shared[x][calls[id].sender]
    BY <1>1, <1>2, <1>5 DEF CallOk
  <2>5. QED
    BY <1>5, <2>1, <2>2, <2>3, <2>4 DEF CallOk, Answered
<1>6. QED
  BY <1>4, <1>5

\* The log after a call message was posted, or lost on its way.
LEMMA PostIs ==
    ASSUME CallsInv, NEW kind \in {"invite", "answer", "hangup"}, NEW id \in Nat,
           NEW m \in Members, RoomCall!Post(kind, id, m)
    PROVE  \E k \in {kind, "lost"} :
               /\ calls' \in Seq(CallEvent) /\ Len(calls') = Len(calls) + 1
               /\ Len(calls) \in Nat
               /\ \A e \in 1..Len(calls) : calls'[e] = calls[e]
               /\ calls'[Len(calls) + 1] = [kind |-> k, id |-> id, sender |-> m]
<1>1. PICK k \in {kind, "lost"} :
          calls' = Append(calls, [kind |-> k, id |-> id, sender |-> m])
  BY DEF RoomCall!Post
<1>2. calls \in Seq(CallEvent)
  BY DEF CallsInv, LogOk
<1>3. [kind |-> k, id |-> id, sender |-> m] \in CallEvent
  BY DEF CallEvent
<1>4. QED
  BY <1>1, <1>2, <1>3

\* Posting keeps the log in order and what is true of the others.
LEMMA PostKeeps ==
    ASSUME CallsInv, NEW kind \in {"invite", "answer", "hangup"}, NEW id \in Nat,
           NEW m \in Members, RoomCall!Post(kind, id, m),
           kind = "invite" => id = Len(calls) + 1,
           kind = "answer" => id <= seen[m],
           seen' = seen
    PROVE  /\ LogOk'
           /\ \A x \in Members : seen'[x] <= Len(calls')
           /\ \A x \in Members :
                  kind # "answer" \/ x # m =>
                      /\ pending'[x] = pending[x] => PendOk(x)'
                      /\ call'[x] = call[x] /\ shared'[x] = shared[x] => CallOk(x)'
<1>1. PICK k \in {kind, "lost"} :
          /\ calls' \in Seq(CallEvent) /\ Len(calls') = Len(calls) + 1
          /\ Len(calls) \in Nat
          /\ \A e \in 1..Len(calls) : calls'[e] = calls[e]
          /\ calls'[Len(calls) + 1] = [kind |-> k, id |-> id, sender |-> m]
  BY PostIs
<1>2. \A x \in Members : seen[x] \in Nat /\ seen[x] <= Len(calls)
  BY DEF CallsInv, Tables
<1>3. LogOk'
  <2>1. ASSUME NEW e \in 1..Len(calls')
        PROVE  /\ calls'[e].kind = "invite" => calls'[e].id = e
               /\ calls'[e].kind = "answer" => calls'[e].id <= seen'[calls'[e].sender]
    <3>1. CASE e \in 1..Len(calls)
      BY <1>1, <3>1 DEF CallsInv, LogOk
    <3>2. CASE e = Len(calls) + 1
      BY <1>1, <3>2
    <3>3. QED
      BY <1>1, <3>1, <3>2
  <2>2. QED
    BY <1>1, <2>1 DEF LogOk
<1>4. ASSUME NEW x \in Members, kind # "answer" \/ x # m
      PROVE  /\ pending'[x] = pending[x] => PendOk(x)'
             /\ call'[x] = call[x] /\ shared'[x] = shared[x] => CallOk(x)'
  <2>1. \A e \in 1..Len(calls') :
            e \in 1..Len(calls) \/ calls'[e].kind # "answer" \/ calls'[e].sender # x
    BY <1>1, <1>4
  <2>2. Len(calls') \in Nat /\ Len(calls') >= Len(calls)
        /\ seen'[x] \in Nat /\ seen'[x] >= seen[x]
    BY <1>1, <1>2
  <2>3. QED
    BY <1>1, <2>1, <2>2, StaysOk
<1>5. \A x \in Members : seen'[x] <= Len(calls')
  BY <1>1, <1>2
<1>6. QED
  BY <1>3, <1>4, <1>5
-----------------------------------------------------------------------------
\* What a member holds without a call, and with one it has no answer to give for.
LEMMA CallRoomKeeps ==
    ASSUME CallsInv, NEW m \in Members, RoomCall!CallRoom(m) PROVE CallsInv'
<1>1. UNCHANGED <<seen, pending, shared>>
  BY DEF RoomCall!CallRoom, RoomCall!media
<1>2. CASE UNCHANGED <<calls, call>>
  BY <1>1, <1>2 DEF CallsInv, LogOk, Tables, PendOk, CallOk, Answered
<1>3. CASE /\ RoomCall!Post("invite", RoomCall!Offer, m)
           /\ call' = [call EXCEPT ![m] = [id |-> RoomCall!Offer, role |-> "caller",
                                           peers |-> {}]]
  <2>1. RoomCall!Offer = Len(calls) + 1 /\ RoomCall!Offer \in Nat
    BY DEF CallsInv, LogOk, RoomCall!Offer, RoomCall!Key
  <2>2. /\ LogOk' /\ \A x \in Members : seen'[x] <= Len(calls')
        /\ \A x \in Members :
               /\ pending'[x] = pending[x] => PendOk(x)'
               /\ call'[x] = call[x] /\ shared'[x] = shared[x] => CallOk(x)'
    BY <1>1, <1>3, <2>1, PostKeeps
  <2>3. /\ Len(calls') = Len(calls) + 1 /\ Len(calls) \in Nat
        /\ calls'[Len(calls) + 1].sender = m
    <3>1. PICK k \in {"invite", "lost"} :
              /\ Len(calls') = Len(calls) + 1 /\ Len(calls) \in Nat
              /\ calls'[Len(calls) + 1]
                     = [kind |-> k, id |-> RoomCall!Offer, sender |-> m]
      BY <1>3, <2>1, PostIs
    <3>2. QED
      BY <3>1
  <2>4. PICK n, r : /\ n = RoomCall!Offer
                    /\ r = [id |-> n, role |-> "caller", peers |-> {}]
                    /\ call' = [call EXCEPT ![m] = r]
    BY <1>3
  <2>5. /\ DOMAIN call' = Members /\ call'[m] = r
        /\ \A x \in Members \ {m} : call'[x] = call[x]
    BY <2>4 DEF CallsInv, Tables
  <2>6. CallOk(m)'
    <3>1. r.id = n /\ r.role = "caller" /\ r.peers = {}
      BY <2>4
    <3>2. r \in [id : Nat, role : {"caller", "answerer"}, peers : SUBSET Members]
      <4>1. n \in Nat
        BY <2>1, <2>4
      <4>2. QED
        BY <2>4, <4>1
    <3>3. n \in 1..Len(calls') /\ calls'[n].sender = m
      BY <2>1, <2>3, <2>4
    <3>4. QED
      BY <2>5, <3>1, <3>2, <3>3 DEF CallOk
  <2>7. Tables'
    BY <1>1, <2>2, <2>5 DEF CallsInv, Tables
  <2>8. QED
    BY <1>1, <2>2, <2>5, <2>6, <2>7 DEF CallsInv
<1>4. QED
  BY <1>2, <1>3 DEF RoomCall!CallRoom

LEMMA AcceptKeeps ==
    ASSUME CallsInv, NEW m \in Members, RoomCall!AcceptCall(m) PROVE CallsInv'
<1>1. seen' = seen
  BY DEF RoomCall!AcceptCall, RoomCall!AcceptWith
<1>2. CASE UNCHANGED <<calls, call, shared, pending>>
  BY <1>1, <1>2 DEF CallsInv, LogOk, Tables, PendOk, CallOk, Answered
<1>3. ASSUME pending[m] # None, pending[m].id = ringing[m],
             RoomCall!Post("answer", ringing[m], m),
             call' = [call EXCEPT ![m] = [id |-> ringing[m], role |-> "answerer",
                                          peers |-> {pending[m].from}]],
             RoomCall!Connect(m, pending[m].from, RoomCall!Offer),
             pending' = [pending EXCEPT ![m] = None]
      PROVE  CallsInv'
  <2>0. PICK id, o, L : id = pending[m].id /\ o = pending[m].from /\ L = Len(calls)
    OBVIOUS
  <2>1. /\ id \in 1..seen[m] /\ seen[m] \in Nat /\ seen[m] <= L /\ L \in Nat
        /\ o = calls[id].sender /\ o # m /\ Answered(m, id) = {}
        /\ id \in 1..L /\ id \in Nat /\ id <= seen[m]
    <3>1. PendOk(m) /\ seen[m] \in Nat /\ seen[m] <= L /\ L \in Nat
      BY <2>0 DEF CallsInv, Tables, LogOk
    <3>2. /\ id \in 1..seen[m] /\ o = calls[id].sender /\ o # m
          /\ Answered(m, id) = {}
      BY <1>3, <2>0, <3>1 DEF PendOk
    <3>3. QED
      BY <3>1, <3>2
  <2>2. o \in Members
    <3>1. calls[id] \in CallEvent
      BY <2>0, <2>1 DEF CallsInv, LogOk
    <3>2. QED
      BY <2>1, <3>1 DEF CallEvent
  <2>3. RoomCall!Post("answer", id, m)
    BY <1>3, <2>0
  <2>4. /\ LogOk' /\ \A x \in Members : seen'[x] <= Len(calls')
        /\ \A x \in Members \ {m} :
               /\ pending'[x] = pending[x] => PendOk(x)'
               /\ call'[x] = call[x] /\ shared'[x] = shared[x] => CallOk(x)'
    BY <1>1, <2>1, <2>3, PostKeeps
  <2>5. /\ Len(calls') = L + 1
        /\ \A e \in 1..L : calls'[e] = calls[e]
    BY <2>0, <2>1, <2>3, PostIs
  <2>6. /\ DOMAIN call' = Members /\ DOMAIN pending' = Members /\ DOMAIN shared' = Members
        /\ \A x \in Members \ {m} :
               call'[x] = call[x] /\ pending'[x] = pending[x] /\ shared'[x] = shared[x]
        /\ call'[m] = [id |-> id, role |-> "answerer", peers |-> {o}]
        /\ pending'[m] = None
        /\ o \in DOMAIN shared'[m] /\ shared'[m][o] = L + 1
    BY <1>3, <2>0, <2>1
       DEF CallsInv, Tables, RoomCall!Connect, RoomCall!Insert, RoomCall!Offer, RoomCall!Key
  <2>7. CallOk(m)'
    <3>1. \A e \in Answered(m, id)' : e = L + 1
      BY <2>0, <2>1, <2>5 DEF Answered
    <3>2. /\ call'[m] \in [id : Nat, role : {"caller", "answerer"}, peers : SUBSET Members]
          /\ call'[m].id = id /\ call'[m].role = "answerer" /\ call'[m].peers = {o}
      BY <2>1, <2>2, <2>6
    <3>3. id \in 1..Len(calls') /\ calls'[id].sender = o
      BY <2>1, <2>5
    <3>4. Answered(m, call[m].id)' = Answered(m, id)'
      BY <3>2 DEF Answered
    <3>5. QED
      BY <2>1, <2>6, <3>1, <3>2, <3>3, <3>4 DEF CallOk
  <2>8. PendOk(m)'
    BY <2>6 DEF PendOk
  <2>9. Tables'
    BY <1>1, <2>4, <2>6 DEF CallsInv, Tables
  <2>10. QED
    BY <2>4, <2>6, <2>7, <2>8, <2>9 DEF CallsInv
<1>4. QED
  BY <1>2, <1>3 DEF RoomCall!AcceptCall, RoomCall!AcceptWith, RoomCall!media

LEMMA DeclineKeeps ==
    ASSUME CallsInv, NEW m \in Members, RoomCall!DeclineCall(m) PROVE CallsInv'
<1>1. UNCHANGED <<seen, call, shared>>
  BY DEF RoomCall!DeclineCall, RoomCall!media
<1>2. CASE UNCHANGED <<calls, pending>>
  BY <1>1, <1>2 DEF CallsInv, LogOk, Tables, PendOk, CallOk, Answered
<1>3. ASSUME pending[m] # None, pending[m].id = ringing[m],
             RoomCall!Post("hangup", ringing[m], m),
             pending' = [pending EXCEPT ![m] = None]
      PROVE  CallsInv'
  <2>1. pending[m].id \in Nat /\ RoomCall!Post("hangup", pending[m].id, m)
    BY <1>3 DEF CallsInv, PendOk, Tables
  <2>2. /\ LogOk' /\ \A x \in Members : seen'[x] <= Len(calls')
        /\ \A x \in Members :
               /\ pending'[x] = pending[x] => PendOk(x)'
               /\ CallOk(x)'
    BY <1>1, <2>1, PostKeeps
  <2>3. DOMAIN pending' = Members /\ pending'[m] = None
        /\ \A x \in Members \ {m} : pending'[x] = pending[x]
    BY <1>3 DEF CallsInv, Tables
  <2>4. PendOk(m)' /\ Tables'
    BY <1>1, <2>2, <2>3 DEF CallsInv, Tables, PendOk
  <2>5. QED
    BY <2>2, <2>3, <2>4 DEF CallsInv
<1>4. QED
  BY <1>2, <1>3 DEF RoomCall!DeclineCall

\* A call that is over leaves its keys' table without them.
LEMMA EndIs ==
    ASSUME CallsInv, NEW m \in Members, RoomCall!EndCall(m)
    PROVE  /\ DOMAIN call' = Members /\ DOMAIN shared' = Members
           /\ call'[m] = None
           /\ \A x \in Members \ {m} : call'[x] = call[x] /\ shared'[x] = shared[x]
  BY DEF CallsInv, Tables, RoomCall!EndCall, RoomCall!Release

LEMMA HangupKeeps ==
    ASSUME CallsInv, NEW m \in Members, RoomCall!HangupRoomCall(m) PROVE CallsInv'
<1>1. UNCHANGED <<seen, pending>>
  BY DEF RoomCall!HangupRoomCall
<1>2. CASE UNCHANGED <<calls, call, shared>>
  BY <1>1, <1>2 DEF CallsInv, LogOk, Tables, PendOk, CallOk, Answered
<1>3. ASSUME call[m] # None, RoomCall!Post("hangup", call[m].id, m), RoomCall!EndCall(m)
      PROVE  CallsInv'
  <2>1. call[m].id \in Nat
    BY <1>3 DEF CallsInv, CallOk
  <2>2. /\ LogOk' /\ \A x \in Members : seen'[x] <= Len(calls')
        /\ \A x \in Members :
               /\ PendOk(x)'
               /\ call'[x] = call[x] /\ shared'[x] = shared[x] => CallOk(x)'
    BY <1>1, <1>3, <2>1, PostKeeps
  <2>3. CallOk(m)' /\ Tables'
    BY <1>1, <1>3, <2>2, EndIs DEF CallsInv, Tables, CallOk
  <2>4. QED
    BY <1>3, <2>2, <2>3, EndIs DEF CallsInv
<1>4. QED
  BY <1>2, <1>3 DEF RoomCall!HangupRoomCall, RoomCall!media

\* A new peer of a call comes with the key of its event.
LEMMA ConnectKeeps ==
    ASSUME CallsInv, NEW m \in Members, NEW e \in 1..Len(calls), calls' = calls,
           call[m] # None, calls[e].sender \notin call[m].peers,
           \/ call[m].role = "answerer"
           \/ calls[e].kind = "answer" /\ calls[e].id = call[m].id,
           RoomCall!Connect(m, calls[e].sender, e),
           call' = [call EXCEPT ![m].peers = @ \cup {calls[e].sender}]
    PROVE  /\ CallOk(m)' /\ DOMAIN call' = Members /\ DOMAIN shared' = Members
           /\ \A x \in Members \ {m} : call'[x] = call[x] /\ shared'[x] = shared[x]
<1> DEFINE p == calls[e].sender
           id == call[m].id
           o == calls[id].sender
<1>1. /\ DOMAIN call = Members /\ DOMAIN shared = Members /\ CallOk(m)
      /\ calls[e] \in CallEvent
  BY DEF CallsInv, Tables, LogOk
<1>2. /\ call[m] \in [id : Nat, role : {"caller", "answerer"}, peers : SUBSET Members]
      /\ id \in 1..Len(calls) /\ p \in Members
  BY <1>1 DEF CallOk, CallEvent
<1>3. /\ DOMAIN call' = Members /\ DOMAIN shared' = Members
      /\ \A x \in Members \ {m} : call'[x] = call[x] /\ shared'[x] = shared[x]
      /\ call'[m] = [call[m] EXCEPT !.peers = @ \cup {p}]
      /\ shared'[m] = RoomCall!Insert(shared[m], p, e)
  BY <1>1 DEF RoomCall!Connect
<1>4. /\ call'[m].id = id /\ call'[m].role = call[m].role
      /\ call'[m].peers = call[m].peers \cup {p}
      /\ call'[m] \in [id : Nat, role : {"caller", "answerer"}, peers : SUBSET Members]
  BY <1>2, <1>3
<1>5. /\ p \in DOMAIN shared'[m] /\ shared'[m][p] = e
      /\ \A q \in DOMAIN shared[m] :
             q # p => q \in DOMAIN shared'[m] /\ shared'[m][q] = shared[m][q]
  BY <1>3 DEF RoomCall!Insert
<1>6. \A x, i : Answered(x, i)' = Answered(x, i)
  BY DEF Answered
<1>7. p \notin call[m].peers
  OBVIOUS
<1>8. call[m].role = "caller" => e \in Answered(p, id)
  BY DEF Answered
<1> HIDE DEF p, id
<1>9. call[m].role = "caller" =>
          /\ calls[id].sender = m
          /\ \A q \in call'[m].peers :
                 q \in DOMAIN shared'[m] /\ shared'[m][q] \in Answered(q, id)
  <2> SUFFICES ASSUME call[m].role = "caller", NEW q \in call'[m].peers
               PROVE  /\ calls[id].sender = m
                      /\ q \in DOMAIN shared'[m] /\ shared'[m][q] \in Answered(q, id)
    BY <1>1 DEF CallOk, id
  <2>1. CASE q = p
    BY <1>1, <1>5, <1>8, <2>1 DEF CallOk, id
  <2>2. CASE q # p
    BY <1>1, <1>4, <1>5, <2>2 DEF CallOk, id
  <2>3. QED
    BY <2>1, <2>2
<1>10. call[m].role = "answerer" =>
          /\ o # m /\ o \in call'[m].peers /\ o \in DOMAIN shared'[m]
          /\ \A a \in Answered(m, id) : a = shared'[m][o]
  <2> SUFFICES ASSUME call[m].role = "answerer"
               PROVE  /\ o # m /\ o \in call'[m].peers /\ o \in DOMAIN shared'[m]
                      /\ \A a \in Answered(m, id) : a = shared'[m][o]
    OBVIOUS
  <2>1. /\ o # m /\ o \in call[m].peers /\ o \in DOMAIN shared[m]
        /\ \A a \in Answered(m, id) : a = shared[m][o]
    BY <1>1 DEF CallOk, id
  <2>2. o # p
    BY <1>7, <2>1
  <2>3. QED
    BY <1>4, <1>5, <2>1, <2>2
<1>11. CallOk(m)'
  <2>1. Answered(m, call[m].id)' = Answered(m, id)
        /\ \A q : Answered(q, call[m].id)' = Answered(q, id)
    BY <1>4 DEF Answered
  <2>2. QED
    BY <1>2, <1>4, <1>9, <1>10, <2>1 DEF CallOk
<1>12. QED
  BY <1>3, <1>11
-----------------------------------------------------------------------------
\* A call event of the room reaches a member.
LEMMA EventKeeps ==
    ASSUME CallsInv, NEW m \in Members, RoomCall!HandleCallEvent(m) PROVE CallsInv'
<1> DEFINE e == seen[m] + 1
<1>1. /\ calls' = calls /\ seen[m] < Len(calls)
      /\ seen' = [seen EXCEPT ![m] = seen[m] + 1]
  BY DEF RoomCall!HandleCallEvent
<1>2. /\ LogOk /\ Len(calls) \in Nat /\ seen \in [Members -> Nat]
      /\ DOMAIN call = Members /\ DOMAIN pending = Members /\ DOMAIN shared = Members
      /\ \A x \in Members : seen[x] <= Len(calls) /\ PendOk(x) /\ CallOk(x)
  BY DEF CallsInv, LogOk, Tables
<1>3. /\ seen' \in [Members -> Nat] /\ seen'[m] = e /\ e \in 1..Len(calls)
      /\ \A x \in Members : seen'[x] >= seen[x] /\ seen'[x] <= Len(calls) /\ seen'[x] \in Nat
  BY <1>1, <1>2
<1>4. LogOk'
  <2>1. ASSUME NEW a \in 1..Len(calls), calls[a].kind = "answer"
        PROVE  calls[a].id <= seen'[calls[a].sender]
    <3>1. calls[a] \in CallEvent
      BY <1>2 DEF LogOk
    <3>2. calls[a].id \in Nat /\ calls[a].sender \in Members
      BY <3>1 DEF CallEvent
    <3>3. calls[a].id <= seen[calls[a].sender]
      BY <1>2, <2>1 DEF LogOk
    <3>4. seen[calls[a].sender] \in Nat /\ seen'[calls[a].sender] \in Nat
          /\ seen'[calls[a].sender] >= seen[calls[a].sender]
      BY <1>2, <1>3, <3>2
    <3>5. QED
      BY <3>2, <3>3, <3>4
  <2>2. QED
    BY <1>1, <1>2, <2>1 DEF LogOk
<1>5. \A x \in Members :
          /\ pending'[x] = pending[x] => PendOk(x)'
          /\ call'[x] = call[x] /\ shared'[x] = shared[x] => CallOk(x)'
  <2>1. \A x \in Members : Len(calls') \in Nat /\ Len(calls') >= Len(calls)
            /\ seen'[x] \in Nat /\ seen'[x] >= seen[x]
    BY <1>1, <1>2, <1>3
  <2>2. \A a \in 1..Len(calls') : a \in 1..Len(calls) /\ calls'[a] = calls[a]
    BY <1>1
  <2>3. QED
    BY <1>1, <2>1, <2>2, StaysOk
<1> HIDE DEF e
<1>6. SUFFICES ASSUME TRUE
               PROVE  /\ DOMAIN call' = Members /\ DOMAIN pending' = Members
                      /\ DOMAIN shared' = Members
                      /\ \A x \in Members : PendOk(x)' /\ CallOk(x)'
  BY <1>1, <1>2, <1>3, <1>4 DEF CallsInv, Tables
<1>7. CASE UNCHANGED <<call, pending, shared>>
  BY <1>2, <1>5, <1>7
<1>8. CASE calls[e].sender # m /\ RoomCall!OnInvite(m, e)
  <2>0. calls[e].kind = "invite" /\ calls[e].id = e
    BY <1>2, <1>3, <1>8 DEF RoomCall!OnInvite, LogOk
  <2>1. CASE UNCHANGED <<call, pending, shared>>
    BY <1>2, <1>5, <2>1
  <2>2. CASE /\ call[m] # None /\ call[m].role = "answerer"
             /\ calls[e].sender \notin call[m].peers
             /\ RoomCall!Connect(m, calls[e].sender, e)
             /\ call' = [call EXCEPT ![m].peers = @ \cup {calls[e].sender}]
             /\ pending' = pending
    BY <1>1, <1>2, <1>3, <1>5, <2>2, ConnectKeeps
  <2>3. CASE /\ pending[m] = None
             /\ pending' = [pending EXCEPT ![m] = [id |-> calls[e].id,
                                                   from |-> calls[e].sender]]
             /\ UNCHANGED <<call, shared>>
    <3>1. pending'[m].id = e /\ pending'[m].from = calls[e].sender
          /\ DOMAIN pending' = Members
          /\ \A x \in Members \ {m} : pending'[x] = pending[x]
      BY <1>2, <2>0, <2>3
    <3>2. ASSUME NEW a \in 1..Len(calls), calls[a].kind = "answer", calls[a].sender = m
          PROVE  calls[a].id # e
      <4>1. calls[a].id <= seen[m] /\ seen[m] \in Nat
        BY <1>2, <3>2 DEF LogOk
      <4>2. calls[a] \in CallEvent
        BY <1>2 DEF LogOk
      <4>3. calls[a].id \in Nat
        BY <4>2 DEF CallEvent
      <4>4. QED
        BY <4>1, <4>3 DEF e
    <3>3. Answered(m, pending[m].id)' = {}
      BY <1>1, <3>1, <3>2 DEF Answered
    <3>4. PendOk(m)'
      BY <1>1, <1>3, <1>8, <3>1, <3>3 DEF PendOk
    <3>5. QED
      BY <1>2, <1>5, <2>3, <3>1, <3>4
  <2>4. QED
    BY <1>8, <2>0, <2>1, <2>2, <2>3
       DEF RoomCall!OnInvite, RoomCall!KnownTo, RoomCall!media, RoomCall!Key
<1>9. CASE calls[e].sender # m /\ RoomCall!OnAnswer(m, e)
  <2>1. CASE UNCHANGED <<call, pending, shared>>
    BY <1>2, <1>5, <2>1
  <2>2. CASE /\ call[m] # None /\ calls[e].kind = "answer" /\ call[m].id = calls[e].id
             /\ calls[e].sender \notin call[m].peers
             /\ RoomCall!Connect(m, calls[e].sender, e)
             /\ call' = [call EXCEPT ![m].peers = @ \cup {calls[e].sender}]
             /\ pending' = pending
    BY <1>1, <1>2, <1>3, <1>5, <2>2, ConnectKeeps
  <2>3. QED
    BY <1>9, <2>1, <2>2
       DEF RoomCall!OnAnswer, RoomCall!KnownTo, RoomCall!media, RoomCall!Key
<1>10. CASE RoomCall!OnHangup(m, e)
  <2>1. /\ pending'[m] = None /\ DOMAIN pending' = Members
        /\ \A x \in Members \ {m} : pending'[x] = pending[x]
    BY <1>2, <1>10 DEF RoomCall!OnHangup
  <2>2. PendOk(m)'
    BY <2>1 DEF PendOk
  <2>3. CASE UNCHANGED <<call, shared>>
    BY <1>2, <1>5, <2>1, <2>2, <2>3
  <2>4. CASE RoomCall!EndCall(m)
    <3>1. CallOk(m)'
      BY <2>4, EndIs DEF CallOk
    <3>2. QED
      BY <1>5, <2>1, <2>2, <2>4, <3>1, EndIs
  <2>5. QED
    BY <1>10, <2>3, <2>4 DEF RoomCall!OnHangup, RoomCall!media
<1>11. QED
  BY <1>1, <1>2, <1>7, <1>8, <1>9, <1>10 DEF RoomCall!HandleCallEvent, RoomCall!media, e

LEMMA LeftKeeps ==
    ASSUME CallsInv, NEW m \in Members, RoomCall!LeftRoom(m) PROVE CallsInv'
<1>1. /\ UNCHANGED <<calls, seen, pending, shared>>
      /\ call' = [call EXCEPT ![m] = None]
  BY DEF RoomCall!LeftRoom, RoomCall!media
<1>2. DOMAIN call' = Members /\ call'[m] = None
      /\ \A x \in Members \ {m} : call'[x] = call[x]
  BY <1>1 DEF CallsInv, Tables
<1>3. LogOk' /\ Tables' /\ \A x \in Members : PendOk(x)'
  BY <1>1, <1>2 DEF CallsInv, LogOk, Tables, PendOk, Answered
<1>4. \A x \in Members : CallOk(x)'
  BY <1>1, <1>2 DEF CallsInv, CallOk, Answered
<1>5. QED
  BY <1>3, <1>4 DEF CallsInv

LEMMA CallsNext == ASSUME CallsInv, [RoomCall!Next]_callVars PROVE CallsInv'
<1>1. CASE UNCHANGED callVars
  BY <1>1 DEF callVars, CallsInv, LogOk, Tables, PendOk, CallOk, Answered
<1>2. CASE RoomCall!Next
  BY <1>2, CallRoomKeeps, AcceptKeeps, DeclineKeeps, HangupKeeps, EventKeeps,
     LeftKeeps DEF RoomCall!Next
<1>3. QED
  BY <1>1, <1>2

\* A caller and whoever answered seal for each other with the same key.
CallersAgree ==
    \A a, b \in Members :
        RoomCall!InOneCall(a, b) /\ call[a].role = "caller" => shared[a][b] = shared[b][a]

LEMMA CallersHold == ASSUME CallsInv PROVE CallersAgree
<1> SUFFICES ASSUME NEW a \in Members, NEW b \in Members, RoomCall!InOneCall(a, b),
                    call[a].role = "caller"
             PROVE  shared[a][b] = shared[b][a]
  BY DEF CallersAgree
<1>0. PICK id : id = call[a].id
  OBVIOUS
<1>1. /\ call[a] # None /\ call[b] # None /\ call[b].id = id
      /\ a \in call[b].peers /\ b \in call[a].peers /\ CallOk(a) /\ CallOk(b)
  BY <1>0 DEF RoomCall!InOneCall, CallsInv
<1>2. calls[id].sender = a /\ shared[a][b] \in Answered(b, id)
  BY <1>0, <1>1 DEF CallOk
<1>3. CASE call[b].role = "caller"
  <2>1. calls[id].sender = b
    BY <1>1, <1>3 DEF CallOk
  <2>2. QED
    BY <1>2, <2>1
<1>4. CASE call[b].role = "answerer"
  <2>1. \A e \in Answered(b, id) : e = shared[b][a]
    BY <1>1, <1>2, <1>4 DEF CallOk
  <2>2. QED
    BY <1>2, <2>1
<1>5. call[b].role \in {"caller", "answerer"}
  BY <1>1 DEF CallOk
<1>6. QED
  BY <1>3, <1>4, <1>5

\* And between two members there is nobody else to be in a call with.
LEMMA KeysHold == ASSUME CallsInv, \E x, y : Members = {x, y} PROVE KeysAgree
<1> SUFFICES ASSUME NEW a \in Members, NEW b \in Members, RoomCall!InOneCall(a, b), a # b
             PROVE  shared[a][b] = shared[b][a]
  BY DEF KeysAgree, RoomCall!KeysAgree
<1>1. Members = {a, b}
  OBVIOUS
<1>0. PICK id : id = call[a].id
  OBVIOUS
<1>2. /\ call[a] # None /\ call[b] # None /\ call[b].id = id
      /\ CallOk(a) /\ CallOk(b) /\ RoomCall!InOneCall(b, a)
  BY <1>0 DEF RoomCall!InOneCall, CallsInv
<1>3. /\ id \in 1..Len(calls)
      /\ call[a].role \in {"caller", "answerer"} /\ call[b].role \in {"caller", "answerer"}
  BY <1>0, <1>2 DEF CallOk
<1>4. calls[id].sender \in Members
  <2>1. calls[id] \in CallEvent
    BY <1>3 DEF CallsInv, LogOk
  <2>2. QED
    BY <2>1 DEF CallEvent
<1>5. ~(call[a].role = "answerer" /\ call[b].role = "answerer")
  <2> SUFFICES ASSUME call[a].role = "answerer", call[b].role = "answerer" PROVE FALSE
    OBVIOUS
  <2>1. calls[id].sender # a /\ calls[id].sender # b
    BY <1>0, <1>2 DEF CallOk
  <2>2. QED
    BY <1>1, <1>4, <2>1
<1>6. QED
  BY <1>2, <1>3, <1>5, CallersHold DEF CallersAgree

\* In a room of any size, whatever calls, hangups, losses and departures came
\* before, the caller and everybody in the call with it that it knows of hold the
\* same key for each other (acceptCall, handleCallEvent).
THEOREM CallersAlwaysAgree == RoomCall!Init /\ [][RoomCall!Next]_callVars => []CallersAgree
<1>1. CallsInv => CallersAgree
  BY CallersHold
<1>2. RoomCall!Init => CallsInv
  BY CallsInit
<1>3. CallsInv /\ [RoomCall!Next]_callVars => CallsInv'
  BY CallsNext
<1>4. QED
  BY <1>1, <1>2, <1>3, PTL

\* In a room of two, any two who are in one call and know of each other do; with
\* a third member two who answered need not.
THEOREM KeysAlwaysAgree ==
    ASSUME \E x, y : Members = {x, y}
    PROVE  RoomCall!Init /\ [][RoomCall!Next]_callVars => []KeysAgree
<1>1. CallsInv => KeysAgree
  BY KeysHold
<1>2. RoomCall!Init => CallsInv
  BY CallsInit
<1>3. CallsInv /\ [RoomCall!Next]_callVars => CallsInv'
  BY CallsNext
<1>4. QED
  BY <1>1, <1>2, <1>3, PTL
-----------------------------------------------------------------------------
(* The rows and badges of a room: any events, any batches, any runs.       *)

\* An event that is about another names one before it (the server, About).
Proper(ev, n) ==
    ev.kind \in {"edit", "vote", "reaction", "redaction"} => ev.target \in 1..n
Event ==
    [kind : Plain \cup Amending \cup Room!Immediate
                \cup {"edit", "vote", "reaction", "redaction"},
     target : Nat, by : Others \cup {Me, None}]
\* Of two reactions of one member to one message the first was taken back before
\* the second came (the server, HasReacted).
Reacts(r) == log[r].kind = "reaction"
Alone(r) ==
    \A q \in 1 .. r - 1 :
        Reacts(q) /\ log[q].target = log[r].target /\ log[q].by = log[r].by =>
            \E x \in q + 1 .. r - 1 : log[x].kind = "redaction" /\ log[x].target = q
EventsProper ==
    /\ log \in Seq(Event) /\ Len(log) \in Nat
    /\ \A i \in 1..Len(log) : Proper(log[i], i - 1) /\ (Reacts(i) => Alone(i))

\* What was taken back, and what a row may say, once the event i was published.
TakenBy(e, i) ==
    \E x \in first + 1 .. i : log[x].kind = "redaction" /\ log[x].target = e
TextsOf(e, i) ==
    {e} \cup {x \in first + 1 .. i : log[x].kind = "edit" /\ log[x].target = e}

\* v is what the window and the indexes hold then.
Whole(v) == v = [rows |-> v.rows, badges |-> v.badges, votes |-> v.votes,
                 stamps |-> v.stamps, reactions |-> v.reactions]
Within(v, i) ==
    /\ Whole(v)
    /\ DOMAIN v.rows \subseteq 1..i /\ \A b \in v.badges : b[1] \in 1..i
    /\ v.stamps \subseteq first + 1 .. i /\ v.reactions \subseteq first + 1 .. i
    /\ \A r \in v.reactions : Reacts(r) /\ ~TakenBy(r, i)

\* A row that is not a line of the room is found by its stamp, so that its
\* redaction reaches it; an event that waits for its key has no such line.
RowIs(r) == r = [kind |-> r.kind, text |-> r.text]
Reached(r, e, found, i, S) ==
    /\ RowIs(r)
    /\ log[e].kind \notin {"reaction", "redaction"}
    /\ e > first =>
           /\ Room!Indexed(r.kind) => e \in found
           /\ TakenBy(e, i) => Room!IsLine(r.kind)
    /\ e \in S => Room!Indexed(r.kind)
RowsReached(v, i, S) ==
    \A e \in DOMAIN v.rows : Reached(v.rows[e], e, v.stamps, i, S)
\* A badge of this run is found by a reaction, so that a redaction reaches it; a
\* reaction whose badge no other member bears has it.
Sole(r, i) ==
    \A q \in first + 1 .. i :
        Reacts(q) /\ Room!Badge(q) = Room!Badge(r) => log[q].by = log[r].by
BadgesReached(v, i) ==
    /\ \A b \in v.badges : b[1] \in first + 1 .. i =>
           \E r \in v.reactions : ~Room!Mine(r) /\ Room!Badge(r) = b
    /\ \A r \in first + 1 .. i :
           /\ Reacts(r) /\ ~Room!Mine(r) /\ log[r].target \in v.stamps
           /\ Room!Live(r) /\ Sole(r, i)
           => Room!Badge(r) \in v.badges
Stays == {"text", "media", "poll", "unknown", "state"}
Tells(text, e, i) ==
    /\ text \in TextsOf(e, i) \/ (Room!Mine(e) /\ text = Room!Typed)
    /\ Room!Mine(e) /\ text # Room!Typed =>
           \A x \in TextsOf(e, i) : Room!Mine(x) /\ Room!Live(x) => x <= text
RowsKept(v, i) ==
    \A e \in first + 1 .. i :
        log[e].kind \in Stays /\ ~TakenBy(e, i) =>
            e \in DOMAIN v.rows /\ Tells(v.rows[e].text, e, i)

Published(v, i, S) ==
    Within(v, i) /\ RowsReached(v, i, S) /\ BadgesReached(v, i) /\ RowsKept(v, i)

RoomsInv ==
    /\ EventsProper
    /\ first \in Nat /\ at \in Nat /\ first <= at /\ at <= Len(log)
    /\ \A e \in sealed :
           e \in first + 1 .. at /\ log[e].kind \in Sealable /\ ~Room!Mine(e)
    /\ unsent # None =>
           /\ unsent \in [event : Event, stage : {"uploading", "sending"}]
           /\ unsent.event.by = Me /\ Proper(unsent.event, Len(log))
    /\ joined => Published(Room!View, at, sealed)
    /\ ~joined => /\ DOMAIN rows = {} /\ stamps = {} /\ reactions = {}
                  /\ \A b \in badges : b[1] \in 1..at

\* What one event of a batch is: taken back or shut as the library says.
Delivered(i, S, gone, shut) ==
    /\ i \in gone <=> ~Room!Live(i)
    /\ i \in shut => i \notin gone /\ log[i].kind \in Sealable /\ ~Room!Mine(i)
    /\ i \in S => i \in shut

\* What publishEvent() changes, event by event.
LEMMA RowWithText ==
    ASSUME NEW r, RowIs(r), NEW x
    PROVE  LET w == [r EXCEPT !.text = x]
           IN RowIs(w) /\ w.kind = r.kind /\ w.text = x
BY DEF RowIs

LEMMA ReactionIs ==
    ASSUME NEW v, Whole(v), NEW e, NEW gone, NEW shut, log[e].kind = "reaction",
           e \notin v.reactions
    PROVE  LET w == Room!PublishEvent(v, e, gone, shut)
           IN /\ Whole(w) /\ w.rows = v.rows /\ w.stamps = v.stamps
              /\ e \in gone \/ log[e].target \notin v.stamps =>
                     w.badges = v.badges /\ w.reactions = v.reactions
              /\ e \notin gone /\ log[e].target \in v.stamps =>
                     /\ Room!Mine(e) => w.badges = v.badges
                     /\ ~Room!Mine(e) => w.badges = v.badges \cup {Room!Badge(e)}
                     /\ w.reactions = v.reactions \cup {e}
<1> DEFINE w == Room!PublishEvent(v, e, gone, shut)
<1>1. w = Room!PublishReaction(v, e, gone)
  BY DEF Room!PublishEvent
<1>2. CASE e \in gone \/ log[e].target \notin v.stamps
  <2>1. w = v
    BY <1>1, <1>2 DEF Room!PublishReaction
  <2>2. QED
    BY <1>2, <2>1
<1>3. CASE e \notin gone /\ log[e].target \in v.stamps
  <2> DEFINE b == IF Room!Mine(e) THEN v.badges ELSE v.badges \cup {Room!Badge(e)}
             s == v.reactions \cup {e}
  <2>1. w = [v EXCEPT !.badges = b, !.reactions = s]
    BY <1>1, <1>3 DEF Room!PublishReaction
  <2> HIDE DEF w, b, s
  <2>2. /\ Whole(w) /\ w.rows = v.rows /\ w.stamps = v.stamps
        /\ w.badges = b /\ w.reactions = s
    BY <2>1 DEF Whole
  <2>3. QED
    BY <1>3, <2>2 DEF w, b, s
<1>4. QED
  BY <1>2, <1>3

LEMMA RedactionIs ==
    ASSUME NEW v, Whole(v), NEW e, NEW gone, NEW shut, log[e].kind = "redaction"
    PROVE  LET w == Room!PublishEvent(v, e, gone, shut)
               t == log[e].target
           IN /\ Whole(w) /\ w.stamps = v.stamps
              /\ t \in v.reactions =>
                     /\ w.rows = v.rows /\ w.badges = v.badges \ {Room!Badge(t)}
                     /\ w.reactions = v.reactions \ {t}
              /\ t \notin v.reactions =>
                     w.badges = v.badges /\ w.reactions = v.reactions
              /\ DOMAIN w.rows \subseteq DOMAIN v.rows
              /\ \A x \in DOMAIN w.rows : w.rows[x] = v.rows[x]
              /\ \A x \in DOMAIN v.rows \ DOMAIN w.rows : x = t
              /\ t \in DOMAIN w.rows =>
                     \/ t \in v.reactions \/ t \notin v.stamps
                     \/ Room!IsLine(v.rows[t].kind)
<1> DEFINE w == Room!PublishEvent(v, e, gone, shut)
           t == log[e].target
<1>1. w = Room!PublishRedaction(v, e)
  BY DEF Room!PublishEvent
<1>2. CASE t \in v.reactions
  <2> DEFINE b == v.badges \ {Room!Badge(t)}
             s == v.reactions \ {t}
  <2>1. w = [v EXCEPT !.badges = b, !.reactions = s]
    BY <1>1, <1>2 DEF Room!PublishRedaction, Room!TakeDown
  <2> HIDE DEF w, b, s
  <2>2. /\ Whole(w) /\ w.rows = v.rows /\ w.stamps = v.stamps
        /\ w.badges = b /\ w.reactions = s
    BY <2>1 DEF Whole
  <2>3. QED
    BY <1>2, <2>2 DEF w, b, s
<1>3. CASE t \notin v.reactions /\ t \in v.stamps
  <2> DEFINE out == {x \in DOMAIN v.rows : x = t /\ ~Room!IsLine(v.rows[x].kind)}
             q == Room!Remove(v.rows, out)
  <2>1. w = [v EXCEPT !.rows = q]
    BY <1>1, <1>3 DEF Room!PublishRedaction, Room!RowsOnly
  <2> HIDE DEF w, q
  <2>2. /\ Whole(w) /\ w.rows = q /\ w.stamps = v.stamps
        /\ w.badges = v.badges /\ w.reactions = v.reactions
    BY <2>1 DEF Whole
  <2>3. /\ DOMAIN q = DOMAIN v.rows \ out
        /\ \A x \in DOMAIN q : q[x] = v.rows[x]
    BY DEF q, Room!Remove
  <2>4. QED
    BY <1>3, <2>2, <2>3 DEF w
<1>4. CASE t \notin v.reactions /\ t \notin v.stamps
  <2>1. w = v
    BY <1>1, <1>4 DEF Room!PublishRedaction, Room!RowsOnly
  <2>2. QED
    BY <1>4, <2>1
<1>5. QED
  BY <1>2, <1>3, <1>4

LEMMA EditIs ==
    ASSUME NEW v, Whole(v), NEW e, NEW gone, NEW shut, log[e].kind = "edit",
           e \notin gone \cup shut,
           \A x \in DOMAIN v.rows : RowIs(v.rows[x])
    PROVE  LET w == Room!PublishEvent(v, e, gone, shut)
               t == log[e].target
           IN /\ Whole(w) /\ w.stamps = v.stamps
              /\ w.badges = v.badges /\ w.reactions = v.reactions
              /\ DOMAIN w.rows = DOMAIN v.rows
              /\ \A x \in DOMAIN v.rows :
                     /\ x # t => w.rows[x] = v.rows[x]
                     /\ x = t => /\ RowIs(w.rows[x]) /\ w.rows[x].kind = v.rows[x].kind
                                 /\ w.rows[x].text = e
<1> DEFINE w == Room!PublishEvent(v, e, gone, shut)
           t == log[e].target
<1>1. w = Room!PublishEdit(v, e)
  BY DEF Room!PublishEvent
<1>2. CASE t \in DOMAIN v.rows
  <2> DEFINE r == [v.rows[t] EXCEPT !.text = e]
             q == [v.rows EXCEPT ![t] = r]
  <2>1. w = [v EXCEPT !.rows = q]
    BY <1>1, <1>2 DEF Room!PublishEdit
  <2>2. RowIs(r) /\ r.kind = v.rows[t].kind /\ r.text = e
    BY <1>2, RowWithText
  <2> HIDE DEF r
  <2>3. /\ DOMAIN q = DOMAIN v.rows /\ q[t] = r
        /\ \A x \in DOMAIN v.rows : x # t => q[x] = v.rows[x]
    BY <1>2
  <2> HIDE DEF w, q
  <2>4. /\ Whole(w) /\ w.rows = q /\ w.stamps = v.stamps
        /\ w.badges = v.badges /\ w.reactions = v.reactions
    BY <2>1 DEF Whole
  <2>5. QED
    BY <1>2, <2>2, <2>3, <2>4 DEF w
<1>3. CASE t \notin DOMAIN v.rows
  <2>1. w = v
    BY <1>1, <1>3 DEF Room!PublishEdit
  <2>2. QED
    BY <1>3, <2>1
<1>4. QED
  BY <1>2, <1>3
-----------------------------------------------------------------------------
LEMMA RowKindIs ==
    ASSUME NEW kind, NEW i, NEW gone, NEW shut
    PROVE  LET k == Room!RowKind(kind, i \in gone, i \in shut)
           IN /\ kind \in Stays => k \notin {"skip", "vote"}
              /\ i \in shut /\ i \notin gone /\ kind # "state" => k \in {"sealed", "skip"}
<1> DEFINE k == Room!RowKind(kind, i \in gone, i \in shut)
<1>1. Room!OpenKind("text") = "text" /\ Room!OpenKind("media") = "media"
  BY DEF Room!OpenKind
<1>2. Room!OpenKind("poll") = "poll" /\ Room!OpenKind("unknown") = "system"
  BY DEF Room!OpenKind
<1>3. Room!OpenKind("artefact") = "skip" /\ Room!OpenKind("call") = "skip"
  BY DEF Room!OpenKind
<1>4. kind \in Stays => k \in {"system", "deleted", "sealed", Room!OpenKind(kind)} /\ (kind = "state" => k = "system")
  BY DEF Room!RowKind, Stays
<1>5. i \in shut /\ i \notin gone /\ kind # "state" =>
          k = "sealed" \/ (kind \in {"artefact", "call"} /\ k = Room!OpenKind(kind))
  BY DEF Room!RowKind
<1> HIDE DEF k
<1>6. kind \in Stays => k \notin {"skip", "vote"}
  BY <1>1, <1>2, <1>4 DEF Stays
<1>7. i \in shut /\ i \notin gone /\ kind # "state" => k \in {"sealed", "skip"}
  BY <1>3, <1>5
<1>8. QED
  BY <1>6, <1>7 DEF k

LEMMA RowPublishedIs ==
    ASSUME NEW v, Whole(v), NEW e, NEW gone, NEW shut,
           log[e].kind \notin {"reaction", "redaction"},
           log[e].kind = "edit" => e \in gone \cup shut, e \notin DOMAIN v.rows
    PROVE  LET w == Room!PublishEvent(v, e, gone, shut)
               k == Room!RowKind(log[e].kind, e \in gone, e \in shut)
           IN /\ Whole(w) /\ w.badges = v.badges /\ w.reactions = v.reactions
              /\ k \in {"skip", "vote"} => w.rows = v.rows /\ w.stamps = v.stamps
              /\ k \notin {"skip", "vote"} =>
                     /\ w.rows = Room!Insert(v.rows, e, [kind |-> k, text |-> e])
                     /\ Room!Indexed(k) => w.stamps = v.stamps \cup {e}
                     /\ ~Room!Indexed(k) => w.stamps = v.stamps
<1> DEFINE w == Room!PublishEvent(v, e, gone, shut)
           k == Room!RowKind(log[e].kind, e \in gone, e \in shut)
<1>1. w = Room!PublishRow(v, e, k)
  BY DEF Room!PublishEvent
<1> HIDE DEF w, k
<1>2. CASE k = "skip"
  <2>1. w = v
    BY <1>1, <1>2 DEF Room!PublishRow
  <2>2. QED
    BY <1>2, <2>1 DEF w, k
<1>3. CASE k = "vote"
  <2> DEFINE b == v.votes \cup {e}
  <2>1. w = v \/ w = [v EXCEPT !.votes = b]
    BY <1>1, <1>3 DEF Room!PublishRow
  <2> HIDE DEF b
  <2>2. /\ Whole(w) /\ w.rows = v.rows /\ w.stamps = v.stamps
        /\ w.badges = v.badges /\ w.reactions = v.reactions
    BY <2>1 DEF Whole
  <2>3. QED
    BY <1>3, <2>2 DEF w, k
<1>4. CASE k \notin {"skip", "vote"}
  <2> DEFINE q == Room!Insert(v.rows, e, [kind |-> k, text |-> e])
             s == IF Room!Indexed(k) THEN v.stamps \cup {e} ELSE v.stamps
  <2>1. w = [v EXCEPT !.rows = q, !.stamps = s]
    BY <1>1, <1>4 DEF Room!PublishRow
  <2> HIDE DEF q, s
  <2>2. /\ Whole(w) /\ w.rows = q /\ w.stamps = s
        /\ w.badges = v.badges /\ w.reactions = v.reactions
    BY <2>1 DEF Whole
  <2>3. QED
    BY <1>4, <2>2 DEF w, k, q, s
<1>5. QED
  BY <1>2, <1>3, <1>4

\* One event later.
LEMMA OneMore ==
    ASSUME EventsProper, first \in Nat, NEW i \in first + 1 .. Len(log)
    PROVE  /\ i \in Nat /\ i - 1 \in Nat /\ i > first /\ i \notin first + 1 .. i - 1
           /\ first + 1 .. i = (first + 1 .. i - 1) \cup {i} /\ 1 .. i - 1 \subseteq 1 .. i
           /\ i \notin 1 .. i - 1 /\ i \in 1 .. i
           /\ \A e : TakenBy(e, i) <=> TakenBy(e, i - 1)
                                      \/ (log[i].kind = "redaction" /\ log[i].target = e)
           /\ ~TakenBy(i, i)
           /\ \A e : TextsOf(e, i - 1) \subseteq TextsOf(e, i)
           /\ \A e : ~(log[i].kind = "edit" /\ log[i].target = e) =>
                         TextsOf(e, i) = TextsOf(e, i - 1)
           /\ \A e : log[i].kind = "edit" /\ log[i].target = e =>
                         TextsOf(e, i) = TextsOf(e, i - 1) \cup {i}
           /\ \A e \in 1 .. i - 1 : \A x \in TextsOf(e, i - 1) : x <= i
           /\ TextsOf(i, i) = {i}
           /\ Proper(log[i], i - 1) /\ (Reacts(i) => Alone(i))
           /\ \A e : Room!Live(e) => ~(log[i].kind = "redaction" /\ log[i].target = e)
<1>1. /\ i \in Nat /\ i - 1 \in Nat /\ i > first /\ i \notin first + 1 .. i - 1
      /\ 1 .. i - 1 \subseteq 1 .. i /\ i \notin 1 .. i - 1 /\ i \in 1 .. i
      /\ Len(log) \in Nat /\ i <= Len(log) /\ first + 1 \in Nat
  BY DEF EventsProper
<1>2. first + 1 .. i = (first + 1 .. i - 1) \cup {i}
  BY <1>1
<1>3. \A e : TakenBy(e, i) <=> TakenBy(e, i - 1)
                               \/ (log[i].kind = "redaction" /\ log[i].target = e)
  BY <1>2 DEF TakenBy
<1>4. \A x \in 1 .. i : log[x].kind \in {"edit", "redaction"} => log[x].target \in 1 .. x - 1
  BY <1>1 DEF EventsProper, Proper
<1>5. \A x \in first + 1 .. i : x \in 1 .. i /\ i \notin 1 .. x - 1
  BY <1>1
<1>6. ~TakenBy(i, i)
  BY <1>4, <1>5 DEF TakenBy
<1>7. \A e : TextsOf(e, i - 1) \subseteq TextsOf(e, i)
  BY <1>2 DEF TextsOf
<1>8. \A e : ~(log[i].kind = "edit" /\ log[i].target = e) =>
                 TextsOf(e, i) = TextsOf(e, i - 1)
  BY <1>2 DEF TextsOf
<1>9. \A e : log[i].kind = "edit" /\ log[i].target = e =>
                 TextsOf(e, i) = TextsOf(e, i - 1) \cup {i}
  BY <1>2 DEF TextsOf
<1>10. \A e \in 1 .. i - 1 : \A x \in TextsOf(e, i - 1) : x <= i
  BY <1>1 DEF TextsOf
<1>11. TextsOf(i, i) = {i}
  BY <1>4, <1>5 DEF TextsOf
<1>12. Proper(log[i], i - 1) /\ (Reacts(i) => Alone(i))
  BY DEF EventsProper
<1>13. \A e : Room!Live(e) => ~(log[i].kind = "redaction" /\ log[i].target = e)
  BY <1>1 DEF Room!Live, Room!Ids
<1>14. QED
  BY <1>1, <1>2, <1>3, <1>6, <1>7, <1>8, <1>9, <1>10, <1>11, <1>12, <1>13

\* What an event that is neither a reaction nor a redaction leaves the badges is
\* as before.
LEMMA BadgesSame ==
    ASSUME EventsProper, first \in Nat, NEW i \in first + 1 .. Len(log),
           NEW v, NEW w, Within(v, i - 1), BadgesReached(v, i - 1),
           log[i].kind \notin {"reaction", "redaction"},
           w.badges = v.badges, w.reactions = v.reactions,
           v.stamps \subseteq w.stamps, w.stamps \subseteq v.stamps \cup {i}
    PROVE  BadgesReached(w, i)
<1>1. ASSUME NEW b \in w.badges, b[1] \in first + 1 .. i
      PROVE  \E r \in w.reactions : ~Room!Mine(r) /\ Room!Badge(r) = b
  <2>1. b[1] \in first + 1 .. i - 1
    BY <1>1, OneMore DEF Within
  <2>2. QED
    BY <2>1 DEF BadgesReached
<1>2. ASSUME NEW r \in first + 1 .. i,
             Reacts(r), ~Room!Mine(r), log[r].target \in w.stamps, Room!Live(r),
             Sole(r, i)
      PROVE  Room!Badge(r) \in w.badges
  <2>1. r \in first + 1 .. i - 1 /\ r \in 1 .. Len(log) /\ r < i
    BY <1>2, OneMore DEF Reacts, EventsProper
  <2>2. log[r].target \in 1 .. r - 1 /\ i \notin 1 .. r - 1
    BY <1>2, <2>1 DEF EventsProper, Proper, Reacts
  <2>3. log[r].target \in v.stamps
    BY <1>2, <2>2
  <2>4. Sole(r, i - 1)
    BY <1>2, OneMore DEF Sole
  <2>5. QED
    BY <1>2, <2>1, <2>3, <2>4 DEF BadgesReached
<1>3. QED
  BY <1>1, <1>2 DEF BadgesReached

\* Texts that no edit was added to tell what they told.
LEMMA TellsSame ==
    ASSUME NEW text, NEW e, NEW i, NEW j, TextsOf(e, i) = TextsOf(e, j),
           Tells(text, e, j)
    PROVE  Tells(text, e, i)
BY DEF Tells

\* A reaction counts when its message can be found, unless it was taken back.
LEMMA ReactionKeeps ==
    ASSUME EventsProper, first \in Nat, NEW i \in first + 1 .. Len(log),
           NEW v, NEW S, NEW gone, NEW shut,
           Published(v, i - 1, S), Delivered(i, S, gone, shut),
           log[i].kind = "reaction"
    PROVE  Published(Room!PublishEvent(v, i, gone, shut), i, S)
<1>0. PICK w : w = Room!PublishEvent(v, i, gone, shut)
  OBVIOUS
<1>1. Within(v, i - 1) /\ i \notin v.reactions /\ Whole(v)
  BY OneMore DEF Published, Within
<1>2. /\ Whole(w) /\ w.rows = v.rows /\ w.stamps = v.stamps
      /\ i \in gone \/ log[i].target \notin v.stamps =>
             w.badges = v.badges /\ w.reactions = v.reactions
      /\ i \notin gone /\ log[i].target \in v.stamps =>
             /\ Room!Mine(i) => w.badges = v.badges
             /\ ~Room!Mine(i) => w.badges = v.badges \cup {Room!Badge(i)}
             /\ w.reactions = v.reactions \cup {i}
  BY <1>0, <1>1, ReactionIs
<1>3. /\ Room!Badge(i)[1] = log[i].target
      /\ Room!Badge(i)[1] \in 1 .. i - 1 /\ Room!Badge(i)[1] \in 1 .. i
  <2>1. Room!Badge(i)[1] = log[i].target
    BY DEF Room!Badge
  <2>2. log[i].target \in 1 .. i - 1
    BY OneMore DEF Proper
  <2>3. QED
    BY <2>1, <2>2, OneMore
<1>4. (\A e : TakenBy(e, i) <=> TakenBy(e, i - 1)) /\ ~TakenBy(i, i)
  BY OneMore
<1>5. /\ w.badges \subseteq v.badges \cup {Room!Badge(i)} /\ v.badges \subseteq w.badges
      /\ w.reactions \subseteq v.reactions \cup {i} /\ v.reactions \subseteq w.reactions
      /\ Room!Badge(i) \in w.badges \ v.badges =>
             i \in w.reactions /\ ~Room!Mine(i)
  BY <1>2
<1>6. Within(w, i)
  <2>1. \A b \in w.badges : b[1] \in 1 .. i
    BY <1>1, <1>3, <1>5, OneMore DEF Within
  <2>2. w.reactions \subseteq first + 1 .. i
    BY <1>1, <1>5, OneMore DEF Within
  <2>3. \A r \in w.reactions : Reacts(r) /\ ~TakenBy(r, i)
    BY <1>1, <1>4, <1>5 DEF Within, Reacts
  <2>4. DOMAIN w.rows \subseteq 1 .. i /\ w.stamps \subseteq first + 1 .. i
    BY <1>1, <1>2, OneMore DEF Within
  <2>5. QED
    BY <1>2, <2>1, <2>2, <2>3, <2>4 DEF Within
<1>7. RowsReached(w, i, S)
  BY <1>2, <1>4 DEF Published, RowsReached, Reached
<1>8. BadgesReached(w, i)
  <2>1. ASSUME NEW b \in w.badges, b[1] \in first + 1 .. i
        PROVE  \E r \in w.reactions : ~Room!Mine(r) /\ Room!Badge(r) = b
    <3>1. CASE b \in v.badges
      <4>1. b[1] \in first + 1 .. i - 1
        BY <1>1, <2>1, <3>1, OneMore DEF Within
      <4>2. QED
        BY <1>5, <3>1, <4>1 DEF Published, BadgesReached
    <3>2. CASE b \notin v.badges
      BY <1>5, <3>2
    <3>3. QED
      BY <3>1, <3>2
  <2>2. ASSUME NEW r \in first + 1 .. i,
               Reacts(r), ~Room!Mine(r), log[r].target \in w.stamps, Room!Live(r),
               Sole(r, i)
        PROVE  Room!Badge(r) \in w.badges
    <3>1. CASE r = i
      <4>1. i \notin gone /\ log[i].target \in v.stamps
        BY <1>2, <2>2, <3>1 DEF Delivered
      <4>2. QED
        BY <1>2, <2>2, <3>1, <4>1
    <3>2. CASE r # i
      <4>1. r \in first + 1 .. i - 1
        BY <3>2, OneMore
      <4>2. Sole(r, i - 1)
        BY <2>2, OneMore DEF Sole
      <4>3. Room!Badge(r) \in v.badges
        BY <1>2, <2>2, <4>1, <4>2 DEF Published, BadgesReached
      <4>4. QED
        BY <1>5, <4>3
    <3>3. QED
      BY <3>1, <3>2
  <2>3. QED
    BY <2>1, <2>2 DEF BadgesReached
<1>9. RowsKept(w, i)
  <2> SUFFICES ASSUME NEW e \in first + 1 .. i, log[e].kind \in Stays, ~TakenBy(e, i)
               PROVE  e \in DOMAIN w.rows /\ Tells(w.rows[e].text, e, i)
    BY DEF RowsKept
  <2>1. e # i
    BY DEF Stays
  <2>2. e \in first + 1 .. i - 1 /\ TextsOf(e, i) = TextsOf(e, i - 1)
    BY <2>1, OneMore
  <2>3. e \in DOMAIN v.rows /\ Tells(v.rows[e].text, e, i - 1)
    BY <1>4, <2>2 DEF Published, RowsKept
  <2>4. QED
    BY <1>2, <2>2, <2>3, TellsSame
<1>10. QED
  BY <1>0, <1>6, <1>7, <1>8, <1>9 DEF Published
-----------------------------------------------------------------------------
\* A redaction takes the badge or the row that can be found; no other is one of a
\* message.
LEMMA RedactionKeeps ==
    ASSUME EventsProper, first \in Nat, NEW i \in first + 1 .. Len(log),
           NEW v, NEW S, NEW gone, NEW shut,
           Published(v, i - 1, S), Delivered(i, S, gone, shut),
           log[i].kind = "redaction"
    PROVE  Published(Room!PublishEvent(v, i, gone, shut), i, S)
<1>0. PICK w, t : w = Room!PublishEvent(v, i, gone, shut) /\ t = log[i].target
  OBVIOUS
<1>1. Within(v, i - 1) /\ Whole(v)
  BY DEF Published, Within
<1>2. /\ Whole(w) /\ w.stamps = v.stamps
      /\ t \in v.reactions =>
             /\ w.rows = v.rows /\ w.badges = v.badges \ {Room!Badge(t)}
             /\ w.reactions = v.reactions \ {t}
      /\ t \notin v.reactions => w.badges = v.badges /\ w.reactions = v.reactions
      /\ DOMAIN w.rows \subseteq DOMAIN v.rows
      /\ \A x \in DOMAIN w.rows : w.rows[x] = v.rows[x]
      /\ \A x \in DOMAIN v.rows \ DOMAIN w.rows : x = t
      /\ t \in DOMAIN w.rows =>
             \/ t \in v.reactions \/ t \notin v.stamps
             \/ Room!IsLine(v.rows[t].kind)
  BY <1>0, <1>1, RedactionIs
<1>3. \A e : TakenBy(e, i) <=> TakenBy(e, i - 1) \/ e = t
  BY <1>0, OneMore
<1>4. /\ w.reactions \subseteq v.reactions /\ w.badges \subseteq v.badges
      /\ t \notin w.reactions
  BY <1>2
<1>5. Within(w, i)
  <2>1. \A b \in w.badges : b[1] \in 1 .. i
    BY <1>1, <1>4, OneMore DEF Within
  <2>2. \A r \in w.reactions : Reacts(r) /\ ~TakenBy(r, i)
    BY <1>1, <1>3, <1>4 DEF Within
  <2>3. /\ DOMAIN w.rows \subseteq 1 .. i /\ w.stamps \subseteq first + 1 .. i
        /\ w.reactions \subseteq first + 1 .. i
    BY <1>1, <1>2, <1>4, OneMore DEF Within
  <2>4. QED
    BY <1>2, <2>1, <2>2, <2>3 DEF Within
<1>6. RowsReached(w, i, S)
  <2> SUFFICES ASSUME NEW e \in DOMAIN w.rows
               PROVE  Reached(w.rows[e], e, w.stamps, i, S)
    BY DEF RowsReached
  <2>1. w.rows[e] = v.rows[e] /\ Reached(v.rows[e], e, v.stamps, i - 1, S)
    BY <1>2 DEF Published, RowsReached
  <2>2. e = t /\ e > first => Room!IsLine(v.rows[e].kind)
    <3>1. e \notin v.reactions
      BY <1>1, <2>1 DEF Within, Reacts, Reached
    <3>2. e > first /\ e \notin v.stamps => ~Room!Indexed(v.rows[e].kind)
      BY <2>1 DEF Reached
    <3>3. ~Room!Indexed(v.rows[e].kind) => Room!IsLine(v.rows[e].kind)
      BY DEF Room!Indexed, Room!IsLine
    <3>4. QED
      BY <1>2, <3>1, <3>2, <3>3
  <2>3. QED
    BY <1>2, <1>3, <2>1, <2>2 DEF Reached
<1>7. BadgesReached(w, i)
  <2>1. ASSUME NEW b \in w.badges, b[1] \in first + 1 .. i
        PROVE  \E r \in w.reactions : ~Room!Mine(r) /\ Room!Badge(r) = b
    <3>1. b[1] \in first + 1 .. i - 1
      BY <1>1, <1>4, <2>1, OneMore DEF Within
    <3>2. PICK r \in v.reactions : ~Room!Mine(r) /\ Room!Badge(r) = b
      BY <1>4, <3>1 DEF Published, BadgesReached
    <3>3. r \in w.reactions
      BY <1>2, <3>2
    <3>4. QED
      BY <3>2, <3>3
  <2>2. ASSUME NEW r \in first + 1 .. i,
               Reacts(r), ~Room!Mine(r), log[r].target \in w.stamps, Room!Live(r),
               Sole(r, i)
        PROVE  Room!Badge(r) \in w.badges
    <3>1. r # i /\ r # t
      BY <1>0, <2>2, OneMore DEF Reacts
    <3>2. r \in first + 1 .. i - 1
      BY <3>1, OneMore
    <3>3. Sole(r, i - 1)
      BY <2>2, OneMore DEF Sole
    <3>4. Room!Badge(r) \in v.badges
      BY <1>2, <2>2, <3>2, <3>3 DEF Published, BadgesReached
    <3>5. ASSUME t \in v.reactions, Room!Badge(t) = Room!Badge(r) PROVE FALSE
      <4>1. t \in first + 1 .. i - 1 /\ Reacts(t) /\ ~TakenBy(t, i - 1)
        BY <1>1, <3>5 DEF Within
      <4>2. log[t].by = log[r].by
        BY <3>3, <3>5, <4>1 DEF Sole
      <4>3. log[t].target = log[r].target
        BY <3>5 DEF Room!Badge
      <4>4. /\ t \in 1 .. Len(log) /\ r \in 1 .. Len(log)
            /\ t \in Nat /\ r \in Nat /\ first + 1 <= t /\ first + 1 <= r
            /\ r <= i - 1 /\ t <= i - 1
        BY <3>2, <4>1, OneMore DEF EventsProper
      <4>5. CASE t < r
        <5>1. t \in 1 .. r - 1 /\ Alone(r)
          BY <2>2, <4>4, <4>5 DEF EventsProper
        <5>2. PICK x \in t + 1 .. r - 1 : log[x].kind = "redaction" /\ log[x].target = t
          BY <4>1, <4>2, <4>3, <5>1 DEF Alone
        <5>3. x \in first + 1 .. i - 1
          BY <4>4, <4>5, <5>2, OneMore
        <5>4. QED
          BY <4>1, <5>2, <5>3 DEF TakenBy
      <4>6. CASE r < t
        <5>1. r \in 1 .. t - 1 /\ Alone(t)
          BY <4>1, <4>4, <4>6 DEF EventsProper
        <5>2. PICK x \in r + 1 .. t - 1 : log[x].kind = "redaction" /\ log[x].target = r
          BY <2>2, <4>2, <4>3, <5>1 DEF Alone
        <5>3. x \in 1 .. Len(log)
          BY <4>4, <4>6, <5>2 DEF EventsProper
        <5>4. QED
          BY <2>2, <5>2, <5>3 DEF Room!Live, Room!Ids
      <4>7. QED
        BY <3>1, <4>4, <4>5, <4>6
    <3>6. QED
      BY <1>2, <3>4, <3>5
  <2>3. QED
    BY <2>1, <2>2 DEF BadgesReached
<1>8. RowsKept(w, i)
  <2> SUFFICES ASSUME NEW e \in first + 1 .. i, log[e].kind \in Stays, ~TakenBy(e, i)
               PROVE  e \in DOMAIN w.rows /\ Tells(w.rows[e].text, e, i)
    BY DEF RowsKept
  <2>1. e # i /\ e # t
    BY <1>3 DEF Stays
  <2>2. e \in first + 1 .. i - 1 /\ TextsOf(e, i) = TextsOf(e, i - 1)
    BY <2>1, OneMore
  <2>3. e \in DOMAIN v.rows /\ Tells(v.rows[e].text, e, i - 1)
    BY <1>3, <2>2 DEF Published, RowsKept
  <2>4. e \in DOMAIN w.rows /\ w.rows[e] = v.rows[e]
    BY <1>2, <2>1, <2>3
  <2>5. QED
    BY <2>2, <2>3, <2>4, TellsSame
<1>9. QED
  BY <1>0, <1>5, <1>6, <1>7, <1>8 DEF Published

\* An edit that can be read is the text of its row and never a row.
LEMMA EditKeeps ==
    ASSUME EventsProper, first \in Nat, NEW i \in first + 1 .. Len(log),
           NEW v, NEW S, NEW gone, NEW shut,
           Published(v, i - 1, S), Delivered(i, S, gone, shut),
           log[i].kind = "edit", i \notin gone \cup shut
    PROVE  Published(Room!PublishEvent(v, i, gone, shut), i, S)
<1>0. PICK w, t : w = Room!PublishEvent(v, i, gone, shut) /\ t = log[i].target
  OBVIOUS
<1>1. Within(v, i - 1) /\ Whole(v) /\ i \notin DOMAIN v.rows
  BY OneMore DEF Published, Within
<1>2. \A x \in DOMAIN v.rows : RowIs(v.rows[x])
  BY DEF Published, RowsReached, Reached
<1>3. /\ Whole(w) /\ w.stamps = v.stamps
      /\ w.badges = v.badges /\ w.reactions = v.reactions
      /\ DOMAIN w.rows = DOMAIN v.rows
      /\ \A x \in DOMAIN v.rows :
             /\ x # t => w.rows[x] = v.rows[x]
             /\ x = t => /\ RowIs(w.rows[x]) /\ w.rows[x].kind = v.rows[x].kind
                         /\ w.rows[x].text = i
  BY <1>0, <1>1, <1>2, EditIs
<1>4. \A x \in DOMAIN v.rows : RowIs(w.rows[x]) /\ w.rows[x].kind = v.rows[x].kind
  BY <1>2, <1>3
<1>5. \A e : TakenBy(e, i) <=> TakenBy(e, i - 1)
  BY OneMore
<1>6. Within(w, i)
  BY <1>1, <1>3, <1>5, OneMore DEF Within
<1>7. RowsReached(w, i, S)
  BY <1>3, <1>4, <1>5 DEF Published, RowsReached, Reached
<1>8. BadgesReached(w, i)
  BY <1>1, <1>3, BadgesSame DEF Published
<1>9. RowsKept(w, i)
  <2> SUFFICES ASSUME NEW e \in first + 1 .. i, log[e].kind \in Stays, ~TakenBy(e, i)
               PROVE  e \in DOMAIN w.rows /\ Tells(w.rows[e].text, e, i)
    BY DEF RowsKept
  <2>1. e # i
    BY DEF Stays
  <2>2. e \in first + 1 .. i - 1 /\ e \in 1 .. i - 1
    BY <2>1, OneMore
  <2>3. e \in DOMAIN v.rows /\ Tells(v.rows[e].text, e, i - 1)
    BY <1>5, <2>2 DEF Published, RowsKept
  <2>4. CASE e = t
    <3>1. TextsOf(e, i) = TextsOf(e, i - 1) \cup {i} /\ i <= i
      <4>1. log[i].kind = "edit" /\ log[i].target = e
        BY <1>0, <2>4
      <4>2. TextsOf(e, i) = TextsOf(e, i - 1) \cup {i}
        BY <4>1, OneMore
      <4>3. i <= i
        OBVIOUS
      <4>4. QED
        BY <4>2, <4>3
    <3>2. w.rows[e].text = i /\ e \in DOMAIN w.rows
      BY <1>3, <2>3, <2>4
    <3>3. \A x \in TextsOf(e, i - 1) : x <= i
      BY <2>2, OneMore
    <3>4. Tells(i, e, i)
      BY <3>1, <3>3 DEF Tells
    <3>5. QED
      BY <3>2, <3>4
  <2>5. CASE e # t
    <3>1. TextsOf(e, i) = TextsOf(e, i - 1)
      BY <1>0, <2>5, OneMore
    <3>2. w.rows[e] = v.rows[e] /\ e \in DOMAIN w.rows
      BY <1>3, <2>3, <2>5
    <3>3. QED
      BY <2>3, <3>1, <3>2, TellsSame
  <2>6. QED
    BY <2>4, <2>5
<1>10. QED
  BY <1>0, <1>6, <1>7, <1>8, <1>9 DEF Published

\* Everything else becomes a row, a vote, or nothing; the rows there are stay.
\* An edit comes here when it was taken back or its key is missing.
LEMMA RowKeeps ==
    ASSUME EventsProper, first \in Nat, NEW i \in first + 1 .. Len(log),
           "state" \notin Sealable,
           NEW v, NEW S, NEW gone, NEW shut,
           Published(v, i - 1, S), Delivered(i, S, gone, shut),
           log[i].kind \notin {"reaction", "redaction"},
           log[i].kind = "edit" => i \in gone \cup shut
    PROVE  Published(Room!PublishEvent(v, i, gone, shut), i, S)
<1>0. PICK w, k : /\ w = Room!PublishEvent(v, i, gone, shut)
                  /\ k = Room!RowKind(log[i].kind, i \in gone, i \in shut)
  OBVIOUS
<1>1. Within(v, i - 1) /\ Whole(v) /\ i \notin DOMAIN v.rows
  BY OneMore DEF Published, Within
<1>2. /\ Whole(w) /\ w.badges = v.badges /\ w.reactions = v.reactions
      /\ k \in {"skip", "vote"} => w.rows = v.rows /\ w.stamps = v.stamps
      /\ k \notin {"skip", "vote"} =>
             /\ w.rows = Room!Insert(v.rows, i, [kind |-> k, text |-> i])
             /\ Room!Indexed(k) => w.stamps = v.stamps \cup {i}
             /\ ~Room!Indexed(k) => w.stamps = v.stamps
  BY <1>0, <1>1, RowPublishedIs
<1>3. /\ log[i].kind \in Stays => k \notin {"skip", "vote"}
      /\ i \in S => k \in {"sealed", "skip"}
  <2>1. /\ log[i].kind \in Stays => k \notin {"skip", "vote"}
        /\ i \in shut /\ i \notin gone /\ log[i].kind # "state" => k \in {"sealed", "skip"}
    BY <1>0, RowKindIs
  <2>2. QED
    BY <2>1 DEF Delivered
<1>4. /\ \A e \in DOMAIN v.rows : e \in DOMAIN w.rows /\ w.rows[e] = v.rows[e]
      /\ \A e \in DOMAIN w.rows \ DOMAIN v.rows :
             /\ e = i /\ k \notin {"skip", "vote"} /\ RowIs(w.rows[e])
             /\ w.rows[e].kind = k /\ w.rows[e].text = i
      /\ k \notin {"skip", "vote"} => i \in DOMAIN w.rows
      /\ v.stamps \subseteq w.stamps /\ w.stamps \subseteq v.stamps \cup {i}
  <2>1. CASE k \in {"skip", "vote"}
    BY <1>2, <2>1
  <2>2. CASE k \notin {"skip", "vote"}
    <3>1. PICK r : r = [kind |-> k, text |-> i]
      OBVIOUS
    <3>2. RowIs(r) /\ r.kind = k /\ r.text = i
      BY <3>1 DEF RowIs
    <3>3. w.rows = [x \in DOMAIN v.rows \cup {i} |-> IF x = i THEN r ELSE v.rows[x]]
      BY <1>2, <2>2, <3>1 DEF Room!Insert
    <3>4. /\ DOMAIN w.rows = DOMAIN v.rows \cup {i} /\ w.rows[i] = r
          /\ \A e \in DOMAIN v.rows : e # i => w.rows[e] = v.rows[e]
      BY <3>3
    <3>5. \A e \in DOMAIN v.rows : e # i
      BY <1>1
    <3>6. QED
      BY <1>2, <2>2, <3>2, <3>4, <3>5
  <2>3. QED
    BY <2>1, <2>2
<1>5. (\A e : TakenBy(e, i) <=> TakenBy(e, i - 1)) /\ ~TakenBy(i, i)
  BY OneMore
<1>6. Within(w, i)
  <2>1. DOMAIN w.rows \subseteq DOMAIN v.rows \cup {i}
    BY <1>4
  <2>2. QED
    BY <1>1, <1>2, <1>4, <1>5, <2>1, OneMore DEF Within
<1>7. RowsReached(w, i, S)
  <2> SUFFICES ASSUME NEW e \in DOMAIN w.rows
               PROVE  Reached(w.rows[e], e, w.stamps, i, S)
    BY DEF RowsReached
  <2>1. CASE e \in DOMAIN v.rows
    <3>1. Reached(v.rows[e], e, v.stamps, i - 1, S)
      BY <2>1 DEF Published, RowsReached
    <3>2. QED
      BY <1>4, <1>5, <2>1, <3>1 DEF Reached
  <2>2. CASE e \notin DOMAIN v.rows
    <3>1. /\ e = i /\ k \notin {"skip", "vote"} /\ RowIs(w.rows[e])
          /\ w.rows[e].kind = k
      BY <1>4, <2>2
    <3>2. e \in S => Room!Indexed(k)
      BY <1>3, <3>1 DEF Room!Indexed
    <3>3. Room!Indexed(k) => i \in w.stamps
      BY <1>2, <3>1
    <3>4. QED
      BY <1>5, <3>1, <3>2, <3>3 DEF Reached
  <2>3. QED
    BY <2>1, <2>2
<1>8. BadgesReached(w, i)
  BY <1>1, <1>2, <1>4, BadgesSame DEF Published
<1>9. RowsKept(w, i)
  <2> SUFFICES ASSUME NEW e \in first + 1 .. i, log[e].kind \in Stays, ~TakenBy(e, i)
               PROVE  e \in DOMAIN w.rows /\ Tells(w.rows[e].text, e, i)
    BY DEF RowsKept
  <2>1. CASE e = i
    <3>1. i \in DOMAIN w.rows /\ w.rows[i].text = i
      BY <1>1, <1>3, <1>4, <2>1
    <3>2. TextsOf(i, i) = {i} /\ i <= i
      BY OneMore
    <3>3. Tells(i, i, i)
      BY <3>2 DEF Tells
    <3>4. QED
      BY <2>1, <3>1, <3>3
  <2>2. CASE e # i
    <3>1. e \in first + 1 .. i - 1
      BY <2>2, OneMore
    <3>2. e \in DOMAIN v.rows /\ Tells(v.rows[e].text, e, i - 1)
      BY <1>5, <3>1 DEF Published, RowsKept
    <3>3. e \in DOMAIN w.rows /\ w.rows[e] = v.rows[e]
      BY <1>4, <3>2
    <3>4. CASE log[i].kind = "edit" /\ log[i].target = e
      \* A corrected text that cannot be read, or is not there any more.
      <4>1. TextsOf(e, i) = TextsOf(e, i - 1) \cup {i}
        BY <3>4, OneMore
      <4>2. ~(Room!Mine(i) /\ Room!Live(i))
        BY <3>4 DEF Delivered
      <4>3. Tells(v.rows[e].text, e, i)
        BY <3>2, <4>1, <4>2 DEF Tells
      <4>4. QED
        BY <3>3, <4>3
    <3>5. CASE ~(log[i].kind = "edit" /\ log[i].target = e)
      <4>1. TextsOf(e, i) = TextsOf(e, i - 1)
        BY <3>5, OneMore
      <4>2. QED
        BY <3>2, <3>3, <4>1, TellsSame
    <3>6. QED
      BY <3>4, <3>5
  <2>3. QED
    BY <2>1, <2>2
<1>10. QED
  BY <1>0, <1>6, <1>7, <1>8, <1>9 DEF Published
-----------------------------------------------------------------------------
LEMMA OneEventKeeps ==
    ASSUME EventsProper, first \in Nat, NEW i \in first + 1 .. Len(log),
           "state" \notin Sealable,
           NEW v, NEW S, NEW gone, NEW shut,
           Published(v, i - 1, S), Delivered(i, S, gone, shut)
    PROVE  Published(Room!PublishEvent(v, i, gone, shut), i, S)
<1>1. CASE log[i].kind = "reaction"
  BY <1>1, ReactionKeeps
<1>2. CASE log[i].kind = "redaction"
  BY <1>2, RedactionKeeps
<1>3. CASE log[i].kind = "edit" /\ i \notin gone \cup shut
  BY <1>3, EditKeeps
<1>4. CASE /\ log[i].kind \notin {"reaction", "redaction"}
           /\ log[i].kind = "edit" => i \in gone \cup shut
  BY <1>4, RowKeeps
<1>5. QED
  BY <1>1, <1>2, <1>3, <1>4

\* A batch, oldest first.
LEMMA BatchKeeps ==
    ASSUME EventsProper, first \in Nat, "state" \notin Sealable,
           NEW b \in Nat, first <= b, NEW to \in Nat, b <= to, to <= Len(log),
           NEW base, NEW S, NEW gone, NEW shut, Published(base, b, S),
           \A i \in b + 1 .. to : Delivered(i, S, gone, shut)
    PROVE  Published(Run("publish", <<gone, shut>>, base, b, to), to, S)
<1> DEFINE p == <<gone, shut>>
           G == {n \in Nat : n <= to =>
                     Published(Run("publish", p, base, b, n), n, S)}
<1>1. b \in G
  BY RunOfNone
<1>2. ASSUME NEW n \in Nat, n >= b, n \in G PROVE n + 1 \in G
  <2> SUFFICES ASSUME n + 1 <= to
               PROVE  Published(Run("publish", p, base, b, n + 1), n + 1, S)
    OBVIOUS
  <2> PICK v : v = Run("publish", p, base, b, n)
    OBVIOUS
  <2>1. Published(v, n, S)
    BY <1>2
  <2>2. PICK i : i = n + 1
    OBVIOUS
  <2>3. /\ i \in first + 1 .. Len(log) /\ i \in b + 1 .. to /\ i - 1 = n
        /\ i > b /\ i \in Nat
    BY <1>2, <2>2 DEF EventsProper
  <2>4. Run("publish", p, base, b, i)
            = Step("publish", p, i, Run("publish", p, base, b, i - 1))
    <3>1. \A q : Run("publish", q, base, b, i)
                    = Step("publish", q, i, Run("publish", q, base, b, i - 1))
      <4>1. i \in Nat /\ b \in Nat /\ i > b
        BY <2>3
      <4>2. QED
        BY <4>1, RunSteps
    <3> HIDE DEF p
    <3>2. QED
      BY <3>1
  <2>5. Step("publish", p, i, Run("publish", p, base, b, i - 1))
            = Room!PublishEvent(v, i, gone, shut)
    <3>1. Run("publish", p, base, b, i - 1) = v
      BY <2>3
    <3>2. p[1] = gone /\ p[2] = shut
      OBVIOUS
    <3> HIDE DEF p
    <3>3. QED
      BY <3>1, <3>2 DEF Step
  <2>6. Published(Room!PublishEvent(v, i, gone, shut), i, S)
    BY <2>1, <2>3, OneEventKeeps
  <2>7. QED
    BY <2>2, <2>4, <2>5, <2>6
<1> HIDE DEF G
<1>3. to \in G
  BY <1>1, <1>2, InductionFrom
<1>4. QED
  BY <1>3 DEF G

LEMMA RoomsInit == Room!Init => RoomsInv
<1> SUFFICES ASSUME Room!Init PROVE RoomsInv
  OBVIOUS
<1>1. log = <<>> /\ sealed = {} /\ first = 0 /\ at = 0 /\ unsent = None
  BY DEF Room!Init
<1>2. /\ DOMAIN rows = {} /\ badges = {} /\ stamps = {} /\ reactions = {}
      /\ joined = TRUE
  BY DEF Room!Init, Room!EmptyHash
<1>3. EventsProper
  BY <1>1 DEF EventsProper
<1>4. PICK v : v = Room!View
  OBVIOUS
<1>5. /\ Whole(v) /\ v.rows = rows /\ v.badges = badges /\ v.stamps = stamps
      /\ v.reactions = reactions
  BY <1>4 DEF Room!View, Whole
<1>6. Published(v, 0, {})
  BY <1>1, <1>2, <1>5 DEF Published, Within, RowsReached, BadgesReached, RowsKept
<1>7. QED
  BY <1>1, <1>2, <1>3, <1>4, <1>6 DEF RoomsInv

\* What is kept of the events up to i is about them alone, but for what was taken
\* back since.
LEMMA MoreLog ==
    ASSUME NEW v, NEW i \in Nat, NEW S, Published(v, i, S), first \in Nat, EventsProper,
           i <= Len(log), first' = first, Len(log') \in Nat, Len(log) <= Len(log'),
           \A x \in 1..Len(log) : log'[x] = log[x]
    PROVE  Published(v, i, S)'
<1>1. \A e \in 1..i : /\ log'[e] = log[e] /\ Reacts(e)' <=> Reacts(e)
                      /\ Room!Mine(e)' <=> Room!Mine(e)
                      /\ Room!Badge(e)' = Room!Badge(e)
  <2>1. \A e \in 1..i : e \in 1..Len(log)
    BY DEF EventsProper
  <2>2. QED
    BY <2>1 DEF Reacts, Room!Mine, Room!Badge
<1>2. \A e \in first + 1 .. i : e \in 1..i
  OBVIOUS
<1>3. \A e : (TakenBy(e, i)' <=> TakenBy(e, i)) /\ TextsOf(e, i)' = TextsOf(e, i)
  BY <1>1, <1>2 DEF TakenBy, TextsOf
<1>4. \A e : Room!Live(e)' => Room!Live(e)
  <2>1. 1..Len(log) \subseteq 1..Len(log')
    BY DEF EventsProper
  <2>2. QED
    BY <2>1 DEF Room!Live, Room!Ids
<1>5. Within(v, i)'
  BY <1>1, <1>2, <1>3 DEF Published, Within, Whole
<1>6. RowsReached(v, i, S)'
  <2>1. DOMAIN v.rows \subseteq 1..i
    BY DEF Published, Within
  <2>2. QED
    BY <1>1, <1>3, <2>1 DEF Published, RowsReached, Reached, RowIs, Room!Indexed,
       Room!IsLine
<1>7. BadgesReached(v, i)'
  <2>1. ASSUME NEW b \in v.badges, b[1] \in first + 1 .. i
        PROVE  \E r \in v.reactions : ~Room!Mine(r)' /\ Room!Badge(r)' = b
    <3>1. PICK r \in v.reactions : ~Room!Mine(r) /\ Room!Badge(r) = b
      BY <2>1 DEF Published, BadgesReached
    <3>2. r \in 1..i
      BY <1>2, <3>1 DEF Published, Within
    <3>3. QED
      BY <1>1, <3>1, <3>2
  <2>2. \A r \in first + 1 .. i : Sole(r, i)' => Sole(r, i)
    BY <1>1, <1>2 DEF Sole
  <2>3. ASSUME NEW r \in first + 1 .. i,
               Reacts(r)', ~Room!Mine(r)', log'[r].target \in v.stamps, Room!Live(r)',
               Sole(r, i)'
        PROVE  Room!Badge(r)' \in v.badges
    BY <1>1, <1>2, <1>4, <2>2, <2>3 DEF Published, BadgesReached
  <2>4. QED
    BY <2>1, <2>3 DEF BadgesReached
<1>8. RowsKept(v, i)'
  <2> SUFFICES ASSUME NEW e \in first + 1 .. i, log'[e].kind \in Stays, ~TakenBy(e, i)'
               PROVE  e \in DOMAIN v.rows /\ Tells(v.rows[e].text, e, i)'
    BY DEF RowsKept, Stays
  <2>1. e \in 1..i /\ TextsOf(e, i) \subseteq 1..i
    BY <1>2 DEF TextsOf
  <2>2. e \in DOMAIN v.rows /\ Tells(v.rows[e].text, e, i)
    BY <1>1, <1>3, <2>1 DEF Published, RowsKept
  <2>3. QED
    BY <1>1, <1>3, <1>4, <2>1, <2>2 DEF Tells, Room!Typed
<1>9. QED
  BY <1>5, <1>6, <1>7, <1>8 DEF Published

\* An event more in the room, that no sync has brought yet.
LEMMA AppendKeeps ==
    ASSUME RoomsInv, NEW ev \in Event, Proper(ev, Len(log)),
           ev.kind = "reaction" => ~Room!HasReacted(ev.target, ev.by),
           log' = Append(log, ev),
           UNCHANGED <<sealed, first, at, joined, rows, badges, votes, stamps, reactions>>,
           \/ unsent' = unsent
           \/ unsent' = None
    PROVE  RoomsInv'
<1>1. /\ log \in Seq(Event) /\ Len(log) \in Nat /\ at <= Len(log) /\ at \in Nat
      /\ first \in Nat /\ first <= at /\ EventsProper
  BY DEF RoomsInv, EventsProper
<1>2. /\ log' \in Seq(Event) /\ Len(log') = Len(log) + 1
      /\ \A i \in 1..Len(log) : log'[i] = log[i]
      /\ log'[Len(log) + 1] = ev
  BY <1>1
<1>3. EventsProper'
  <2>1. ASSUME NEW i \in 1..Len(log')
        PROVE  Proper(log'[i], i - 1) /\ (Reacts(i)' => Alone(i)')
    <3>1. CASE i <= Len(log)
      <4>1. i \in 1..Len(log) /\ log'[i] = log[i]
        BY <1>1, <1>2, <3>1
      <4>2. \A q \in 1 .. i : log'[q] = log[q]
        BY <1>1, <1>2, <3>1
      <4>3. Proper(log[i], i - 1) /\ (Reacts(i) => Alone(i))
        BY <1>1, <4>1 DEF EventsProper
      <4>4. /\ \A q \in 1 .. i - 1 : q \in 1 .. i
            /\ \A q \in 1 .. i - 1 : \A x \in q + 1 .. i - 1 : x \in 1 .. i
        BY <4>1
      <4>5. Reacts(i)' => Alone(i)'
        BY <4>1, <4>2, <4>3, <4>4 DEF Reacts, Alone
      <4>6. QED
        BY <4>1, <4>3, <4>5
    <3>2. CASE ~(i <= Len(log))
      <4>1. i = Len(log) + 1 /\ i - 1 = Len(log) /\ log'[i] = ev
        BY <1>1, <1>2, <3>2
      <4>2. ASSUME ev.kind = "reaction", NEW q \in 1 .. i - 1, log'[q].kind = "reaction",
                   log'[q].target = ev.target, log'[q].by = ev.by
            PROVE  \E x \in q + 1 .. i - 1 :
                       log'[x].kind = "redaction" /\ log'[x].target = q
        <5>1. q \in 1..Len(log) /\ log'[q] = log[q]
          BY <1>2, <4>1
        <5>2. ~Room!Live(q)
          BY <4>2, <5>1 DEF Room!HasReacted, Room!Ids
        <5>3. PICK x \in 1..Len(log) : log[x].kind = "redaction" /\ log[x].target = q
          BY <5>2 DEF Room!Live, Room!Ids
        <5>4. q \in 1 .. x - 1
          BY <1>1, <5>3 DEF EventsProper, Proper
        <5>5. x \in q + 1 .. i - 1 /\ log'[x] = log[x]
          BY <1>1, <1>2, <4>1, <5>3, <5>4
        <5>6. QED
          BY <5>3, <5>5
      <4>3. Reacts(i)' => Alone(i)'
        BY <4>1, <4>2 DEF Reacts, Alone
      <4>4. QED
        BY <4>1, <4>3
    <3>3. QED
      BY <3>1, <3>2
  <2>2. \A e, n : Proper(e, n)' <=> Proper(e, n)
    BY DEF Proper
  <2>3. QED
    BY <1>1, <1>2, <2>1 DEF EventsProper, Proper
<1>4. unsent' # None =>
          /\ unsent' \in [event : Event, stage : {"uploading", "sending"}]
          /\ unsent'.event.by = Me /\ Proper(unsent.event, Len(log))'
  <2> SUFFICES ASSUME unsent' # None
               PROVE  /\ unsent' \in [event : Event, stage : {"uploading", "sending"}]
                      /\ unsent'.event.by = Me /\ Proper(unsent.event, Len(log))'
    OBVIOUS
  <2>1. unsent' = unsent /\ unsent # None
    OBVIOUS
  <2>2. /\ unsent \in [event : Event, stage : {"uploading", "sending"}]
        /\ unsent.event.by = Me /\ Proper(unsent.event, Len(log))
    BY <2>1 DEF RoomsInv
  <2>3. 1..Len(log) \subseteq 1..Len(log')
    BY <1>1, <1>2
  <2>4. Proper(unsent.event, Len(log))'
    BY <2>1, <2>2, <2>3 DEF Proper
  <2>5. QED
    BY <2>1, <2>2, <2>4
<1>5. ASSUME joined PROVE Published(Room!View, at, sealed)'
  <2>1. PICK v, n, S : v = Room!View /\ n = at /\ S = sealed
    OBVIOUS
  <2>2. Published(v, n, S) /\ n \in Nat /\ n <= Len(log)
    BY <1>1, <1>5, <2>1 DEF RoomsInv
  <2>3. Published(v, n, S)'
    <3>1. Len(log') \in Nat /\ Len(log) <= Len(log') /\ first' = first
      BY <1>1, <1>2
    <3>2. QED
      BY <1>1, <1>2, <2>2, <3>1, MoreLog
  <2>4. Room!View' = v /\ at' = n /\ sealed' = S
    BY <2>1 DEF Room!View
  <2>5. QED
    BY <2>3, <2>4
<1>6. \A e \in sealed' : /\ e \in first' + 1 .. at' /\ log'[e].kind \in Sealable
                         /\ ~Room!Mine(e)'
  <2>1. \A e \in first + 1 .. at : e \in 1..Len(log)
    BY <1>1
  <2>2. QED
    BY <1>2, <2>1 DEF RoomsInv, Room!Mine
<1>7. ~joined => /\ DOMAIN rows' = {} /\ stamps' = {} /\ reactions' = {}
                 /\ \A b \in badges' : b[1] \in 1..at'
  BY DEF RoomsInv
<1>8. QED
  BY <1>1, <1>2, <1>3, <1>4, <1>5, <1>6, <1>7 DEF RoomsInv

\* Nothing delivered and nothing posted: the events are what they were.
LEMMA LogKeeps ==
    ASSUME EventsProper, UNCHANGED log
    PROVE  EventsProper' /\ Len(log)' = Len(log)
BY DEF EventsProper, Proper, Reacts, Alone

\* What the user does is on its way out; only a row that is one's own may have new
\* words already.
LEMMA UnsentKeeps ==
    ASSUME RoomsInv,
           UNCHANGED <<log, sealed, first, at, joined, badges, votes, stamps, reactions>>,
           \/ rows' = rows
           \/ \E e \in DOMAIN rows : /\ joined /\ Room!Mine(e)
                                     /\ rows' = [rows EXCEPT ![e].text = Room!Typed],
           unsent' # None =>
               /\ unsent' \in [event : Event, stage : {"uploading", "sending"}]
               /\ unsent'.event.by = Me
               /\ \E ev : ev = unsent'.event /\ Proper(ev, Len(log))
    PROVE  RoomsInv'
<1>1. EventsProper'
  BY LogKeeps DEF RoomsInv
<1>2. DOMAIN rows' = DOMAIN rows
  OBVIOUS
<1>3. ASSUME joined PROVE Published(Room!View, at, sealed)'
  <2>1. PICK v, w, i, S : /\ v = Room!View /\ i = at /\ S = sealed
                          /\ w = [rows |-> rows', badges |-> badges, votes |-> votes,
                                  stamps |-> stamps, reactions |-> reactions]
    OBVIOUS
  <2>2. Published(v, i, S)
    BY <1>3, <2>1 DEF RoomsInv
  <2>3. /\ v.rows = rows /\ v.badges = badges /\ v.stamps = stamps
        /\ v.reactions = reactions
    BY <2>1 DEF Room!View
  <2>4. /\ w.rows = rows' /\ w.badges = badges /\ w.stamps = stamps
        /\ w.reactions = reactions /\ Whole(w)
    BY <2>1 DEF Whole
  <2>5. ASSUME NEW x \in DOMAIN rows
        PROVE  \/ rows'[x] = rows[x]
               \/ /\ Room!Mine(x) /\ RowIs(rows'[x])
                  /\ rows'[x].kind = rows[x].kind /\ rows'[x].text = Room!Typed
    <3>1. CASE rows' = rows
      BY <3>1
    <3>2. CASE rows' # rows
      <4>1. PICK e \in DOMAIN rows :
                Room!Mine(e) /\ rows' = [rows EXCEPT ![e].text = Room!Typed]
        BY <3>2
      <4> DEFINE r == [rows[e] EXCEPT !.text = Room!Typed]
      <4>2. rows' = [rows EXCEPT ![e] = r]
        BY <4>1
      <4>3. RowIs(rows[e])
        BY <2>2, <2>3 DEF Published, RowsReached, Reached
      <4>4. RowIs(r) /\ r.kind = rows[e].kind /\ r.text = Room!Typed
        BY <4>3, RowWithText
      <4> HIDE DEF r
      <4>5. QED
        BY <4>1, <4>2, <4>4
    <3>3. QED
      BY <3>1, <3>2
  <2>6. Within(w, i)
    BY <1>2, <2>2, <2>3, <2>4 DEF Published, Within
  <2>7. RowsReached(w, i, S)
    <3> SUFFICES ASSUME NEW x \in DOMAIN rows PROVE Reached(rows'[x], x, stamps, i, S)
      BY <1>2, <2>4 DEF RowsReached
    <3>1. Reached(rows[x], x, stamps, i, S)
      BY <2>2, <2>3 DEF Published, RowsReached
    <3>2. rows'[x] = rows[x] \/ (RowIs(rows'[x]) /\ rows'[x].kind = rows[x].kind)
      BY <2>5
    <3>3. QED
      BY <3>1, <3>2 DEF Reached
  <2>8. BadgesReached(w, i)
    BY <2>2, <2>3, <2>4 DEF Published, BadgesReached
  <2>9. RowsKept(w, i)
    <3> SUFFICES ASSUME NEW x \in first + 1 .. i, log[x].kind \in Stays, ~TakenBy(x, i)
                 PROVE  x \in DOMAIN rows' /\ Tells(rows'[x].text, x, i)
      BY <2>4 DEF RowsKept
    <3>1. x \in DOMAIN rows /\ Tells(rows[x].text, x, i)
      BY <2>2, <2>3 DEF Published, RowsKept
    <3>2. rows'[x] = rows[x] \/ (Room!Mine(x) /\ rows'[x].text = Room!Typed)
      BY <2>5, <3>1
    <3>3. Room!Mine(x) => Tells(Room!Typed, x, i)
      BY DEF Tells
    <3>4. QED
      BY <1>2, <3>1, <3>2, <3>3
  <2>10. Published(w, i, S)
    BY <2>6, <2>7, <2>8, <2>9 DEF Published
  <2>11. Published(w, i, S)'
    <3>1. /\ i \in Nat /\ first \in Nat /\ EventsProper /\ i <= Len(log)
          /\ Len(log') \in Nat /\ Len(log) <= Len(log')
      BY <2>1 DEF RoomsInv, EventsProper
    <3>2. QED
      BY <2>10, <3>1, MoreLog
  <2>12. Room!View' = w /\ at' = i /\ sealed' = S
    BY <2>1 DEF Room!View
  <2>13. QED
    BY <2>11, <2>12
<1>4. unsent' # None =>
          /\ unsent' \in [event : Event, stage : {"uploading", "sending"}]
          /\ unsent'.event.by = Me /\ Proper(unsent.event, Len(log))'
  BY DEF Proper
<1>5. \A e \in sealed' : /\ e \in first' + 1 .. at' /\ log'[e].kind \in Sealable
                         /\ ~Room!Mine(e)'
  BY DEF RoomsInv, Room!Mine
<1>6. ~joined => /\ DOMAIN rows' = {} /\ stamps' = {} /\ reactions' = {}
                 /\ \A b \in badges' : b[1] \in 1..at'
  BY <1>2 DEF RoomsInv
<1>7. QED
  BY <1>1, <1>3, <1>4, <1>5, <1>6 DEF RoomsInv
-----------------------------------------------------------------------------
\* What the server lets an event be about makes it a proper one.
LEMMA AboutIsProper ==
    ASSUME RoomsInv, NEW kind \in {"edit", "vote", "reaction", "redaction"},
           NEW by \in Others \cup {Me, None}, NEW e \in 1..Len(log)
    PROVE  \E ev \in Event : /\ ev = [kind |-> kind, target |-> e, by |-> by]
                             /\ Proper(ev, Len(log))
<1>1. PICK ev : ev = [kind |-> kind, target |-> e, by |-> by]
  OBVIOUS
<1>2. e \in Nat
  BY DEF RoomsInv, EventsProper
<1>3. ev \in Event
  BY <1>1, <1>2 DEF Event
<1>4. ev.target = e
  BY <1>1
<1>5. Proper(ev, Len(log))
  BY <1>4 DEF Proper
<1>6. QED
  BY <1>1, <1>3, <1>5

LEMMA PlainIsProper ==
    ASSUME NEW kind \in Plain \cup Room!Immediate, NEW by \in Others \cup {Me, None},
           Plain \cap {"edit", "vote", "reaction", "redaction"} = {}
    PROVE  \E ev \in Event : /\ ev = [kind |-> kind, target |-> 0, by |-> by]
                             /\ Proper(ev, Len(log)) /\ ev.kind # "reaction"
<1>1. PICK ev : ev = [kind |-> kind, target |-> 0, by |-> by]
  OBVIOUS
<1>2. ev \in Event
  BY <1>1 DEF Event
<1>3. kind \notin {"edit", "vote", "reaction", "redaction"}
  BY DEF Room!Immediate
<1>4. ev.kind = kind
  BY <1>1
<1>5. Proper(ev, Len(log))
  BY <1>3, <1>4 DEF Proper
<1>6. QED
  BY <1>1, <1>2, <1>3, <1>4, <1>5

LEMMA RoomOthersKeep ==
    ASSUME RoomsInv, Room!OthersPost,
           Plain \cap {"edit", "vote", "reaction", "redaction"} = {},
           Amending \subseteq {"edit", "vote", "reaction", "redaction"}
    PROVE  RoomsInv'
<1>1. UNCHANGED <<sealed, first, at, joined, rows, badges, votes, stamps, reactions,
                  unsent>>
  BY DEF Room!OthersPost, Room!timeline, Room!index, Room!window
<1>2. PICK ev \in Event : /\ Proper(ev, Len(log)) /\ log' = Append(log, ev)
                          /\ ev.kind = "reaction" => ~Room!HasReacted(ev.target, ev.by)
  <2>1. CASE \E kind \in Plain : Room!Appends(kind, 0, None)
    <3>1. PICK kind \in Plain : Room!Appends(kind, 0, None)
      BY <2>1
    <3>2. PICK ev \in Event : /\ ev = [kind |-> kind, target |-> 0, by |-> None]
                              /\ Proper(ev, Len(log)) /\ ev.kind # "reaction"
      BY PlainIsProper
    <3>3. log' = Append(log, ev)
      BY <3>1, <3>2 DEF Room!Appends
    <3>4. QED
      BY <3>2, <3>3
  <2>2. CASE \E kind \in Amending \ {"reaction"} : \E e \in Room!About(kind) :
                 Room!Appends(kind, e, None)
    <3>1. PICK kind \in Amending \ {"reaction"} : \E e \in Room!About(kind) :
              Room!Appends(kind, e, None)
      BY <2>2
    <3>2. PICK e \in Room!About(kind) : Room!Appends(kind, e, None)
      BY <3>1
    <3>3. kind \in {"edit", "vote", "reaction", "redaction"} /\ e \in 1..Len(log)
      BY <3>2 DEF Room!About, Room!Ids
    <3>4. PICK ev \in Event : /\ ev = [kind |-> kind, target |-> e, by |-> None]
                              /\ Proper(ev, Len(log))
      BY <3>3, AboutIsProper
    <3>5. log' = Append(log, ev) /\ ev.kind # "reaction"
      BY <3>2, <3>4 DEF Room!Appends
    <3>6. QED
      BY <3>4, <3>5
  <2>3. CASE \E e \in Room!About("reaction"), m \in Others :
                 ~Room!HasReacted(e, m) /\ Room!Appends("reaction", e, m)
    <3>1. PICK e \in Room!About("reaction"), m \in Others :
              ~Room!HasReacted(e, m) /\ Room!Appends("reaction", e, m)
      BY <2>3
    <3>2. e \in 1..Len(log)
      BY DEF Room!About, Room!Ids
    <3>3. PICK ev \in Event : /\ ev = [kind |-> "reaction", target |-> e, by |-> m]
                              /\ Proper(ev, Len(log))
      BY <3>2, AboutIsProper
    <3>4. log' = Append(log, ev) /\ ev.target = e /\ ev.by = m
      BY <3>1, <3>3 DEF Room!Appends
    <3>5. QED
      BY <3>1, <3>3, <3>4
  <2>4. QED
    BY <2>1, <2>2, <2>3 DEF Room!OthersPost
<1>3. QED
  BY <1>1, <1>2, AppendKeeps

\* What the library can open and has not been taken back comes whole.
LEMMA RoomSyncKeeps ==
    ASSUME RoomsInv, Room!Sync, "state" \notin Sealable PROVE RoomsInv'
<1>1. /\ joined /\ EventsProper /\ first \in Nat /\ at \in Nat /\ first <= at
      /\ at <= Len(log) /\ Len(log) \in Nat
      /\ UNCHANGED <<log, first, joined, unsent>>
  BY DEF Room!Sync, RoomsInv, EventsProper
<1>2. PICK to \in at + 1 .. Len(log) :
          LET batch == at + 1 .. to
              gone == {e \in batch : ~Room!Live(e)}
          IN /\ to <= at + MaxBatch
             /\ \E shut \in SUBSET {e \in batch \ gone :
                                       log[e].kind \in Sealable /\ ~Room!Mine(e)} :
                    /\ sealed' = sealed \cup shut
                    /\ Room!Shows(Room!PublishRange(at + 1, to, gone, shut))
             /\ at' = to
  BY DEF Room!Sync
<1>3. PICK gone : gone = {e \in at + 1 .. to : ~Room!Live(e)}
  OBVIOUS
<1>4. PICK shut \in SUBSET {e \in (at + 1 .. to) \ gone :
                                log[e].kind \in Sealable /\ ~Room!Mine(e)} :
          /\ sealed' = sealed \cup shut
          /\ Room!Shows(Room!PublishRange(at + 1, to, gone, shut))
  BY <1>2, <1>3
<1>5. PICK w, S, b, base :
          /\ w = Room!PublishRange(at + 1, to, gone, shut)
          /\ S = sealed \cup shut /\ b = at /\ base = Room!View
  OBVIOUS
<1>6. /\ b \in Nat /\ to \in Nat /\ b <= to /\ to <= Len(log) /\ first <= b
      /\ (b + 1) - 1 = b
  BY <1>1, <1>5
<1>7. Published(base, b, S)
  <2>1. Published(base, b, sealed)
    BY <1>1, <1>5 DEF RoomsInv
  <2>2. DOMAIN base.rows \subseteq 1..b
    BY <2>1 DEF Published, Within
  <2>3. \A e \in 1..b : e \in S => e \in sealed
    BY <1>4, <1>5, <1>6
  <2>4. RowsReached(base, b, S)
    BY <2>1, <2>2, <2>3 DEF Published, RowsReached, Reached
  <2>5. QED
    BY <2>1, <2>4 DEF Published
<1>8. ASSUME NEW i \in b + 1 .. to PROVE Delivered(i, S, gone, shut)
  <2>1. i \notin sealed
    <3>1. i \notin first + 1 .. b
      BY <1>1, <1>6
    <3>2. QED
      BY <1>5, <3>1 DEF RoomsInv
  <2>2. QED
    BY <1>3, <1>4, <1>5, <2>1 DEF Delivered
<1>9. w = Run("publish", <<gone, shut>>, base, b, to)
  <2>1. PICK from : from = b + 1
    OBVIOUS
  <2>2. Room!PublishRange(from, to, gone, shut)
            = Run("publish", <<gone, shut>>, Room!View, from - 1, to)
    BY PublishIsRun
  <2>3. QED
    BY <1>5, <1>6, <2>1, <2>2
<1>10. Published(w, to, S)
  BY <1>1, <1>6, <1>7, <1>8, <1>9, BatchKeeps
<1>11. Published(Room!View, at, sealed)'
  <2>1. /\ rows' = w.rows /\ badges' = w.badges /\ votes' = w.votes
        /\ stamps' = w.stamps /\ reactions' = w.reactions
    BY <1>4, <1>5 DEF Room!Shows
  <2>2. w = [rows |-> w.rows, badges |-> w.badges, votes |-> w.votes,
             stamps |-> w.stamps, reactions |-> w.reactions]
    BY <1>10 DEF Published, Within, Whole
  <2>3. Room!View' = w
    BY <2>1, <2>2 DEF Room!View
  <2>4. at' = to /\ sealed' = S
    BY <1>2, <1>4, <1>5
  <2>5. Published(w, to, S)'
    <3>1. /\ first' = first /\ Len(log') \in Nat /\ Len(log) <= Len(log')
          /\ \A x \in 1..Len(log) : log'[x] = log[x]
      BY <1>1
    <3>2. QED
      BY <1>1, <1>6, <1>10, <3>1, MoreLog
  <2>6. QED
    BY <2>3, <2>4, <2>5
<1>12. \A e \in sealed' : /\ e \in first' + 1 .. at' /\ log'[e].kind \in Sealable
                          /\ ~Room!Mine(e)'
  <2>1. \A e \in at + 1 .. to : e \in first + 1 .. to
    BY <1>1
  <2>2. \A e \in first + 1 .. at : e \in first + 1 .. to
    BY <1>1, <1>6, <1>5
  <2>3. at' = to
    BY <1>2
  <2>4. \A e : Room!Mine(e)' <=> Room!Mine(e)
    BY <1>1 DEF Room!Mine
  <2>5. QED
    BY <1>1, <1>4, <2>1, <2>2, <2>3, <2>4 DEF RoomsInv
<1>13. EventsProper'
  BY <1>1, LogKeeps
<1>14. unsent' # None =>
           /\ unsent' \in [event : Event, stage : {"uploading", "sending"}]
           /\ unsent'.event.by = Me /\ Proper(unsent.event, Len(log))'
  BY <1>1 DEF RoomsInv, Proper
<1>15. first' \in Nat /\ at' \in Nat /\ first' <= at' /\ at' <= Len(log')
  BY <1>1, <1>2, <1>6
<1>16. joined'
  BY <1>1
<1>17. QED
  BY <1>11, <1>12, <1>13, <1>14, <1>15, <1>16 DEF RoomsInv

\* A key that came late makes a text of the line, and the text is found as the
\* line was.
LEMMA RoomRevealKeeps ==
    ASSUME RoomsInv, NEW e, Room!Reveal(e) PROVE RoomsInv'
<1>1. /\ e \in sealed /\ ~Room!Taken(e) /\ sealed' = sealed \ {e}
      /\ UNCHANGED <<log, first, at, joined, badges, votes, stamps, reactions, unsent>>
      /\ \/ rows' = rows
         \/ e \in DOMAIN rows /\ rows' = [rows EXCEPT ![e] = [kind |-> "text", text |-> e]]
  BY DEF Room!Reveal, Room!index
<1>2. EventsProper'
  BY <1>1, LogKeeps DEF RoomsInv
<1>3. unsent' # None =>
           /\ unsent' \in [event : Event, stage : {"uploading", "sending"}]
           /\ unsent'.event.by = Me /\ Proper(unsent.event, Len(log))'
  BY <1>1 DEF RoomsInv, Proper
<1>4. DOMAIN rows' = DOMAIN rows
  BY <1>1
<1>5. ASSUME joined PROVE Published(Room!View, at, sealed)'
  <2>1. PICK v, w, n, S : /\ v = Room!View /\ n = at /\ S = sealed \ {e}
                          /\ w = [rows |-> rows', badges |-> badges, votes |-> votes,
                                  stamps |-> stamps, reactions |-> reactions]
    OBVIOUS
  <2>2. Published(v, n, sealed)
    BY <1>5, <2>1 DEF RoomsInv
  <2>3. /\ v.rows = rows /\ v.badges = badges /\ v.stamps = stamps
        /\ v.reactions = reactions
    BY <2>1 DEF Room!View
  <2>4. /\ w.rows = rows' /\ w.badges = badges /\ w.stamps = stamps
        /\ w.reactions = reactions
    BY <2>1
  <2>5. Whole(w)
    BY <2>1 DEF Whole
  <2>6. ASSUME NEW x \in DOMAIN rows
        PROVE  \/ rows'[x] = rows[x]
               \/ /\ x = e /\ RowIs(rows'[x])
                  /\ rows'[x].kind = "text" /\ rows'[x].text = e
    <3>1. PICK r : r = [kind |-> "text", text |-> e]
      OBVIOUS
    <3>2. RowIs(r) /\ r.kind = "text" /\ r.text = e
      BY <3>1 DEF RowIs
    <3>3. rows' = rows \/ (e \in DOMAIN rows /\ rows' = [rows EXCEPT ![e] = r])
      BY <1>1, <3>1
    <3>4. rows'[x] = rows[x] \/ (x = e /\ rows'[x] = r)
      BY <3>3
    <3>5. QED
      BY <3>2, <3>4
  <2>7. Within(w, n)
    BY <1>4, <2>2, <2>3, <2>4, <2>5 DEF Published, Within
  <2>8. e \in first + 1 .. n /\ ~Room!Mine(e) /\ ~TakenBy(e, n) /\ e > first
    <3>1. e \in first + 1 .. n /\ ~Room!Mine(e)
      BY <1>1, <2>1 DEF RoomsInv
    <3>2. ~TakenBy(e, n)
      BY <1>1, <2>1 DEF TakenBy, Room!Taken, Room!Here
    <3>3. QED
      BY <2>1, <3>1, <3>2 DEF RoomsInv
  <2>9. RowsReached(w, n, S)
    <3> SUFFICES ASSUME NEW x \in DOMAIN rows PROVE Reached(rows'[x], x, stamps, n, S)
      BY <1>4, <2>4 DEF RowsReached
    <3>1. Reached(rows[x], x, stamps, n, sealed)
      BY <2>2, <2>3 DEF Published, RowsReached
    <3>2. CASE rows'[x] = rows[x]
      BY <2>1, <3>1, <3>2 DEF Reached
    <3>3. CASE /\ x = e /\ RowIs(rows'[x])
               /\ rows'[x].kind = "text" /\ rows'[x].text = e
      <4>1. e \in stamps
        BY <1>1, <2>8, <3>1, <3>3 DEF Reached
      <4>2. e \notin S
        BY <2>1
      <4>3. QED
        BY <2>8, <3>1, <3>3, <4>1, <4>2 DEF Reached
    <3>4. QED
      BY <2>6, <3>2, <3>3
  <2>10. BadgesReached(w, n)
    BY <2>2, <2>3, <2>4 DEF Published, BadgesReached
  <2>11. RowsKept(w, n)
    <3> SUFFICES ASSUME NEW x \in first + 1 .. n, log[x].kind \in Stays, ~TakenBy(x, n)
                 PROVE  x \in DOMAIN rows' /\ Tells(rows'[x].text, x, n)
      BY <2>4 DEF RowsKept
    <3>1. x \in DOMAIN rows /\ Tells(rows[x].text, x, n)
      BY <2>2, <2>3 DEF Published, RowsKept
    <3>2. CASE rows'[x] = rows[x]
      BY <1>4, <3>1, <3>2
    <3>3. CASE x = e /\ rows'[x].text = e
      <4>1. Tells(e, e, n)
        BY <2>8 DEF Tells, TextsOf
      <4>2. QED
        BY <1>4, <3>1, <3>3, <4>1
    <3>4. QED
      BY <2>6, <3>1, <3>2, <3>3
  <2>12. Published(w, n, S)'
    <3>1. Published(w, n, S)
      BY <2>7, <2>9, <2>10, <2>11 DEF Published
    <3>2. /\ n \in Nat /\ first \in Nat /\ EventsProper /\ n <= Len(log)
          /\ first' = first /\ Len(log') \in Nat /\ Len(log) <= Len(log')
          /\ \A x \in 1..Len(log) : log'[x] = log[x]
      BY <1>1, <2>1 DEF RoomsInv, EventsProper
    <3>3. QED
      BY <3>1, <3>2, MoreLog
  <2>13. Room!View' = w /\ at' = n /\ sealed' = S
    BY <1>1, <2>1 DEF Room!View
  <2>14. QED
    BY <2>12, <2>13
<1>6. \A x \in sealed' : /\ x \in first' + 1 .. at' /\ log'[x].kind \in Sealable
                         /\ ~Room!Mine(x)'
  BY <1>1 DEF RoomsInv, Room!Mine
<1>7. first' \in Nat /\ at' \in Nat /\ first' <= at' /\ at' <= Len(log')
  BY <1>1 DEF RoomsInv
<1>8. ~joined => /\ DOMAIN rows' = {} /\ stamps' = {} /\ reactions' = {}
                 /\ \A b \in badges' : b[1] \in 1..at'
  BY <1>1, <1>4 DEF RoomsInv
<1>9. joined' = joined
  BY <1>1
<1>10. QED
  BY <1>2, <1>3, <1>5, <1>6, <1>7, <1>8, <1>9 DEF RoomsInv
-----------------------------------------------------------------------------
\* What the user posts, step by step, until the server has it or does not.  An
\* edit is in the row before it is posted.
LEMMA RoomPostKeeps ==
    ASSUME RoomsInv, Plain \cap {"edit", "vote", "reaction", "redaction"} = {},
           \/ \E kind \in Plain : Room!SendNow(kind)
           \/ Room!Upload
           \/ \E e \in Room!Ids : Room!SendEdit(e) \/ Room!SendPollVote(e)
           \/ \E e \in Room!Ids, added \in BOOLEAN : Room!SendReaction(e, added)
    PROVE  RoomsInv'
<1>1. UNCHANGED <<log, sealed, first, at, joined, badges, votes, stamps, reactions>>
  BY DEF Room!SendNow, Room!Upload, Room!SendEdit, Room!SendPollVote,
         Room!SendReaction, Room!timeline, Room!index, Room!window
<1> DEFINE Rewrites ==
               \/ rows' = rows
               \/ \E e \in DOMAIN rows :
                      /\ joined /\ Room!Mine(e)
                      /\ rows' = [rows EXCEPT ![e].text = Room!Typed]
<1>2. ASSUME NEW kind, NEW e, NEW stage \in {"uploading", "sending"}, Rewrites,
             Room!Posts(kind, e, stage),
             \E ev \in Event : /\ ev = [kind |-> kind, target |-> e, by |-> Me]
                               /\ Proper(ev, Len(log))
      PROVE  RoomsInv'
  <2>1. PICK ev \in Event : /\ ev = [kind |-> kind, target |-> e, by |-> Me]
                            /\ Proper(ev, Len(log))
    BY <1>2
  <2>2. unsent' = [event |-> ev, stage |-> stage]
    BY <1>2, <2>1 DEF Room!Posts
  <2>3. ev.by = Me
    BY <2>1
  <2>4. unsent'.event = ev /\ unsent' \in [event : Event, stage : {"uploading", "sending"}]
    BY <2>2
  <2>5. unsent'.event.by = Me
    BY <2>3, <2>4
  <2>6. \E x : x = unsent'.event /\ Proper(x, Len(log))
    BY <2>1, <2>4
  <2>7. QED
    BY <1>1, <1>2, <2>4, <2>5, <2>6, UnsentKeeps
<1>3. ASSUME NEW kind \in Room!Immediate, NEW stage \in {"uploading", "sending"},
             Rewrites, Room!Posts(kind, 0, stage)
      PROVE  RoomsInv'
  <2>1. \E ev \in Event : /\ ev = [kind |-> kind, target |-> 0, by |-> Me]
                          /\ Proper(ev, Len(log))
    BY PlainIsProper
  <2>2. QED
    BY <1>2, <1>3, <2>1
<1>4. ASSUME NEW kind \in {"edit", "vote", "reaction", "redaction"},
             NEW e \in 1..Len(log), Rewrites, Room!Posts(kind, e, "sending")
      PROVE  RoomsInv'
  <2>1. \E ev \in Event : /\ ev = [kind |-> kind, target |-> e, by |-> Me]
                          /\ Proper(ev, Len(log))
    BY AboutIsProper
  <2>2. QED
    BY <1>2, <1>4, <2>1
<1>5. CASE \E kind \in Plain : Room!SendNow(kind)
  BY <1>3, <1>5 DEF Room!SendNow, Room!window
<1>6. CASE Room!Upload
  BY <1>3, <1>6 DEF Room!Upload, Room!Immediate, Room!window
<1>7. ASSUME NEW e \in Room!Ids, Room!SendEdit(e)
      PROVE  RoomsInv'
  <2>1. Rewrites /\ e \in 1..Len(log)
    BY <1>7 DEF Room!SendEdit, Room!Ids
  <2>2. CASE Room!Posts("edit", e, "sending")
    BY <1>4, <2>1, <2>2
  <2>3. CASE UNCHANGED unsent
    <3>1. unsent' # None =>
              /\ unsent' \in [event : Event, stage : {"uploading", "sending"}]
              /\ unsent'.event.by = Me
              /\ \E ev : ev = unsent'.event /\ Proper(ev, Len(log))
      BY <2>3 DEF RoomsInv, Proper
    <3>2. QED
      BY <1>1, <2>1, <3>1, UnsentKeeps
  <2>4. QED
    BY <1>7, <2>2, <2>3 DEF Room!SendEdit
<1>8. ASSUME NEW e \in Room!Ids, Room!SendPollVote(e)
      PROVE  RoomsInv'
  BY <1>4, <1>8 DEF Room!SendPollVote, Room!Ids, Room!window
<1>9. ASSUME NEW e \in Room!Ids, NEW added \in BOOLEAN, Room!SendReaction(e, added)
      PROVE  RoomsInv'
  <2>1. Rewrites
    BY <1>9 DEF Room!SendReaction, Room!window
  <2>2. CASE Room!Posts("reaction", e, "sending")
    BY <1>4, <2>1, <2>2 DEF Room!Ids
  <2>3. ASSUME NEW r \in Room!Here, Room!Posts("redaction", r, "sending")
        PROVE  RoomsInv'
    <3>1. r \in 1..Len(log)
      BY DEF RoomsInv, EventsProper, Room!Here
    <3>2. QED
      BY <1>4, <2>1, <2>3, <3>1
  <2>4. QED
    BY <1>9, <2>2, <2>3 DEF Room!SendReaction
<1>10. QED
  BY <1>5, <1>6, <1>7, <1>8, <1>9

LEMMA RoomUploadedKeeps ==
    ASSUME RoomsInv, Room!Uploaded \/ Room!SendFailed PROVE RoomsInv'
<1>1. UNCHANGED <<log, sealed, first, at, joined, rows, badges, votes, stamps, reactions>>
  BY DEF Room!Uploaded, Room!SendFailed, Room!timeline, Room!index, Room!window
<1>2. \/ unsent' = None
      \/ unsent # None /\ unsent' = [unsent EXCEPT !.stage = "sending"]
  BY DEF Room!Uploaded, Room!SendFailed
<1>3. ASSUME unsent # None, unsent' = [unsent EXCEPT !.stage = "sending"]
      PROVE  /\ unsent' \in [event : Event, stage : {"uploading", "sending"}]
             /\ unsent'.event.by = Me
             /\ \E ev : ev = unsent'.event /\ Proper(ev, Len(log))
  <2>1. /\ unsent \in [event : Event, stage : {"uploading", "sending"}]
        /\ unsent.event.by = Me /\ Proper(unsent.event, Len(log))
    BY <1>3 DEF RoomsInv
  <2>2. /\ unsent' \in [event : Event, stage : {"uploading", "sending"}]
        /\ unsent'.event = unsent.event
    BY <1>3, <2>1
  <2>3. PICK ev : ev = unsent.event
    OBVIOUS
  <2>4. Proper(ev, Len(log))
    BY <2>1, <2>3 DEF Proper
  <2>5. unsent'.event.by = Me
    BY <2>1, <2>2
  <2>6. QED
    BY <2>2, <2>3, <2>4, <2>5
<1>4. QED
  BY <1>1, <1>2, <1>3, UnsentKeeps

LEMMA RoomAcceptedKeeps == ASSUME RoomsInv, Room!Accepted PROVE RoomsInv'
<1>1. /\ UNCHANGED <<sealed, first, at, joined, rows, badges, votes, stamps, reactions>>
      /\ unsent # None /\ unsent' = None
      /\ unsent.event.kind = "reaction" => ~Room!HasReacted(unsent.event.target, Me)
      /\ Room!Appends(unsent.event.kind, unsent.event.target, Me)
  BY DEF Room!Accepted, Room!timeline, Room!index, Room!window
<1>2. /\ unsent.event \in Event /\ unsent.event.by = Me
      /\ Proper(unsent.event, Len(log))
  BY <1>1 DEF RoomsInv
<1>3. PICK ev : ev = unsent.event
  OBVIOUS
<1>4. ev \in Event /\ ev.by = Me /\ Proper(ev, Len(log))
  BY <1>2, <1>3 DEF Proper
<1>5. ev = [kind |-> ev.kind, target |-> ev.target, by |-> Me]
  BY <1>4 DEF Event
<1>6. log' = Append(log, ev)
  BY <1>1, <1>3, <1>5 DEF Room!Appends
<1>7. ev.kind = "reaction" => ~Room!HasReacted(ev.target, ev.by)
  BY <1>1, <1>3, <1>4
<1>8. QED
  BY <1>1, <1>4, <1>6, <1>7, AppendKeeps

\* Nothing of a room that was left, and no line of a run that ended, is there.
LEMMA RoomEmpties ==
    ASSUME RoomsInv, UNCHANGED log,
           \/ unsent' = unsent
           \/ unsent' = None,
           sealed' = {} \/ ~joined', first' \in Nat, at' \in Nat, first' <= at',
           at' <= Len(log), at <= at',
           sealed' \subseteq sealed, sealed' # {} => first' = first /\ at' = at,
           badges' = badges, stamps' = {}, reactions' = {},
           joined' => /\ first' = at' /\ DOMAIN rows' \subseteq DOMAIN rows
                      /\ \A e \in DOMAIN rows' : rows'[e] = rows[e],
           ~joined' => DOMAIN rows' = {}
    PROVE  RoomsInv'
<1>1. EventsProper'
  BY LogKeeps DEF RoomsInv
<1>2. unsent' # None =>
           /\ unsent' \in [event : Event, stage : {"uploading", "sending"}]
           /\ unsent'.event.by = Me /\ Proper(unsent.event, Len(log))'
  BY DEF RoomsInv, Proper
<1>3. \A e \in sealed' : /\ e \in first' + 1 .. at' /\ log'[e].kind \in Sealable
                         /\ ~Room!Mine(e)'
  BY DEF RoomsInv, Room!Mine
<1>4. /\ \A b \in badges : b[1] \in 1..at
      /\ DOMAIN rows \subseteq 1..at
      /\ \A e \in DOMAIN rows : /\ RowIs(rows[e])
                                /\ log[e].kind \notin {"reaction", "redaction"}
  <2>1. CASE joined
    <3>1. PICK v : v = Room!View
      OBVIOUS
    <3>2. v.rows = rows /\ v.badges = badges
      BY <3>1 DEF Room!View
    <3>3. Published(v, at, sealed)
      BY <2>1, <3>1 DEF RoomsInv
    <3>4. QED
      BY <3>2, <3>3 DEF Published, Within, RowsReached, Reached
  <2>2. CASE ~joined
    BY <2>2 DEF RoomsInv
  <2>3. QED
    BY <2>1, <2>2
<1>5. 1..at \subseteq 1..at' /\ \A b \in badges' : b[1] \in 1..at'
  <2>1. 1..at \subseteq 1..at'
    BY DEF RoomsInv
  <2>2. QED
    BY <1>4, <2>1
<1>6. ASSUME joined' PROVE Published(Room!View, at, sealed)'
  <2>1. PICK w, n : /\ n = at'
                    /\ w = [rows |-> rows', badges |-> badges', votes |-> votes',
                            stamps |-> stamps', reactions |-> reactions']
    OBVIOUS
  <2>2. /\ w.rows = rows' /\ w.badges = badges' /\ w.stamps = {} /\ w.reactions = {}
        /\ Whole(w)
    BY <2>1 DEF Whole
  <2>3. sealed' = {} /\ first' = n /\ n \in Nat
    BY <1>6, <2>1
  <2>4. \A e \in DOMAIN w.rows : /\ e \in 1..n /\ RowIs(w.rows[e])
                                 /\ log'[e].kind \notin {"reaction", "redaction"}
    BY <1>4, <1>5, <1>6, <2>1, <2>2
  <2>5. \A e \in DOMAIN w.rows : ~(e > first')
    BY <2>3, <2>4
  <2>6. Within(w, n)'
    BY <1>5, <2>1, <2>2, <2>4 DEF Within, Whole
  <2>7. RowsReached(w, n, {})'
    BY <2>4, <2>5 DEF RowsReached, Reached, RowIs
  <2>8. BadgesReached(w, n)' /\ RowsKept(w, n)'
    BY <2>3 DEF BadgesReached, RowsKept
  <2>9. Room!View' = w
    BY <2>1 DEF Room!View
  <2>10. QED
    BY <2>1, <2>3, <2>6, <2>7, <2>8, <2>9 DEF Published
<1>7. QED
  BY <1>1, <1>2, <1>3, <1>5, <1>6 DEF RoomsInv

LEMMA RoomEndsKeep ==
    ASSUME RoomsInv, Room!LeaveChat \/ Room!JoinRoom \/ Room!Restart PROVE RoomsInv'
<1>1. /\ first \in Nat /\ at \in Nat /\ first <= at /\ at <= Len(log)
      /\ Len(log) \in Nat
      /\ ~joined => DOMAIN rows = {} /\ stamps = {} /\ reactions = {}
  BY DEF RoomsInv, EventsProper
<1>2. CASE Room!LeaveChat
  <2>1. /\ UNCHANGED <<log, sealed, first, at, badges, unsent>>
        /\ joined' = FALSE /\ stamps' = {} /\ reactions' = {} /\ DOMAIN rows' = {}
    BY <1>2 DEF Room!LeaveChat, Room!timeline, Room!EmptyHash
  <2>2. QED
    BY <1>1, <2>1, RoomEmpties
<1>3. CASE Room!JoinRoom
  <2>1. /\ UNCHANGED <<log, rows, badges, stamps, reactions, unsent>> /\ ~joined
        /\ joined' = TRUE /\ first' = Len(log) /\ at' = Len(log) /\ sealed' = {}
    BY <1>3 DEF Room!JoinRoom, Room!index, Room!window
  <2>2. QED
    BY <1>1, <2>1, RoomEmpties
<1>4. CASE Room!Restart
  <2>1. /\ UNCHANGED <<log, at, joined, badges>> /\ unsent' = None
        /\ first' = at /\ sealed' = {} /\ stamps' = {} /\ reactions' = {}
    BY <1>4 DEF Room!Restart
  <2>2. /\ DOMAIN rows' \subseteq DOMAIN rows
        /\ \A e \in DOMAIN rows' : rows'[e] = rows[e]
    BY <1>4 DEF Room!Restart, Room!Remove
  <2>3. ~joined' => DOMAIN rows' = {}
    BY <1>1, <2>1, <2>2
  <2>4. QED
    BY <1>1, <2>1, <2>2, <2>3, RoomEmpties
<1>5. QED
  BY <1>2, <1>3, <1>4

LEMMA RoomsNext ==
    ASSUME KindsAssumption, RoomsInv, [Room!Next]_roomVars PROVE RoomsInv'
<1>1. CASE UNCHANGED roomVars
  <2>1. UNCHANGED <<log, sealed, first, at, joined, rows, badges, votes, stamps,
                    reactions, unsent>>
    BY <1>1 DEF roomVars
  <2>2. unsent' # None =>
            /\ unsent' \in [event : Event, stage : {"uploading", "sending"}]
            /\ unsent'.event.by = Me
            /\ \E ev : ev = unsent'.event /\ Proper(ev, Len(log))
    BY <2>1 DEF RoomsInv, Proper
  <2>3. QED
    BY <2>1, <2>2, UnsentKeeps
<1>2. CASE Room!OthersPost
  BY <1>2, RoomOthersKeep DEF KindsAssumption
<1>3. CASE Room!Sync
  BY <1>3, RoomSyncKeeps DEF KindsAssumption
<1>4. CASE \E e \in Room!Ids : Room!Reveal(e)
  BY <1>4, RoomRevealKeeps
<1>5. CASE \/ \E kind \in Plain : Room!SendNow(kind)
           \/ Room!Upload
           \/ \E e \in Room!Ids : Room!SendEdit(e) \/ Room!SendPollVote(e)
           \/ \E e \in Room!Ids, added \in BOOLEAN : Room!SendReaction(e, added)
  BY <1>5, RoomPostKeeps DEF KindsAssumption
<1>6. CASE Room!Uploaded \/ Room!SendFailed
  BY <1>6, RoomUploadedKeeps
<1>7. CASE Room!Accepted
  BY <1>7, RoomAcceptedKeeps
<1>8. CASE Room!LeaveChat \/ Room!JoinRoom \/ Room!Restart
  BY <1>8, RoomEndsKeep
<1>9. QED
  BY <1>1, <1>2, <1>3, <1>4, <1>5, <1>6, <1>7, <1>8 DEF Room!Next
-----------------------------------------------------------------------------
LEMMA RoomsHold ==
    ASSUME RoomsInv PROVE TakenBackIsGone /\ BadgesTrue /\ EveryMessageHasItsRow
<1>1. PICK v, n, S : v = Room!View /\ n = at /\ S = sealed
  OBVIOUS
<1>2. /\ v.rows = rows /\ v.badges = badges /\ v.stamps = stamps
      /\ v.reactions = reactions
  BY <1>1 DEF Room!View
<1>3. joined => Published(v, n, S)
  BY <1>1 DEF RoomsInv
<1>4. Room!Here = first + 1 .. n /\ \A e \in first + 1 .. n : e > first
  BY <1>1 DEF Room!Here, RoomsInv
<1>5. \A e : Room!Taken(e) <=> TakenBy(e, n)
  BY <1>4 DEF Room!Taken, TakenBy
<1>6. \A e : TextsOf(e, n) = {e} \cup {x \in Room!Here : log[x].kind = "edit"
                                                         /\ log[x].target = e}
  BY <1>4 DEF TextsOf
<1>7. TakenBackIsGone
  BY <1>2, <1>3, <1>4, <1>5 DEF Published, RowsReached, Reached, TakenBackIsGone,
     Room!TakenBackIsGone
<1>8. BadgesTrue
  <2> SUFFICES ASSUME joined PROVE BadgesTrue
    BY DEF BadgesTrue, Room!BadgesTrue
  <2>1. ASSUME NEW b \in badges, b[1] \in Room!Here
        PROVE  \E r \in Room!Here : /\ log[r].kind = "reaction" /\ ~Room!Mine(r)
                                    /\ Room!Badge(r) = b /\ ~Room!Taken(r)
    BY <1>2, <1>3, <1>4, <1>5, <2>1 DEF Published, BadgesReached, Within, Reacts
  <2>2. ASSUME NEW r \in Room!Here,
               log[r].kind = "reaction", ~Room!Mine(r), log[r].target \in stamps,
               Room!Live(r),
               \A q \in Room!Here :
                   log[q].kind = "reaction" /\ Room!Badge(q) = Room!Badge(r)
                       => log[q].by = log[r].by
        PROVE  Room!Badge(r) \in badges
    BY <1>2, <1>3, <1>4, <2>2 DEF Published, BadgesReached, Reacts, Sole
  <2>3. QED
    BY <2>1, <2>2 DEF BadgesTrue, Room!BadgesTrue
<1>9. EveryMessageHasItsRow
  <2> SUFFICES ASSUME joined, NEW e \in Room!Here,
                      log[e].kind \in {"text", "media", "poll", "unknown", "state"},
                      ~Room!Taken(e)
               PROVE  e \in DOMAIN rows /\ Tells(rows[e].text, e, n)
    BY <1>6 DEF EveryMessageHasItsRow, Room!EveryMessageHasItsRow, Tells
  <2>1. QED
    BY <1>2, <1>3, <1>4, <1>5 DEF Published, RowsKept, Stays
<1>10. QED
  BY <1>7, <1>8, <1>9

\* Whatever is posted, edited, taken back and revealed, by whomever, in whatever
\* batches and runs: of a message of this run that was taken back no row stays but
\* a line of the room (publishEvent's redaction, rowFor's redacted, revealEvent).
THEOREM TakenBackIsAlwaysGone == Room!Init /\ [][Room!Next]_roomVars => []TakenBackIsGone
<1>1. RoomsInv => TakenBackIsGone
  BY RoomsHold
<1>2. Room!Init => RoomsInv
  BY RoomsInit
<1>3. RoomsInv /\ [Room!Next]_roomVars => RoomsInv'
  BY KindsAssumption, RoomsNext
<1>4. QED
  BY <1>1, <1>2, <1>3, PTL

\* Whoever reacts and under whatever names, a badge under a message of this run
\* is of a reaction that stands; a reaction that stands has its badge, unless
\* another member by the same name reacted too (publishEvent's reaction and
\* redaction).
THEOREM BadgesAlwaysTrue == Room!Init /\ [][Room!Next]_roomVars => []BadgesTrue
<1>1. RoomsInv => BadgesTrue
  BY RoomsHold
<1>2. Room!Init => RoomsInv
  BY RoomsInit
<1>3. RoomsInv /\ [Room!Next]_roomVars => RoomsInv'
  BY KindsAssumption, RoomsNext
<1>4. QED
  BY <1>1, <1>2, <1>3, PTL

\* Every message of this run that stands has its row, with its own text or that of
\* an edit; one's own with that of the last edit sent here that stands, of a later
\* one of somebody else, or with what was typed here last (publishEvent, commitEdit).
THEOREM EveryMessageAlwaysHasItsRow ==
    Room!Init /\ [][Room!Next]_roomVars => []EveryMessageHasItsRow
<1>1. RoomsInv => EveryMessageHasItsRow
  BY RoomsHold
<1>2. Room!Init => RoomsInv
  BY RoomsInit
<1>3. RoomsInv /\ [Room!Next]_roomVars => RoomsInv'
  BY KindsAssumption, RoomsNext
<1>4. QED
  BY <1>1, <1>2, <1>3, PTL
-----------------------------------------------------------------------------
(* The four parts together, as the run checks them.                        *)

Holds == /\ TakenBackIsGone /\ BadgesTrue /\ EveryMessageHasItsRow
         /\ VerificationTrue /\ LinesTellWho /\ DoorsTrue

LEMMA PartsNext ==
    ASSUME KindsAssumption, DialogInv, CallsInv, RoomsInv, DoorsInv, [MCNext]_allVars
    PROVE  DialogInv' /\ CallsInv' /\ RoomsInv' /\ DoorsInv'
<1>1. [Next]_vars /\ [RoomCall!Next]_callVars /\ [Room!Next]_roomVars
      /\ [Doors!Next]_doorVars
  BY DEF MCNext, allVars
<1>2. QED
  BY <1>1, DialogNext, CallsNext, RoomsNext, DoorsNext

\* The four parts side by side: in every state of the run, for every value of the
\* constants, what each part promises holds; the keys of two in a room of two.
THEOREM MatrixHolds ==
    MCSpec => []Holds /\ []((\E x, y : Members = {x, y}) => KeysAgree)
<1> DEFINE All == DialogInv /\ CallsInv /\ RoomsInv /\ DoorsInv
           Keys == (\E x, y : Members = {x, y}) => KeysAgree
<1>1. MCInit => All
  BY DialogInit, CallsInit, RoomsInit, DoorsInit DEF MCInit
<1>2. All /\ [MCNext]_allVars => All'
  BY KindsAssumption, PartsNext
<1>3. All => Holds
  BY RoomsHold, DoorsHold DEF DialogInv, Holds
<1>4. All => Keys
  BY KeysHold
<1> HIDE DEF All, Keys
<1>5. QED
  BY <1>1, <1>2, <1>3, <1>4, PTL DEF MCSpec, Keys
=============================================================================
