---------------------------- MODULE MessageLine ----------------------------
(***************************************************************************)
(* What decryptAsync() promises the chats: a line that is served from the  *)
(* front.  A message joins at the back or is turned away for good, and     *)
(* what has joined surfaces once, in the order of joining.                 *)
(***************************************************************************)
EXTENDS Naturals, Sequences

CONSTANTS
    Capacity    \* kMaxPendingDecrypts

VARIABLES arrived, waiting, surfaced

Served(n) ==
    /\ surfaced' = surfaced \o SubSeq(waiting, 1, n)
    /\ waiting' = SubSeq(waiting, n + 1, Len(waiting))
    /\ UNCHANGED arrived

Join ==
    /\ Len(waiting) < Capacity
    /\ arrived' = arrived + 1
    /\ waiting' = Append(waiting, arrived')
    /\ UNCHANGED surfaced

\* Nobody is in front.
PassThrough ==
    /\ waiting = <<>>
    /\ arrived' = arrived + 1
    /\ surfaced' = Append(surfaced, arrived')
    /\ UNCHANGED waiting

TurnAway ==
    /\ arrived' = arrived + 1
    /\ UNCHANGED <<waiting, surfaced>>

Init == arrived = 0 /\ waiting = <<>> /\ surfaced = <<>>

Next == Join \/ PassThrough \/ TurnAway \/ \E n \in 1..Len(waiting) : Served(n)

Spec == Init /\ [][Next]_<<arrived, waiting, surfaced>>
=============================================================================
