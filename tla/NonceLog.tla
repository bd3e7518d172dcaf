------------------------------ MODULE NonceLog ------------------------------
(***************************************************************************)
(* What the replay guard promises: a packet passes while its timestamp is  *)
(* within the window of the clock, and passes once, and once more for each *)
(* time it is struck from the log.  Time alone strikes nothing;            *)
(* CryptoManager::checkReplay() answers the same out of a cache that also  *)
(* retires what is old.                                                    *)
(***************************************************************************)
EXTENDS Integers

CONSTANTS
    Packets,    \* signed packets, each with a nonce of its own
    Window      \* kReplayWindowSec

VARIABLES
    now,
    admissions,     \* packet -> how often it passed
    struck          \* packet -> how often it was struck from the log

Inside(p) == now - p.ts \in (-Window)..Window

Admit(p) ==
    /\ Inside(p)
    /\ admissions[p] <= struck[p]
    /\ admissions' = [admissions EXCEPT ![p] = @ + 1]
    /\ \A q \in Packets : struck'[q] \in {struck[q], struck[q] + 1}
    /\ UNCHANGED now

Pass == now' > now /\ UNCHANGED <<admissions, struck>>

Init ==
    /\ now = 0
    /\ admissions = [p \in Packets |-> 0]
    /\ struck = [p \in Packets |-> 0]

Next == Pass \/ \E p \in Packets : Admit(p)

Spec == Init /\ [][Next]_<<now, admissions, struck>>
=============================================================================
