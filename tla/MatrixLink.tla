----------------------------- MODULE MatrixLink -----------------------------
(***************************************************************************)
(* What MatrixManager promises those who listen to connectionChanged: one  *)
(* connection is current, or none; a connection that stopped being current *)
(* is never current again; one the user signed out of may live on for a    *)
(* while, though nobody is shown it.                                       *)
(***************************************************************************)
EXTENDS Naturals

CONSTANT MaxLinks   \* connections ever made (bound)

VARIABLES
    link,       \* the current connection, 0 when there is none
    leaving,    \* the connections whose logout nobody has answered yet
    links       \* connections made

linkVars == <<link, leaving, links>>

LinkInit == link = 0 /\ leaving = {} /\ links = 0

\* One that fails before anything was asked of it is gone again at once.
NewLink ==
    /\ links < MaxLinks
    /\ links' = links + 1 /\ link' \in {0, links'}
    /\ UNCHANGED leaving
DropLink ==
    /\ link # 0 /\ link' = 0
    /\ UNCHANGED <<leaving, links>>
SignOut ==
    /\ link # 0 /\ link' = 0
    /\ leaving' = leaving \cup {link}
    /\ UNCHANGED links
Gone ==
    /\ \E c \in leaving : leaving' = leaving \ {c}
    /\ UNCHANGED <<link, links>>
\* The program ends, and every connection with it.
EndAll ==
    /\ link' = 0 /\ leaving' = {}
    /\ UNCHANGED links

LinkNext == NewLink \/ DropLink \/ SignOut \/ Gone \/ EndAll
LinkSpec == LinkInit /\ [][LinkNext]_linkVars
=============================================================================
