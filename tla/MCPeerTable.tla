---------------------------- MODULE MCPeerTable ----------------------------
(* Small instances of PeerTable. *)
EXTENDS PeerTable, TLC

CONSTANTS p, q, r, s, u, a, b, c

\* u's handshakes prove its identity but give no session; r has no keys, and s
\* none and no nonces.
MCKind == [x \in Peers |-> CASE x = u -> "unusable"
                             [] x = r -> "bare"
                             [] x = s -> "nonceless"
                             [] OTHER -> "sound"]

\* p and q roam, each over two addresses of which they share one; u is heard
\* from the other one of p.
LanRoutes == {<<p, a>>, <<p, b>>, <<q, b>>, <<q, c>>, <<u, a>>}

\* p has two addresses; r may be given the one and s the other.
BareRoutes == {<<p, a>>, <<p, b>>, <<r, a>>, <<s, b>>}
=============================================================================
