------------------------------- MODULE QtHash -------------------------------
(***************************************************************************)
(* The keyed containers of Qt (QHash, QMap) as functions whose DOMAIN is   *)
(* the set of keys present.  Every module of the project that holds a      *)
(* table keyed by an address, an identity or a transfer uses these.        *)
(***************************************************************************)

\* h is a table with keys among K and values among V.
IsHash(h, K, V) ==
    /\ DOMAIN h \subseteq K
    /\ \A k \in DOMAIN h : h[k] \in V

\* The table with no entry.
EmptyHash == [k \in {} |-> {}]

\* hash[k] = v
Insert(h, k, v) == [x \in DOMAIN h \cup {k} |-> IF x = k THEN v ELSE h[x]]

\* hash.remove(k) for every k in the set D
Remove(h, D) == [x \in DOMAIN h \ D |-> h[x]]

\* hash.value(k, default)
Value(h, k, default) == IF k \in DOMAIN h THEN h[k] ELSE default
=============================================================================
