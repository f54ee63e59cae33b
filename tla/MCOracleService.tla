--------------------------- MODULE MCOracleService ---------------------------
(* Small instances of the Oracle daemon: constants only.                   *)
EXTENDS OracleService, TLC

CONSTANTS q1, q2, p1, p2, h1, h2, h3, good, bad, c1, c2

MCPlain == {[quorum |-> {}, frost |-> FALSE]}
MCMixed == MCPlain \union {[quorum |-> {q1}, frost |-> b] : b \in BOOLEAN}
MCQuorum == [quorum : SUBSET {q1}, frost : BOOLEAN]

Symmetry == Permutations({c1, c2})
=============================================================================
