--------------------------- MODULE MCQueryService ---------------------------
(* Small instances of the query service: constants only.                   *)
EXTENDS QueryService, TLC

CONSTANTS q1, p1, p2, t1, o1, o2, o3, c1, c2

MCLockedTo == t1 :> p1

MCRegistry == <<o1, o2>>

MCShape(escrow, ref, priced, quorum, oracles, held) ==
  [escrow |-> escrow, ref |-> ref, priced |-> priced, quorum |-> quorum,
   oracles |-> oracles, held |-> held]

\* A plain query, an HTLC query with its amount to verify, a FROST query; and
\* quorums: of the whole registry, of lists with an unregistered and with a
\* repeated oracle.
MCShapes ==
  { MCShape("none", None, FALSE, None, <<o1>>, FALSE),
    MCShape("htlc", None, TRUE, None, <<o1>>, TRUE),
    MCShape("p2pk_frost", None, TRUE, None, <<o1>>, FALSE),
    MCShape("none", None, FALSE, 1, <<o3, o2>>, FALSE),
    MCShape("htlc", None, FALSE, 2, <<>>, TRUE),
    MCShape("htlc", None, FALSE, 2, <<o3, o2>>, TRUE),
    MCShape("p2pk_frost", None, FALSE, 2, <<o1, o1>>, FALSE) }
=============================================================================
