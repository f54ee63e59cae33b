--------------------------- MODULE MCFrostSigning ---------------------------
(* Small FROST groups: constants only.                                     *)
EXTENDS FrostSigning

CONSTANTS q1, j1, j2

\* Healthy nodes; a node without binary, config or verifier; TLSNotary
\* evidence; tokens of two proofs, locked to the group or to another.
MCSetups ==
  LET healthy == [equipped |-> Nodes, configured |-> Nodes, able |-> Nodes,
                  tlsn |-> FALSE, token |-> 0, locked |-> FALSE, asking |-> {1}] IN
  {healthy, [healthy EXCEPT !.asking = {1, 2}, !.configured = {1, 2}],
   [healthy EXCEPT !.tlsn = TRUE],
   [healthy EXCEPT !.configured = Nodes \ {2}],
   [healthy EXCEPT !.able = {1, 3}],
   [healthy EXCEPT !.equipped = {1, 2}],
   [healthy EXCEPT !.token = 2, !.locked = TRUE],
   [healthy EXCEPT !.token = 2, !.tlsn = TRUE, !.locked = TRUE],
   [healthy EXCEPT !.token = 2]}
=============================================================================
