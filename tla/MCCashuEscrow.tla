--------------------------- MODULE MCCashuEscrow ----------------------------
(* Small escrows: constants only.                                          *)
EXTENDS CashuEscrow, TLC

CONSTANTS p1, p2, c1, c2

Symmetry == Permutations({p1, p2}) \union Permutations({c1, c2})

\* Holds of both sorts, with and without a refund key; redemptions with every
\* ability of the wallet; a 2-of-2 escrow.
MCSetups ==
  LET frost == [kind |-> "frost", begins |-> "proofs", refund |-> TRUE, checks |-> TRUE,
                registers |-> TRUE] IN
  {frost, [frost EXCEPT !.refund = FALSE], [frost EXCEPT !.kind = "htlc"],
   [frost EXCEPT !.begins = "escrow"]}
  \union {[frost EXCEPT !.begins = "bound", !.kind = k, !.registers = b] :
            k \in {"htlc", "frost"}, b \in BOOLEAN}
  \union {[frost EXCEPT !.begins = "bound", !.checks = FALSE]}
=============================================================================
