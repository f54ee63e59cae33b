----------------------------- MODULE MCExchange -----------------------------
(* Small instances of the paid request exchange: constants only.           *)
EXTENDS Exchange

CONSTANTS p1, p2
=============================================================================
