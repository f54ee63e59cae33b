---------------------------- MODULE PaidExchange ----------------------------
(***************************************************************************)
(* What the paid request exchange promises about one Payment Lock          *)
(* (specs/paid-request-exchange.md): it is made for one Provider, it pays  *)
(* that Provider only after the Oracle verified that Provider's work, or   *)
(* it goes back to the Customer, and that only after the locktime; never   *)
(* both.                                                                   *)
(***************************************************************************)
CONSTANTS Providers, None

VARIABLES
  payment,   \* "none", "locked", "redeemed" or "refunded"
  payee,     \* the Provider the lock is made for
  verified,  \* Providers whose work the Oracle verified
  expired    \* has the locktime passed?

vars == <<payment, payee, verified, expired>>

Init == payment = "none" /\ payee = None /\ verified = {} /\ expired = FALSE

\* The mint may answer so late that the locktime has passed already.
Lock(p) ==
  /\ payment = "none" /\ payment' = "locked" /\ payee' = p
  /\ expired' \in BOOLEAN
  /\ UNCHANGED verified

Verify(p) ==
  /\ p \in Providers /\ verified' = verified \union {p}
  /\ UNCHANGED <<payment, payee, expired>>

Expire ==
  /\ payment # "none" /\ expired' = TRUE
  /\ UNCHANGED <<payment, payee, verified>>

Redeem ==
  /\ payment = "locked" /\ payee \in verified /\ payment' = "redeemed"
  /\ UNCHANGED <<payee, verified, expired>>

Refund ==
  /\ payment = "locked" /\ expired /\ payment' = "refunded"
  /\ UNCHANGED <<payee, verified, expired>>

Next == (\E p \in Providers : Lock(p) \/ Verify(p)) \/ Expire \/ Redeem \/ Refund

Spec == Init /\ [][Next]_vars
=============================================================================
