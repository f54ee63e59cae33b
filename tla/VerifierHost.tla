---------------------------- MODULE VerifierHost ----------------------------
(***************************************************************************)
(* What the verification modules share: the clock of the process they run  *)
(* in, and the situation a behaviour is about.                             *)
(***************************************************************************)
EXTENDS Naturals

CONSTANTS
  Setups,    \* the situations explored
  Slots,     \* verifications or uploads under way at once (a bound)
  MaxNow,    \* where the clock stops (a bound)
  None

VARIABLES
  setup,
  now

ASSUME HostAssumption == Setups # {} /\ MaxNow \in Nat

Clock == 0..MaxNow

Tick == now < setup.until /\ now' = now + 1
=============================================================================
