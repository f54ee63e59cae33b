--------------------------- MODULE QueryLifecycle ---------------------------
(***************************************************************************)
(* What the query lifecycle promises, independently of how the service     *)
(* stores queries or interleaves its asynchronous calls.  The status model *)
(* is the pair of transition tables in requests/domain/query-transitions.ts*)
(* plus the two moves the aggregate makes outside the tables: cancelling   *)
(* an open query, and dropping an expired query (or the whole store).      *)
(***************************************************************************)
CONSTANTS QueryIds,   \* query identifiers
          Providers   \* provider public keys

VARIABLES status,     \* status of each query, "absent" when it is not stored
          escrowed,   \* does the query carry an escrow?
          offers      \* providers whose offer was accepted

vars == <<status, escrowed, offers>>

\* The eight values of QueryStatus.
Statuses == {"pending", "awaiting_offers", "provider_selected", "processing",
             "verifying", "approved", "rejected", "expired"}

\* SIMPLE_TRANSITIONS and ESCROW_TRANSITIONS.
SimpleTransitions == {"pending"} \X {"approved", "rejected", "expired"}

EscrowTransitions ==
  { <<"awaiting_offers", "provider_selected">>, <<"awaiting_offers", "expired">>,
    <<"provider_selected", "processing">>, <<"provider_selected", "expired">>,
    <<"processing", "verifying">>, <<"processing", "expired">>,
    <<"verifying", "approved">>, <<"verifying", "rejected">>,
    <<"verifying", "expired">> }

TerminalStatuses == {"approved", "rejected", "expired"}

OpenStatuses == {"pending", "awaiting_offers", "provider_selected", "processing"}

\* isValidTransition(from, to, isHtlc).
ValidTransition(from, to, isHtlc) ==
  <<from, to>> \in IF isHtlc THEN EscrowTransitions ELSE SimpleTransitions

Init == /\ status = [q \in QueryIds |-> "absent"]
        /\ escrowed = [q \in QueryIds |-> FALSE]
        /\ offers = [q \in QueryIds |-> {}]

Create(q) ==
  /\ status[q] = "absent"
  /\ status'[q] = IF escrowed'[q] THEN "awaiting_offers" ELSE "pending"
  /\ offers'[q] = {}

\* Offers accumulate while the query awaits them and are never lost.
Offer(q) ==
  /\ status[q] = "awaiting_offers" /\ status'[q] = "awaiting_offers"
  /\ offers[q] \subseteq offers'[q] /\ escrowed'[q] = escrowed[q]

Advance(q) ==
  /\ \/ ValidTransition(status[q], status'[q], escrowed[q])
     \/ status[q] \in OpenStatuses /\ status'[q] = "rejected"    \* cancelled
  /\ offers'[q] = offers[q] /\ escrowed'[q] = escrowed[q]

Drop(q) == status[q] # "absent" /\ status'[q] = "absent"

Stay(q) == /\ status'[q] = status[q] /\ escrowed'[q] = escrowed[q]
           /\ offers'[q] = offers[q]

\* One call may move several queries (expireQueries and purgeExpiredFromStore
\* walk the whole store), so a step moves any number of them legally.
Next ==
  \A q \in QueryIds : Create(q) \/ Offer(q) \/ Advance(q) \/ Drop(q) \/ Stay(q)

Spec == Init /\ [][Next]_vars
=============================================================================
