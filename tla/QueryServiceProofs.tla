------------------------- MODULE QueryServiceProofs -------------------------
(***************************************************************************)
(* The query service keeps its types, its payment bookkeeping and its      *)
(* settlement rule for every number of queries, providers, tokens, oracles *)
(* and overlapping calls, whatever the host serializes.                    *)
(***************************************************************************)
EXTENDS QueryService, TLAPS

\* Every verdict is well typed, and a passing quorum verdict met the quorum.
LEMMA VerdictFacts ==
  ASSUME NEW quorum \in Nat \union {None}, NEW acceptable \in Seq(OracleIds),
         NEW oracleId \in OracleIds \union {None},
         NEW v \in Verdicts(quorum, acceptable, oracleId)
  PROVE  /\ v.passed \in BOOLEAN
         /\ v.attestations \in Attestations
         /\ quorum # None /\ v.passed => Approvals(v.attestations) >= quorum
<1> USE ConstantsAssumption
<1> DEFINE list == IF acceptable # <<>> THEN acceptable ELSE Registry
           asked == AskedAt(list, quorum + 2)
<1>1. ASSUME NEW p \in BOOLEAN, NEW o \in OracleIds
      PROVE  [passed |-> p, attestations |-> {Attestation(1, o, p)}].attestations
               \in Attestations
  BY DEF Attestations, Attestation
<1>0. v = NoAttestation => v.passed = FALSE /\ v.attestations \in Attestations
  <2>1. NoAttestation.passed = FALSE /\ NoAttestation.attestations = {}
    BY Zenon DEF NoAttestation
  <2>2. {} \in Attestations
    BY Zenon DEF Attestations
  <2> QED BY <2>1, <2>2, Zenon
<1>2. CASE quorum = None
  <2> DEFINE r == Resolve(IF acceptable # <<>> THEN oracleId ELSE None, acceptable)
  <2>1. Registered \subseteq OracleIds
    BY DEF Registered
  <2>2. r = None \/ r \in OracleIds
    BY <2>1, Zenon DEF Resolve, Lookup
  <2>3. v \in SingleVerdicts(acceptable, oracleId)
    BY <1>2, Zenon DEF Verdicts
  <2>4. CASE r = None
    BY <1>0, <1>2, <2>3, <2>4, Zenon DEF SingleVerdicts
  <2>5. CASE r \in OracleIds /\ r # None
    <3>1. PICK p \in BOOLEAN : v = [passed |-> p, attestations |-> {Attestation(1, r, p)}]
      BY <2>3, <2>5, Zenon DEF SingleVerdicts
    <3> QED BY <1>1, <1>2, <2>5, <3>1, Zenon
  <2> QED BY <2>2, <2>4, <2>5, Zenon
<1>3. CASE quorum # None
  <2>1. v \in QuorumVerdicts(acceptable, quorum)
    BY <1>3, Zenon DEF Verdicts
  <2>2. CASE Cardinality(asked) < quorum
    BY <1>0, <1>3, <2>1, <2>2, Zenon DEF QuorumVerdicts
  <2>3. CASE ~(Cardinality(asked) < quorum)
    <3> DEFINE atts(pass) == {Attestation(i, list[i], i \in pass) : i \in asked}
    <3>1. PICK pass \in SUBSET asked : v = QuorumOutcome(atts(pass), quorum)
      BY <2>1, <2>3, Zenon DEF QuorumVerdicts
    <3>2. list \in Seq(OracleIds)
      BY Zenon
    <3>3. asked \subseteq 1..Len(list)
      BY Zenon DEF AskedAt
    <3>4. \A i \in asked : Attestation(i, list[i], i \in pass)
             \in [at : Nat, oracle : OracleIds, passed : BOOLEAN]
      BY <3>2, <3>3 DEF Attestation
    <3>5. atts(pass) \in Attestations
      <4>1. ASSUME NEW a \in atts(pass)
            PROVE  a \in [at : Nat, oracle : OracleIds, passed : BOOLEAN]
        <5>1. PICK i \in asked : a = Attestation(i, list[i], i \in pass)
          BY Zenon
        <5> QED BY <3>4, <5>1, Zenon
      <4> QED BY <4>1, Zenon DEF Attestations
    <3> HIDE DEF atts
    <3>6. /\ v.passed = (Approvals(atts(pass)) >= quorum)
          /\ v.attestations = atts(pass)
      BY <3>1, Zenon DEF QuorumOutcome
    <3>7. v.passed \in BOOLEAN
      <4> DEFINE met == Approvals(atts(pass)) >= quorum
      <4>1. met = TRUE \/ met = FALSE
        OBVIOUS
      <4> HIDE DEF met
      <4>2. v.passed = met
        BY <3>6, Zenon DEF met
      <4> QED BY <4>1, <4>2, Zenon
    <3>8. v.passed => Approvals(v.attestations) >= quorum
      BY <3>6, Zenon
    <3> QED BY <3>5, <3>6, <3>7, <3>8, Zenon
  <2> QED BY <2>2, <2>3, Zenon
<1> QED BY <1>2, <1>3, Zenon

AcceptedFrom(oracles, a) ==
  a.oracle \in Registered /\ (oracles = <<>> \/ Mentions(oracles, a.oracle))

\* verifyQuorum attests with registered oracles of the customer's list only.
LEMMA QuorumSources ==
  ASSUME NEW quorum \in Nat, NEW acceptable \in Seq(OracleIds),
         NEW oracleId, NEW v \in Verdicts(quorum, acceptable, oracleId),
         NEW a \in v.attestations
  PROVE  AcceptedFrom(acceptable, a)
<1> DEFINE list == IF acceptable # <<>> THEN acceptable ELSE Registry
           asked == AskedAt(list, quorum + 2)
           atts(pass) == {Attestation(i, list[i], i \in pass) : i \in asked}
<1>1. quorum # None
  BY ConstantsAssumption, Zenon
<1>2. v \in QuorumVerdicts(acceptable, quorum)
  BY <1>1, Zenon DEF Verdicts
<1>3. NoAttestation.attestations = {}
  BY Zenon DEF NoAttestation
<1>4. PICK pass \in SUBSET asked : v = QuorumOutcome(atts(pass), quorum)
  BY <1>2, <1>3, Zenon DEF QuorumVerdicts
<1>5. v.attestations = atts(pass)
  BY <1>4, Zenon DEF QuorumOutcome
<1>6. PICK i \in asked : a = Attestation(i, list[i], i \in pass)
  BY <1>5, Zenon
<1>7. i \in 1..Len(list) /\ list[i] \in Registered
  BY Zenon DEF AskedAt
<1>8. a.oracle = list[i]
  BY <1>6, Zenon DEF Attestation
<1> QED BY <1>7, <1>8, Zenon DEF AcceptedFrom, Mentions

-----------------------------------------------------------------------------
(* The inductive invariant.  A record is good when its payment status, its *)
(* selection and its attestations are consistent; a suspended call holds a *)
(* good snapshot in the status its method left it in.                      *)

Sourced(query) ==
  query.attestations # None =>
    \A a \in query.attestations : AcceptedFrom(query.shape.oracles, a)

\* Only an escrow query leaves "pending" behind.
OnItsTrack(query) ==
  /\ query.status = "pending" => query.shape.escrow = "none"
  /\ query.status \in {"awaiting_offers", "provider_selected", "processing", "verifying"}
       => query.shape.escrow # "none"

GoodQuery(query) ==
  /\ PaidAsDecided(query) /\ Sourced(query) /\ OnItsTrack(query)
  /\ query.shape.ref = None => LockHolds(query)
  /\ query.status = "awaiting_offers" => query.token = None
  /\ QuorumMet(query)

Verified(call, escrow) ==
  /\ call.snap.status = "approved" /\ call.snap.shape.escrow = escrow
  /\ call.provider = call.snap.provider
  /\ call.snap.shape.quorum # None
       => Approvals(call.snap.attestations) >= call.snap.shape.quorum

GoodCall(call) ==
  /\ GoodQuery(call.snap)
  /\ call.at \in {"amount", "lock"} =>
       call.provider \in Providers /\ call.snap.status = "awaiting_offers"
  /\ call.at = "verifyResult" => call.snap.status = "pending"
  /\ call.at = "verifyEscrow" =>
       /\ call.snap.status = "verifying" /\ call.snap.shape.escrow # "none"
       /\ call.provider \in Providers /\ call.provider = call.snap.provider
  /\ call.at \in {"getPreimage", "deletePreimage"} =>
       call.provider \in Providers /\ Verified(call, "htlc")
  /\ call.at = "frost" => call.provider \in Providers /\ Verified(call, "p2pk_frost")

StoreInv == /\ store \in [QueryIds -> Query \union {None}]
            /\ \A q \in QueryIds : store[q] # None => GoodQuery(store[q])

CallsInv == /\ calls \in [Slots -> Call \union {None}]
            /\ \A c \in Slots : calls[c] # None => GoodCall(calls[c])

OutcomesInv == outcomes \subseteq Outcome /\ SettlementIsEarned

SetsInv == issued \subseteq QueryIds /\ overdue \subseteq QueryIds /\ preimages \subseteq QueryIds

IInv == StoreInv /\ CallsInv /\ OutcomesInv /\ SetsInv

-----------------------------------------------------------------------------
(* What the aggregate's functions return.                                  *)

\* createQueryAggregate returns a good query.
LEMMA NewQueryGood ==
  ASSUME NEW s \in Shape
  PROVE  NewQuery(s) \in Query /\ GoodQuery(NewQuery(s))
BY ConstantsAssumption, Zenon DEF NewQuery, Query, GoodQuery, PaidAsDecided, LockHolds,
   QuorumMet, Sourced, OnItsTrack, IsEscrow, L!Statuses, PaymentStatuses

\* Cancelling or expiring any good query gives a good query.
LEMMA CancelledGood ==
  ASSUME NEW query \in Query, GoodQuery(query), NEW st \in {"rejected", "expired"}
  PROVE  Cancelled(query, st) \in Query /\ GoodQuery(Cancelled(query, st))
BY Zenon DEF Cancelled, Query, GoodQuery, PaidAsDecided, LockHolds, QuorumMet,
   Sourced, OnItsTrack, L!Statuses, PaymentStatuses

\* A selection that was checked where a check is needed gives a good query.
LEMMA SelectedGood ==
  ASSUME NEW query \in Query, GoodQuery(query), query.status = "awaiting_offers",
         NEW p \in Providers, NEW t \in Tokens \union {None},
         NeedsLockCheck(query, t) => LockedTo[EscrowRef(query, t)] = p
  PROVE  Selected(query, p, t) \in Query /\ GoodQuery(Selected(query, p, t))
BY ConstantsAssumption, Zenon DEF Selected, Query, GoodQuery, PaidAsDecided, LockHolds, QuorumMet,
   Sourced, OnItsTrack, L!Statuses, PaymentStatuses, NeedsLockCheck, EscrowRef

\* A verdict that met the quorum it names gives a good query.
LEMMA FinalizedGood ==
  ASSUME NEW query \in Query, GoodQuery(query), NEW passed \in BOOLEAN,
         NEW atts \in Attestations \union {None},
         passed /\ query.shape.quorum # None /\ atts # None
           => Approvals(atts) >= query.shape.quorum,
         query.shape.quorum # None /\ atts # None
           => \A a \in atts : AcceptedFrom(query.shape.oracles, a)
  PROVE  /\ Finalized(query, passed, atts) \in Query
         /\ GoodQuery(Finalized(query, passed, atts))
         /\ Finalized(query, passed, atts).status = IF passed THEN "approved" ELSE "rejected"
         /\ Finalized(query, passed, atts).shape = query.shape
         /\ Finalized(query, passed, atts).provider = query.provider
         /\ query.shape.quorum # None => Finalized(query, passed, atts).attestations = atts
<1> DEFINE f == Finalized(query, passed, atts)
<1>1. f \in Query
  BY Zenon DEF Finalized, Query, L!Statuses, PaymentStatuses
<1>2. /\ f.status = IF passed THEN "approved" ELSE "rejected"
      /\ f.payment_status = IF passed THEN "released" ELSE "cancelled"
      /\ f.shape = query.shape /\ f.provider = query.provider /\ f.token = query.token
      /\ f.attestations = IF query.shape.quorum = None THEN None ELSE atts
  BY Zenon DEF Finalized, Query
<1> HIDE DEF f
<1>3. PaidAsDecided(f)
  BY <1>2, Zenon DEF PaidAsDecided
<1>4. f.shape.ref = None => LockHolds(f)
  BY <1>2, Zenon DEF GoodQuery, LockHolds
<1>5. QuorumMet(f)
  BY <1>2, Zenon DEF QuorumMet
<1>6. Sourced(f) /\ OnItsTrack(f)
  BY <1>2, Zenon DEF Sourced, OnItsTrack
<1>7. GoodQuery(f)
  BY <1>2, <1>3, <1>4, <1>5, <1>6, Zenon DEF GoodQuery
<1> QED BY <1>1, <1>2, <1>7, Zenon DEF f

\* Recording a result keeps a good query good and moves it to verifying.
LEMMA RecordedGood ==
  ASSUME NEW query \in Query, GoodQuery(query), NEW p \in Providers, CanRecord(query, p)
  PROVE  /\ Recorded(query) \in Query /\ GoodQuery(Recorded(query))
         /\ Recorded(query).status = "verifying" /\ Recorded(query).provider = p
         /\ Recorded(query).shape = query.shape /\ query.shape.escrow # "none"
BY Zenon DEF Recorded, CanRecord, CanMove, IsEscrow, Query, GoodQuery, PaidAsDecided, LockHolds,
   QuorumMet, Sourced, OnItsTrack, L!Statuses, L!ValidTransition, L!EscrowTransitions, L!SimpleTransitions

-----------------------------------------------------------------------------
(* What the building blocks of the actions preserve.                       *)

\* Storing a good query keeps the store good.
LEMMA WriteKeeps ==
  ASSUME StoreInv, NEW q \in QueryIds, NEW r \in Query, GoodQuery(r), Write(q, r)
  PROVE  StoreInv'
BY Zenon DEF StoreInv, Write

\* Suspending, resuming and returning keep the calls good.
LEMMA SuspendKeeps ==
  ASSUME CallsInv, NEW c \in Slots, NEW call \in Call, GoodCall(call), Suspend(c, call)
  PROVE  CallsInv'
BY Zenon DEF CallsInv, Suspend

LEMMA ReturnKeeps ==
  ASSUME CallsInv, NEW c \in Slots, Return(c)
  PROVE  CallsInv'
BY Zenon DEF CallsInv, Return

LEMMA ResumeKeeps ==
  ASSUME CallsInv, NEW c \in Slots, calls[c] # None, NEW a \in Awaits, NEW snap \in Query,
         GoodCall([calls[c] EXCEPT !.at = a, !.snap = snap]), Resume(c, a, snap)
  PROVE  CallsInv'
<1>1. [calls[c] EXCEPT !.at = a, !.snap = snap] \in Call
  BY Zenon DEF CallsInv, Call
<1> QED BY <1>1, Zenon DEF CallsInv, Resume

\* Delivering nothing, or an earned artifact, keeps the outcomes earned.
LEMMA DeliverKeeps ==
  ASSUME OutcomesInv, CallsInv, NEW c \in Slots, calls[c] # None,
         calls[c].provider \in Providers, NEW query \in Query,
         NEW artifact \in {"preimage", "frost_signature", "none"},
         artifact # "none" =>
           Earned([q |-> calls[c].q, provider |-> calls[c].provider,
                   query |-> query, artifact |-> artifact]),
         Deliver(c, query, artifact)
  PROVE  OutcomesInv'
<1> DEFINE o == [q |-> calls[c].q, provider |-> calls[c].provider,
                 query |-> query, artifact |-> artifact]
<1>1. o \in Outcome
  BY Zenon DEF CallsInv, Call, Outcome
<1>2. o.artifact = artifact
  BY Zenon
<1>3. outcomes' = outcomes \union {o}
  BY Zenon DEF Deliver
<1> HIDE DEF o
<1> QED BY <1>1, <1>2, <1>3, Zenon DEF OutcomesInv, SettlementIsEarned, o

\* A verified call earns the artifact of its escrow kind.
LEMMA VerifiedEarns ==
  ASSUME NEW call \in Call, GoodQuery(call.snap),
         NEW kind \in {"htlc", "p2pk_frost"}, Verified(call, kind)
  PROVE  Earned([q |-> call.q, provider |-> call.provider, query |-> call.snap,
                 artifact |-> IF kind = "htlc" THEN "preimage" ELSE "frost_signature"])
BY Zenon DEF Earned, Verified, GoodQuery

-----------------------------------------------------------------------------
(* One lemma per group of actions.                                         *)

\* The invariant holds of an empty store.
LEMMA InitIInv == Init => IInv
BY Zenon DEF Init, IInv, StoreInv, CallsInv, OutcomesInv, SetsInv, SettlementIsEarned

\* Every synchronous method on one query, and the clock, keep the invariant.
LEMMA HostSyncKeeps ==
  ASSUME IInv, NEW q \in QueryIds,
         \/ \E s \in Shapes : CreateQuery(q, s)
         \/ BeginWork(q) \/ CancelQuery(q) \/ Deadline(q)
         \/ \E passed \in BOOLEAN : CompleteVerification(q, passed)
         \/ \E p \in Providers : RecordOffer(q, p) \/ RecordResult(q, p)
  PROVE  IInv'
<1> USE DEF IInv
<1> DEFINE query == store[q]
<1>0. Stored(q) => query \in Query /\ GoodQuery(query)
  BY Zenon DEF Stored, StoreInv
<1>a. UNCHANGED calls => CallsInv'
  BY Zenon DEF CallsInv
<1>b. UNCHANGED outcomes => OutcomesInv'
  BY Zenon DEF OutcomesInv, SettlementIsEarned
<1>1. ASSUME NEW s \in Shapes, CreateQuery(q, s) PROVE IInv'
  <2>1. s \in Shape
    BY ConstantsAssumption, Zenon
  <2>2. StoreInv'
    BY <1>1, <2>1, NewQueryGood, WriteKeeps, Zenon DEF CreateQuery
  <2> QED BY <1>1, <2>2, <1>a, <1>b, Zenon DEF CreateQuery, SetsInv
<1>2. CASE BeginWork(q)
  <2> DEFINE r == [query EXCEPT !.status = "processing"]
  <2>1. r \in Query /\ GoodQuery(r)
    BY <1>0, <1>2, Zenon DEF BeginWork, CanMove, Query, GoodQuery, PaidAsDecided, LockHolds,
       QuorumMet, Sourced, OnItsTrack, IsEscrow, L!Statuses, L!ValidTransition, L!EscrowTransitions
  <2>2. StoreInv'
    BY <1>2, <2>1, WriteKeeps, Zenon DEF BeginWork
  <2> QED BY <1>2, <2>2, <1>a, <1>b, Zenon DEF BeginWork, SetsInv
<1>3. CASE CancelQuery(q)
  <2>1. StoreInv'
    BY <1>0, <1>3, CancelledGood, WriteKeeps, Zenon DEF CancelQuery
  <2> QED BY <1>3, <2>1, <1>a, <1>b, Zenon DEF CancelQuery, SetsInv
<1>4. CASE Deadline(q)
  BY <1>4, <1>a, <1>b, Zenon DEF Deadline, SetsInv, StoreInv
<1>5. ASSUME NEW passed \in BOOLEAN, CompleteVerification(q, passed) PROVE IInv'
  <2>1. StoreInv'
    BY <1>0, <1>5, FinalizedGood, WriteKeeps, Zenon DEF CompleteVerification
  <2> QED BY <1>5, <2>1, <1>a, <1>b, Zenon DEF CompleteVerification, SetsInv
<1>6. ASSUME NEW p \in Providers, RecordOffer(q, p) PROVE IInv'
  <2> DEFINE r == [query EXCEPT !.offers = @ \union {p}]
  <2>1. r \in Query /\ GoodQuery(r)
    BY <1>0, <1>6, Zenon DEF RecordOffer, Query, GoodQuery, PaidAsDecided, LockHolds, QuorumMet,
       Sourced, OnItsTrack
  <2>2. StoreInv'
    BY <1>6, <2>1, WriteKeeps, Zenon DEF RecordOffer
  <2> QED BY <1>6, <2>2, <1>a, <1>b, Zenon DEF RecordOffer, SetsInv
<1>7. ASSUME NEW p \in Providers, RecordResult(q, p) PROVE IInv'
  <2>1. StoreInv'
    BY <1>0, <1>7, RecordedGood, WriteKeeps, Zenon DEF RecordResult
  <2> QED BY <1>7, <2>1, <1>a, <1>b, Zenon DEF RecordResult, SetsInv
<1> QED BY <1>1, <1>2, <1>3, <1>4, <1>5, <1>6, <1>7, Zenon

\* The sweeps over the whole store keep the invariant.
LEMMA SweepsKeep ==
  ASSUME IInv, ExpireQueries \/ PurgeExpiredFromStore \/ ClearQueryStore
  PROVE  IInv'
<1> USE DEF IInv
<1>1. UNCHANGED <<issued, overdue, preimages, calls, outcomes>>
  BY Zenon DEF ExpireQueries, PurgeExpiredFromStore, ClearQueryStore
<1>2. StoreInv'
  <2>1. CASE ExpireQueries
    <3>1. \A q \in QueryIds : Expirable(q) =>
             Cancelled(store[q], "expired") \in Query /\ GoodQuery(Cancelled(store[q], "expired"))
      BY CancelledGood, Zenon DEF StoreInv, Expirable
    <3> QED BY <2>1, <3>1, Zenon DEF ExpireQueries, StoreInv
  <2>2. CASE PurgeExpiredFromStore
    BY <2>2, Zenon DEF PurgeExpiredFromStore, StoreInv
  <2>3. CASE ClearQueryStore
    BY <2>3, Zenon DEF ClearQueryStore, StoreInv
  <2> QED BY <2>1, <2>2, <2>3, Zenon
<1> QED BY <1>1, <1>2, Zenon DEF CallsInv, OutcomesInv, SettlementIsEarned, SetsInv

\* Starting an asynchronous method keeps the invariant.
LEMMA StartKeeps ==
  ASSUME IInv, NEW c \in Slots, NEW q \in QueryIds,
         \/ \E p \in Providers, t \in Tokens \union {None} : SelectProvider(c, q, p, t)
         \/ \E p \in Providers, o \in OracleIds \union {None} : SubmitEscrowResult(c, q, p, o)
         \/ \E o \in OracleIds \union {None} : SubmitQueryResult(c, q, o)
  PROVE  IInv'
<1> USE DEF IInv
<1> DEFINE query == store[q]
<1>0. Stored(q) => query \in Query /\ GoodQuery(query)
  BY Zenon DEF Stored, StoreInv
<1>a. UNCHANGED calls => CallsInv'
  BY Zenon DEF CallsInv
<1>b. UNCHANGED outcomes => OutcomesInv'
  BY Zenon DEF OutcomesInv, SettlementIsEarned
<1>c. UNCHANGED store => StoreInv'
  BY Zenon DEF StoreInv
<1>1. ASSUME NEW p \in Providers, NEW t \in Tokens \union {None}, SelectProvider(c, q, p, t)
      PROVE  IInv'
  <2> DEFINE call(await) == [at |-> await, q |-> q, snap |-> query, provider |-> p,
                             token |-> t, oracleId |-> None]
  <2>1. query \in Query /\ GoodQuery(query) /\ query.status = "awaiting_offers"
    BY <1>0, <1>1, Zenon DEF SelectProvider, CanMove, L!ValidTransition, L!EscrowTransitions
  <2>2. \A await \in {"amount", "lock"} : call(await) \in Call /\ GoodCall(call(await))
    BY <2>1, Zenon DEF Call, Awaits, GoodCall
  <2>3. CASE ~NeedsLockCheck(query, t) /\ Write(q, Selected(query, p, t)) /\ UNCHANGED calls
    <3>1. StoreInv'
      BY <2>1, <2>3, SelectedGood, WriteKeeps, Zenon
    <3> QED BY <1>1, <2>3, <3>1, <1>a, <1>b, Zenon DEF SelectProvider, SetsInv
  <2>4. CASE (Suspend(c, call("amount")) \/ Suspend(c, call("lock"))) /\ UNCHANGED store
    <3>1. CallsInv'
      BY <2>2, <2>4, SuspendKeeps, Zenon
    <3> QED BY <1>1, <2>4, <3>1, <1>b, <1>c, Zenon DEF SelectProvider, SetsInv
  <2> QED BY <1>1, <2>3, <2>4, Zenon DEF SelectProvider
<1>2. ASSUME NEW p \in Providers, NEW o \in OracleIds \union {None},
             SubmitEscrowResult(c, q, p, o)
      PROVE  IInv'
  <2> DEFINE call == [at |-> "verifyEscrow", q |-> q, snap |-> Recorded(query),
                      provider |-> p, token |-> None, oracleId |-> o]
  <2>1. CanRecord(query, p) /\ query \in Query /\ GoodQuery(query)
    BY <1>0, <1>2, Zenon DEF SubmitEscrowResult
  <2>2. call \in Call /\ GoodCall(call)
    BY <2>1, RecordedGood, Zenon DEF Call, Awaits, GoodCall
  <2>3. StoreInv'
    BY <1>2, <2>1, RecordedGood, WriteKeeps, Zenon DEF SubmitEscrowResult
  <2>4. CallsInv'
    BY <1>2, <2>2, SuspendKeeps, Zenon DEF SubmitEscrowResult
  <2> QED BY <1>2, <2>3, <2>4, <1>b, Zenon DEF SubmitEscrowResult, SetsInv
<1>3. ASSUME NEW o \in OracleIds \union {None}, SubmitQueryResult(c, q, o)
      PROVE  IInv'
  <2> DEFINE call == [at |-> "verifyResult", q |-> q, snap |-> query,
                      provider |-> None, token |-> None, oracleId |-> o]
  <2>1. query \in Query /\ GoodQuery(query) /\ query.status = "pending"
    BY <1>0, <1>3, Zenon DEF SubmitQueryResult
  <2>2. CASE q \in overdue
    <3>1. StoreInv'
      BY <1>3, <2>1, <2>2, CancelledGood, WriteKeeps, Zenon DEF SubmitQueryResult
    <3> QED BY <1>3, <2>2, <3>1, <1>a, <1>b, Zenon DEF SubmitQueryResult, SetsInv
  <2>3. CASE q \notin overdue
    <3>1. call \in Call /\ GoodCall(call)
      BY <2>1, Zenon DEF Call, Awaits, GoodCall
    <3>2. CallsInv'
      BY <1>3, <2>3, <3>1, SuspendKeeps, Zenon DEF SubmitQueryResult
    <3> QED BY <1>3, <2>3, <3>2, <1>b, <1>c, Zenon DEF SubmitQueryResult, SetsInv
  <2> QED BY <2>2, <2>3, Zenon
<1> QED BY <1>1, <1>2, <1>3, Zenon

\* Resuming an asynchronous method after its await keeps the invariant.
LEMMA SettlesKeeps ==
  ASSUME IInv, NEW c \in Slots, Settles(c)
  PROVE  IInv'
<1> USE DEF IInv
<1> DEFINE call == calls[c]
           snap == calls[c].snap
<1>0. ASSUME call # None
      PROVE  call \in Call /\ GoodCall(call) /\ snap \in Query /\ GoodQuery(snap) /\ call.q \in QueryIds
  BY <1>0 DEF CallsInv, Call, GoodCall
<1>b. UNCHANGED outcomes => OutcomesInv'
  BY Zenon DEF OutcomesInv, SettlementIsEarned
<1>c. UNCHANGED store => StoreInv'
  BY Zenon DEF StoreInv
<1>d. UNCHANGED <<issued, overdue, preimages>> => SetsInv'
  BY Zenon DEF SetsInv
<1>e. ASSUME CommitSelection(c), call # None, call.at \in {"amount", "lock"},
             NeedsLockCheck(snap, call.token) => LockedTo[EscrowRef(snap, call.token)] = call.provider
      PROVE  StoreInv'
  <2>1. /\ snap.status = "awaiting_offers" /\ call.provider \in Providers
        /\ call.token \in Tokens \union {None}
    BY <1>0, <1>e, Zenon DEF GoodCall, Call
  <2> QED BY <1>0, <1>e, <2>1, SelectedGood, WriteKeeps, Zenon DEF CommitSelection
<1>1. CASE AmountChecked(c)
  <2>0. call # None /\ call.at = "amount"
    BY <1>1, Zenon DEF AmountChecked, WaitingAt
  <2>1. CASE Return(c) /\ UNCHANGED store
    BY <1>1, <2>1, ReturnKeeps, <1>b, <1>c, <1>d, Zenon DEF AmountChecked
  <2>2. CASE Resume(c, "lock", snap) /\ UNCHANGED store
    <3>1. GoodCall([call EXCEPT !.at = "lock", !.snap = snap])
      BY <1>0, <2>0, Zenon DEF GoodCall, Call
    <3>2. CallsInv'
      BY <1>0, <2>0, <2>2, <3>1, ResumeKeeps, Zenon DEF Awaits
    <3> QED BY <1>1, <2>2, <3>2, <1>b, <1>c, <1>d, Zenon DEF AmountChecked
  <2>3. CASE ~NeedsLockCheck(snap, call.token) /\ CommitSelection(c) /\ Return(c)
    BY <1>1, <2>0, <2>3, ReturnKeeps, <1>b, <1>d, <1>e, Zenon DEF AmountChecked
  <2> QED BY <1>1, <2>1, <2>2, <2>3, Zenon DEF AmountChecked
<1>2. CASE LockChecked(c)
  <2>0. call # None /\ call.at = "lock" /\ Return(c)
    BY <1>2, Zenon DEF LockChecked, WaitingAt
  <2>1. StoreInv'
    BY <1>2, <2>0, <1>c, <1>e, Zenon DEF LockChecked
  <2> QED BY <1>2, <2>0, <2>1, ReturnKeeps, <1>b, <1>d, Zenon DEF LockChecked
<1>v. ASSUME call # None, NEW v \in VerdictsOn(call)
      PROVE  /\ v.passed \in BOOLEAN /\ v.attestations \in Attestations
             /\ v.passed /\ snap.shape.quorum # None
                  => Approvals(v.attestations) >= snap.shape.quorum
             /\ snap.shape.quorum # None
                  => \A a \in v.attestations : AcceptedFrom(snap.shape.oracles, a)
  <2>1. /\ snap.shape.quorum \in Nat \union {None} /\ snap.shape.oracles \in Seq(OracleIds)
        /\ call.oracleId \in OracleIds \union {None}
    BY <1>0, <1>v, Zenon DEF Call, Query, Shape
  <2>2. snap.shape.quorum # None =>
          \A a \in v.attestations : AcceptedFrom(snap.shape.oracles, a)
    BY <1>v, <2>1, QuorumSources, Zenon DEF VerdictsOn
  <2> QED BY <1>v, <2>1, <2>2, VerdictFacts, Zenon DEF VerdictsOn
<1>3. CASE ResultVerified(c)
  <2>0. call # None /\ call.at = "verifyResult" /\ Return(c)
    BY <1>3, Zenon DEF ResultVerified, WaitingAt
  <2>1. PICK v \in VerdictsOn(call) :
          UNCHANGED store \/ Write(call.q, Finalized(snap, v.passed, v.attestations))
    BY <1>3, Zenon DEF ResultVerified
  <2>2. StoreInv'
    BY <1>0, <2>0, <2>1, <1>v, <1>c, FinalizedGood, WriteKeeps, Zenon
  <2> QED BY <1>3, <2>0, <2>2, ReturnKeeps, <1>b, <1>d, Zenon DEF ResultVerified
<1>4. CASE EscrowVerified(c)
  <2>0. call # None /\ call.at = "verifyEscrow"
    BY <1>4, Zenon DEF EscrowVerified, WaitingAt
  <2>1. PICK v \in VerdictsOn(call) :
          LET final == Finalized(snap, v.passed, v.attestations)
          IN  /\ Write(call.q, final)
              /\ \/ ~v.passed /\ Return(c) /\ UNCHANGED outcomes
                 \/ /\ v.passed /\ NextAwait(final) # "return"
                    /\ Resume(c, NextAwait(final), final) /\ UNCHANGED outcomes
                 \/ /\ v.passed /\ NextAwait(final) = "return"
                    /\ Return(c) /\ Deliver(c, final, "none")
    BY <1>4, Zenon DEF EscrowVerified
  <2> DEFINE final == Finalized(snap, v.passed, v.attestations)
  <2>2. /\ final \in Query /\ GoodQuery(final)
        /\ final.status = IF v.passed THEN "approved" ELSE "rejected"
        /\ final.shape = snap.shape /\ final.provider = snap.provider
        /\ snap.shape.quorum # None => final.attestations = v.attestations
    BY <1>0, <2>0, <1>v, FinalizedGood
  <2>3. call.provider \in Providers /\ call.provider = snap.provider
    BY <1>0, <2>0, Zenon DEF GoodCall
  <2> HIDE DEF final
  <2>4. StoreInv'
    BY <1>0, <2>0, <2>1, <2>2, WriteKeeps, Zenon DEF final
  <2>5. CallsInv' /\ OutcomesInv'
    <3>1. CASE ~v.passed /\ Return(c) /\ UNCHANGED outcomes
      BY <3>1, ReturnKeeps, <1>b, Zenon
    <3>2. CASE /\ v.passed /\ NextAwait(final) # "return"
               /\ Resume(c, NextAwait(final), final) /\ UNCHANGED outcomes
      <4> DEFINE next == [call EXCEPT !.at = NextAwait(final), !.snap = final]
      <4>1. \/ NextAwait(final) = "getPreimage" /\ final.shape.escrow = "htlc"
            \/ NextAwait(final) = "frost" /\ final.shape.escrow = "p2pk_frost"
        BY <3>2, Zenon DEF NextAwait
      <4>2. /\ next.at = NextAwait(final) /\ next.snap = final
            /\ next.provider = call.provider
        BY <1>0, <2>0, Zenon DEF Call
      <4>3. final.shape.quorum # None
               => Approvals(final.attestations) >= final.shape.quorum
        BY <1>v, <2>0, <2>2, <3>2, Zenon
      <4>4. GoodCall(next)
        BY <2>2, <2>3, <3>2, <4>1, <4>2, <4>3, Zenon DEF GoodCall, Verified
      <4> QED BY <2>0, <2>2, <3>2, <4>1, <4>4, ResumeKeeps, <1>b, Zenon DEF Awaits
    <3>3. CASE v.passed /\ Return(c) /\ Deliver(c, final, "none")
      BY <2>0, <2>2, <2>3, <3>3, ReturnKeeps, DeliverKeeps, Zenon
    <3> QED BY <2>1, <3>1, <3>2, <3>3, Zenon DEF final
  <2> QED BY <1>4, <2>4, <2>5, <1>d, Zenon DEF EscrowVerified
<1>5. CASE PreimageRead(c)
  <2>0. call # None /\ call.at = "getPreimage" /\ call.provider \in Providers
    BY <1>0, <1>5, Zenon DEF PreimageRead, WaitingAt, GoodCall
  <2>1. CASE Resume(c, "deletePreimage", snap) /\ UNCHANGED outcomes
    <3>1. GoodCall([call EXCEPT !.at = "deletePreimage", !.snap = snap])
      BY <1>0, <2>0, Zenon DEF GoodCall, Call, Verified
    <3>2. CallsInv'
      BY <1>0, <2>0, <2>1, <3>1, ResumeKeeps, Zenon DEF Awaits
    <3> QED BY <1>5, <2>1, <3>2, <1>b, <1>c, <1>d, Zenon DEF PreimageRead
  <2>2. CASE Return(c) /\ Deliver(c, snap, "none")
    BY <1>0, <1>5, <2>0, <2>2, ReturnKeeps, DeliverKeeps, <1>c, <1>d, Zenon DEF PreimageRead
  <2> QED BY <1>5, <2>1, <2>2, Zenon DEF PreimageRead
<1>6. CASE PreimageDeleted(c)
  <2>0. /\ call # None /\ call.provider \in Providers /\ Verified(call, "htlc")
        /\ Return(c) /\ Deliver(c, snap, "preimage")
    BY <1>0, <1>6, Zenon DEF PreimageDeleted, WaitingAt, GoodCall
  <2>1. Earned([q |-> call.q, provider |-> call.provider, query |-> snap,
                artifact |-> "preimage"])
    BY <1>0, <2>0, VerifiedEarns, Zenon
  <2>2. OutcomesInv'
    BY <1>0, <2>0, <2>1, DeliverKeeps, Zenon
  <2> QED BY <1>6, <2>0, <2>2, ReturnKeeps, <1>c, Zenon DEF PreimageDeleted, SetsInv
<1>7. CASE FrostSigned(c)
  <2>0. /\ call # None /\ call.provider \in Providers /\ Verified(call, "p2pk_frost")
        /\ Return(c)
    BY <1>0, <1>7, Zenon DEF FrostSigned, WaitingAt, GoodCall
  <2>1. Earned([q |-> call.q, provider |-> call.provider, query |-> snap,
                artifact |-> "frost_signature"])
    BY <1>0, <2>0, VerifiedEarns, Zenon
  <2>2. OutcomesInv'
    BY <1>0, <1>7, <2>0, <2>1, DeliverKeeps, Zenon DEF FrostSigned
  <2> QED BY <1>7, <2>0, <2>2, ReturnKeeps, <1>c, <1>d, Zenon DEF FrostSigned
<1>8. CASE CallRejects(c)
  BY <1>8, ReturnKeeps, <1>b, <1>c, <1>d, Zenon DEF CallRejects
<1> QED BY <1>1, <1>2, <1>3, <1>4, <1>5, <1>6, <1>7, <1>8, Zenon DEF Settles

\* Every step keeps the invariant.
LEMMA StepKeeps == IInv /\ [Next]_vars => IInv'
<1> SUFFICES ASSUME IInv, [Next]_vars PROVE IInv'
  BY Zenon
<1>1. CASE Next
  BY <1>1, HostSyncKeeps, StartKeeps, SweepsKeep, SettlesKeeps, Zenon DEF Next, Step, Host
<1>2. CASE UNCHANGED vars
  BY <1>2, Zenon DEF vars, IInv, StoreInv, CallsInv, OutcomesInv, SetsInv, SettlementIsEarned
<1> QED BY <1>1, <1>2, Zenon

\* The service's state stays well typed, for any constants.
THEOREM TypeCorrect == Spec => []TypeOK
<1> DEFINE HostTyped == serialized \in BOOLEAN
<1>1. IInv /\ HostTyped => TypeOK
  BY Zenon DEF IInv, TypeOK, StoreInv, CallsInv, OutcomesInv, SetsInv
<1>2. Init => HostTyped
  BY Zenon DEF Init
<1>3. HostTyped /\ [Next]_vars => HostTyped'
  BY Zenon DEF Next, vars
<1> QED BY <1>1, <1>2, <1>3, InitIInv, StepKeeps, PTL DEF Spec

\* However calls overlap, stored payment statuses agree with the decisions.
THEOREM PaymentSafe == Spec => []PaymentFollowsStatus
<1>1. IInv => PaymentFollowsStatus
  BY Zenon DEF IInv, StoreInv, GoodQuery, PaymentFollowsStatus
<1> QED BY <1>1, InitIInv, StepKeeps, PTL DEF Spec

\* A token stored by a selection that had to check it is the provider's.
THEOREM TokenSafe == Spec => []SelectedTokenIsLocked
<1>1. IInv => SelectedTokenIsLocked
  BY Zenon DEF IInv, StoreInv, GoodQuery, SelectedTokenIsLocked
<1> QED BY <1>1, InitIInv, StepKeeps, PTL DEF Spec

\* Settlement artifacts are only ever handed out for earned results.
THEOREM SettlementSafe == Spec => []SettlementIsEarned
<1>1. IInv => SettlementIsEarned
  BY Zenon DEF IInv, OutcomesInv
<1> QED BY <1>1, InitIInv, StepKeeps, PTL DEF Spec

\* Stored attestations meet the quorum and come from accepted oracles.
THEOREM QuorumSafe == Spec => []QuorumBacksApproval
<1>1. IInv => QuorumBacksApproval
  BY Zenon DEF IInv, StoreInv, GoodQuery, Sourced, AcceptedFrom, QuorumBacksApproval
<1> QED BY <1>1, InitIInv, StepKeeps, PTL DEF Spec


-----------------------------------------------------------------------------
(* The refinement.  Moves is a legal change of one stored record; every    *)
(* action of a host that serializes makes one for each query, because the  *)
(* snapshot a suspended call writes back is still the stored record.       *)

Moves(r, s) ==
  \/ r = s
  \/ /\ r = None /\ s # None /\ s.offers = {}
     /\ s.status = IF s.shape.escrow # "none" THEN "awaiting_offers" ELSE "pending"
  \/ /\ r # None /\ s # None /\ r.shape = s.shape
     /\ r.status = "awaiting_offers" /\ s.status = "awaiting_offers"
     /\ r.offers \subseteq s.offers
  \/ /\ r # None /\ s # None /\ r.shape = s.shape /\ r.offers = s.offers
     /\ \/ L!ValidTransition(r.status, s.status, r.shape.escrow # "none")
        \/ r.status \in L!OpenStatuses /\ s.status = "rejected"
  \/ r # None /\ s = None

Fresh == \A q \in QueryIds : store[q] # None => q \in issued

Owns(c) == store[calls[c].q] = calls[c].snap

Apart(c, d) == calls[c] # None /\ calls[d] # None /\ c # d => calls[c].q # calls[d].q

Owned == /\ \A c \in Slots : calls[c] # None => Owns(c)
         /\ \A c, d \in Slots : Apart(c, d)

\* A legal change of every record is a step of QueryLifecycle.
LEMMA MovesMap ==
  ASSUME serialized, serialized', StoreInv, StoreInv',
         \A q \in QueryIds : Moves(store[q], store'[q])
  PROVE  L!Next
<1> SUFFICES ASSUME NEW q \in QueryIds
             PROVE  L!Create(q) \/ L!Offer(q) \/ L!Advance(q) \/ L!Drop(q) \/ L!Stay(q)
  BY Zenon DEF L!Next
<1> DEFINE r == store[q]
           s == store'[q]
<1>0. Seen(q) = r /\ Seen(q)' = s
  BY Zenon DEF Seen
<1>1. r \in Query \union {None} /\ s \in Query \union {None}
  BY Zenon DEF StoreInv
<1>2. ASSUME NEW t \in Query PROVE t.status # "absent"
  BY <1>2, Zenon DEF Query, L!Statuses
<1> HIDE DEF r, s
<1>3. CASE r = s
  <2>1. L!Stay(q)
    BY <1>0, <1>3, Zenon DEF L!Stay
  <2> QED BY <2>1, Zenon
<1>4. CASE /\ r = None /\ s # None /\ s.offers = {}
           /\ s.status = IF s.shape.escrow # "none" THEN "awaiting_offers" ELSE "pending"
  <2>1. L!Create(q)
    BY <1>0, <1>4, Zenon DEF L!Create
  <2> QED BY <2>1, Zenon
<1>5. CASE /\ r # None /\ s # None /\ r.shape = s.shape
           /\ r.status = "awaiting_offers" /\ s.status = "awaiting_offers"
           /\ r.offers \subseteq s.offers
  <2>1. L!Offer(q)
    BY <1>0, <1>5, Zenon DEF L!Offer
  <2> QED BY <2>1, Zenon
<1>6. CASE /\ r # None /\ s # None /\ r.shape = s.shape /\ r.offers = s.offers
           /\ \/ L!ValidTransition(r.status, s.status, r.shape.escrow # "none")
              \/ r.status \in L!OpenStatuses /\ s.status = "rejected"
  <2>1. L!Advance(q)
    BY <1>0, <1>6, Zenon DEF L!Advance
  <2> QED BY <2>1, Zenon
<1>7. CASE r # None /\ s = None
  <2>1. L!Drop(q)
    BY <1>0, <1>1, <1>2, <1>7, Zenon DEF L!Drop
  <2> QED BY <2>1, Zenon
<1> QED BY <1>3, <1>4, <1>5, <1>6, <1>7, Zenon DEF Moves, r, s


\* Writing one record legally moves every record legally.
LEMMA WriteMoves ==
  ASSUME StoreInv, NEW q \in QueryIds, NEW r, Write(q, r), Moves(store[q], r)
  PROVE  \A x \in QueryIds : Moves(store[x], store'[x])
<1>1. \A x \in QueryIds : store'[x] = IF x = q THEN r ELSE store[x]
  BY Zenon DEF StoreInv, Write
<1> QED BY <1>1, Zenon DEF Moves

\* Leaving the store alone moves nothing.
LEMMA SameMoves ==
  ASSUME UNCHANGED store
  PROVE  \A x \in QueryIds : Moves(store[x], store'[x])
BY Zenon DEF Moves

\* selectProvider's record follows the escrow table.
LEMMA SelectedMoves ==
  ASSUME NEW query \in Query, GoodQuery(query), query.status = "awaiting_offers",
         NEW p \in Providers, NEW t \in Tokens \union {None},
         Selected(query, p, t) \in Query
  PROVE  Moves(query, Selected(query, p, t))
<1> DEFINE s == Selected(query, p, t)
<1>0. s # None /\ query # None
  BY RecordAssumption, Zenon
<1>1. s.shape = query.shape /\ s.offers = query.offers /\ s.status = "provider_selected"
  BY Zenon DEF Selected, Query
<1>2. query.shape.escrow # "none"
  BY Zenon DEF GoodQuery, OnItsTrack
<1> HIDE DEF s
<1>3. L!ValidTransition(query.status, s.status, query.shape.escrow # "none")
  BY <1>1, <1>2, Zenon DEF L!ValidTransition, L!EscrowTransitions
<1> QED BY <1>0, <1>1, <1>3, Zenon DEF Moves, s


\* Cancelling or expiring follows the tables, or is the service's own rule.
LEMMA CancelledMoves ==
  ASSUME NEW query \in Query, GoodQuery(query), NEW st \in {"rejected", "expired"},
         \/ query.status \in L!OpenStatuses
         \/ st = "expired" /\ query.status = "verifying"
  PROVE  Moves(query, Cancelled(query, st))
<1> DEFINE s == Cancelled(query, st)
<1>0. s # None /\ query # None
  BY CancelledGood, RecordAssumption, Zenon
<1>1. s.shape = query.shape /\ s.offers = query.offers /\ s.status = st
  BY Zenon DEF Cancelled, Query
<1> HIDE DEF s
<1>2. \/ L!ValidTransition(query.status, s.status, query.shape.escrow # "none")
      \/ query.status \in L!OpenStatuses /\ s.status = "rejected"
  <2>1. CASE st = "rejected"
    BY <1>1, <2>1, Zenon
  <2>2. CASE st = "expired"
    <3>1. <<query.status, "expired">> \in
            IF query.shape.escrow # "none" THEN L!EscrowTransitions ELSE L!SimpleTransitions
      BY <2>2, Zenon DEF GoodQuery, OnItsTrack, L!OpenStatuses, L!EscrowTransitions, L!SimpleTransitions
    <3> QED BY <1>1, <2>2, <3>1, Zenon DEF L!ValidTransition
  <2> QED BY <2>1, <2>2, Zenon
<1> QED BY <1>0, <1>1, <1>2, Zenon DEF Moves, s

\* So does a verdict on a pending or verifying query.
LEMMA FinalizedMoves ==
  ASSUME NEW query \in Query, GoodQuery(query), query.status \in {"pending", "verifying"},
         NEW passed \in BOOLEAN, NEW atts, Finalized(query, passed, atts) \in Query
  PROVE  Moves(query, Finalized(query, passed, atts))
<1> DEFINE s == Finalized(query, passed, atts)
<1>0. s # None /\ query # None
  BY RecordAssumption, Zenon
<1>1. /\ s.shape = query.shape /\ s.offers = query.offers
      /\ s.status = IF passed THEN "approved" ELSE "rejected"
  BY Zenon DEF Finalized, Query
<1> HIDE DEF s
<1>2. s.status \in {"approved", "rejected"}
  BY <1>1, Zenon
<1>3. <<query.status, s.status>> \in
        IF query.shape.escrow # "none" THEN L!EscrowTransitions ELSE L!SimpleTransitions
  BY <1>2, Zenon DEF GoodQuery, OnItsTrack, L!EscrowTransitions, L!SimpleTransitions
<1>4. L!ValidTransition(query.status, s.status, query.shape.escrow # "none")
  BY <1>3, Zenon DEF L!ValidTransition
<1> QED BY <1>0, <1>1, <1>4, Zenon DEF Moves, s

\* So does beginning work, and recording a result.
LEMMA ProgressMoves ==
  ASSUME NEW query \in Query, NEW st \in {"processing", "verifying"}, CanMove(query, st)
  PROVE  Moves(query, [query EXCEPT !.status = st])
<1> DEFINE s == [query EXCEPT !.status = st]
<1>0. s # None /\ query # None
  <2>1. s \in Query
    BY Zenon DEF Query, L!Statuses
  <2> QED BY <2>1, RecordAssumption, Zenon
<1>1. s.shape = query.shape /\ s.offers = query.offers /\ s.status = st
  BY Zenon DEF Query
<1> HIDE DEF s
<1>2. query.shape.escrow # "none" /\ <<query.status, st>> \in L!EscrowTransitions
  BY Zenon DEF CanMove, IsEscrow, L!ValidTransition
<1>3. L!ValidTransition(query.status, s.status, query.shape.escrow # "none")
  BY <1>1, <1>2, Zenon DEF L!ValidTransition
<1> QED BY <1>0, <1>1, <1>3, Zenon DEF Moves, s

\* An offer only adds to the offers.
LEMMA OfferMoves ==
  ASSUME NEW query \in Query, query.status = "awaiting_offers", NEW p \in Providers
  PROVE  Moves(query, [query EXCEPT !.offers = @ \union {p}])
<1> DEFINE s == [query EXCEPT !.offers = @ \union {p}]
<1>0. s # None /\ query # None
  <2>1. s \in Query
    BY Zenon DEF Query
  <2> QED BY <2>1, RecordAssumption, Zenon
<1>1. s.shape = query.shape /\ s.offers = query.offers \union {p} /\ s.status = query.status
  BY Zenon DEF Query
<1> HIDE DEF s
<1> QED BY <1>0, <1>1, Zenon DEF Moves, s


-----------------------------------------------------------------------------
(* What a host that serializes may do to the store and the calls.          *)

Legal == /\ \A x \in QueryIds : Moves(store[x], store'[x])
         /\ Fresh' /\ Owned'

Quiet(q) == \A c \in Slots : calls[c] # None => calls[c].q # q

\* A method that returns at once, on a query no call is suspended on.
LEMMA HostWrites ==
  ASSUME StoreInv, CallsInv, Fresh, Owned, NEW q \in QueryIds, NEW r,
         Quiet(q), q \in issued', Write(q, r), Moves(store[q], r),
         issued \subseteq issued', UNCHANGED calls
  PROVE  Legal
<1>1. \A x \in QueryIds : store'[x] = IF x = q THEN r ELSE store[x]
  BY Zenon DEF StoreInv, Write
<1>2. \A x \in QueryIds : Moves(store[x], store'[x])
  BY WriteMoves, Zenon
<1>3. Fresh'
  BY <1>1, Zenon DEF Fresh
<1>4. \A c \in Slots : calls[c] # None => calls[c].q \in QueryIds
  BY Zenon DEF CallsInv, Call
<1>5. Owned'
  BY <1>1, <1>4, Zenon DEF Owned, Owns, Apart, Quiet
<1> QED BY <1>2, <1>3, <1>5, Zenon DEF Legal

\* A method that suspends, with the record it stored or read as its snapshot.
LEMMA HostStarts ==
  ASSUME StoreInv, CallsInv, Fresh, Owned, NEW q \in QueryIds, NEW c \in Slots, NEW call,
         Quiet(q), store[q] # None, call.q = q, Suspend(c, call), UNCHANGED issued,
         \/ UNCHANGED store /\ call.snap = store[q]
         \/ Write(q, call.snap) /\ Moves(store[q], call.snap)
  PROVE  Legal
<1>1. \A x \in QueryIds : store'[x] = IF x = q THEN call.snap ELSE store[x]
  BY Zenon DEF StoreInv, Write
<1>2. \A x \in QueryIds : Moves(store[x], store'[x])
  BY WriteMoves, SameMoves, Zenon
<1>3. Fresh'
  BY <1>1, Zenon DEF Fresh
<1>4. \A d \in Slots : calls'[d] = IF d = c THEN call ELSE calls[d]
  BY Zenon DEF CallsInv, Suspend
<1>5. \A d \in Slots : calls[d] # None => calls[d].q \in QueryIds
  BY Zenon DEF CallsInv, Call
<1>6. \A d \in Slots : calls'[d] # None => Owns(d)'
  <2> SUFFICES ASSUME NEW d \in Slots, calls'[d] # None PROVE Owns(d)'
    BY Zenon
  <2>1. CASE d = c
    BY <1>1, <1>4, <2>1, Zenon DEF Owns
  <2>2. CASE d # c
    <3>1. calls'[d] = calls[d] /\ calls[d] # None
      BY <1>4, <2>2, Zenon
    <3>2. Owns(d) /\ calls[d].q # q
      BY <3>1, Zenon DEF Owned, Quiet
    <3>3. store'[calls[d].q] = store[calls[d].q]
      BY <1>1, <1>5, <3>1, <3>2, Zenon
    <3> QED BY <3>1, <3>2, <3>3, Zenon DEF Owns
  <2> QED BY <2>1, <2>2, Zenon
<1>7. \A d, e \in Slots : Apart(d, e)'
  BY <1>4, Zenon DEF Owned, Apart, Quiet
<1>8. Owned'
  BY <1>6, <1>7, Zenon DEF Owned
<1> QED BY <1>2, <1>3, <1>8, Zenon DEF Legal

\* A call that ends, having stored a legal successor of its snapshot or nothing.
LEMMA CallEnds ==
  ASSUME StoreInv, CallsInv, Fresh, Owned, NEW c \in Slots, calls[c] # None, Return(c),
         UNCHANGED issued, NEW r,
         \/ UNCHANGED store
         \/ Write(calls[c].q, r) /\ Moves(calls[c].snap, r)
  PROVE  Legal
<1>0. calls[c].q \in QueryIds /\ store[calls[c].q] = calls[c].snap /\ calls[c].snap # None
  <2>1. calls[c] \in Call
    BY Zenon DEF CallsInv
  <2>2. calls[c].q \in QueryIds /\ calls[c].snap \in Query
    BY <2>1, Zenon DEF Call
  <2> QED BY <2>2, RecordAssumption, Zenon DEF Owned, Owns
<1>1. \A x \in QueryIds : x # calls[c].q => store'[x] = store[x]
  BY <1>0, Zenon DEF StoreInv, Write
<1>2. \A x \in QueryIds : Moves(store[x], store'[x])
  BY <1>0, WriteMoves, SameMoves, Zenon
<1>3. Fresh'
  BY <1>0, <1>1, Zenon DEF Fresh
<1>4. \A d \in Slots : calls'[d] = IF d = c THEN None ELSE calls[d]
  BY Zenon DEF CallsInv, Return
<1>5. \A d \in Slots : calls[d] # None => calls[d].q \in QueryIds
  BY Zenon DEF CallsInv, Call
<1>6. \A d \in Slots : calls'[d] # None => Owns(d)'
  <2> SUFFICES ASSUME NEW d \in Slots, calls'[d] # None PROVE Owns(d)'
    BY Zenon
  <2>1. d # c /\ calls'[d] = calls[d] /\ calls[d] # None
    BY <1>4, Zenon
  <2>2. Owns(d) /\ calls[d].q # calls[c].q
    BY <2>1, Zenon DEF Owned, Apart
  <2>3. store'[calls[d].q] = store[calls[d].q]
    BY <1>1, <1>5, <2>1, <2>2, Zenon
  <2> QED BY <2>1, <2>2, <2>3, Zenon DEF Owns
<1>7. \A d, e \in Slots : Apart(d, e)'
  BY <1>4, Zenon DEF Owned, Apart
<1>8. Owned'
  BY <1>6, <1>7, Zenon DEF Owned
<1> QED BY <1>2, <1>3, <1>8, Zenon DEF Legal

\* A call that goes on to its next await, with what it stored as its snapshot.
LEMMA CallGoesOn ==
  ASSUME StoreInv, CallsInv, Fresh, Owned, NEW c \in Slots, calls[c] # None, NEW a, NEW r,
         Resume(c, a, r), UNCHANGED issued,
         \/ UNCHANGED store /\ r = calls[c].snap
         \/ Write(calls[c].q, r) /\ Moves(calls[c].snap, r)
  PROVE  Legal
<1>0. calls[c].q \in QueryIds /\ store[calls[c].q] = calls[c].snap /\ calls[c].snap # None
  <2>1. calls[c] \in Call
    BY Zenon DEF CallsInv
  <2>2. calls[c].q \in QueryIds /\ calls[c].snap \in Query
    BY <2>1, Zenon DEF Call
  <2> QED BY <2>2, RecordAssumption, Zenon DEF Owned, Owns
<1>1. \A x \in QueryIds : store'[x] = IF x = calls[c].q THEN r ELSE store[x]
  BY <1>0, Zenon DEF StoreInv, Write
<1>2. \A x \in QueryIds : Moves(store[x], store'[x])
  BY <1>0, WriteMoves, SameMoves, Zenon
<1>3. Fresh'
  BY <1>0, <1>1, Zenon DEF Fresh
<1>4. \A d \in Slots : d # c => calls'[d] = calls[d]
  BY Zenon DEF CallsInv, Resume
<1>c. calls'[c].q = calls[c].q /\ calls'[c].snap = r
  <2>1. calls'[c] = [calls[c] EXCEPT !.at = a, !.snap = r]
    BY Zenon DEF CallsInv, Resume
  <2>2. calls[c] \in Call
    BY Zenon DEF CallsInv
  <2> QED BY <2>1, <2>2, Zenon DEF Call
<1>5. \A d \in Slots : calls[d] # None => calls[d].q \in QueryIds
  BY Zenon DEF CallsInv, Call
<1>6. ASSUME NEW d \in Slots, calls'[d] # None PROVE Owns(d)'
  <2>1. CASE d = c
    BY <1>0, <1>1, <1>c, <2>1, Zenon DEF Owns
  <2>2. CASE d # c
    <3>1. calls'[d] = calls[d] /\ calls[d].q \in QueryIds /\ calls[d].q # calls[c].q
      BY <1>4, <1>5, <1>6, <2>2, Zenon DEF Owned, Apart
    <3> QED BY <1>1, <1>6, <3>1, Zenon DEF Owned, Owns
  <2> QED BY <2>1, <2>2, Zenon
<1>a. \A d \in Slots : calls'[d] # None => calls[d] # None /\ calls'[d].q = calls[d].q
  BY <1>4, <1>c, Zenon
<1>7. \A d, e \in Slots : Apart(d, e)'
  BY <1>a, Zenon DEF Owned, Apart
<1>8. Owned'
  BY <1>6, <1>7, Zenon DEF Owned
<1> QED BY <1>2, <1>3, <1>8, Zenon DEF Legal


\* Every synchronous method on one query, and the clock, act legally.
LEMMA HostSyncLegal ==
  ASSUME IInv, Fresh, Owned, serialized, NEW q \in QueryIds,
         \/ \E s \in Shapes : CreateQuery(q, s)
         \/ BeginWork(q) \/ CancelQuery(q) \/ Deadline(q)
         \/ \E passed \in BOOLEAN : CompleteVerification(q, passed)
         \/ \E p \in Providers : RecordOffer(q, p) \/ RecordResult(q, p)
  PROVE  Legal
<1> DEFINE query == store[q]
<1>a. StoreInv /\ CallsInv
  BY Zenon DEF IInv
<1>0. Stored(q) => query \in Query /\ GoodQuery(query) /\ Quiet(q) /\ q \in issued
  BY <1>a, Zenon DEF Stored, StoreInv, HostMayCall, Quiet, Fresh
<1>w. ASSUME NEW r, Stored(q), Write(q, r), Moves(query, r), UNCHANGED <<issued, calls>>
      PROVE  Legal
  BY <1>0, <1>a, <1>w, HostWrites, Zenon
<1>1. ASSUME NEW s \in Shapes, CreateQuery(q, s) PROVE Legal
  <2>1. store[q] = None
    BY <1>1, Zenon DEF CreateQuery, Fresh
  <2>2. Quiet(q)
    <3> SUFFICES ASSUME NEW c \in Slots, calls[c] # None, calls[c].q = q PROVE FALSE
      BY Zenon DEF Quiet
    <3>1. calls[c].snap \in Query
      BY <1>a, Zenon DEF CallsInv, Call
    <3> QED BY <2>1, <3>1, RecordAssumption, Zenon DEF Owned, Owns
  <2>3. NewQuery(s) # None
    BY ConstantsAssumption, RecordAssumption, NewQueryGood, Zenon
  <2>4. /\ NewQuery(s).offers = {} /\ NewQuery(s).shape = s
        /\ NewQuery(s).status = IF IsEscrow(s) THEN "awaiting_offers" ELSE "pending"
    BY Zenon DEF NewQuery
  <2>5. Moves(store[q], NewQuery(s))
    BY <2>1, <2>3, <2>4, Zenon DEF Moves, IsEscrow
  <2>6. q \in issued' /\ issued \subseteq issued' /\ Write(q, NewQuery(s)) /\ UNCHANGED calls
    BY <1>1, Zenon DEF CreateQuery
  <2> QED BY <1>a, <2>2, <2>5, <2>6, HostWrites, Zenon
<1>2. CASE BeginWork(q)
  <2>1. CanMove(query, "processing") /\ Stored(q) /\ UNCHANGED <<issued, calls>>
        /\ Write(q, [query EXCEPT !.status = "processing"])
    BY <1>2, Zenon DEF BeginWork
  <2>2. Moves(query, [query EXCEPT !.status = "processing"])
    BY <1>0, <2>1, ProgressMoves, Zenon
  <2> QED BY <2>1, <2>2, <1>w, Zenon
<1>3. CASE CancelQuery(q)
  <2>1. /\ Stored(q) /\ query.status \in L!OpenStatuses /\ UNCHANGED <<issued, calls>>
        /\ Write(q, Cancelled(query, "rejected"))
    BY <1>3, Zenon DEF CancelQuery
  <2>2. Moves(query, Cancelled(query, "rejected"))
    BY <1>0, <2>1, CancelledMoves, Zenon
  <2> QED BY <2>1, <2>2, <1>w, Zenon
<1>4. CASE Deadline(q)
  <2>1. UNCHANGED <<store, issued, calls>>
    BY <1>4, Zenon DEF Deadline
  <2> QED BY <2>1, SameMoves, Zenon DEF Legal, Fresh, Owned, Owns, Apart
<1>5. ASSUME NEW passed \in BOOLEAN, CompleteVerification(q, passed) PROVE Legal
  <2>1. /\ Stored(q) /\ CanMove(query, "approved") /\ UNCHANGED <<issued, calls>>
        /\ Write(q, Finalized(query, passed, None))
    BY <1>5, Zenon DEF CompleteVerification
  <2>2. query.status = "verifying"
    BY <2>1, Zenon DEF CanMove, L!ValidTransition, L!EscrowTransitions
  <2>3. Finalized(query, passed, None) \in Query
    BY <1>0, <2>1, FinalizedGood, Zenon
  <2>4. Moves(query, Finalized(query, passed, None))
    BY <1>0, <2>1, <2>2, <2>3, FinalizedMoves, Zenon
  <2> QED BY <2>1, <2>4, <1>w, Zenon
<1>6. ASSUME NEW p \in Providers, RecordOffer(q, p) PROVE Legal
  <2>1. /\ Stored(q) /\ query.status = "awaiting_offers" /\ UNCHANGED <<issued, calls>>
        /\ Write(q, [query EXCEPT !.offers = @ \union {p}])
    BY <1>6, Zenon DEF RecordOffer
  <2>2. Moves(query, [query EXCEPT !.offers = @ \union {p}])
    BY <1>0, <2>1, OfferMoves, Zenon
  <2> QED BY <2>1, <2>2, <1>w, Zenon
<1>7. ASSUME NEW p \in Providers, RecordResult(q, p) PROVE Legal
  <2>1. /\ Stored(q) /\ CanMove(query, "verifying") /\ UNCHANGED <<issued, calls>>
        /\ Write(q, [query EXCEPT !.status = "verifying"])
    BY <1>7, Zenon DEF RecordResult, CanRecord, Recorded
  <2>2. Moves(query, [query EXCEPT !.status = "verifying"])
    BY <1>0, <2>1, ProgressMoves, Zenon
  <2> QED BY <2>1, <2>2, <1>w, Zenon
<1> QED BY <1>1, <1>2, <1>3, <1>4, <1>5, <1>6, <1>7, Zenon

\* The sweeps run when no call is suspended, and move every record legally.
LEMMA SweepsLegal ==
  ASSUME IInv, Fresh, Owned, serialized,
         ExpireQueries \/ PurgeExpiredFromStore \/ ClearQueryStore
  PROVE  Legal
<1>a. StoreInv /\ CallsInv
  BY Zenon DEF IInv
<1>1. UNCHANGED <<issued, calls>> /\ \A q \in QueryIds : Quiet(q)
  BY Zenon DEF ExpireQueries, PurgeExpiredFromStore, ClearQueryStore, HostMayCall, Quiet
<1>2. \A c \in Slots : calls[c] = None
  <2> SUFFICES ASSUME NEW c \in Slots, calls[c] # None PROVE FALSE
    BY Zenon
  <2>1. calls[c].q \in QueryIds
    BY <1>a, Zenon DEF CallsInv, Call
  <2> QED BY <1>1, <2>1, Zenon DEF Quiet
<1>3. Owned'
  BY <1>1, <1>2, Zenon DEF Owned, Apart
<1>4. ASSUME NEW x \in QueryIds
      PROVE  Moves(store[x], store'[x]) /\ (store'[x] # None => store[x] # None)
  <2>1. CASE ExpireQueries
    <3>1. store'[x] = IF Expirable(x) THEN Cancelled(store[x], "expired") ELSE store[x]
      BY <2>1, Zenon DEF ExpireQueries
    <3>2. CASE Expirable(x)
      <4>1. store[x] \in Query /\ GoodQuery(store[x]) /\ store[x] # None
        BY <1>a, <3>2, Zenon DEF StoreInv, Expirable
      <4>2. store[x].status \in L!OpenStatuses \/ store[x].status = "verifying"
        BY <3>2, Zenon DEF Expirable
      <4> QED BY <3>1, <3>2, <4>1, <4>2, CancelledMoves, Zenon
    <3> QED BY <3>1, <3>2, Zenon DEF Moves
  <2>2. CASE PurgeExpiredFromStore
    <3>1. store'[x] = IF IsExpired(x) THEN None ELSE store[x]
      BY <2>2, Zenon DEF PurgeExpiredFromStore
    <3> QED BY <3>1, Zenon DEF Moves
  <2>3. CASE ClearQueryStore
    <3>1. store'[x] = None
      BY <2>3, Zenon DEF ClearQueryStore
    <3> QED BY <3>1, Zenon DEF Moves
  <2> QED BY <2>1, <2>2, <2>3, Zenon
<1> QED BY <1>1, <1>3, <1>4, Zenon DEF Legal, Fresh


\* Starting an asynchronous method acts legally.
LEMMA StartLegal ==
  ASSUME IInv, Fresh, Owned, serialized, NEW c \in Slots, NEW q \in QueryIds,
         \/ \E p \in Providers, t \in Tokens \union {None} : SelectProvider(c, q, p, t)
         \/ \E p \in Providers, o \in OracleIds \union {None} : SubmitEscrowResult(c, q, p, o)
         \/ \E o \in OracleIds \union {None} : SubmitQueryResult(c, q, o)
  PROVE  Legal
<1> DEFINE query == store[q]
<1>a. StoreInv /\ CallsInv
  BY Zenon DEF IInv
<1>0. Stored(q) => /\ query \in Query /\ GoodQuery(query) /\ query # None
                   /\ Quiet(q) /\ q \in issued
  BY <1>a, Zenon DEF Stored, StoreInv, HostMayCall, Quiet, Fresh
<1>1. ASSUME NEW p \in Providers, NEW t \in Tokens \union {None}, SelectProvider(c, q, p, t)
      PROVE  Legal
  <2> DEFINE call(await) == [at |-> await, q |-> q, snap |-> query, provider |-> p,
                             token |-> t, oracleId |-> None]
  <2>1. Stored(q) /\ CanMove(query, "provider_selected") /\ UNCHANGED issued
    BY <1>1, Zenon DEF SelectProvider
  <2>2. query.status = "awaiting_offers"
    BY <2>1, Zenon DEF CanMove, L!ValidTransition, L!EscrowTransitions
  <2>3. CASE ~NeedsLockCheck(query, t) /\ Write(q, Selected(query, p, t)) /\ UNCHANGED calls
    <3>1. Selected(query, p, t) \in Query
      BY <1>0, <2>1, <2>2, <2>3, SelectedGood, Zenon
    <3>2. Moves(query, Selected(query, p, t))
      BY <1>0, <2>1, <2>2, <3>1, SelectedMoves, Zenon
    <3> QED BY <1>0, <1>a, <2>1, <2>3, <3>2, HostWrites, Zenon
  <2>4. ASSUME NEW await, Suspend(c, call(await)), UNCHANGED store PROVE Legal
    <3>1. call(await).q = q /\ call(await).snap = query
      BY Zenon
    <3> HIDE DEF call
    <3> QED BY <1>0, <1>a, <2>1, <2>4, <3>1, HostStarts, Zenon
  <2> QED BY <1>1, <2>3, <2>4, Zenon DEF SelectProvider
<1>2. ASSUME NEW p \in Providers, NEW o \in OracleIds \union {None},
             SubmitEscrowResult(c, q, p, o)
      PROVE  Legal
  <2> DEFINE call == [at |-> "verifyEscrow", q |-> q, snap |-> Recorded(query),
                      provider |-> p, token |-> None, oracleId |-> o]
  <2>1. /\ Stored(q) /\ CanMove(query, "verifying") /\ UNCHANGED issued
        /\ Write(q, Recorded(query)) /\ Suspend(c, call)
    BY <1>2, Zenon DEF SubmitEscrowResult, CanRecord
  <2>2. call.q = q /\ call.snap = Recorded(query)
    BY Zenon
  <2>3. Moves(query, Recorded(query))
    BY <1>0, <2>1, ProgressMoves, Zenon DEF Recorded
  <2> HIDE DEF call
  <2> QED BY <1>0, <1>a, <2>1, <2>2, <2>3, HostStarts, Zenon
<1>3. ASSUME NEW o \in OracleIds \union {None}, SubmitQueryResult(c, q, o)
      PROVE  Legal
  <2> DEFINE call == [at |-> "verifyResult", q |-> q, snap |-> query,
                      provider |-> None, token |-> None, oracleId |-> o]
  <2>1. Stored(q) /\ query.status = "pending" /\ UNCHANGED issued
    BY <1>3, Zenon DEF SubmitQueryResult
  <2>2. CASE Write(q, Cancelled(query, "expired")) /\ UNCHANGED calls
    <3>1. Moves(query, Cancelled(query, "expired"))
      BY <1>0, <2>1, CancelledMoves, Zenon DEF L!OpenStatuses
    <3> QED BY <1>0, <1>a, <2>1, <2>2, <3>1, HostWrites, Zenon
  <2>3. CASE Suspend(c, call) /\ UNCHANGED store
    <3>1. call.q = q /\ call.snap = query
      BY Zenon
    <3> HIDE DEF call
    <3> QED BY <1>0, <1>a, <2>1, <2>3, <3>1, HostStarts, Zenon
  <2> QED BY <1>3, <2>2, <2>3, Zenon DEF SubmitQueryResult
<1> QED BY <1>1, <1>2, <1>3, Zenon

\* Resuming an asynchronous method after its await acts legally.
LEMMA SettlesLegal ==
  ASSUME IInv, Fresh, Owned, serialized, NEW c \in Slots, Settles(c)
  PROVE  Legal
<1> DEFINE call == calls[c]
           snap == calls[c].snap
<1>a. StoreInv /\ CallsInv
  BY Zenon DEF IInv
<1>n. call # None /\ UNCHANGED issued
  BY Zenon DEF Settles, AmountChecked, LockChecked, ResultVerified, EscrowVerified,
     PreimageRead, PreimageDeleted, FrostSigned, CallRejects, WaitingAt
<1>0. call \in Call /\ GoodCall(call) /\ snap \in Query /\ GoodQuery(snap)
  BY <1>a, <1>n DEF CallsInv, Call, GoodCall
<1>r. Return(c) /\ UNCHANGED store => Legal
  BY <1>a, <1>n, CallEnds, Zenon
<1>s. ASSUME call.at \in {"amount", "lock"}, CommitSelection(c), Return(c),
             NeedsLockCheck(snap, call.token) => LockedTo[EscrowRef(snap, call.token)] = call.provider
      PROVE  Legal
  <2>1. /\ snap.status = "awaiting_offers" /\ call.provider \in Providers
        /\ call.token \in Tokens \union {None}
    BY <1>0, <1>s, Zenon DEF GoodCall, Call
  <2>2. Selected(snap, call.provider, call.token) \in Query
    BY <1>0, <1>s, <2>1, SelectedGood, Zenon
  <2>3. Moves(snap, Selected(snap, call.provider, call.token))
    BY <1>0, <2>1, <2>2, SelectedMoves, Zenon
  <2> QED BY <1>a, <1>n, <1>s, <2>3, CallEnds, Zenon DEF CommitSelection
<1>v. ASSUME NEW v \in VerdictsOn(call), call.at \in {"verifyResult", "verifyEscrow"}
      PROVE  Moves(snap, Finalized(snap, v.passed, v.attestations))
  <2>1. /\ snap.shape.quorum \in Nat \union {None} /\ snap.shape.oracles \in Seq(OracleIds)
        /\ call.oracleId \in OracleIds \union {None}
    BY <1>0, Zenon DEF Call, Query, Shape
  <2>2. v.passed \in BOOLEAN /\ v.attestations \in Attestations
    BY <2>1, VerdictFacts, Zenon DEF VerdictsOn
  <2>3. Finalized(snap, v.passed, v.attestations) \in Query
    BY <1>0, <2>2, Zenon DEF Finalized, Query, L!Statuses, PaymentStatuses
  <2>4. snap.status \in {"pending", "verifying"}
    BY <1>0, <1>v, Zenon DEF GoodCall
  <2> QED BY <1>0, <2>2, <2>3, <2>4, FinalizedMoves, Zenon
<1>1. CASE AmountChecked(c)
  <2>0. call.at = "amount"
    BY <1>1, Zenon DEF AmountChecked, WaitingAt
  <2>1. CASE Resume(c, "lock", snap) /\ UNCHANGED store
    BY <1>a, <1>n, <2>1, CallGoesOn, Zenon
  <2>2. CASE ~NeedsLockCheck(snap, call.token) /\ CommitSelection(c) /\ Return(c)
    BY <2>0, <2>2, <1>s, Zenon
  <2> QED BY <1>1, <2>1, <2>2, <1>r, Zenon DEF AmountChecked
<1>2. CASE LockChecked(c)
  <2>0. call.at = "lock" /\ Return(c)
    BY <1>2, Zenon DEF LockChecked, WaitingAt
  <2> QED BY <1>2, <2>0, <1>r, <1>s, Zenon DEF LockChecked
<1>3. CASE ResultVerified(c)
  <2>0. call.at = "verifyResult" /\ Return(c)
    BY <1>3, Zenon DEF ResultVerified, WaitingAt
  <2>1. PICK v \in VerdictsOn(call) :
          UNCHANGED store \/ Write(call.q, Finalized(snap, v.passed, v.attestations))
    BY <1>3, Zenon DEF ResultVerified
  <2>2. Moves(snap, Finalized(snap, v.passed, v.attestations))
    BY <1>v, <2>0, Zenon
  <2> QED BY <1>a, <1>n, <2>0, <2>1, <2>2, CallEnds, Zenon
<1>4. CASE EscrowVerified(c)
  <2>0. call.at = "verifyEscrow"
    BY <1>4, Zenon DEF EscrowVerified, WaitingAt
  <2>1. PICK v \in VerdictsOn(call) :
          LET final == Finalized(snap, v.passed, v.attestations)
          IN  Write(call.q, final) /\ (Return(c) \/ Resume(c, NextAwait(final), final))
    BY <1>4, Zenon DEF EscrowVerified
  <2>2. Moves(snap, Finalized(snap, v.passed, v.attestations))
    BY <1>v, <2>0, Zenon
  <2> QED BY <1>a, <1>n, <2>1, <2>2, CallEnds, CallGoesOn, Zenon
<1>5. CASE PreimageRead(c)
  <2>1. CASE Resume(c, "deletePreimage", snap) /\ UNCHANGED store
    BY <1>a, <1>n, <2>1, CallGoesOn, Zenon
  <2> QED BY <1>5, <2>1, <1>r, Zenon DEF PreimageRead
<1>6. CASE PreimageDeleted(c) \/ FrostSigned(c) \/ CallRejects(c)
  BY <1>6, <1>r, Zenon DEF PreimageDeleted, FrostSigned, CallRejects
<1> QED BY <1>1, <1>2, <1>3, <1>4, <1>5, <1>6, Zenon DEF Settles

\* Every step of a host that serializes is legal.
LEMMA StepLegal ==
  ASSUME IInv, Fresh, Owned, serialized, Next
  PROVE  Legal
BY HostSyncLegal, StartLegal, SweepsLegal, SettlesLegal, Zenon DEF Next, Step, Host

SerialGood == serialized => Fresh /\ Owned

\* The service of a host that serializes implements QueryLifecycle: no call
\* writes back a stale record, so statuses follow the transition tables and no
\* accepted offer is dropped.
THEOREM ServiceRefines == Spec => FollowsLifecycle
<1>1. Init => SerialGood /\ L!Init
  <2> SUFFICES ASSUME Init PROVE SerialGood /\ L!Init
    BY Zenon
  <2>1. \A q \in QueryIds : store[q] = None
    BY Zenon DEF Init
  <2>2. \A c \in Slots : calls[c] = None
    BY Zenon DEF Init
  <2>3. \A q \in QueryIds : Seen(q) = None
    BY <2>1, Zenon DEF Seen
  <2>4. SerialGood
    BY <2>1, <2>2, Zenon DEF SerialGood, Fresh, Owned, Apart
  <2> QED BY <2>3, <2>4, Zenon DEF L!Init
<1>2. IInv /\ SerialGood /\ [Next]_vars => SerialGood' /\ (IInv' => [L!Next]_(L!vars))
  <2> SUFFICES ASSUME IInv, SerialGood, [Next]_vars
               PROVE  SerialGood' /\ (IInv' => [L!Next]_(L!vars))
    BY Zenon
  <2>1. CASE UNCHANGED vars
    <3>1. UNCHANGED <<store, issued, calls, serialized>>
      BY <2>1, Zenon DEF vars
    <3>2. SerialGood'
      BY <3>1, Zenon DEF SerialGood, Fresh, Owned, Owns, Apart
    <3>3. UNCHANGED L!vars
      BY <3>1, Zenon DEF L!vars, Seen
    <3> QED BY <3>2, <3>3, Zenon
  <2>2. CASE Next /\ ~serialized
    <3>1. ~serialized /\ ~serialized'
      BY <2>2, Zenon DEF Next
    <3>2. \A q \in QueryIds : Seen(q) = None /\ Seen(q)' = None
      BY <3>1, Zenon DEF Seen
    <3>3. UNCHANGED L!vars
      BY <3>2, Zenon DEF L!vars
    <3> QED BY <3>1, <3>3, Zenon DEF SerialGood
  <2>3. CASE Next /\ serialized
    <3>1. serialized /\ serialized'
      BY <2>3, Zenon DEF Next
    <3>2. Legal
      BY <2>3, StepLegal, Zenon DEF SerialGood
    <3>3. IInv' => L!Next
      BY <3>1, <3>2, MovesMap, Zenon DEF Legal, IInv
    <3> QED BY <3>2, <3>3, Zenon DEF Legal, SerialGood
  <2> QED BY <2>1, <2>2, <2>3, Zenon
<1> QED BY <1>1, <1>2, InitIInv, StepKeeps, PTL DEF Spec, FollowsLifecycle, L!Spec
=============================================================================
