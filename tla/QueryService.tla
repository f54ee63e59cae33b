---------------------------- MODULE QueryService ----------------------------
(***************************************************************************)
(* The query service of requests/application and the aggregate it drives   *)
(* (requests/domain/query-aggregate.ts).  JavaScript runs one callback at  *)
(* a time, so every synchronous method is one action; an asynchronous      *)
(* method is split at its awaits, and the record it read before an await   *)
(* (its snapshot) is what it writes back afterwards.                       *)
(***************************************************************************)
EXTENDS QuorumVerification

CONSTANTS
  QueryIds,     \* fresh ids the id generator may hand out
  Providers,    \* provider public keys
  Tokens,       \* encoded escrow tokens
  LockedTo,     \* the provider each token is really locked to at the mint
  OracleIds,    \* oracle ids a query or a submitter may name
  Shapes,       \* the kinds of query a customer creates
  Slots,        \* asynchronous calls that may be in flight at once (a bound)
  Ports         \* optional dependencies the service was built with

VARIABLES
  store,        \* QueryStore: id -> query record or None
  issued,       \* ids ever created
  overdue,      \* queries with expires_at < now
  preimages,    \* queries whose preimage the preimage store still holds
  calls,        \* the in-flight asynchronous calls
  outcomes,     \* history: what submitEscrowResult returned with ok = true
  serialized    \* does the host never overlap calls on one query?

vars == <<store, issued, overdue, preimages, calls, outcomes, serialized>>

\* What a host that serializes its calls sees of a query.
Seen(q) == IF serialized THEN store[q] ELSE None

L == INSTANCE QueryLifecycle WITH
       status   <- [q \in QueryIds |-> IF Seen(q) = None THEN "absent"
                                       ELSE Seen(q).status],
       escrowed <- [q \in QueryIds |-> Seen(q) # None /\ Seen(q).shape.escrow # "none"],
       offers   <- [q \in QueryIds |-> IF Seen(q) = None THEN {}
                                       ELSE Seen(q).offers]

EscrowKinds == {"none", "htlc", "p2pk_frost"}

\* What the customer fixes at creation.  ref is escrow_ref, or else the
\* escrow_token, that the escrow info already carries; priced says that
\* payment_lock.amount_sats is set; held that the preimage store has the
\* preimage of the escrow's hash.
Shape == [escrow : EscrowKinds, ref : Tokens \union {None}, priced : BOOLEAN,
          quorum : Nat \union {None}, oracles : Seq(OracleIds),
          held : BOOLEAN]

Attestations == SUBSET [at : Nat, oracle : OracleIds, passed : BOOLEAN]

ASSUME ConstantsAssumption ==
  /\ None \notin Tokens \union Providers \union QueryIds \union Nat
  /\ None \notin OracleIds
  /\ Registry \in Seq(OracleIds)
  /\ LockedTo \in [Tokens -> Providers]
  /\ Shapes \subseteq Shape
  /\ Ports \subseteq {"escrow", "preimage", "frost"}

PaymentStatuses == {"locked", "escrow_locked", "escrow_swapped", "released",
                    "cancelled"}

Query == [status : L!Statuses, payment_status : PaymentStatuses, shape : Shape,
          provider : Providers \union {None}, token : Tokens \union {None},
          offers : SUBSET Providers, attestations : Attestations \union {None}]

\* The absent value is no query record.
ASSUME RecordAssumption == None \notin Query

\* The await an asynchronous call is suspended at.
Awaits == {"amount", "lock", "verifyResult", "verifyEscrow", "getPreimage",
           "deletePreimage", "frost"}

Call == [at : Awaits, q : QueryIds, snap : Query, provider : Providers \union {None},
         token : Tokens \union {None}, oracleId : OracleIds \union {None}]

Outcome == [q : QueryIds, provider : Providers, query : Query,
            artifact : {"preimage", "frost_signature", "none"}]

TypeOK ==
  /\ store \in [QueryIds -> Query \union {None}]
  /\ issued \subseteq QueryIds
  /\ overdue \subseteq QueryIds
  /\ preimages \subseteq QueryIds
  /\ calls \in [Slots -> Call \union {None}]
  /\ outcomes \subseteq Outcome
  /\ serialized \in BOOLEAN

Init ==
  /\ store = [q \in QueryIds |-> None]
  /\ issued = {} /\ overdue = {} /\ preimages = {} /\ outcomes = {}
  /\ calls = [c \in Slots |-> None]
  /\ serialized \in BOOLEAN

-----------------------------------------------------------------------------
(* The aggregate: pure functions from a query record to the next one.      *)

IsEscrow(query) == query.escrow # "none"

\* Mutant of NewQuery: the escrow is not yet marked as locked.
NewQueryUnlocked(s) ==
  [status |-> IF IsEscrow(s) THEN "awaiting_offers" ELSE "pending",
   payment_status |-> IF IsEscrow(s) THEN "escrow_pending" ELSE "locked",
   shape |-> s, provider |-> None, token |-> None, offers |-> {},
   attestations |-> None]

\* createQueryAggregate.
NewQuery(s) ==
  [status |-> IF IsEscrow(s) THEN "awaiting_offers" ELSE "pending",
   payment_status |-> IF IsEscrow(s) THEN "escrow_locked" ELSE "locked",
   shape |-> s, provider |-> None, token |-> None, offers |-> {},
   attestations |-> None]

\* Mutant of Cancelled: the payment status is left behind.
CancelledUnpaid(query, status) == [query EXCEPT !.status = status]

\* Both ways a query ends without payment.
Cancelled(query, status) ==
  [query EXCEPT !.status = status, !.payment_status = "cancelled"]

\* selectProvider(query, providerPubkey, escrowUpdates).
Selected(query, p, t) ==
  [query EXCEPT !.status = "provider_selected", !.provider = p, !.token = t,
                !.payment_status = IF t # None THEN "escrow_swapped" ELSE @]

CanMove(query, to) == L!ValidTransition(query.status, to, TRUE) /\ IsEscrow(query.shape)

\* Mutant of CanRecord: anybody may submit.
CanRecordAnybody(query, p) == CanMove(query, "verifying")

\* recordResult's guard: the submitter is the selected provider.
CanRecord(query, p) ==
  /\ CanMove(query, "verifying")
  /\ query.provider # None => query.provider = p

Recorded(query) == [query EXCEPT !.status = "verifying"]

\* completeVerification, and the record verifyAndFinalize builds.
Finalized(query, passed, attestations) ==
  [query EXCEPT !.status = IF passed THEN "approved" ELSE "rejected",
                !.payment_status = IF passed THEN "released" ELSE "cancelled",
                !.attestations = IF query.shape.quorum = None THEN None
                                 ELSE attestations]

-----------------------------------------------------------------------------
(* Synchronous methods.                                                    *)

\* A host that serializes waits for the call on q to return before the next.
HostMayCall(q) == serialized => \A c \in Slots : calls[c] # None => calls[c].q # q

Stored(q) == store[q] # None /\ HostMayCall(q)

Write(q, query) == store' = [store EXCEPT ![q] = query]

CreateQuery(q, s) ==
  /\ q \notin issued
  /\ issued' = issued \union {q}
  /\ Write(q, NewQuery(s))
  /\ preimages' = IF s.held THEN preimages \union {q} ELSE preimages
  /\ UNCHANGED <<overdue, calls, outcomes>>

RecordOffer(q, p) ==
  /\ Stored(q)
  /\ IsEscrow(store[q].shape) /\ store[q].status = "awaiting_offers"
  /\ Write(q, [store[q] EXCEPT !.offers = @ \union {p}])
  /\ UNCHANGED <<issued, overdue, preimages, calls, outcomes>>

BeginWork(q) ==
  /\ Stored(q) /\ CanMove(store[q], "processing")
  /\ Write(q, [store[q] EXCEPT !.status = "processing"])
  /\ UNCHANGED <<issued, overdue, preimages, calls, outcomes>>

RecordResult(q, p) ==
  /\ Stored(q) /\ CanRecord(store[q], p)
  /\ Write(q, Recorded(store[q]))
  /\ UNCHANGED <<issued, overdue, preimages, calls, outcomes>>

CompleteVerification(q, passed) ==
  /\ Stored(q) /\ CanMove(store[q], "approved")
  /\ Write(q, Finalized(store[q], passed, None))
  /\ UNCHANGED <<issued, overdue, preimages, calls, outcomes>>

\* Mutant of CancelQuery: decided queries can still be cancelled.
CancelQueryAnytime(q) ==
  /\ Stored(q)
  /\ Write(q, Cancelled(store[q], "rejected"))
  /\ UNCHANGED <<issued, overdue, preimages, calls, outcomes>>

CancelQuery(q) ==
  /\ Stored(q) /\ store[q].status \in L!OpenStatuses
  /\ Write(q, Cancelled(store[q], "rejected"))
  /\ UNCHANGED <<issued, overdue, preimages, calls, outcomes>>

\* Mutant of Expirable: only open queries expire.
ExpirableOpen(q) == store[q] # None /\ q \in overdue /\ store[q].status \in L!OpenStatuses

\* EXPIRABLE_STATUSES: everything that is not terminal.
Expirable(q) == /\ store[q] # None /\ q \in overdue
                /\ store[q].status \in L!OpenStatuses \union {"verifying"}

ExpireQueries ==
  /\ \A q \in QueryIds : HostMayCall(q)
  /\ \E q \in QueryIds : Expirable(q)
  /\ store' = [q \in QueryIds |-> IF Expirable(q) THEN Cancelled(store[q], "expired")
                                  ELSE store[q]]
  /\ UNCHANGED <<issued, overdue, preimages, calls, outcomes>>

IsExpired(q) == store[q] # None /\ store[q].status = "expired"

PurgeExpiredFromStore ==
  /\ \A q \in QueryIds : HostMayCall(q)
  /\ \E q \in QueryIds : IsExpired(q)
  /\ store' = [q \in QueryIds |-> IF IsExpired(q) THEN None ELSE store[q]]
  /\ UNCHANGED <<issued, overdue, preimages, calls, outcomes>>

ClearQueryStore ==
  /\ \A q \in QueryIds : HostMayCall(q)
  /\ \E q \in QueryIds : store[q] # None
  /\ store' = [q \in QueryIds |-> None]
  /\ UNCHANGED <<issued, overdue, preimages, calls, outcomes>>

\* The wall clock passes q's expires_at.
Deadline(q) ==
  /\ q \in issued \ overdue
  /\ overdue' = overdue \union {q}
  /\ UNCHANGED <<store, issued, preimages, calls, outcomes>>

-----------------------------------------------------------------------------
(* Asynchronous methods.  Suspend parks a call at an await with its        *)
(* snapshot; Resume moves it on.                                           *)

Suspend(c, call) == calls[c] = None /\ calls' = [calls EXCEPT ![c] = call]

Resume(c, await, snap) ==
  calls' = [calls EXCEPT ![c] = [@ EXCEPT !.at = await, !.snap = snap]]

Return(c) == calls' = [calls EXCEPT ![c] = None]

WaitingAt(c, await) == calls[c] # None /\ calls[c].at = await

\* The escrow reference selectProvider verifies: the one the query already
\* carries wins over the token the caller passes.
EscrowRef(query, t) == IF query.shape.ref # None THEN query.shape.ref ELSE t

NeedsAmountCheck(query, t) == EscrowRef(query, t) # None /\ query.shape.priced

\* Mutant of NeedsLockCheck: a verified amount is taken for a verified lock.
NeedsLockCheckUnpriced(query, t) ==
  EscrowRef(query, t) # None /\ query.shape.escrow = "htlc" /\ ~query.shape.priced

NeedsLockCheck(query, t) == EscrowRef(query, t) # None /\ query.shape.escrow = "htlc"

SelectProvider(c, q, p, t) ==
  LET query == store[q]
      start(await) ==
        /\ Suspend(c, [at |-> await, q |-> q, snap |-> query, provider |-> p,
                       token |-> t, oracleId |-> None])
        /\ UNCHANGED store
  IN  /\ Stored(q) /\ CanMove(query, "provider_selected")
      /\ \/ /\ ~NeedsAmountCheck(query, t) /\ ~NeedsLockCheck(query, t)
            /\ Write(q, Selected(query, p, t))
            /\ UNCHANGED calls
         \/ "escrow" \in Ports /\ NeedsAmountCheck(query, t) /\ start("amount")
         \/ /\ "escrow" \in Ports /\ ~NeedsAmountCheck(query, t)
            /\ NeedsLockCheck(query, t) /\ start("lock")
      /\ UNCHANGED <<issued, overdue, preimages, outcomes>>

\* selectProvider's last step: the stale snapshot, moved on, is stored.
CommitSelection(c) ==
  Write(calls[c].q, Selected(calls[c].snap, calls[c].provider, calls[c].token))

\* verifyEscrowAmount resolved.
AmountChecked(c) ==
  /\ WaitingAt(c, "amount")
  /\ \/ Return(c) /\ UNCHANGED store                       \* amount not valid
     \/ /\ NeedsLockCheck(calls[c].snap, calls[c].token)
        /\ Resume(c, "lock", calls[c].snap) /\ UNCHANGED store
     \/ /\ ~NeedsLockCheck(calls[c].snap, calls[c].token)
        /\ CommitSelection(c) /\ Return(c)
  /\ UNCHANGED <<issued, overdue, preimages, outcomes>>

\* verifyEscrowLock resolved: the reference is locked to this provider, or not.
LockChecked(c) ==
  /\ WaitingAt(c, "lock")
  /\ IF LockedTo[EscrowRef(calls[c].snap, calls[c].token)] = calls[c].provider
     THEN CommitSelection(c)
     ELSE UNCHANGED store
  /\ Return(c)
  /\ UNCHANGED <<issued, overdue, preimages, outcomes>>

\* submitQueryResult up to its await: a late submission expires the query.
SubmitQueryResult(c, q, o) ==
  /\ Stored(q) /\ store[q].status = "pending"
  /\ IF q \in overdue
     THEN Write(q, Cancelled(store[q], "expired")) /\ UNCHANGED calls
     ELSE /\ Suspend(c, [at |-> "verifyResult", q |-> q, snap |-> store[q],
                         provider |-> None, token |-> None, oracleId |-> o])
          /\ UNCHANGED store
  /\ UNCHANGED <<issued, overdue, preimages, outcomes>>

VerdictsOn(call) ==
  Verdicts(call.snap.shape.quorum, call.snap.shape.oracles, call.oracleId)

\* ... and after it: a failure nobody attested leaves the query as it is.
ResultVerified(c) ==
  /\ WaitingAt(c, "verifyResult")
  /\ \E v \in VerdictsOn(calls[c]) :
        IF ~v.passed /\ v.attestations = {}
        THEN UNCHANGED store
        ELSE Write(calls[c].q, Finalized(calls[c].snap, v.passed, v.attestations))
  /\ Return(c)
  /\ UNCHANGED <<issued, overdue, preimages, outcomes>>

\* submitEscrowResult up to its first await.
SubmitEscrowResult(c, q, p, o) ==
  /\ Stored(q) /\ CanRecord(store[q], p)
  /\ Write(q, Recorded(store[q]))
  /\ Suspend(c, [at |-> "verifyEscrow", q |-> q, snap |-> Recorded(store[q]),
                 provider |-> p, token |-> None, oracleId |-> o])
  /\ UNCHANGED <<issued, overdue, preimages, outcomes>>

\* The settlement step submitEscrowResult awaits next, if any.
NextAwait(query) ==
  CASE query.shape.escrow = "htlc" /\ "preimage" \in Ports -> "getPreimage"
    [] query.shape.escrow = "p2pk_frost" /\ "frost" \in Ports -> "frost"
    [] OTHER -> "return"

Deliver(c, query, artifact) ==
  outcomes' = outcomes \union {[q |-> calls[c].q, provider |-> calls[c].provider,
                               query |-> query, artifact |-> artifact]}

\* The verdict arrives: the snapshot is finalized and stored as it stands.
EscrowVerified(c) ==
  /\ WaitingAt(c, "verifyEscrow")
  /\ \E v \in VerdictsOn(calls[c]) :
       LET final == Finalized(calls[c].snap, v.passed, v.attestations)
       IN  /\ Write(calls[c].q, final)
           /\ \/ ~v.passed /\ Return(c) /\ UNCHANGED outcomes
              \/ /\ v.passed /\ NextAwait(final) # "return"
                 /\ Resume(c, NextAwait(final), final) /\ UNCHANGED outcomes
              \/ /\ v.passed /\ NextAwait(final) = "return"
                 /\ Return(c) /\ Deliver(c, final, "none")
  /\ UNCHANGED <<issued, overdue, preimages>>

\* tryRevealPreimage: look the preimage up, then delete it, then return it.
PreimageRead(c) ==
  /\ WaitingAt(c, "getPreimage")
  /\ IF calls[c].q \in preimages
     THEN Resume(c, "deletePreimage", calls[c].snap) /\ UNCHANGED outcomes
     ELSE Return(c) /\ Deliver(c, calls[c].snap, "none")
  /\ UNCHANGED <<store, issued, overdue, preimages>>

PreimageDeleted(c) ==
  /\ WaitingAt(c, "deletePreimage")
  /\ preimages' = preimages \ {calls[c].q}
  /\ Return(c) /\ Deliver(c, calls[c].snap, "preimage")
  /\ UNCHANGED <<store, issued, overdue>>

\* requestSignature returned; a rejection is caught and counts as null.
FrostSigned(c) ==
  /\ WaitingAt(c, "frost")
  /\ \E artifact \in {"frost_signature", "none"} : Deliver(c, calls[c].snap, artifact)
  /\ Return(c)
  /\ UNCHANGED <<store, issued, overdue, preimages>>

\* The awaited promise rejects and nothing catches it: the call is abandoned
\* where it stands.
CallRejects(c) ==
  /\ calls[c] # None /\ calls[c].at # "frost"
  /\ Return(c)
  /\ UNCHANGED <<store, issued, overdue, preimages, outcomes>>

-----------------------------------------------------------------------------
Host ==
  \E q \in QueryIds :
    \/ \E s \in Shapes : CreateQuery(q, s)
    \/ BeginWork(q) \/ CancelQuery(q) \/ Deadline(q)
    \/ \E passed \in BOOLEAN : CompleteVerification(q, passed)
    \/ \E p \in Providers :
         \/ RecordOffer(q, p) \/ RecordResult(q, p)
         \/ \E c \in Slots :
              \/ \E t \in Tokens \union {None} : SelectProvider(c, q, p, t)
              \/ \E o \in OracleIds \union {None} : SubmitEscrowResult(c, q, p, o)
    \/ \E c \in Slots, o \in OracleIds \union {None} : SubmitQueryResult(c, q, o)

Settles(c) ==
  \/ AmountChecked(c) \/ LockChecked(c) \/ ResultVerified(c) \/ EscrowVerified(c)
  \/ PreimageRead(c) \/ PreimageDeleted(c) \/ FrostSigned(c) \/ CallRejects(c)

Step ==
  \/ Host \/ ExpireQueries \/ PurgeExpiredFromStore \/ ClearQueryStore
  \/ \E c \in Slots : Settles(c)

Next == Step /\ UNCHANGED serialized

Spec == Init /\ [][Next]_vars

\* The service has no timer of its own: the clock moves, and the host calls
\* expireQueries on a schedule.  Nothing is assumed of oracles or mints, so a
\* call may stay suspended for ever.
FairSpec ==
  /\ Spec /\ WF_vars(ExpireQueries /\ UNCHANGED serialized)
  /\ \A q \in QueryIds : WF_vars(Deadline(q) /\ UNCHANGED serialized)

-----------------------------------------------------------------------------
(* Properties.                                                             *)

PaidAsDecided(query) ==
  /\ query.payment_status = "released" <=> query.status = "approved"
  /\ query.payment_status = "cancelled" <=> query.status \in {"rejected", "expired"}
  /\ query.payment_status = "escrow_swapped" => query.token # None /\ query.provider # None
  /\ query.status \in {"provider_selected", "processing", "verifying"}
       => query.provider # None

\* Whatever calls overlap, no stored query says "released" without being
\* approved or "cancelled" without being rejected or expired, and no query is
\* in progress without a selected provider.
PaymentFollowsStatus ==
  \A q \in QueryIds : store[q] # None => PaidAsDecided(store[q])

LockHolds(query) ==
  query.shape.escrow = "htlc" /\ query.token # None => LockedTo[query.token] = query.provider

\* verifyEscrowLock protects the provider: when the query was created without
\* an escrow reference, the token stored with a selection is locked to the
\* provider stored with it, also when several selections race.
SelectedTokenIsLocked ==
  \A q \in QueryIds :
    store[q] # None /\ store[q].shape.ref = None => LockHolds(store[q])

QuorumMet(query) ==
  query.shape.quorum # None /\ query.attestations # None =>
    (query.status = "approved" => Approvals(query.attestations) >= query.shape.quorum)

Earned(o) ==
  /\ o.query.status = "approved" /\ o.provider = o.query.provider
  /\ o.query.shape.quorum # None
       => Approvals(o.query.attestations) >= o.query.shape.quorum
  /\ o.artifact = IF o.query.shape.escrow = "htlc" THEN "preimage" ELSE "frost_signature"
  /\ o.query.shape.ref = None => LockHolds(o.query)

\* submitEscrowResult hands a settlement artifact only to the provider the
\* query names, of the kind its lock needs, after a verdict that met the
\* quorum, on a token locked to that provider.
SettlementIsEarned == \A o \in outcomes : o.artifact # "none" => Earned(o)

\* The attestations stored with an approval meet the query's quorum, and each
\* comes from a registered oracle the customer accepts (all are accepted when
\* the customer names none).
QuorumBacksApproval ==
  \A q \in QueryIds : store[q] # None /\ store[q].attestations # None =>
    /\ QuorumMet(store[q])
    /\ \A a \in store[q].attestations :
         /\ a.oracle \in Registered
         /\ store[q].shape.oracles = <<>> \/ Mentions(store[q].shape.oracles, a.oracle)

\* A query that exists is eventually decided for good or gone, even when an
\* oracle or mint never answers and late answers resurrect it: expireQueries
\* reaches every status that is not terminal.  (A host that serializes waits
\* for the answer instead, and nothing bounds that wait.)
EveryQuerySettles ==
  \A q \in QueryIds :
    <>[](serialized \/ (store[q] # None => store[q].status \in L!TerminalStatuses))

\* When the host never overlaps calls on a query, the stored statuses follow
\* the transition tables and no accepted offer is dropped: the service
\* implements QueryLifecycle.  (For other hosts the mapping shows no query.)
FollowsLifecycle == L!Spec
=============================================================================
