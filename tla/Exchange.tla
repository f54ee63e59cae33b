------------------------------ MODULE Exchange ------------------------------
(***************************************************************************)
(* One paid request: Customer.request (customer.ts), every Provider's      *)
(* handleJob (provider.ts), the Oracle and the Cashu mint, over relays     *)
(* that store what they accept and hand it out in any order, and with a    *)
(* clock that runs while everybody waits.  A step of a role is the code    *)
(* between two of its awaits.  The Oracle is the relay service reduced to  *)
(* what the other roles see of it: OracleService has its inside.           *)
(***************************************************************************)
EXTENDS Naturals

CONSTANTS
  Providers,
  Amounts,       \* amounts Providers ask for
  Budget,        \* payment.maxAmount
  MaxHash,       \* bound: commitments the Oracle makes for the query
  Duration,      \* payment.locktimeSeconds
  MinRemaining,  \* MIN_PROVIDER_PAYMENT_LOCK_REMAINING_SECONDS
  MaxTime,       \* bound of the clock
  ReleaseForm,   \* who builds release DMs: the "service" or the "protocol" package
  None

VARIABLES
  now,        \* the clock of everybody, in seconds
  relay,      \* events some relay stored
  customer,   \* the state of request()
  job,        \* the state of each Provider's handleJob
  oracle,     \* commitment, whether it is still unopened, recorded selection
  mint,       \* the Payment Lock at the mint, or None
  approved    \* history: Providers whose result the Oracle verified

vars == <<now, relay, customer, job, oracle, mint, approved>>

Hashes == 1..MaxHash

\* A preimage is named by its hash; 0 is the one of another request.
Preimages == Hashes \union {0}

Offer == [from : Providers, amount : Amounts]
Terms == [to : Providers, amount : Amounts, hash : Hashes, locktime : 0..MaxTime]
Lock == [terms : Terms, state : {"unspent", "redeemed", "refunded"}]

ASSUME ExchangeAssumption ==
  /\ Amounts \subseteq Nat \ {0} /\ Budget \in Nat /\ MaxHash \in Nat \ {0}
  /\ Duration \in Nat /\ MinRemaining \in Nat /\ MinRemaining < Duration
  /\ MaxTime \in Nat /\ Duration <= MaxTime
  /\ None \notin Providers \union Nat \union Offer \union Terms \union Lock
  /\ ReleaseForm \in {"service", "protocol"}

\* A selection carries the token and its terms.  A release is bound when it
\* has the version and the request event id, as the protocol's builder makes
\* it; fits says that it is about this request at all.
Event == [type : {"notice"}]
           \union [type : {"offer"}, offer : Offer]
           \union [type : {"selection"}, terms : Terms]
           \union [type : {"result"}, from : Providers, good : BOOLEAN]
           \union [type : {"release"}, to : Providers, hash : Preimages,
                   bound : BOOLEAN, fits : BOOLEAN]

CustomerAt == {"hash", "notice", "offers", "bind", "select", "result", "done",
               "failed", "crashed"}

JobAt == {"idle", "selection", "hash", "terms", "state", "produce", "preimage",
          "redeem", "paid", "over"}

Request == [at : CustomerAt, hash : Hashes \union {None}, offers : SUBSET Offer,
            best : Offer \union {None}, terms : Terms \union {None},
            locked : BOOLEAN, recovery : BOOLEAN]
Job == [at : JobAt, amount : Amounts \union {None}, terms : Terms \union {None},
        hash : Hashes \union {None}, preimage : Preimages \union {None}]
Oracle == [hash : Hashes, holds : BOOLEAN, selected : Providers \union {None}]

TypeOK ==
  /\ now \in 0..MaxTime
  /\ relay \subseteq Event
  /\ customer \in Request /\ job \in [Providers -> Job] /\ oracle \in Oracle
  /\ mint \in Lock \union {None}
  /\ approved \subseteq Providers

\* Release DMs of other requests are on the relays already.
Init ==
  /\ now = 0 /\ mint = None /\ approved = {}
  /\ relay = [type : {"release"}, to : Providers, hash : {0}, bound : {TRUE},
              fits : {FALSE}]
  /\ customer = [at |-> "hash", hash |-> None, offers |-> {}, best |-> None,
                 terms |-> None, locked |-> FALSE, recovery |-> FALSE]
  /\ job = [p \in Providers |-> [at |-> "idle", amount |-> None, terms |-> None,
                                 hash |-> None, preimage |-> None]]
  /\ oracle = [hash |-> 1, holds |-> TRUE, selected |-> None]

\* A publish whose outcome the caller does not look at.
Publish(event) == relay' = relay \union {event} \/ UNCHANGED relay

-----------------------------------------------------------------------------
(* Customer.request.                                                       *)

Customer(at) == customer.at = at

\* Mutant of Thrown: the recovery material is not attached.
ThrownBare(c) == [c EXCEPT !.at = "failed"]

\* An error leaves request(): once bindProvider has returned, the catch block
\* attaches the lock and its refund key.
Thrown(c) == [c EXCEPT !.at = "failed", !.recovery = c.locked]

RequestHash ==
  /\ Customer("hash")
  /\ customer' = [customer EXCEPT !.at = "notice", !.hash = oracle.hash]
  /\ UNCHANGED <<now, relay, job, oracle, mint, approved>>

PublishNotice ==
  /\ Customer("notice")
  /\ relay' = relay \union {[type |-> "notice"]}
  /\ customer' = [customer EXCEPT !.at = "offers"]
  /\ UNCHANGED <<now, job, oracle, mint, approved>>

\* selectCheapestOffer, as the offers come in: the first of the cheapest.
Cheapest(best, o) == IF best = None \/ o.amount < best.amount THEN o ELSE best

\* The offer subscription's callback.
ReceiveOffer(o) ==
  /\ Customer("offers") /\ o \notin customer.offers
  /\ [type |-> "offer", offer |-> o] \in relay
  /\ o.amount <= Budget
  /\ customer' = [customer EXCEPT !.offers = @ \union {o}, !.best = Cheapest(@, o)]
  /\ UNCHANGED <<now, relay, job, oracle, mint, approved>>

\* The offer window ends with an offer to take.
SelectOffer ==
  /\ Customer("offers") /\ customer.best # None
  /\ customer' = [customer EXCEPT
       !.at = "bind",
       !.terms = [to |-> customer.best.from, amount |-> customer.best.amount,
                  hash |-> customer.hash, locktime |-> now + Duration]]
  /\ UNCHANGED <<now, relay, job, oracle, mint, approved>>

\* bindProvider.  The mint swapped: request() learns of the lock, or the
\* answer was lost and it sees a failed swap.  A lock of another amount than
\* agreed, or a failing onPaymentChange, is an error with a lock.
BindProvider ==
  /\ Customer("bind")
  /\ \E a \in Amounts :
       LET bound == [customer EXCEPT !.locked = TRUE] IN
       /\ mint' = [terms |-> [customer.terms EXCEPT !.amount = a], state |-> "unspent"]
       /\ \/ a = customer.terms.amount /\ customer' = [bound EXCEPT !.at = "select"]
          \/ customer' = Thrown(bound)
          \/ customer' = Thrown(customer)
  /\ UNCHANGED <<now, relay, job, oracle, approved>>

PublishSelection ==
  /\ Customer("select")
  /\ Publish([type |-> "selection", terms |-> customer.terms])
  /\ customer' = [customer EXCEPT !.at = "result"]
  /\ UNCHANGED <<now, job, oracle, mint, approved>>

\* The first result of the selected Provider settles the wait; the local
\* verifier, when there is one, may turn it down.
ReceiveResult(good) ==
  /\ Customer("result")
  /\ [type |-> "result", from |-> customer.terms.to, good |-> good] \in relay
  /\ \/ customer' = [customer EXCEPT !.at = "done", !.recovery = TRUE]
     \/ ~good /\ customer' = Thrown(customer)
  /\ UNCHANGED <<now, relay, job, oracle, mint, approved>>

\* Everything else that ends request(): the hash request, the offer window or
\* the result wait times out, no relay takes the notice, the swap fails
\* before it reaches the mint, the state store or the relay client throws.
RequestFails ==
  /\ customer.at \notin {"done", "failed", "crashed"}
  /\ customer' = Thrown(customer)
  /\ UNCHANGED <<now, relay, job, oracle, mint, approved>>

\* The lock and its refund key exist only in the memory of request().
CustomerCrashes ==
  /\ customer.at \notin {"done", "failed", "crashed"}
  /\ customer' = [customer EXCEPT !.at = "crashed"]
  /\ UNCHANGED <<now, relay, job, oracle, mint, approved>>

\* External: the host spends the lock's refund path with what it was handed.
HostRefund ==
  /\ customer.recovery /\ mint # None
  /\ mint.state = "unspent" /\ now >= mint.terms.locktime
  /\ mint' = [mint EXCEPT !.state = "refunded"]
  /\ UNCHANGED <<now, relay, customer, job, oracle, approved>>

-----------------------------------------------------------------------------
(* A Provider's handleJob.                                                 *)

JobStep(p, at, next) == job[p].at = at /\ job' = [job EXCEPT ![p] = next]

\* The handler prices the request and the offer is published.
OfferJob(p, a) ==
  /\ [type |-> "notice"] \in relay /\ a <= Budget
  /\ JobStep(p, "idle", [job[p] EXCEPT !.at = "selection", !.amount = a])
  /\ Publish([type |-> "offer", offer |-> [from |-> p, amount |-> a]])
  /\ UNCHANGED <<now, customer, oracle, mint, approved>>

\* waitForSelection and the comparison with the offer.
ReceiveSelection(p, t) ==
  /\ [type |-> "selection", terms |-> t] \in relay /\ t.to = p
  /\ JobStep(p, "selection",
       [job[p] EXCEPT !.at = IF t.amount = job[p].amount THEN "hash" ELSE "over",
                      !.terms = t])
  /\ UNCHANGED <<now, relay, customer, oracle, mint, approved>>

\* getOracleClient(...).requestHash: the hash the Oracle holds for the query.
ConfirmHash(p) ==
  /\ JobStep(p, "hash", [job[p] EXCEPT !.at = "terms", !.hash = oracle.hash])
  /\ UNCHANGED <<now, relay, customer, oracle, mint, approved>>

\* Mutant of TermsHold: the token's own hash is believed.
TermsHoldAnyHash(p) ==
  /\ mint.terms.to = p /\ mint.terms.amount = job[p].amount
  /\ mint.terms.locktime = job[p].terms.locktime
  /\ job[p].terms.locktime >= now + MinRemaining

\* validateProviderPaymentLockProofs, on what the token's secrets say.
TermsHold(p) ==
  /\ mint.terms.to = p /\ mint.terms.amount = job[p].amount
  /\ mint.terms.hash = job[p].hash
  /\ mint.terms.locktime = job[p].terms.locktime
  /\ job[p].terms.locktime >= now + MinRemaining

CheckTerms(p) ==
  /\ JobStep(p, "terms", [job[p] EXCEPT !.at = IF TermsHold(p) THEN "state" ELSE "over"])
  /\ UNCHANGED <<now, relay, customer, oracle, mint, approved>>

\* requireProofsUnspent; the clock is not read again.
CheckState(p) ==
  /\ JobStep(p, "state",
       [job[p] EXCEPT !.at = IF mint.state = "unspent" THEN "produce" ELSE "over"])
  /\ UNCHANGED <<now, relay, customer, oracle, mint, approved>>

ProduceResult(p, good) ==
  /\ JobStep(p, "produce", [job[p] EXCEPT !.at = "preimage"])
  /\ Publish([type |-> "result", from |-> p, good |-> good])
  /\ UNCHANGED <<now, customer, oracle, mint, approved>>

\* Mutant of Readable: the ids in the DM are not compared with the request's.
ReadableAnyRequest(dm) == dm.bound

\* parsePreimageDeliveryEvent and waitForPreimage's comparison of both ids.
Readable(dm) == dm.bound /\ dm.fits

Releases(p) == {dm \in relay : dm.type = "release" /\ dm.to = p}

\* The first readable release ends the wait; its preimage is checked against
\* the token's hash before the mint is asked.
ReceivePreimage(p) ==
  /\ \E dm \in Releases(p) :
       /\ Readable(dm)
       /\ JobStep(p, "preimage",
            [job[p] EXCEPT !.at = IF dm.hash = job[p].terms.hash THEN "redeem" ELSE "over",
                           !.preimage = dm.hash])
  /\ UNCHANGED <<now, relay, customer, oracle, mint, approved>>

\* redeemHtlc at the mint; when the answer is lost the job ends all the same.
RedeemHtlc(p) ==
  /\ \E at \in {"paid", "over"} :
       /\ JobStep(p, "redeem", [job[p] EXCEPT !.at = at])
       /\ \/ /\ mint.state = "unspent"
             /\ mint' = [mint EXCEPT !.state = "redeemed"]
          \/ mint.state # "unspent" /\ at = "over" /\ UNCHANGED mint
  /\ UNCHANGED <<now, relay, customer, oracle, approved>>

\* A wait times out, the Oracle or the mint cannot be reached, produce or a
\* state write throws, or the process ends: the job is dropped where it is.
JobEnds(p) ==
  /\ job[p].at \notin {"idle", "paid", "over"}
  /\ job' = [job EXCEPT ![p].at = "over"]
  /\ UNCHANGED <<now, relay, customer, oracle, mint, approved>>

-----------------------------------------------------------------------------
(* The Oracle, as OracleService behaves towards the others.                *)

\* The Oracle's host saw the selection.
OracleSelects(p) ==
  /\ \E e \in relay : e.type = "selection" /\ e.terms.to = p
  /\ oracle' = [oracle EXCEPT !.selected = p]
  /\ UNCHANGED <<now, relay, customer, job, mint, approved>>

\* Mutant of OracleVerifies: the release does not wait for the verdict.
OracleVerifiesNothing(p, good) ==
  /\ oracle.selected = p /\ oracle.holds
  /\ [type |-> "result", from |-> p, good |-> good] \in relay
  /\ relay' = relay \union {[type |-> "release", to |-> p, hash |-> oracle.hash,
                             bound |-> ReleaseForm = "protocol", fits |-> TRUE]}
  /\ approved' = IF good THEN approved \union {p} ELSE approved
  /\ oracle' = [oracle EXCEPT !.selected = None, !.holds = FALSE]
  /\ UNCHANGED <<now, customer, job, mint>>

\* A result of the recorded Provider: approved and the preimage sent, or
\* rejected; either way the query is no longer watched.
OracleVerifies(p, good) ==
  /\ oracle.selected = p /\ oracle.holds
  /\ [type |-> "result", from |-> p, good |-> good] \in relay
  /\ relay' = IF good THEN relay \union
                {[type |-> "release", to |-> p, hash |-> oracle.hash,
                  bound |-> ReleaseForm = "protocol", fits |-> TRUE]} ELSE relay
  /\ approved' = IF good THEN approved \union {p} ELSE approved
  /\ oracle' = [oracle EXCEPT !.selected = None, !.holds = @ /\ ~good]
  /\ UNCHANGED <<now, customer, job, mint>>

\* The query's commitment does not survive: the next hash request draws anew.
OracleRestarts ==
  /\ oracle.hash < MaxHash
  /\ oracle' = [hash |-> oracle.hash + 1, holds |-> TRUE, selected |-> None]
  /\ UNCHANGED <<now, relay, customer, job, mint, approved>>

-----------------------------------------------------------------------------
\* Bound: offers are selected while a whole Duration is left on the clock.
Tick ==
  /\ now < MaxTime
  /\ customer.at \in {"hash", "notice", "offers"} => now < MaxTime - Duration
  /\ now' = now + 1
  /\ UNCHANGED <<relay, customer, job, oracle, mint, approved>>

CustomerNext ==
  \/ RequestHash \/ PublishNotice \/ SelectOffer \/ BindProvider \/ PublishSelection
  \/ RequestFails \/ CustomerCrashes
  \/ \E o \in Offer : ReceiveOffer(o)
  \/ \E good \in BOOLEAN : ReceiveResult(good)

JobNext(p) ==
  \/ ConfirmHash(p) \/ CheckTerms(p) \/ CheckState(p) \/ ReceivePreimage(p)
  \/ RedeemHtlc(p) \/ JobEnds(p)
  \/ \E a \in Amounts : OfferJob(p, a)
  \/ \E t \in Terms : ReceiveSelection(p, t)
  \/ \E good \in BOOLEAN : ProduceResult(p, good)

OracleNext ==
  \/ OracleRestarts
  \/ \E p \in Providers :
       OracleSelects(p) \/ \E good \in BOOLEAN : OracleVerifies(p, good)

Next == CustomerNext \/ HostRefund \/ OracleNext \/ Tick \/ \E p \in Providers : JobNext(p)

Spec == Init /\ [][Next]_vars

\* Every wait of request() has a deadline, time passes, and a host that was
\* handed a refund key uses it.  Nothing is assumed of Providers or Oracle.
FairSpec == Spec /\ WF_vars(CustomerNext) /\ WF_vars(Tick) /\ WF_vars(HostRefund)

-----------------------------------------------------------------------------
(* Properties.                                                             *)

\* What verifyProviderPaymentLock is for: from the moment a Provider starts
\* to produce until the locktime, the mint holds a lock for it alone, of the
\* amount it asked for and under the hash the Oracle confirmed to it, and
\* nobody else can have spent it.
WorkIsCovered ==
  \A p \in Providers :
    job[p].at \in {"produce", "preimage", "redeem"} /\ now < job[p].terms.locktime
    => /\ mint # None /\ mint.state = "unspent"
       /\ mint.terms.to = p /\ mint.terms.hash = job[p].hash
       /\ mint.terms.amount = job[p].amount /\ mint.terms.amount <= Budget

\* waitForPreimage: "Cross-check both ids so a stale DM for another request
\* can't be replayed": the preimage a Provider settles for opens its lock,
\* unless the Oracle has lost the commitment it confirmed to the Provider.
AcceptedReleaseOpens ==
  \A p \in Providers :
    job[p].preimage # None => job[p].preimage = mint.terms.hash \/ oracle.hash # job[p].hash

Paid == INSTANCE PaidExchange WITH
  payment <- IF mint = None THEN "none"
             ELSE IF mint.state = "unspent" THEN "locked" ELSE mint.state,
  payee <- IF mint = None THEN None ELSE mint.terms.to,
  verified <- approved,
  expired <- mint # None /\ now >= mint.terms.locktime

\* The four roles together keep the exchange's promise: the lock pays the
\* selected Provider after the Oracle verified its work, or is refunded after
\* the locktime, never both.
KeepsPromise == Paid!Spec

\* A lock request() knew of does not stay behind: it is redeemed, or the
\* Customer's host gets it back, whichever wait, callback or write failed.
LockSettles ==
  customer.locked ~> \/ customer.at = "crashed"
                     \/ mint # None /\ mint.state \in {"redeemed", "refunded"}

\* specs/messaging.md: "The canonical release payload binds" version, query
\* and request event: every release the Oracle sends for this request is one
\* that the Provider it is addressed to accepts.
ReleaseIsReadable ==
  \A p \in Providers : \A dm \in Releases(p) : dm.fits => Readable(dm)
=============================================================================
