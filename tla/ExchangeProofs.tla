--------------------------- MODULE ExchangeProofs ---------------------------
(***************************************************************************)
(* The paid request exchange is safe, and implements PaidExchange, for     *)
(* every number of Providers, amounts, lock durations and Oracle restarts. *)
(***************************************************************************)
EXTENDS Exchange, TLAPS

-----------------------------------------------------------------------------
(* The inductive invariant.                                                *)

\* What request() has agreed, and that it makes one lock.
Agreed ==
  /\ customer.at \in {"hash", "notice", "offers"} => now + Duration <= MaxTime
  /\ customer.at \in {"notice", "offers"} => customer.hash \in Hashes
  /\ customer.best # None => customer.best.amount <= Budget
  /\ customer.at \in {"bind", "select", "result"} =>
       customer.terms \in Terms /\ customer.terms.amount <= Budget
  /\ mint # None => customer.at \in {"select", "result", "done", "failed", "crashed"}
  /\ customer.at \in {"select", "result"} => mint # None /\ mint.terms = customer.terms

\* The steps after a result was published.
Past == {"preimage", "redeem", "paid", "over"}

\* What an event says of the state it was published in, as far as it lasts.
Meant(e) ==
  /\ e.type = "selection" =>
       mint # None /\ e.terms = mint.terms /\ e.terms.amount <= Budget
  /\ e.type = "result" => job[e.from].at \in Past /\ job[e.from].hash \in Hashes
  /\ e.type = "release" /\ e.fits =>
       /\ e.to \in approved /\ job[e.to].at \in Past /\ job[e.to].hash \in Hashes
       /\ e.hash \in Hashes /\ job[e.to].hash <= e.hash /\ e.hash <= oracle.hash

Relayed == \A e \in relay : Meant(e)

\* What a Provider's job has made sure of.
Sure(p) ==
  /\ job[p].terms \in Terms =>
       /\ mint # None /\ job[p].terms = mint.terms
       /\ mint.terms.to = p /\ mint.terms.amount <= Budget
  /\ job[p].at \in {"hash", "terms", "state", "produce", "preimage", "redeem"} =>
       job[p].terms \in Terms /\ job[p].terms.amount = job[p].amount
  /\ job[p].hash # None => job[p].hash <= oracle.hash
  /\ job[p].at \in {"terms", "state", "produce", "preimage", "redeem"} => job[p].hash \in Hashes
  /\ job[p].at \in {"state", "produce", "preimage", "redeem"} => mint.terms.hash = job[p].hash
  /\ job[p].at = "redeem" => p \in approved
  /\ job[p].at \notin {"redeem", "paid", "over"} => job[p].preimage = None
  /\ job[p].preimage # None =>
       /\ mint # None /\ mint.terms.hash = job[p].hash /\ job[p].hash \in Hashes
       /\ job[p].preimage \in Hashes
       /\ job[p].hash <= job[p].preimage /\ job[p].preimage <= oracle.hash

Jobs == \A p \in Providers : Sure(p)

\* Who can have spent the lock.
Spent ==
  mint # None =>
    /\ mint.state = "redeemed" => job[mint.terms.to].at \in {"paid", "over"}
    /\ mint.state = "refunded" => now >= mint.terms.locktime

IInv == TypeOK /\ Agreed /\ Relayed /\ Jobs /\ Spent

LEMMA Nones ==
  /\ None \notin Nat /\ None \notin Terms /\ None \notin Lock /\ None \notin Offer /\ None \notin Providers
  /\ Hashes \subseteq Nat /\ None \notin Hashes /\ None \notin Preimages /\ None \notin Amounts
<1>1. None \notin Nat /\ None \notin Terms /\ None \notin Lock /\ None \notin Offer /\ None \notin Providers
  BY ExchangeAssumption, Zenon
<1>2. Hashes \subseteq Nat /\ Preimages \subseteq Nat /\ Amounts \subseteq Nat
  BY ExchangeAssumption DEF Hashes, Preimages
<1> QED BY <1>1, <1>2, Zenon

LEMMA InitInv == Init => IInv
<1> SUFFICES ASSUME Init PROVE IInv
  BY Zenon
<1> USE ExchangeAssumption
<1>1. TypeOK
  <2>1. relay \subseteq Event
    BY Zenon DEF Init, Event, Preimages
  <2>2. 1 \in Hashes
    BY DEF Hashes
  <2>3. customer \in Request
    BY Zenon DEF Init, CustomerAt, Request
  <2>4. [at |-> "idle", amount |-> None, terms |-> None, hash |-> None, preimage |-> None] \in Job
    BY Zenon DEF JobAt, Job
  <2>5. oracle \in Oracle
    BY <2>2, Zenon DEF Init, Oracle
  <2>6. job \in [Providers -> Job]
    BY <2>4, Zenon DEF Init
  <2>7. now \in 0..MaxTime /\ mint = None /\ approved \subseteq Providers
    BY DEF Init
  <2> QED BY <2>1, <2>3, <2>5, <2>6, <2>7, Zenon DEF TypeOK
<1>2. Agreed
  BY DEF Init, Agreed
<1>3. Relayed
  BY Zenon DEF Init, Relayed, Meant
<1>4. Jobs
  <2> SUFFICES ASSUME NEW p \in Providers PROVE Sure(p)
    BY Zenon DEF Jobs
  <2>1. /\ job[p].at = "idle" /\ job[p].hash = None /\ job[p].preimage = None /\ job[p].terms = None
    BY Zenon DEF Init
  <2>2. None \notin Terms
    BY Nones, Zenon
  <2> QED BY <2>1, <2>2, Zenon DEF Sure
<1>5. Spent
  BY Zenon DEF Init, Spent
<1> QED BY <1>1, <1>2, <1>3, <1>4, <1>5, Zenon DEF IInv

-----------------------------------------------------------------------------
(* The Customer, its host and the clock.                                   *)

\* What the customer or the clock does changes nothing the others rely on.
LEMMA OthersKeep ==
  ASSUME IInv, UNCHANGED <<relay, job, oracle, mint, approved>>, now' \in 0..MaxTime, now' >= now
  PROVE  Relayed' /\ Jobs' /\ Spent'
<1>1. relay' = relay /\ job' = job /\ oracle' = oracle /\ mint' = mint /\ approved' = approved
  BY Zenon
<1>2. Relayed'
  BY <1>1, Zenon DEF IInv, Relayed, Meant
<1>3. Jobs'
  BY <1>1 DEF IInv, Jobs, Sure
<1>4. Spent'
  <2>1. mint # None => mint.terms.locktime \in Nat
    BY ExchangeAssumption DEF IInv, TypeOK, Lock, Terms
  <2>2. now \in Nat /\ now' \in Nat
    BY ExchangeAssumption DEF IInv, TypeOK
  <2> QED BY <1>1, <2>1, <2>2 DEF IInv, Spent
<1> QED BY <1>2, <1>3, <1>4, Zenon

LEMMA CustomerOnly ==
  ASSUME IInv, UNCHANGED <<now, relay, job, oracle, mint, approved>>, customer' \in Request, Agreed'
  PROVE  IInv'
<1>1. now' \in 0..MaxTime /\ now' >= now /\ now \in Nat
  BY ExchangeAssumption DEF IInv, TypeOK
<1>2. TypeOK'
  BY Zenon DEF IInv, TypeOK
<1> QED BY <1>1, <1>2, OthersKeep, Zenon DEF IInv

\* An error thrown in request().
LEMMA ThrownIs ==
  ASSUME NEW c \in Request
  PROVE  Thrown(c) \in Request /\ Thrown(c).at = "failed" /\ Thrown(c).best = c.best
BY Zenon DEF Thrown, Request, CustomerAt

LEMMA FailedAgreed ==
  ASSUME IInv, NEW at \in {"done", "failed", "crashed"}, customer'.at = at, customer'.best = customer.best
  PROVE  Agreed'
BY Zenon DEF IInv, Agreed

LEMMA AskingKeeps ==
  ASSUME IInv, RequestHash \/ (\E o \in Offer : ReceiveOffer(o)) \/ SelectOffer
  PROVE  IInv'
<1> USE Nones
<1>1. customer \in Request /\ oracle.hash \in Hashes /\ UNCHANGED <<now, relay, job, oracle, mint, approved>>
  BY Zenon DEF IInv, TypeOK, Oracle, RequestHash, ReceiveOffer, SelectOffer
<1>2. CASE RequestHash
  <2>1. /\ customer' \in Request /\ customer'.at = "notice" /\ customer'.hash = oracle.hash
        /\ customer'.best = customer.best /\ customer.at = "hash"
    BY <1>1, <1>2, Zenon DEF RequestHash, Customer, Request, CustomerAt
  <2>2. Agreed'
    BY <1>1, <2>1, Zenon DEF IInv, Agreed
  <2> QED BY <1>1, <2>1, <2>2, CustomerOnly, Zenon
<1>3. ASSUME NEW o \in Offer, ReceiveOffer(o)
      PROVE  IInv'
  <2>1. customer.at = "offers" /\ o.amount <= Budget
    BY <1>3, Zenon DEF ReceiveOffer, Customer
  <2>2. PICK b \in Offer \union {None} : /\ b = Cheapest(customer.best, o)
                                         /\ b # None => b.amount <= Budget
    BY <1>1, <2>1, Zenon DEF Cheapest, Request, IInv, Agreed
  <2>3. customer' = [customer EXCEPT !.offers = customer.offers \union {o}, !.best = b]
    BY <1>3, <2>2, Zenon DEF ReceiveOffer
  <2>4. /\ customer' \in Request /\ customer'.at = "offers" /\ customer'.hash = customer.hash
        /\ customer'.best = b
    BY <1>1, <2>1, <2>3, Zenon DEF Request
  <2>5. Agreed'
    BY <1>1, <2>1, <2>2, <2>4, Zenon DEF IInv, Agreed
  <2> QED BY <1>1, <2>4, <2>5, CustomerOnly, Zenon
<1>4. CASE SelectOffer
  <2>1. customer.at = "offers" /\ customer.best \in Offer /\ customer.best.amount <= Budget
    BY <1>1, <1>4, Zenon DEF SelectOffer, Customer, Request, IInv, Agreed
  <2>2. customer.hash \in Hashes /\ now + Duration \in 0..MaxTime
    BY <2>1, ExchangeAssumption DEF IInv, Agreed, TypeOK
  <2>3. PICK t \in Terms : /\ t = [to |-> customer.best.from, amount |-> customer.best.amount,
                                   hash |-> customer.hash, locktime |-> now + Duration]
                           /\ t.amount = customer.best.amount
    <3>1. customer.best.from \in Providers /\ customer.best.amount \in Amounts
      BY <2>1, Zenon DEF Offer
    <3>2. [to |-> customer.best.from, amount |-> customer.best.amount,
           hash |-> customer.hash, locktime |-> now + Duration] \in Terms
      BY <2>2, <3>1, Zenon DEF Terms
    <3> QED BY <3>2, Zenon
  <2>4. customer' = [customer EXCEPT !.at = "bind", !.terms = t]
    BY <1>4, <2>3, Zenon DEF SelectOffer
  <2>5. /\ customer' \in Request /\ customer'.at = "bind" /\ customer'.terms = t
        /\ customer'.best = customer.best
    BY <1>1, <2>4, Zenon DEF Request, CustomerAt
  <2>6. Agreed'
    BY <1>1, <2>1, <2>3, <2>5, Zenon DEF IInv, Agreed
  <2> QED BY <1>1, <2>5, <2>6, CustomerOnly, Zenon
<1> QED BY <1>2, <1>3, <1>4, Zenon

LEMMA EndingKeeps ==
  ASSUME IInv, (\E good \in BOOLEAN : ReceiveResult(good)) \/ RequestFails \/ CustomerCrashes
  PROVE  IInv'
<1>1. customer \in Request /\ UNCHANGED <<now, relay, job, oracle, mint, approved>>
  BY Zenon DEF IInv, TypeOK, ReceiveResult, RequestFails, CustomerCrashes
<1>2. \/ customer' = Thrown(customer)
      \/ customer' = [customer EXCEPT !.at = "done", !.recovery = TRUE]
      \/ customer' = [customer EXCEPT !.at = "crashed"]
  BY Zenon DEF ReceiveResult, RequestFails, CustomerCrashes
<1>3. /\ customer' \in Request /\ customer'.at \in {"done", "failed", "crashed"}
      /\ customer'.best = customer.best
  <2>1. CASE customer' = Thrown(customer)
    BY <1>1, <2>1, ThrownIs, Zenon
  <2>2. CASE customer' = [customer EXCEPT !.at = "done", !.recovery = TRUE]
    BY <1>1, <2>2, Zenon DEF Request, CustomerAt
  <2>3. CASE customer' = [customer EXCEPT !.at = "crashed"]
    BY <1>1, <2>3, Zenon DEF Request, CustomerAt
  <2> QED BY <1>2, <2>1, <2>2, <2>3, Zenon
<1> QED BY <1>1, <1>3, FailedAgreed, CustomerOnly, Zenon

\* A new event, all the rest as it was.
LEMMA PublishedKeeps ==
  ASSUME IInv, UNCHANGED <<now, job, oracle, mint, approved>>, customer' \in Request, Agreed',
         NEW e \in Event, Meant(e), relay' = relay \union {e} \/ relay' = relay
  PROVE  IInv'
<1>1. now' = now /\ job' = job /\ oracle' = oracle /\ mint' = mint /\ approved' = approved
  BY Zenon
<1>2. TypeOK'
  BY <1>1, Zenon DEF IInv, TypeOK
<1>3. \A f \in relay' : Meant(f)
  BY Zenon DEF IInv, Relayed
<1>4. Relayed'
  BY <1>1, <1>3, Zenon DEF Relayed, Meant
<1>5. Jobs' /\ Spent'
  BY <1>1 DEF IInv, Jobs, Sure, Spent
<1> QED BY <1>2, <1>4, <1>5, Zenon DEF IInv

LEMMA PublishingKeeps ==
  ASSUME IInv, PublishNotice \/ PublishSelection
  PROVE  IInv'
<1> USE Nones
<1>1. customer \in Request /\ UNCHANGED <<now, job, oracle, mint, approved>>
  BY Zenon DEF IInv, TypeOK, PublishNotice, PublishSelection
<1>2. CASE PublishNotice
  <2>1. /\ customer' \in Request /\ customer'.at = "offers" /\ customer'.hash = customer.hash
        /\ customer'.best = customer.best /\ customer.at = "notice"
    BY <1>1, <1>2, Zenon DEF PublishNotice, Customer, Request, CustomerAt
  <2>2. Agreed'
    BY <1>1, <2>1, Zenon DEF IInv, Agreed
  <2>3. PICK e \in Event : e = [type |-> "notice"] /\ Meant(e)
    <3>1. [type |-> "notice"] \in Event
      BY Zenon DEF Event
    <3> QED BY <3>1, Zenon DEF Meant
  <2>4. relay' = relay \union {e}
    BY <1>2, <2>3, Zenon DEF PublishNotice
  <2> QED BY <1>1, <2>1, <2>2, <2>3, <2>4, PublishedKeeps, Zenon
<1>3. CASE PublishSelection
  <2>1. /\ customer' \in Request /\ customer'.at = "result" /\ customer'.terms = customer.terms
        /\ customer'.best = customer.best /\ customer.at = "select"
    BY <1>1, <1>3, Zenon DEF PublishSelection, Customer, Request, CustomerAt
  <2>2. Agreed'
    BY <1>1, <2>1, Zenon DEF IInv, Agreed
  <2>3. PICK t \in Terms : t = customer.terms /\ mint # None /\ t = mint.terms /\ t.amount <= Budget
    BY <2>1, Zenon DEF IInv, Agreed
  <2>4. [type |-> "selection", terms |-> t] \in Event
    BY Zenon DEF Event
  <2>5. PICK e \in Event : e = [type |-> "selection", terms |-> t] /\ Meant(e)
    BY <2>3, <2>4, Zenon DEF Meant
  <2>6. relay' = relay \union {e} \/ relay' = relay
    BY <1>3, <2>3, <2>5, Zenon DEF PublishSelection, Publish
  <2> QED BY <1>1, <2>1, <2>2, <2>5, <2>6, PublishedKeeps, Zenon
<1> QED BY <1>2, <1>3, Zenon

\* The lock is made.  Nothing can have been said of one before.
LEMMA BindKeeps ==
  ASSUME IInv, BindProvider
  PROVE  IInv'
<1> USE Nones
<1>1. /\ customer \in Request /\ customer.at = "bind" /\ mint = None
      /\ customer.terms \in Terms /\ customer.terms.amount <= Budget
      /\ UNCHANGED <<now, relay, job, oracle, approved>>
  BY Zenon DEF BindProvider, Customer, IInv, TypeOK, Agreed
<1>2. PICK a \in Amounts :
       LET bound == [customer EXCEPT !.locked = TRUE] IN
       /\ mint' = [terms |-> [customer.terms EXCEPT !.amount = a], state |-> "unspent"]
       /\ \/ a = customer.terms.amount /\ customer' = [bound EXCEPT !.at = "select"]
          \/ customer' = Thrown(bound)
          \/ customer' = Thrown(customer)
  BY Zenon DEF BindProvider
<1>3. [customer.terms EXCEPT !.amount = a] \in Terms
  BY <1>1, Zenon DEF Terms
<1>4. mint' \in Lock /\ mint'.state = "unspent" /\ mint' # None
  BY <1>2, <1>3 DEF Lock
<1>5. PICK bound \in Request : /\ bound = [customer EXCEPT !.locked = TRUE]
                               /\ bound.best = customer.best /\ bound.terms = customer.terms
  <2> DEFINE b == [customer EXCEPT !.locked = TRUE]
  <2>1. b \in Request /\ b.best = customer.best /\ b.terms = customer.terms
    BY <1>1, Zenon DEF Request
  <2> QED BY <2>1, Zenon
<1>6. \/ /\ customer' \in Request /\ customer'.at = "failed" /\ customer'.best = customer.best
      \/ /\ customer' \in Request /\ customer'.at = "select" /\ customer'.best = customer.best
         /\ customer'.terms = customer.terms /\ mint'.terms = customer.terms
  <2>1. CASE customer' = Thrown(bound) \/ customer' = Thrown(customer)
    BY <1>1, <1>5, <2>1, ThrownIs, Zenon
  <2>2. CASE a = customer.terms.amount /\ customer' = [bound EXCEPT !.at = "select"]
    <3>1. [customer.terms EXCEPT !.amount = a] = customer.terms
      BY <1>1, <2>2, Zenon DEF Terms
    <3>2. /\ customer' \in Request /\ customer'.at = "select" /\ customer'.best = customer.best
          /\ customer'.terms = customer.terms
      BY <1>5, <2>2, Zenon DEF Request, CustomerAt
    <3> QED BY <1>2, <3>1, <3>2, Zenon
  <2> QED BY <1>2, <1>5, <2>1, <2>2, Zenon
<1>7. Agreed'
  BY <1>1, <1>4, <1>6, Zenon DEF IInv, Agreed
<1>8. TypeOK'
  BY <1>1, <1>4, <1>6, Zenon DEF IInv, TypeOK
<1>9. Relayed'
  <2>1. \A e \in relay : e.type # "selection"
    BY <1>1, Zenon DEF IInv, Relayed, Meant
  <2> QED BY <1>1, <2>1, Zenon DEF IInv, Relayed, Meant
<1>10. Jobs'
  <2> SUFFICES ASSUME NEW p \in Providers PROVE Sure(p)'
    BY Zenon DEF Jobs
  <2>1. Sure(p)
    BY Zenon DEF IInv, Jobs
  <2>2. /\ job[p].terms \notin Terms /\ job[p].preimage = None /\ job[p].at # "redeem"
        /\ job[p].at \notin {"hash", "terms", "state", "produce", "preimage", "redeem"}
        /\ job[p].hash # None => job[p].hash <= oracle.hash
    BY <1>1, <2>1, Zenon DEF Sure
  <2> QED BY <1>1, <2>2, Zenon DEF Sure
<1>11. Spent'
  BY <1>4, Zenon DEF Spent
<1> QED BY <1>7, <1>8, <1>9, <1>10, <1>11, Zenon DEF IInv

\* The lock is spent: it stays the lock that was agreed.
LEMMA LockSpentKeeps ==
  ASSUME IInv, mint \in Lock, mint' \in Lock, mint'.terms = mint.terms, Spent',
         UNCHANGED <<now, relay, customer, job, oracle, approved>>
  PROVE  IInv'
<1> USE Nones
<1>1. /\ now' = now /\ relay' = relay /\ customer' = customer /\ job' = job /\ oracle' = oracle
      /\ approved' = approved /\ mint # None /\ mint' # None
  BY Zenon
<1>2. TypeOK'
  BY <1>1, Zenon DEF IInv, TypeOK
<1>3. Agreed' /\ Relayed'
  BY <1>1, Zenon DEF IInv, Agreed, Relayed, Meant
<1>4. Jobs'
  BY <1>1 DEF IInv, Jobs, Sure
<1> QED BY <1>2, <1>3, <1>4, Zenon DEF IInv

LEMMA RefundKeeps ==
  ASSUME IInv, HostRefund
  PROVE  IInv'
<1>1. mint \in Lock /\ now >= mint.terms.locktime /\ UNCHANGED <<now, relay, customer, job, oracle, approved>>
  BY Zenon DEF HostRefund, IInv, TypeOK
<1>2. mint' \in Lock /\ mint'.terms = mint.terms /\ mint'.state = "refunded"
  BY <1>1, Zenon DEF HostRefund, Lock
<1>3. Spent'
  BY <1>1, <1>2, Zenon DEF Spent
<1> QED BY <1>1, <1>2, <1>3, LockSpentKeeps, Zenon

LEMMA TickKeeps ==
  ASSUME IInv, Tick
  PROVE  IInv'
<1>1. /\ now' = now + 1 /\ now < MaxTime /\ UNCHANGED <<relay, customer, job, oracle, mint, approved>>
      /\ customer.at \in {"hash", "notice", "offers"} => now < MaxTime - Duration
  BY Zenon DEF Tick
<1>2. now \in Nat /\ now' \in 0..MaxTime /\ now' >= now
  BY <1>1, ExchangeAssumption DEF IInv, TypeOK
<1>3. customer.at \in {"hash", "notice", "offers"} => now' + Duration <= MaxTime
  BY <1>1, <1>2, ExchangeAssumption
<1>4. customer' = customer /\ mint' = mint
  BY <1>1, Zenon
<1>5. TypeOK' /\ Agreed'
  BY <1>1, <1>2, <1>3, <1>4, Zenon DEF IInv, TypeOK, Agreed
<1> QED BY <1>1, <1>2, <1>5, OthersKeep, Zenon DEF IInv

-----------------------------------------------------------------------------
(* The Providers.                                                          *)

\* A Provider's step, with what it has made sure of after it.
LEMMA JobKeeps ==
  ASSUME IInv, NEW p \in Providers, NEW next \in Job, job' = [job EXCEPT ![p] = next],
         job[p].at \in Past => next.at \in Past /\ next.hash = job[p].hash,
         Sure(p)', Spent', mint' \in Lock \union {None}, mint' = mint \/ mint'.terms = mint.terms,
         (mint' = None) = (mint = None), UNCHANGED <<now, customer, oracle, approved>>,
         relay' \subseteq Event, \A e \in relay' : e \in relay \/ Meant(e)'
  PROVE  IInv'
<1> USE Nones
<1>1. now' = now /\ customer' = customer /\ oracle' = oracle /\ approved' = approved
  BY Zenon
<1>2. job' \in [Providers -> Job] /\ job'[p] = next /\ \A q \in Providers : q # p => job'[q] = job[q]
  BY Zenon DEF IInv, TypeOK
<1>3. TypeOK'
  BY <1>1, <1>2, Zenon DEF IInv, TypeOK
<1>4. Agreed'
  BY <1>1, Zenon DEF IInv, Agreed
<1>5. Jobs'
  <2> SUFFICES ASSUME NEW q \in Providers, q # p PROVE Sure(q)'
    BY Zenon DEF Jobs
  <2>1. Sure(q) /\ job'[q] = job[q]
    BY <1>2, Zenon DEF IInv, Jobs
  <2> QED BY <1>1, <2>1, Zenon DEF Sure
<1>6. ASSUME NEW q \in Providers, job[q].at \in Past
      PROVE  job'[q].at \in Past /\ job'[q].hash = job[q].hash
  BY <1>2, <1>6, Zenon
<1>7. ASSUME NEW e \in relay PROVE Meant(e)'
  <2>1. e \in Event /\ Meant(e)
    BY Zenon DEF IInv, TypeOK, Relayed
  <2>2. e.type = "result" => e.from \in Providers
    BY <2>1, Zenon DEF Event
  <2>3. e.type = "release" => e.to \in Providers
    BY <2>1, Zenon DEF Event
  <2>4. e.type = "selection" =>
          mint' # None /\ e.terms = mint'.terms /\ e.terms.amount <= Budget
    BY <2>1, Zenon DEF Meant
  <2>5. e.type = "result" => job'[e.from].at \in Past /\ job'[e.from].hash \in Hashes
    BY <1>6, <2>1, <2>2, Zenon DEF Meant
  <2>6. e.type = "release" /\ e.fits =>
          /\ e.to \in approved /\ job'[e.to].at \in Past /\ job'[e.to].hash \in Hashes
          /\ e.hash \in Hashes /\ job'[e.to].hash <= e.hash /\ e.hash <= oracle.hash
    BY <1>6, <2>1, <2>3, Zenon DEF Meant
  <2> QED BY <1>1, <2>4, <2>5, <2>6, Zenon DEF Meant
<1>8. Relayed'
  BY <1>7, Zenon DEF Relayed
<1> QED BY <1>3, <1>4, <1>5, <1>8, Zenon DEF IInv

\* A step with the mint as it was.
LEMMA JobOnlyKeeps ==
  ASSUME IInv, NEW p \in Providers, NEW next \in Job, job' = [job EXCEPT ![p] = next],
         job[p].at \notin {"paid", "over"},
         job[p].at \in Past => next.at \in Past /\ next.hash = job[p].hash,
         Sure(p)', UNCHANGED <<now, customer, oracle, mint, approved>>,
         relay' \subseteq Event, \A e \in relay' : e \in relay \/ Meant(e)'
  PROVE  IInv'
<1>1. mint \in Lock \union {None} /\ job \in [Providers -> Job]
  BY Zenon DEF IInv, TypeOK
<1>2. mint # None => mint.terms.to \in Providers
  BY <1>1, Zenon DEF Lock, Terms
<1>3. Spent'
  BY <1>1, <1>2, Zenon DEF IInv, Spent
<1> QED BY <1>1, <1>3, JobKeeps, Zenon

LEMMA OfferKeeps ==
  ASSUME IInv, NEW p \in Providers, NEW a \in Amounts, OfferJob(p, a)
  PROVE  IInv'
<1> USE Nones
<1>1. /\ job[p].at = "idle" /\ UNCHANGED <<now, customer, oracle, mint, approved>>
      /\ job' = [job EXCEPT ![p] = [job[p] EXCEPT !.at = "selection", !.amount = a]]
      /\ relay' = relay \union {[type |-> "offer", offer |-> [from |-> p, amount |-> a]]} \/ relay' = relay
  BY Zenon DEF OfferJob, JobStep, Publish
<1>2. job[p] \in Job /\ job \in [Providers -> Job] /\ relay \subseteq Event /\ Sure(p)
  BY Zenon DEF IInv, TypeOK, Jobs
<1>3. PICK next \in Job : /\ next = [job[p] EXCEPT !.at = "selection", !.amount = a]
                          /\ next.at = "selection" /\ next.terms = job[p].terms
                          /\ next.hash = job[p].hash /\ next.preimage = job[p].preimage
  <2> DEFINE n == [job[p] EXCEPT !.at = "selection", !.amount = a]
  <2>1. /\ n \in Job /\ n.at = "selection" /\ n.terms = job[p].terms
        /\ n.hash = job[p].hash /\ n.preimage = job[p].preimage
    BY <1>2, Zenon DEF Job, JobAt
  <2> QED BY <2>1, Zenon
<1>4. job'[p] = next /\ job' = [job EXCEPT ![p] = next]
  BY <1>1, <1>2, <1>3, Zenon
<1>5. Sure(p)'
  BY <1>1, <1>2, <1>3, <1>4, Zenon DEF Sure
<1>6. PICK e \in Event : /\ e = [type |-> "offer", offer |-> [from |-> p, amount |-> a]] /\ e.type = "offer"
  <2>1. [from |-> p, amount |-> a] \in Offer
    BY Zenon DEF Offer
  <2>2. [type |-> "offer", offer |-> [from |-> p, amount |-> a]] \in Event
    BY <2>1, Zenon DEF Event
  <2> QED BY <2>2, Zenon
<1>7. Meant(e)'
  BY <1>6, Zenon DEF Meant
<1>8. relay' \subseteq Event /\ \A f \in relay' : f \in relay \/ Meant(f)'
  BY <1>1, <1>2, <1>6, <1>7, Zenon
<1> QED BY <1>1, <1>3, <1>4, <1>5, <1>8, JobOnlyKeeps, Zenon DEF Past

LEMMA SelectionKeeps ==
  ASSUME IInv, NEW p \in Providers, NEW t \in Terms, ReceiveSelection(p, t)
  PROVE  IInv'
<1> USE Nones
<1>1. /\ job[p].at = "selection" /\ UNCHANGED <<now, relay, customer, oracle, mint, approved>>
      /\ t.to = p /\ [type |-> "selection", terms |-> t] \in relay
  BY Zenon DEF ReceiveSelection, JobStep
<1>2. job[p] \in Job /\ job \in [Providers -> Job] /\ relay \subseteq Event /\ Sure(p)
  BY Zenon DEF IInv, TypeOK, Jobs
<1>3. mint # None /\ t = mint.terms /\ t.amount <= Budget
  BY <1>1, Zenon DEF IInv, Relayed, Meant
<1>4. PICK at \in {"hash", "over"} : /\ job' = [job EXCEPT ![p] = [job[p] EXCEPT !.at = at, !.terms = t]]
                                     /\ at = "hash" => t.amount = job[p].amount
  BY Zenon DEF ReceiveSelection, JobStep
<1>5. PICK next \in Job : /\ next = [job[p] EXCEPT !.at = at, !.terms = t]
                          /\ next.at = at /\ next.terms = t /\ next.amount = job[p].amount
                          /\ next.hash = job[p].hash /\ next.preimage = job[p].preimage
  <2> DEFINE n == [job[p] EXCEPT !.at = at, !.terms = t]
  <2>1. /\ n \in Job /\ n.at = at /\ n.terms = t /\ n.amount = job[p].amount
        /\ n.hash = job[p].hash /\ n.preimage = job[p].preimage
    BY <1>2, Zenon DEF Job, JobAt
  <2> QED BY <2>1, Zenon
<1>6. job'[p] = next /\ job' = [job EXCEPT ![p] = next]
  BY <1>2, <1>4, <1>5, Zenon
<1>7. Sure(p)'
  BY <1>1, <1>2, <1>3, <1>4, <1>5, <1>6 DEF Sure
<1> QED BY <1>1, <1>2, <1>5, <1>6, <1>7, JobOnlyKeeps, Zenon DEF Past

\* A step that writes only where the job is.
LEMMA MovedIs ==
  ASSUME IInv, NEW p \in Providers, NEW at \in JobAt, job' = [job EXCEPT ![p] = [job[p] EXCEPT !.at = at]]
  PROVE  \E next \in Job : /\ job' = [job EXCEPT ![p] = next] /\ job'[p] = next
                           /\ next.at = at /\ next.terms = job[p].terms /\ next.amount = job[p].amount
                           /\ next.hash = job[p].hash /\ next.preimage = job[p].preimage
<1> DEFINE n == [job[p] EXCEPT !.at = at]
<1>1. job[p] \in Job /\ job \in [Providers -> Job]
  BY Zenon DEF IInv, TypeOK
<1>2. /\ n \in Job /\ n.at = at /\ n.terms = job[p].terms /\ n.amount = job[p].amount
      /\ n.hash = job[p].hash /\ n.preimage = job[p].preimage
  BY <1>1, Zenon DEF Job
<1>3. job' = [job EXCEPT ![p] = n]
  BY Zenon
<1> HIDE DEF n
<1> QED BY <1>1, <1>2, <1>3, Zenon

LEMMA ConfirmKeeps ==
  ASSUME IInv, NEW p \in Providers, ConfirmHash(p)
  PROVE  IInv'
<1> USE Nones
<1>1. /\ job[p].at = "hash" /\ UNCHANGED <<now, relay, customer, oracle, mint, approved>>
      /\ job' = [job EXCEPT ![p] = [job[p] EXCEPT !.at = "terms", !.hash = oracle.hash]]
  BY Zenon DEF ConfirmHash, JobStep
<1>2. /\ job[p] \in Job /\ job \in [Providers -> Job] /\ relay \subseteq Event /\ Sure(p)
      /\ oracle.hash \in Hashes
  BY Zenon DEF IInv, TypeOK, Jobs, Oracle
<1>3. PICK next \in Job : /\ next = [job[p] EXCEPT !.at = "terms", !.hash = oracle.hash]
                          /\ next.at = "terms" /\ next.terms = job[p].terms /\ next.amount = job[p].amount
                          /\ next.hash = oracle.hash /\ next.preimage = job[p].preimage
  <2> DEFINE n == [job[p] EXCEPT !.at = "terms", !.hash = oracle.hash]
  <2>1. /\ n \in Job /\ n.at = "terms" /\ n.terms = job[p].terms /\ n.amount = job[p].amount
        /\ n.hash = oracle.hash /\ n.preimage = job[p].preimage
    BY <1>2, Zenon DEF Job, JobAt
  <2> QED BY <2>1, Zenon
<1>4. job'[p] = next /\ job' = [job EXCEPT ![p] = next]
  BY <1>1, <1>2, <1>3, Zenon
<1>5. oracle' = oracle /\ mint' = mint /\ approved' = approved /\ oracle.hash \in Nat
  BY <1>1, <1>2, Zenon
<1>6. Sure(p)'
  BY <1>1, <1>2, <1>3, <1>4, <1>5 DEF Sure
<1> QED BY <1>1, <1>2, <1>3, <1>4, <1>6, JobOnlyKeeps, Zenon DEF Past

LEMMA CheckKeeps ==
  ASSUME IInv, NEW p \in Providers, CheckTerms(p) \/ CheckState(p) \/ JobEnds(p)
  PROVE  IInv'
<1> USE Nones
<1>1. /\ job[p].at \notin {"idle", "paid", "over"}
      /\ UNCHANGED <<now, relay, customer, oracle, mint, approved>>
  BY Zenon DEF CheckTerms, CheckState, JobEnds, JobStep
<1>2. job[p] \in Job /\ job \in [Providers -> Job] /\ relay \subseteq Event /\ Sure(p)
  BY Zenon DEF IInv, TypeOK, Jobs
<1>3. \E at \in JobAt : /\ job' = [job EXCEPT ![p] = [job[p] EXCEPT !.at = at]]
                        /\ \/ at = "over"
                           \/ at = "state" /\ job[p].at = "terms" /\ mint.terms.hash = job[p].hash
                           \/ at = "produce" /\ job[p].at = "state"
  <2>1. CASE CheckTerms(p)
    BY <2>1, Zenon DEF CheckTerms, JobStep, TermsHold, JobAt
  <2>2. CASE CheckState(p)
    BY <2>2, Zenon DEF CheckState, JobStep, JobAt
  <2>3. CASE JobEnds(p)
    BY <1>2, <2>3, Zenon DEF JobEnds, JobAt
  <2> QED BY <2>1, <2>2, <2>3, Zenon
<1>4. PICK at \in JobAt : /\ job' = [job EXCEPT ![p] = [job[p] EXCEPT !.at = at]]
                          /\ \/ at = "over"
                             \/ at = "state" /\ job[p].at = "terms" /\ mint.terms.hash = job[p].hash
                             \/ at = "produce" /\ job[p].at = "state"
  BY <1>3, Zenon
<1>5. PICK next \in Job : /\ job' = [job EXCEPT ![p] = next] /\ job'[p] = next
                          /\ next.at = at /\ next.terms = job[p].terms /\ next.amount = job[p].amount
                          /\ next.hash = job[p].hash /\ next.preimage = job[p].preimage
  BY <1>4, MovedIs, Zenon
<1>6. Sure(p)'
  BY <1>1, <1>2, <1>4, <1>5, Zenon DEF Sure
<1> QED BY <1>1, <1>2, <1>4, <1>5, <1>6, JobOnlyKeeps, Zenon DEF Past

LEMMA ProduceKeeps ==
  ASSUME IInv, NEW p \in Providers, NEW good \in BOOLEAN, ProduceResult(p, good)
  PROVE  IInv'
<1> USE Nones
<1>1. /\ job[p].at = "produce" /\ UNCHANGED <<now, customer, oracle, mint, approved>>
      /\ job' = [job EXCEPT ![p] = [job[p] EXCEPT !.at = "preimage"]]
      /\ relay' = relay \union {[type |-> "result", from |-> p, good |-> good]} \/ relay' = relay
  BY Zenon DEF ProduceResult, JobStep, Publish
<1>2. job[p] \in Job /\ job \in [Providers -> Job] /\ relay \subseteq Event /\ Sure(p)
  BY Zenon DEF IInv, TypeOK, Jobs
<1>3. PICK next \in Job : /\ job' = [job EXCEPT ![p] = next] /\ job'[p] = next
                          /\ next.at = "preimage" /\ next.terms = job[p].terms /\ next.amount = job[p].amount
                          /\ next.hash = job[p].hash /\ next.preimage = job[p].preimage
  BY <1>1, MovedIs, Zenon DEF JobAt
<1>4. Sure(p)'
  BY <1>1, <1>2, <1>3, Zenon DEF Sure
<1>5. PICK e \in Event : e = [type |-> "result", from |-> p, good |-> good]
  BY Zenon DEF Event
<1>6. Meant(e)'
  BY <1>1, <1>2, <1>3, <1>5, Zenon DEF Meant, Past, Sure
<1>7. relay' \subseteq Event /\ \A f \in relay' : f \in relay \/ Meant(f)'
  BY <1>1, <1>2, <1>5, <1>6, Zenon
<1> QED BY <1>1, <1>3, <1>4, <1>7, JobOnlyKeeps, Zenon DEF Past

LEMMA PreimageKeeps ==
  ASSUME IInv, NEW p \in Providers, ReceivePreimage(p)
  PROVE  IInv'
<1> USE Nones
<1>1. UNCHANGED <<now, relay, customer, oracle, mint, approved>>
  BY Zenon DEF ReceivePreimage
<1>2. PICK dm \in relay :
        /\ dm.type = "release" /\ dm.to = p /\ dm.fits /\ job[p].at = "preimage"
        /\ job' = [job EXCEPT ![p] = [job[p] EXCEPT
                     !.at = IF dm.hash = job[p].terms.hash THEN "redeem" ELSE "over",
                     !.preimage = dm.hash]]
  BY Zenon DEF ReceivePreimage, Releases, Readable, JobStep
<1>3. job[p] \in Job /\ job \in [Providers -> Job] /\ relay \subseteq Event /\ Sure(p)
  BY Zenon DEF IInv, TypeOK, Jobs
<1>4. /\ p \in approved /\ job[p].hash \in Hashes /\ dm.hash \in Hashes
      /\ job[p].hash <= dm.hash /\ dm.hash <= oracle.hash
  BY <1>2, Zenon DEF IInv, Relayed, Meant
<1>5. PICK at \in {"redeem", "over"} : job' = [job EXCEPT ![p] = [job[p] EXCEPT !.at = at, !.preimage = dm.hash]]
  BY <1>2, Zenon
<1>6. PICK next \in Job : /\ next = [job[p] EXCEPT !.at = at, !.preimage = dm.hash]
                          /\ next.at = at /\ next.terms = job[p].terms /\ next.amount = job[p].amount
                          /\ next.hash = job[p].hash /\ next.preimage = dm.hash
  <2> DEFINE n == [job[p] EXCEPT !.at = at, !.preimage = dm.hash]
  <2>1. /\ n \in Job /\ n.at = at /\ n.terms = job[p].terms /\ n.amount = job[p].amount
        /\ n.hash = job[p].hash /\ n.preimage = dm.hash
    BY <1>3, <1>4, Zenon DEF Job, JobAt, Preimages
  <2> QED BY <2>1, Zenon
<1>7. job'[p] = next /\ job' = [job EXCEPT ![p] = next]
  BY <1>3, <1>5, <1>6, Zenon
<1>8. /\ mint # None /\ mint.terms.hash = job[p].hash /\ job[p].hash <= oracle.hash
      /\ job[p].terms \in Terms /\ job[p].terms.amount = job[p].amount
      /\ job[p].terms = mint.terms /\ mint.terms.to = p /\ mint.terms.amount <= Budget
  BY <1>2, <1>3, <1>4, Zenon DEF Sure
<1>9. Sure(p)'
  BY <1>1, <1>4, <1>6, <1>7, <1>8, Zenon DEF Sure
<1>10. /\ job[p].at \notin {"paid", "over"} /\ next.at \in Past /\ relay' \subseteq Event
       /\ \A e \in relay' : e \in relay \/ Meant(e)'
  BY <1>1, <1>2, <1>3, <1>6, Zenon DEF Past
<1> QED BY <1>1, <1>6, <1>7, <1>9, <1>10, JobOnlyKeeps, Zenon

LEMMA RedeemKeeps ==
  ASSUME IInv, NEW p \in Providers, RedeemHtlc(p)
  PROVE  IInv'
<1> USE Nones
<1>1. job[p] \in Job /\ job \in [Providers -> Job] /\ relay \subseteq Event /\ Sure(p)
      /\ job[p].at = "redeem" /\ UNCHANGED <<now, relay, customer, oracle, approved>>
  BY Zenon DEF IInv, TypeOK, Jobs, RedeemHtlc, JobStep
<1>2. PICK at \in {"paid", "over"} :
        /\ job' = [job EXCEPT ![p] = [job[p] EXCEPT !.at = at]]
        /\ \/ mint.state = "unspent" /\ mint' = [mint EXCEPT !.state = "redeemed"]
           \/ UNCHANGED mint
  BY Zenon DEF RedeemHtlc, JobStep
<1>3. PICK next \in Job : /\ job' = [job EXCEPT ![p] = next] /\ job'[p] = next
                          /\ next.at = at /\ next.terms = job[p].terms /\ next.amount = job[p].amount
                          /\ next.hash = job[p].hash /\ next.preimage = job[p].preimage
  <2>1. at \in JobAt
    BY Zenon DEF JobAt
  <2> QED BY <1>2, <2>1, MovedIs, Zenon
<1>4. mint \in Lock /\ mint.terms.to = p /\ job[p].terms = mint.terms /\ mint.terms.amount <= Budget
  BY <1>1, Zenon DEF Sure, IInv, TypeOK
<1>5. mint' \in Lock /\ mint'.terms = mint.terms /\ (mint' = mint \/ mint'.state = "redeemed")
  BY <1>2, <1>4, Zenon DEF Lock
<1>6. Spent'
  BY <1>1, <1>3, <1>4, <1>5, Zenon DEF IInv, Spent
<1>7. mint' # None /\ mint # None
  BY <1>4, <1>5, Zenon
<1>8. Sure(p)'
  BY <1>1, <1>3, <1>4, <1>5, <1>7, Zenon DEF Sure
<1> QED BY <1>1, <1>3, <1>5, <1>6, <1>7, <1>8, JobKeeps, Zenon DEF Past

-----------------------------------------------------------------------------
(* The Oracle.                                                             *)

LEMMA OracleKeeps ==
  ASSUME IInv, NEW o \in Oracle, oracle' = o, o.hash >= oracle.hash, approved \subseteq approved',
         approved' \subseteq Providers, UNCHANGED <<now, customer, job, mint>>,
         relay' \subseteq Event, \A e \in relay' : e \in relay \/ Meant(e)'
  PROVE  IInv'
<1> USE Nones
<1>1. now' = now /\ customer' = customer /\ job' = job /\ mint' = mint
  BY Zenon
<1>2. oracle.hash \in Nat /\ o.hash \in Nat
  BY Zenon DEF IInv, TypeOK, Oracle
<1>3. TypeOK' /\ Agreed' /\ Spent'
  BY <1>1, Zenon DEF IInv, TypeOK, Agreed, Spent
<1>4. ASSUME NEW p \in Providers PROVE Sure(p)'
  <2>1. Sure(p) /\ job[p] \in Job
    BY Zenon DEF IInv, Jobs, TypeOK
  <2>2. job[p].hash # None => job[p].hash \in Nat
    BY <2>1, Zenon DEF Job
  <2>3. job[p].hash # None => job[p].hash <= oracle'.hash
    BY <1>2, <2>1, <2>2 DEF Sure
  <2>4. job[p].preimage # None => job[p].preimage <= oracle'.hash
    <3>1. job[p].preimage # None => job[p].preimage \in Nat /\ job[p].preimage <= oracle.hash
      BY <2>1, Zenon DEF Sure
    <3> QED BY <1>2, <3>1
  <2> QED BY <1>1, <2>1, <2>3, <2>4, Zenon DEF Sure
<1>5. ASSUME NEW e \in relay PROVE Meant(e)'
  <2>1. Meant(e)
    BY Zenon DEF IInv, Relayed
  <2>2. e.type = "release" /\ e.fits => e.hash \in Nat /\ e.hash <= oracle'.hash /\ e.to \in approved'
    <3>1. e.type = "release" /\ e.fits => e.hash \in Nat /\ e.hash <= oracle.hash /\ e.to \in approved
      BY <2>1, Zenon DEF Meant
    <3> QED BY <1>2, <3>1
  <2> QED BY <1>1, <2>1, <2>2, Zenon DEF Meant
<1>6. Relayed' /\ Jobs'
  BY <1>4, <1>5, Zenon DEF Relayed, Jobs
<1> QED BY <1>3, <1>6, Zenon DEF IInv

LEMMA OracleStepsKeep ==
  ASSUME IInv, OracleNext
  PROVE  IInv'
<1> USE Nones
<1>1. oracle \in Oracle /\ oracle.hash \in Hashes /\ oracle.hash \in Nat /\ relay \subseteq Event
      /\ approved \subseteq Providers
  BY Zenon DEF IInv, TypeOK, Oracle
<1>2. CASE OracleRestarts
  <2>1. PICK o \in Oracle : oracle' = o /\ o.hash = oracle.hash + 1
    <3>1. oracle.hash + 1 \in Hashes
      BY <1>1, <1>2, ExchangeAssumption DEF OracleRestarts, Hashes
    <3> DEFINE n == [hash |-> oracle.hash + 1, holds |-> TRUE, selected |-> None]
    <3>2. n \in Oracle /\ n.hash = oracle.hash + 1
      BY <3>1, Zenon DEF Oracle
    <3>3. oracle' = n
      BY <1>2, Zenon DEF OracleRestarts
    <3> HIDE DEF n
    <3> QED BY <3>2, <3>3, Zenon
  <2>2. o.hash >= oracle.hash
    BY <1>1, <2>1
  <2>3. UNCHANGED <<now, relay, customer, job, mint, approved>>
    BY <1>2, Zenon DEF OracleRestarts
  <2> QED BY <1>1, <2>1, <2>2, <2>3, OracleKeeps, Zenon
<1>3. ASSUME NEW p \in Providers, OracleSelects(p)
      PROVE  IInv'
  <2>1. PICK o \in Oracle : oracle' = o /\ o.hash = oracle.hash
    BY <1>1, <1>3 DEF OracleSelects, Oracle
  <2>2. UNCHANGED <<now, relay, customer, job, mint, approved>>
    BY <1>3, Zenon DEF OracleSelects
  <2>3. o.hash >= oracle.hash
    BY <1>1, <2>1
  <2> QED BY <1>1, <2>1, <2>2, <2>3, OracleKeeps, Zenon
<1>4. ASSUME NEW p \in Providers, NEW good \in BOOLEAN, OracleVerifies(p, good)
      PROVE  IInv'
  <2>1. PICK o \in Oracle : oracle' = o /\ o.hash = oracle.hash
    <3>1. PICK holds \in BOOLEAN : holds = (oracle.holds /\ ~good)
      BY Zenon
    <3>2. oracle' = [oracle EXCEPT !.selected = None, !.holds = holds]
      BY <1>1, <1>4, <3>1, Zenon DEF OracleVerifies, Oracle
    <3> DEFINE n == [oracle EXCEPT !.selected = None, !.holds = holds]
    <3>3. n \in Oracle /\ n.hash = oracle.hash
      BY <1>1, Zenon DEF Oracle
    <3> HIDE DEF n
    <3> QED BY <3>2, <3>3, Zenon DEF n
  <2>2. UNCHANGED <<now, customer, job, mint>> /\ [type |-> "result", from |-> p, good |-> good] \in relay
    BY <1>4, Zenon DEF OracleVerifies
  <2>3. job[p].at \in Past /\ job[p].hash \in Hashes /\ job[p].hash <= oracle.hash
    <3>1. job[p].at \in Past /\ job[p].hash \in Hashes
      BY <2>2, Zenon DEF IInv, Relayed, Meant
    <3> QED BY <3>1 DEF IInv, Jobs, Sure
  <2>4. o.hash >= oracle.hash
    BY <1>1, <2>1
  <2>5. CASE good
    <3>1. PICK bound \in BOOLEAN : bound = (ReleaseForm = "protocol")
      BY Zenon
    <3>2. PICK e \in Event : e = [type |-> "release", to |-> p, hash |-> oracle.hash,
                                  bound |-> bound, fits |-> TRUE]
      BY <1>1, Zenon DEF Event, Preimages
    <3>3. approved' = approved \union {p} /\ relay' = relay \union {e}
      BY <1>4, <2>5, <3>1, <3>2, Zenon DEF OracleVerifies
    <3>4. /\ e.type = "release" /\ e.to = p /\ e.hash = oracle.hash
      BY <3>2, Zenon
    <3>5. Meant(e)'
      BY <1>1, <2>1, <2>2, <2>3, <3>3, <3>4 DEF Meant
    <3> QED BY <1>1, <2>1, <2>2, <2>4, <3>3, <3>5, OracleKeeps, Zenon
  <2>6. CASE ~good
    <3>1. UNCHANGED <<relay, approved>>
      BY <1>4, <2>6, Zenon DEF OracleVerifies
    <3> QED BY <1>1, <2>1, <2>2, <2>4, <3>1, OracleKeeps, Zenon
  <2> QED BY <2>5, <2>6, Zenon
<1> QED BY <1>2, <1>3, <1>4, Zenon DEF OracleNext

-----------------------------------------------------------------------------
(* The theorems.                                                           *)

LEMMA StepKeeps == IInv /\ [Next]_vars => IInv'
<1> SUFFICES ASSUME IInv, [Next]_vars PROVE IInv'
  BY Zenon
<1>1. CASE CustomerNext
  BY <1>1, AskingKeeps, EndingKeeps, PublishingKeeps, BindKeeps, Zenon DEF CustomerNext
<1>2. CASE HostRefund \/ OracleNext \/ Tick
  BY <1>2, RefundKeeps, OracleStepsKeep, TickKeeps, Zenon
<1>3. ASSUME NEW p \in Providers, JobNext(p)
      PROVE  IInv'
  BY <1>3, ConfirmKeeps, CheckKeeps, PreimageKeeps, RedeemKeeps, OfferKeeps, SelectionKeeps, ProduceKeeps, Zenon
     DEF JobNext
<1>4. CASE UNCHANGED vars
  <2>1. customer' \in Request /\ Agreed' /\ UNCHANGED <<now, relay, job, oracle, mint, approved>>
    BY <1>4, Zenon DEF vars, IInv, TypeOK, Agreed
  <2> QED BY <2>1, CustomerOnly, Zenon
<1> QED BY <1>1, <1>2, <1>3, <1>4, Zenon DEF Next

LEMMA Inductive == Spec => []IInv
<1>1. Init => IInv
  BY InitInv, Zenon
<1>2. IInv /\ [Next]_vars => IInv'
  BY StepKeeps, Zenon
<1> QED BY <1>1, <1>2, PTL DEF Spec

\* The types of the four roles' state.
THEOREM ExchangeTyped == Spec => []TypeOK
<1>1. IInv => TypeOK
  BY Zenon DEF IInv
<1> QED BY <1>1, Inductive, PTL

\* verifyProviderPaymentLock: a Provider works only under a lock that is made
\* for it, under the hash confirmed to it, and that nobody else can have spent
\* before the locktime.
THEOREM WorkCovered == Spec => []WorkIsCovered
<1>1. IInv => WorkIsCovered
  <2> SUFFICES ASSUME IInv, NEW p \in Providers, job[p].at \in {"produce", "preimage", "redeem"},
                      now < job[p].terms.locktime
               PROVE  /\ mint # None /\ mint.state = "unspent"
                      /\ mint.terms.to = p /\ mint.terms.hash = job[p].hash
                      /\ mint.terms.amount = job[p].amount /\ mint.terms.amount <= Budget
    BY Zenon DEF WorkIsCovered
  <2>1. /\ mint # None /\ mint.terms.to = p /\ mint.terms.hash = job[p].hash
        /\ mint.terms.amount = job[p].amount /\ mint.terms.amount <= Budget
        /\ job[p].terms = mint.terms
    BY Zenon DEF IInv, Jobs, Sure
  <2>2. mint \in Lock /\ mint.terms.locktime \in Nat /\ now \in Nat
    BY <2>1, ExchangeAssumption DEF IInv, TypeOK, Lock, Terms
  <2>3. mint.state = "unspent"
    BY <2>1, <2>2 DEF IInv, Spent, Lock
  <2> QED BY <2>1, <2>3, Zenon
<1> QED BY <1>1, Inductive, PTL

\* waitForPreimage: the preimage a Provider settles for opens its lock, unless
\* the Oracle has lost the commitment it confirmed.
THEOREM ReleaseOpens == Spec => []AcceptedReleaseOpens
<1>1. IInv => AcceptedReleaseOpens
  <2> SUFFICES ASSUME IInv, NEW p \in Providers, job[p].preimage # None, oracle.hash = job[p].hash
               PROVE  job[p].preimage = mint.terms.hash
    BY Zenon DEF AcceptedReleaseOpens
  <2>1. /\ mint.terms.hash = job[p].hash /\ job[p].hash \in Nat /\ job[p].preimage \in Nat
        /\ job[p].hash <= job[p].preimage /\ job[p].preimage <= oracle.hash
    BY Nones, Zenon DEF IInv, Jobs, Sure
  <2> QED BY <2>1
<1> QED BY <1>1, Inductive, PTL


-----------------------------------------------------------------------------
(* The refinement of PaidExchange.                                         *)

\* Nothing the promise is about changes.
LEMMA Unseen ==
  ASSUME UNCHANGED <<now, mint, approved>>
  PROVE  UNCHANGED Paid!vars
BY Zenon DEF Paid!vars

LEMMA Locks ==
  ASSUME IInv, BindProvider
  PROVE  Paid!Next
<1> USE Nones
<1>1. mint = None /\ customer.terms \in Terms /\ UNCHANGED approved
  BY Zenon DEF IInv, Agreed, BindProvider, Customer
<1>2. PICK a \in Amounts : mint' = [terms |-> [customer.terms EXCEPT !.amount = a], state |-> "unspent"]
  BY Zenon DEF BindProvider
<1>3. /\ mint' \in Lock /\ mint'.state = "unspent" /\ mint'.terms.to = customer.terms.to
      /\ customer.terms.to \in Providers
  BY <1>1, <1>2, Zenon DEF Lock, Terms
<1>4. mint' # None
  BY <1>3, Zenon
<1>5. (mint' # None /\ now' >= mint'.terms.locktime) \in BOOLEAN
  BY Zenon
<1>6. Paid!Lock(customer.terms.to)
  BY <1>1, <1>3, <1>4, <1>5, Zenon DEF Paid!Lock
<1> QED BY <1>3, <1>6, Zenon DEF Paid!Next

\* A lock that is spent keeps its terms.
LEMMA SpentIs ==
  ASSUME IInv, NEW state \in {"redeemed", "refunded"}, mint \in Lock, mint' = [mint EXCEPT !.state = state]
  PROVE  mint' # None /\ mint'.state = state /\ mint'.terms = mint.terms
<1>1. mint' \in Lock /\ mint'.state = state /\ mint'.terms = mint.terms
  BY Zenon DEF Lock
<1> QED BY <1>1, Nones, Zenon

LEMMA Refunds ==
  ASSUME IInv, HostRefund
  PROVE  Paid!Next
<1> USE Nones
<1>1. /\ mint # None /\ mint \in Lock /\ mint.state = "unspent" /\ now >= mint.terms.locktime
      /\ mint' = [mint EXCEPT !.state = "refunded"] /\ now' = now /\ approved' = approved
  BY Zenon DEF IInv, TypeOK, HostRefund
<1>2. mint' # None /\ mint'.state = "refunded" /\ mint'.terms = mint.terms
  BY <1>1, SpentIs, Zenon
<1>3. Paid!Refund
  BY <1>1, <1>2 DEF Paid!Refund
<1> QED BY <1>3, Zenon DEF Paid!Next

LEMMA Redeems ==
  ASSUME IInv, NEW p \in Providers, RedeemHtlc(p)
  PROVE  [Paid!Next]_Paid!vars
<1> USE Nones
<1>1. job[p].at = "redeem" /\ now' = now /\ approved' = approved
  BY Zenon DEF RedeemHtlc, JobStep
<1>2. mint # None /\ mint \in Lock /\ mint.terms.to = p /\ p \in approved
  BY <1>1, Zenon DEF IInv, TypeOK, Jobs, Sure
<1>3. CASE mint.state = "unspent" /\ mint' = [mint EXCEPT !.state = "redeemed"]
  <2>1. mint' # None /\ mint'.state = "redeemed" /\ mint'.terms = mint.terms
    BY <1>2, <1>3, SpentIs, Zenon
  <2>2. Paid!Redeem
    BY <1>1, <1>2, <1>3, <2>1 DEF Paid!Redeem
  <2> QED BY <2>2, Zenon DEF Paid!Next
<1>4. CASE UNCHANGED mint
  BY <1>1, <1>4, Unseen, Zenon
<1> QED BY <1>3, <1>4, Zenon DEF RedeemHtlc

LEMMA Verifies ==
  ASSUME NEW p \in Providers, NEW good \in BOOLEAN, OracleVerifies(p, good)
  PROVE  [Paid!Next]_Paid!vars
<1>1. now' = now /\ mint' = mint /\ (approved' = approved \/ approved' = approved \union {p})
  BY Zenon DEF OracleVerifies
<1>2. CASE approved' = approved
  BY <1>1, <1>2, Unseen, Zenon
<1>3. CASE approved' = approved \union {p}
  <2>1. Paid!Verify(p)
    BY <1>1, <1>3, Zenon DEF Paid!Verify
  <2> QED BY <2>1, Zenon DEF Paid!Next
<1> QED BY <1>1, <1>2, <1>3, Zenon

LEMMA Expires ==
  ASSUME IInv, Tick
  PROVE  [Paid!Next]_Paid!vars
<1> USE Nones
<1>1. now \in Nat /\ now' = now + 1 /\ mint' = mint /\ approved' = approved
  BY ExchangeAssumption DEF IInv, TypeOK, Tick
<1>2. mint # None => mint.terms.locktime \in Nat
  BY ExchangeAssumption DEF IInv, TypeOK, Lock, Terms
<1>3. CASE mint # None /\ now' >= mint.terms.locktime
  <2>1. mint.state \in {"unspent", "redeemed", "refunded"}
    BY <1>3, Zenon DEF IInv, TypeOK, Lock
  <2>2. Paid!Expire
    BY <1>1, <1>3, <2>1, Zenon DEF Paid!Expire
  <2> QED BY <2>2, Zenon DEF Paid!Next
<1>4. CASE ~(mint # None /\ now' >= mint.terms.locktime)
  <2>1. ~(mint # None /\ now >= mint.terms.locktime)
    BY <1>1, <1>2, <1>4
  <2>2. (mint' # None /\ now' >= mint'.terms.locktime) = (mint # None /\ now >= mint.terms.locktime)
    BY <1>1, <1>4, <2>1, Zenon
  <2> QED BY <1>1, <2>2, Zenon DEF Paid!vars
<1> QED BY <1>3, <1>4, Zenon

LEMMA StepRefines == IInv /\ [Next]_vars => [Paid!Next]_Paid!vars
<1> SUFFICES ASSUME IInv, [Next]_vars PROVE [Paid!Next]_Paid!vars
  BY Zenon
<1>1. CASE UNCHANGED <<now, mint, approved>>
  BY <1>1, Unseen, Zenon
<1>2. CASE BindProvider
  BY <1>2, Locks, Zenon
<1>3. CASE CustomerNext /\ ~BindProvider
  BY <1>1, <1>3, Zenon DEF CustomerNext, RequestHash, PublishNotice, SelectOffer, PublishSelection, RequestFails,
                    CustomerCrashes, ReceiveOffer, ReceiveResult
<1>4. CASE HostRefund
  BY <1>4, Refunds, Zenon
<1>5. CASE OracleNext
  BY <1>1, <1>5, Verifies, Zenon DEF OracleNext, OracleRestarts, OracleSelects
<1>6. CASE Tick
  BY <1>6, Expires, Zenon
<1>7. ASSUME NEW p \in Providers, JobNext(p)
      PROVE  [Paid!Next]_Paid!vars
  BY <1>1, <1>7, Redeems, Zenon DEF JobNext, ConfirmHash, CheckTerms, CheckState, ReceivePreimage, JobEnds,
                             OfferJob, ReceiveSelection, ProduceResult
<1>8. CASE UNCHANGED vars
  BY <1>1, <1>8, Zenon DEF vars
<1> QED BY <1>2, <1>3, <1>4, <1>5, <1>6, <1>7, <1>8, Zenon DEF Next

\* The Customer, the Providers, the Oracle and the mint together keep the
\* promise of specs/paid-request-exchange.md: the lock pays the Provider it is
\* made for after the Oracle verified that Provider's work, or goes back to the
\* Customer after the locktime, never both.
THEOREM ExchangeIsPaid == Spec => KeepsPromise
<1>1. Init => Paid!Init
  BY Zenon DEF Init, Paid!Init
<1> QED BY <1>1, InitInv, StepKeeps, StepRefines, PTL DEF Spec, KeepsPromise, Paid!Spec
=============================================================================
