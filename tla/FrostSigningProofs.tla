------------------------- MODULE FrostSigningProofs -------------------------
(***************************************************************************)
(* No FROST nonce makes two shares, and the two signing rounds implement   *)
(* ThresholdSigning, for every number of nodes, queries, coordinators,     *)
(* concurrent requests and repeated deliveries.                            *)
(***************************************************************************)
EXTENDS FrostSigning, WellFoundedInduction, FiniteSetTheorems, TLAPS

\* Min of FiniteSetsExt picks a member: the next peer to ask is a peer.
LEMMA MinIn ==
  ASSUME NEW S \in SUBSET Nat, S # {}
  PROVE  Min(S) \in S
<1> DEFINE R == OpToRel(<, Nat)
<1>1. IsWellFoundedOn(R, Nat)
  BY NatLessThanWellFounded, Zenon
<1>2. \A x, y \in Nat : <<x, y>> \in R <=> x < y
  BY Zenon DEF OpToRel
<1> HIDE DEF R
<1>3. PICK x \in S : \A y \in S : ~(<<y, x>> \in R)
  BY <1>1, WFMin, Zenon
<1>4. \A y \in S : ~(y < x)
  <2> TAKE y \in S
  <2>1. x \in Nat /\ y \in Nat
    BY Zenon
  <2> QED BY <1>2, <1>3, <2>1, Zenon
<1> HIDE <1>2
<1>5. ASSUME NEW y \in S PROVE x <= y
  <2>1. ~(y < x)
    BY <1>4, Zenon
  <2>2. x \in Nat /\ y \in Nat
    BY Zenon
  <2> QED BY <2>1, <2>2, SMT
<1> QED BY <1>5, Zenon DEF Min

-----------------------------------------------------------------------------
(* The inductive invariant.                                                *)

\* What a suspended call has in hand at each await.
GoodCall(call) ==
  /\ call \in Call
  /\ call.at # "round1" => call.own \in Nonce
  /\ call.at = "peer1" => call.asked \in Request /\ call.asked.round = 1
  /\ call.at = "peer2" => /\ call.asked \in Request /\ call.asked.round = 2
                          /\ call.asked.nonce \in Nonce
                          /\ call.rest \subseteq NodesOf(call.participating)

GoodJob(job) ==
  /\ job \in Job
  /\ job.at \in {"verify", "commit"} => job.req.round = 1
  /\ job.at = "sign" => job.req.round = 2 /\ job.req.nonce \in Nonce

GoodAnswer(a) == a \in Answer /\ (a.ok /\ a.req.round = 1 => a.nonce \in Nonce)

Typed ==
  /\ TypeOK
  /\ \A c \in Coordinators : calls[c] # None => GoodCall(calls[c])
  /\ \A j \in Jobs : jobs[j] # None => GoodJob(jobs[j])
  /\ \A a \in answers : GoodAnswer(a)

\* The places a nonce that may still sign, or has signed, can be in.
Old(k) == k[2] <= drawn[k[1]]
Signing(j) == jobs[j] # None /\ jobs[j].at = "sign"
Keeps(c) == calls[c] # None /\ calls[c].at \in {"peer1", "round2"}

\* Every nonce in one of them was drawn.
Drawn ==
  /\ \A e \in pending : Old(e.nonce)
  /\ \A s \in shares : Old(s.nonce)
  /\ \A j \in Jobs : Signing(j) => Old(jobs[j].req.nonce)
  /\ \A c \in Coordinators : Keeps(c) => Old(calls[c].own)

\* And it is in no other place.
ApartStored ==
  /\ \A e, f \in pending : e.nonce = f.nonce => e = f
  /\ \A s, t \in shares : s.nonce = t.nonce => s = t
  /\ \A e \in pending, s \in shares : e.nonce # s.nonce

ApartJobs ==
  /\ \A i, j \in Jobs : Signing(i) /\ Signing(j) /\ jobs[i].req.nonce = jobs[j].req.nonce => i = j
  /\ \A e \in pending, j \in Jobs : Signing(j) => e.nonce # jobs[j].req.nonce
  /\ \A s \in shares, j \in Jobs : Signing(j) => s.nonce # jobs[j].req.nonce

ApartCalls ==
  /\ \A c, d \in Coordinators : Keeps(c) /\ Keeps(d) /\ calls[c].own = calls[d].own => c = d
  /\ \A e \in pending, c \in Coordinators : Keeps(c) => e.nonce # calls[c].own
  /\ \A s \in shares, c \in Coordinators : Keeps(c) => s.nonce # calls[c].own
  /\ \A j \in Jobs, c \in Coordinators :
       Signing(j) /\ Keeps(c) => jobs[j].req.nonce # calls[c].own

Apart == ApartStored /\ ApartJobs /\ ApartCalls

IInv == Typed /\ Drawn /\ Apart

LEMMA InitInv == Init => IInv
<1> SUFFICES ASSUME Init PROVE IInv
  BY Zenon
<1> USE FrostAssumption
<1>1. TypeOK
  BY DEF Init, TypeOK
<1> QED BY <1>1, Zenon DEF Init, IInv, Typed, Drawn, Apart, ApartStored, ApartJobs, ApartCalls, Signing, Keeps

-----------------------------------------------------------------------------
(* Types.                                                                  *)

\* Respond: the handler is gone and the answers stay good.
LEMMA RespondTyped ==
  ASSUME Typed, NEW j \in Jobs, NEW req \in Request, NEW ok \in BOOLEAN,
         NEW nonce \in Nonce \union {None}, ok /\ req.round = 1 => nonce \in Nonce,
         Respond(j, req, ok, nonce)
  PROVE  /\ jobs' = [jobs EXCEPT ![j] = None]
         /\ answers' \subseteq Answer /\ \A a \in answers' : GoodAnswer(a)
<1> DEFINE new == [req |-> req, ok |-> ok, nonce |-> nonce]
<1>1. new \in Answer /\ new.ok = ok /\ new.req = req /\ new.nonce = nonce
  BY Zenon DEF Answer
<1>2. GoodAnswer(new)
  BY <1>1, Zenon DEF GoodAnswer
<1>3. answers' = answers \/ answers' = answers \union {new}
  BY Zenon DEF Respond
<1> HIDE DEF new
<1> QED BY <1>1, <1>2, <1>3, Zenon DEF Respond, Typed, TypeOK

\* A job slot is written: the others stay good.
LEMMA JobsTyped ==
  ASSUME Typed, NEW j \in Jobs, NEW v, v = None \/ GoodJob(v),
         jobs' = [jobs EXCEPT ![j] = v]
  PROVE  jobs' \in [Jobs -> Job \union {None}] /\ \A i \in Jobs : jobs'[i] # None => GoodJob(jobs'[i])
<1>1. v \in Job \union {None}
  BY Zenon DEF GoodJob
<1>2. jobs \in [Jobs -> Job \union {None}]
  BY Zenon DEF Typed, TypeOK
<1> QED BY <1>1, <1>2, Zenon DEF Typed

\* A coordinator's call is written: the others stay good.
LEMMA CallsTyped ==
  ASSUME Typed, NEW c \in Coordinators, NEW v, v = None \/ GoodCall(v),
         calls' = [calls EXCEPT ![c] = v]
  PROVE  /\ calls' \in [Coordinators -> Call \union {None}]
         /\ \A d \in Coordinators : calls'[d] # None => GoodCall(calls'[d])
<1>1. v \in Call \union {None}
  BY Zenon DEF GoodCall
<1>2. calls \in [Coordinators -> Call \union {None}]
  BY Zenon DEF Typed, TypeOK
<1> QED BY <1>1, <1>2, Zenon DEF Typed

\* A POST to a peer: the call waits for a request that is well formed.
LEMMA AskPeerTyped ==
  ASSUME Typed, NEW c \in Coordinators, NEW call \in Call, NEW await \in {"peer1", "peer2"},
         NEW req \in Request, call.own \in Nonce, AskPeer(c, call, await, req),
         await = "peer1" => req.round = 1,
         await = "peer2" => /\ req.round = 2 /\ req.nonce \in Nonce
                            /\ call.rest \subseteq NodesOf(call.participating)
  PROVE  /\ sent' \subseteq Request
         /\ \E v : /\ calls' = [calls EXCEPT ![c] = v] /\ GoodCall(v)
                   /\ v.at = await /\ v.own = call.own
<1> DEFINE v == [call EXCEPT !.at = await, !.rest = @ \ {req.to}, !.asked = req]
<1>1. v \in Call
  BY Zenon DEF Call
<1>2. /\ v.at = await /\ v.own = call.own /\ v.asked = req /\ v.rest = call.rest \ {req.to}
      /\ v.participating = call.participating
  BY Zenon DEF Call
<1>3. calls' = [calls EXCEPT ![c] = v] /\ sent' = sent \union {req}
  BY Zenon DEF AskPeer, Suspend
<1> HIDE DEF v
<1>4. GoodCall(v)
  BY <1>1, <1>2, Zenon DEF GoodCall
<1> QED BY <1>2, <1>3, <1>4, Zenon DEF Typed, TypeOK

\* coordinateSigning, round 1: the call waits for a peer or goes on with its own
\* nonce unused.
LEMMA Round1LoopTyped ==
  ASSUME Typed, NEW c \in Coordinators, NEW call \in Call, call.own \in Nonce,
         NEW looks \in BOOLEAN, Round1Loop(c, call, looks)
  PROVE  /\ sent' \subseteq Request
         /\ \E v : /\ calls' = [calls EXCEPT ![c] = v]
                   /\ v = None \/ (GoodCall(v) /\ v.at \in {"peer1", "round2"} /\ v.own = call.own)
<1> DEFINE req == [round |-> 1, id |-> call.own, to |-> Min(call.rest), q |-> call.q,
                   msg |-> MessageOf(call), nonce |-> None, commitments |-> {}]
           next == [call EXCEPT !.at = "round2", !.asked = None]
<1>1. CASE AskPeer(c, call, "peer1", req) /\ call.rest # {}
  <2>1. call.rest \subseteq Nodes /\ call.rest \in SUBSET Nat
    BY FrostAssumption, Zenon DEF Call
  <2>2. Min(call.rest) \in Nodes
    BY <1>1, <2>1, MinIn, Zenon
  <2>3. MessageOf(call) \in Message
    BY Zenon DEF Call, MessageOf, Message
  <2>4. req \in Request /\ req.round = 1
    BY <2>2, <2>3, Zenon DEF Request, Call
  <2> HIDE DEF req
  <2> QED BY <1>1, <2>4, AskPeerTyped
<1>2. CASE Return(c) /\ UNCHANGED sent
  BY <1>2, Zenon DEF Return, Typed, TypeOK
<1>3. CASE Suspend(c, next) /\ UNCHANGED sent
  <2>1. next \in Call /\ next.at = "round2" /\ next.own = call.own
    BY Zenon DEF Call
  <2>2. calls' = [calls EXCEPT ![c] = next]
    BY <1>3, Zenon DEF Suspend
  <2> HIDE DEF next
  <2>3. GoodCall(next)
    BY <2>1, Zenon DEF GoodCall
  <2> QED BY <1>3, <2>1, <2>2, <2>3, Zenon DEF Typed, TypeOK
<1> QED BY <1>1, <1>2, <1>3, Zenon DEF Round1Loop

\* coordinateSigning, round 2: the call waits for a participating peer, goes on
\* to aggregate, or ends.
LEMMA Round2LoopTyped ==
  ASSUME Typed, NEW c \in Coordinators, NEW call \in Call, call.own \in Nonce,
         call.rest \subseteq NodesOf(call.participating), Round2Loop(c, call)
  PROVE  /\ sent' \subseteq Request
         /\ \E v : /\ calls' = [calls EXCEPT ![c] = v]
                   /\ v = None \/ (GoodCall(v) /\ v.at \in {"peer2", "aggregate"})
<1> DEFINE k == CHOOSE k \in call.participating : k[1] = Min(call.rest)
           req == [round |-> 2, id |-> call.own, to |-> k[1], q |-> call.q,
                   msg |-> MessageOf(call), nonce |-> k, commitments |-> call.commitments]
           next == [call EXCEPT !.at = "aggregate", !.asked = None]
<1>1. CASE AskPeer(c, call, "peer2", req) /\ call.rest # {}
  <2>1. call.rest \in SUBSET Nat
    BY FrostAssumption, Zenon DEF Call
  <2>2. Min(call.rest) \in NodesOf(call.participating)
    BY <1>1, <2>1, MinIn, Zenon
  <2>3. \E n \in call.participating : n[1] = Min(call.rest)
    BY <2>2, Zenon DEF NodesOf
  <2>4. k \in call.participating
    BY <2>3, Zenon
  <2>5. call.participating \subseteq Nonce /\ call.commitments \subseteq Nonce /\ call.q \in Queries
    BY Zenon DEF Call
  <2> HIDE DEF k
  <2>6. k \in Nonce /\ k[1] \in Nodes
    BY <2>4, <2>5, Zenon DEF Nonce
  <2>7. MessageOf(call) \in Message
    BY Zenon DEF Call, MessageOf, Message
  <2>8. req \in Request /\ req.round = 2 /\ req.nonce = k
    BY <2>5, <2>6, <2>7, Zenon DEF Request
  <2> HIDE DEF req
  <2> QED BY <1>1, <2>6, <2>8, AskPeerTyped, Zenon
<1>2. CASE Return(c) /\ UNCHANGED sent
  BY <1>2, Zenon DEF Return, Typed, TypeOK
<1>3. CASE Suspend(c, next) /\ UNCHANGED sent
  <2>1. next \in Call /\ next.at = "aggregate" /\ next.own = call.own
    BY Zenon DEF Call
  <2>2. calls' = [calls EXCEPT ![c] = next]
    BY <1>3, Zenon DEF Suspend
  <2> HIDE DEF next
  <2>3. GoodCall(next)
    BY <2>1, Zenon DEF GoodCall
  <2> QED BY <1>3, <2>1, <2>2, <2>3, Zenon DEF Typed, TypeOK
<1> QED BY <1>1, <1>2, <1>3, Zenon DEF Round2Loop

-----------------------------------------------------------------------------
(* Nonces.                                                                 *)

\* A coordinator's call moves on with the nonce it had, or without one.
LEMMA CallMoves ==
  ASSUME IInv, NEW c \in Coordinators, NEW v, calls' = [calls EXCEPT ![c] = v],
         v # None /\ v.at \in {"peer1", "round2"} => Keeps(c) /\ v.own = calls[c].own,
         UNCHANGED <<jobs, drawn, pending, shares>>
  PROVE  Drawn' /\ Apart'
<1>1. calls \in [Coordinators -> Call \union {None}]
  BY Zenon DEF IInv, Typed, TypeOK
<1>2. \A d \in Coordinators : Keeps(d)' => Keeps(d) /\ calls'[d].own = calls[d].own
  BY <1>1, Zenon DEF Keeps
<1>3. \A j \in Jobs : Signing(j)' = Signing(j) /\ jobs'[j] = jobs[j]
  BY Zenon DEF Signing
<1>4. Drawn'
  BY <1>2, <1>3, Zenon DEF IInv, Drawn, Old
<1>5. Apart'
  <2>1. ApartStored'
    BY <1>2, <1>3, Zenon DEF IInv, Apart, ApartStored
  <2>2. ApartJobs'
    BY <1>2, <1>3, Zenon DEF IInv, Apart, ApartJobs
  <2>3. ApartCalls'
    BY <1>2, <1>3 DEF IInv, Apart, ApartCalls
  <2> QED BY <2>1, <2>2, <2>3, Zenon DEF Apart
<1> QED BY <1>4, <1>5, Zenon

\* A peer's handler goes on or ends without beginning to sign; nonces may be
\* deleted.
LEMMA JobMoves ==
  ASSUME IInv, NEW j \in Jobs, NEW v, jobs' = [jobs EXCEPT ![j] = v],
         v = None \/ v.at # "sign", pending' \subseteq pending,
         UNCHANGED <<calls, drawn, shares>>
  PROVE  Drawn' /\ Apart'
<1>1. jobs \in [Jobs -> Job \union {None}]
  BY Zenon DEF IInv, Typed, TypeOK
<1>2. \A i \in Jobs : Signing(i)' => Signing(i) /\ jobs'[i] = jobs[i]
  BY <1>1, Zenon DEF Signing
<1>3. \A c \in Coordinators : Keeps(c)' = Keeps(c) /\ calls'[c] = calls[c]
  BY Zenon DEF Keeps
<1>4. Drawn'
  BY <1>2, <1>3, Zenon DEF IInv, Drawn, Old
<1>5. Apart'
  <2>1. ApartStored'
    BY <1>2, <1>3, Zenon DEF IInv, Apart, ApartStored
  <2>2. ApartJobs'
    BY <1>2, <1>3 DEF IInv, Apart, ApartJobs
  <2>3. ApartCalls'
    BY <1>2, <1>3 DEF IInv, Apart, ApartCalls
  <2> QED BY <2>1, <2>2, <2>3, Zenon DEF Apart
<1> QED BY <1>4, <1>5, Zenon

\* A nonce that is drawn is in no place yet, and the others stay drawn.
LEMMA FreshIsNew ==
  ASSUME IInv, NEW n \in Nodes, drawn' = [drawn EXCEPT ![n] = @ + 1]
  PROVE  /\ drawn' \in [Nodes -> Nat]
         /\ \E new \in Nonce : /\ new = FreshNonce(n) /\ Old(new)'
                               /\ \A k \in Nonce : Old(k) => Old(k)' /\ k # new
<1>1. drawn \in [Nodes -> Nat]
  BY Zenon DEF IInv, Typed, TypeOK
<1>2. FreshNonce(n) = <<n, drawn[n] + 1>> /\ FreshNonce(n) \in Nonce
  BY <1>1 DEF FreshNonce, Nonce
<1>3. drawn' \in [Nodes -> Nat] /\ drawn'[n] = drawn[n] + 1
      /\ \A m \in Nodes : drawn[m] \in Nat /\ drawn'[m] \in Nat /\ drawn[m] <= drawn'[m]
  BY <1>1
<1>4. ~Old(<<n, drawn[n] + 1>>) /\ drawn[n] + 1 <= drawn'[n]
  BY <1>3 DEF Old
<1>5. ASSUME NEW k \in Nonce, Old(k) PROVE Old(k)'
  <2>1. k[1] \in Nodes /\ k[2] \in Nat
    BY Zenon DEF Nonce
  <2>2. k[2] <= drawn[k[1]]
    BY <1>5, Zenon DEF Old
  <2>3. k[2] <= drawn'[k[1]]
    BY <1>3, <2>1, <2>2
  <2> QED BY <2>3, Zenon DEF Old
<1>6. PICK new \in Nonce : new = <<n, drawn[n] + 1>>
  BY <1>2, Zenon
<1>7. Old(new)' /\ ~Old(new)
  BY <1>4, <1>6, Zenon DEF Old
<1> QED BY <1>2, <1>3, <1>5, <1>6, <1>7, Zenon

\* Nonces in their places are nonces.
LEMMA PlacesTyped ==
  ASSUME Typed
  PROVE  /\ \A e \in pending : e.nonce \in Nonce
         /\ \A s \in shares : s.nonce \in Nonce
         /\ \A j \in Jobs : Signing(j) => jobs[j].req.nonce \in Nonce
         /\ \A c \in Coordinators : Keeps(c) => calls[c].own \in Nonce
<1>1. \A e \in pending : e.nonce \in Nonce
  BY Zenon DEF Typed, TypeOK
<1>2. \A s \in shares : s.nonce \in Nonce
  BY Zenon DEF Typed, TypeOK, Share
<1>3. \A j \in Jobs : Signing(j) => jobs[j].req.nonce \in Nonce
  BY Zenon DEF Typed, GoodJob, Signing
<1>4. \A c \in Coordinators : Keeps(c) => calls[c].own \in Nonce
  BY Zenon DEF Typed, GoodCall, Keeps
<1> QED BY <1>1, <1>2, <1>3, <1>4, Zenon

\* signRound1 at a peer: a new nonce is kept for round 2.
LEMMA CommitKeeps ==
  ASSUME IInv, NEW j \in Jobs, Commit(j)
  PROVE  IInv'
<1> USE FrostAssumption
<1> DEFINE req == jobs[j].req
<1>1. GoodJob(jobs[j]) /\ jobs[j].at = "commit" /\ jobs[j] # None
  BY Zenon DEF IInv, Typed, Commit
<1>2. req \in Request /\ req.to \in Nodes /\ req.msg \in Message /\ req.round = 1
  BY <1>1, Zenon DEF GoodJob, Job, Request
<1>3. UNCHANGED <<setup, calls, begun, seen, sent, repeats, endorsed, shares, signatures, granted>>
  BY Zenon DEF Commit, net, history
<1>4. CASE Refuse(j, req) /\ UNCHANGED <<drawn, pending>>
  <2>1. /\ jobs' = [jobs EXCEPT ![j] = None]
        /\ answers' \subseteq Answer /\ \A a \in answers' : GoodAnswer(a)
    <3> HIDE DEF req
    <3>1. Respond(j, req, FALSE, None)
      BY <1>4, Zenon DEF Refuse
    <3> QED BY <1>2, <3>1, RespondTyped, Zenon DEF IInv
  <2>2. jobs' \in [Jobs -> Job \union {None}] /\ \A i \in Jobs : jobs'[i] # None => GoodJob(jobs'[i])
    BY <2>1, JobsTyped, Zenon DEF IInv
  <2>3. Typed'
    BY <1>3, <1>4, <2>1, <2>2, Zenon DEF IInv, Typed, TypeOK
  <2>4. Drawn' /\ Apart'
    BY <1>3, <1>4, <2>1, JobMoves, Zenon
  <2> QED BY <2>3, <2>4, Zenon DEF IInv
<1>5. CASE /\ drawn' = [drawn EXCEPT ![req.to] = @ + 1]
           /\ pending' = pending \union {[nonce |-> FreshNonce(req.to), msg |-> req.msg]}
           /\ Respond(j, req, TRUE, FreshNonce(req.to))
  <2>1. PICK new \in Nonce : /\ new = FreshNonce(req.to) /\ Old(new)'
                             /\ \A k \in Nonce : Old(k) => Old(k)' /\ k # new
    BY <1>2, <1>5, FreshIsNew, Zenon
  <2>2. drawn' \in [Nodes -> Nat]
    BY <1>2, <1>5, FreshIsNew, Zenon
  <2>3. /\ jobs' = [jobs EXCEPT ![j] = None]
        /\ answers' \subseteq Answer /\ \A a \in answers' : GoodAnswer(a)
    <3> HIDE DEF req
    <3>1. Respond(j, req, TRUE, new)
      BY <1>5, <2>1, Zenon
    <3> QED BY <1>2, <3>1, RespondTyped, Zenon DEF IInv
  <2>4. jobs' \in [Jobs -> Job \union {None}] /\ \A i \in Jobs : jobs'[i] # None => GoodJob(jobs'[i])
    BY <2>3, JobsTyped, Zenon DEF IInv
  <2> DEFINE entry == [nonce |-> new, msg |-> req.msg]
  <2>5. entry \in [nonce : Nonce, msg : Message] /\ entry.nonce = new
    BY <1>2, Zenon
  <2>6. pending' = pending \union {entry}
    BY <1>5, <2>1, Zenon
  <2> HIDE DEF entry
  <2>7. Typed'
    BY <1>3, <2>2, <2>3, <2>4, <2>5, <2>6, Zenon DEF IInv, Typed, TypeOK
  <2>8. \A i \in Jobs : Signing(i)' => Signing(i) /\ jobs'[i] = jobs[i]
    <3>1. jobs \in [Jobs -> Job \union {None}]
      BY Zenon DEF IInv, Typed, TypeOK
    <3> QED BY <2>3, <3>1, Zenon DEF Signing
  <2>9. \A c \in Coordinators : Keeps(c)' = Keeps(c) /\ calls'[c] = calls[c]
    BY <1>3, Zenon DEF Keeps
  <2>10. Drawn'
    BY <1>3, <2>1, <2>5, <2>6, <2>8, <2>9, PlacesTyped, Zenon DEF IInv, Drawn
  <2>11. /\ \A e \in pending : e.nonce # new
         /\ \A s \in shares : s.nonce # new
         /\ \A i \in Jobs : Signing(i) => jobs[i].req.nonce # new
         /\ \A c \in Coordinators : Keeps(c) => calls[c].own # new
    BY <2>1, PlacesTyped, Zenon DEF IInv, Drawn
  <2>12. Apart'
    <3>1. ApartStored'
      BY <1>3, <2>5, <2>6, <2>11, Zenon DEF IInv, Apart, ApartStored
    <3>4. shares' = shares /\ \A e \in pending' : e \in pending \/ e.nonce = new
      BY <1>3, <2>5, <2>6, Zenon
    <3>2. ApartJobs'
      <4>1. ASSUME NEW i \in Jobs, NEW k \in Jobs, Signing(i)', Signing(k)',
                   jobs'[i].req.nonce = jobs'[k].req.nonce
            PROVE  i = k
        BY <4>1, <2>8, Zenon DEF IInv, Apart, ApartJobs
      <4>2. ASSUME NEW i \in Jobs, Signing(i)'
            PROVE  \A x \in pending' : x.nonce # jobs'[i].req.nonce
        BY <4>2, <2>8, <2>11, <3>4 DEF IInv, Apart, ApartJobs
      <4>3. ASSUME NEW i \in Jobs, Signing(i)'
            PROVE  \A s \in shares' : s.nonce # jobs'[i].req.nonce
        BY <4>3, <2>8, <3>4 DEF IInv, Apart, ApartJobs
      <4> QED BY <4>1, <4>2, <4>3, Zenon DEF ApartJobs
    <3>3. ApartCalls'
      BY <2>8, <2>9, <2>11, <3>4 DEF IInv, Apart, ApartCalls
    <3> QED BY <3>1, <3>2, <3>3, Zenon DEF Apart
  <2> QED BY <2>7, <2>10, <2>12, Zenon DEF IInv
<1> QED BY <1>4, <1>5, Zenon DEF Commit

\* A refusal: the handler of a request ends, and nothing else of note happens.
LEMMA RefuseKeeps ==
  ASSUME IInv, NEW j \in Jobs, NEW req \in Request, Refuse(j, req),
         sent' \subseteq Request, repeats' \in 0..MaxRepeats, pending' \subseteq pending,
         seen' \subseteq Nodes \X Queries, endorsed' \subseteq Nodes \X Queries,
         UNCHANGED <<setup, calls, begun, drawn, shares, signatures, granted>>
  PROVE  IInv'
<1>1. Respond(j, req, FALSE, None)
  BY Zenon DEF Refuse
<1>2. /\ jobs' = [jobs EXCEPT ![j] = None]
      /\ answers' \subseteq Answer /\ \A a \in answers' : GoodAnswer(a)
  BY <1>1, RespondTyped, Zenon DEF IInv
<1>3. jobs' \in [Jobs -> Job \union {None}] /\ \A i \in Jobs : jobs'[i] # None => GoodJob(jobs'[i])
  BY <1>2, JobsTyped, Zenon DEF IInv
<1>4. Typed'
  BY <1>2, <1>3, Zenon DEF IInv, Typed, TypeOK
<1>5. Drawn' /\ Apart'
  BY <1>2, JobMoves, Zenon
<1> QED BY <1>4, <1>5, Zenon DEF IInv

\* A handler of a round-1 request goes on to its next await.
LEMMA GotoKeeps ==
  ASSUME IInv, NEW j \in Jobs, NEW req \in Request, NEW await \in {"verify", "commit"},
         Goto(j, req, await), req.round = 1,
         sent' \subseteq Request, repeats' \in 0..MaxRepeats,
         seen' \subseteq Nodes \X Queries, endorsed' \subseteq Nodes \X Queries,
         UNCHANGED <<setup, calls, begun, drawn, pending, answers, shares, signatures, granted>>
  PROVE  IInv'
<1> DEFINE v == [req |-> req, at |-> await]
<1>1. v \in Job /\ v.at = await /\ v.req = req
  BY Zenon DEF Job
<1>2. jobs' = [jobs EXCEPT ![j] = v]
  BY Zenon DEF Goto
<1> HIDE DEF v
<1>3. GoodJob(v)
  BY <1>1, Zenon DEF GoodJob
<1>4. jobs' \in [Jobs -> Job \union {None}] /\ \A i \in Jobs : jobs'[i] # None => GoodJob(jobs'[i])
  BY <1>2, <1>3, JobsTyped, Zenon DEF IInv
<1>5. Typed'
  BY <1>4, Zenon DEF IInv, Typed, TypeOK
<1>6. Drawn' /\ Apart'
  BY <1>1, <1>2, JobMoves, Zenon
<1> QED BY <1>5, <1>6, Zenon DEF IInv

\* A delivery leaves well-formed requests and counts repetitions.
LEMMA DeliverTyped ==
  ASSUME IInv, NEW j \in Jobs, NEW req \in sent, NEW round, Deliver(j, req, round)
  PROVE  req \in Request /\ req.round = round /\ sent' \subseteq Request /\ repeats' \in 0..MaxRepeats
<1>1. sent \subseteq Request /\ repeats \in 0..MaxRepeats /\ MaxRepeats \in Nat
  BY FrostAssumption, Zenon DEF IInv, Typed, TypeOK
<1> QED BY <1>1 DEF Deliver

LEMMA ReceiveRound1Keeps ==
  ASSUME IInv, NEW j \in Jobs, NEW req \in sent, ReceiveRound1(j, req)
  PROVE  IInv'
<1>1. req \in Request /\ req.round = 1 /\ sent' \subseteq Request /\ repeats' \in 0..MaxRepeats
  BY DeliverTyped, Zenon DEF ReceiveRound1
<1>2. UNCHANGED <<setup, calls, begun, drawn, pending, seen, endorsed, shares, signatures, granted>>
  BY Zenon DEF ReceiveRound1, history
<1>3. seen' \subseteq Nodes \X Queries /\ endorsed' \subseteq Nodes \X Queries
  BY <1>2, Zenon DEF IInv, Typed, TypeOK
<1>4. CASE Refuse(j, req)
  BY <1>1, <1>2, <1>3, <1>4, RefuseKeeps, Zenon
<1>5. CASE Goto(j, req, "verify") /\ UNCHANGED answers
  BY <1>1, <1>2, <1>3, <1>5, GotoKeeps, Zenon
<1> QED BY <1>4, <1>5, Zenon DEF ReceiveRound1

LEMMA VerifyProofKeeps ==
  ASSUME IInv, NEW j \in Jobs, VerifyProof(j)
  PROVE  IInv'
<1> DEFINE req == jobs[j].req
<1>1. GoodJob(jobs[j]) /\ jobs[j].at = "verify"
  BY Zenon DEF IInv, Typed, VerifyProof
<1>2. req \in Request /\ req.to \in Nodes /\ req.q \in Queries /\ req.round = 1
  BY <1>1, Zenon DEF GoodJob, Job, Request
<1>3. UNCHANGED <<setup, calls, begun, drawn, pending, sent, repeats, shares, signatures, granted>>
  BY Zenon DEF VerifyProof, net
<1>4. sent' \subseteq Request /\ repeats' \in 0..MaxRepeats
  BY <1>3, Zenon DEF IInv, Typed, TypeOK
<1>5. seen' \subseteq Nodes \X Queries /\ endorsed' \subseteq Nodes \X Queries
  <2>1. seen \subseteq Nodes \X Queries /\ endorsed \subseteq Nodes \X Queries
    BY Zenon DEF IInv, Typed, TypeOK
  <2>2. seen' \subseteq seen \union {<<req.to, req.q>>} /\ endorsed' \subseteq endorsed \union {<<req.to, req.q>>}
    BY Zenon DEF VerifyProof
  <2>3. <<req.to, req.q>> \in Nodes \X Queries
    BY <1>2, Zenon
  <2> HIDE DEF req
  <2> QED BY <2>1, <2>2, <2>3, Zenon
<1>6. Refuse(j, req) \/ (Goto(j, req, "commit") /\ UNCHANGED answers)
  BY Zenon DEF VerifyProof
<1> HIDE DEF req
<1>7. CASE Refuse(j, req)
  <2>1. pending' \subseteq pending
    BY <1>3, Zenon
  <2> QED BY <1>2, <1>3, <1>4, <1>5, <1>7, <2>1, RefuseKeeps, Zenon
<1>8. CASE Goto(j, req, "commit") /\ UNCHANGED answers
  BY <1>2, <1>3, <1>4, <1>5, <1>8, GotoKeeps, Zenon
<1> QED BY <1>6, <1>7, <1>8, Zenon

\* POST /frost/signer/round2: the nonce leaves the map for the handler.
LEMMA ReceiveRound2Takes ==
  ASSUME IInv, NEW j \in Jobs, NEW req \in sent, ReceiveRound2(j, req)
  PROVE  IInv'
<1> DEFINE kept == {e \in pending : e.nonce = req.nonce}
<1>1. /\ jobs[j] = None
      /\ req \in Request /\ req.round = 2 /\ sent' \subseteq Request /\ repeats' \in 0..MaxRepeats
  BY DeliverTyped, Zenon DEF ReceiveRound2, Deliver
<1>2. UNCHANGED <<setup, calls, begun, drawn, seen, endorsed, shares, signatures, granted>>
  BY Zenon DEF ReceiveRound2, history
<1>3. seen' \subseteq Nodes \X Queries /\ endorsed' \subseteq Nodes \X Queries
  BY <1>2, Zenon DEF IInv, Typed, TypeOK
<1>4. CASE Refuse(j, req)
  <2>1. pending' \subseteq pending
    BY Zenon DEF ReceiveRound2
  <2> QED BY <1>1, <1>2, <1>3, <1>4, <2>1, RefuseKeeps, Zenon
<1>5. CASE /\ pending' = pending \ kept /\ \E e \in kept : e.msg = req.msg
           /\ Goto(j, req, "sign") /\ UNCHANGED answers
  <2>1. PICK e \in pending : e.nonce = req.nonce
    BY <1>5, Zenon
  <2>2. /\ pending' \subseteq pending
        /\ \A f \in pending' : f.nonce # req.nonce
    BY <1>5, Zenon
  <2>3. req.nonce \in Nonce /\ Old(req.nonce)
    BY <2>1, PlacesTyped, Zenon DEF IInv, Drawn
  <2> DEFINE v == [req |-> req, at |-> "sign"]
  <2>4. v \in Job /\ v.at = "sign" /\ v.req = req
    BY <1>1, Zenon DEF Job
  <2>5. jobs' = [jobs EXCEPT ![j] = v]
    BY <1>5, Zenon DEF Goto
  <2> HIDE DEF v
  <2>6. GoodJob(v)
    BY <1>1, <2>3, <2>4, Zenon DEF GoodJob
  <2>7. jobs' \in [Jobs -> Job \union {None}] /\ \A i \in Jobs : jobs'[i] # None => GoodJob(jobs'[i])
    BY <2>5, <2>6, JobsTyped, Zenon DEF IInv
  <2>8. Typed'
    BY <1>1, <1>2, <1>3, <1>5, <2>2, <2>7, ZenonT(30) DEF IInv, Typed, TypeOK
  <2>9. \A i \in Jobs : Signing(i)' => \/ i # j /\ Signing(i) /\ jobs'[i] = jobs[i]
                                       \/ i = j /\ jobs'[i].req = req
    <3>1. jobs \in [Jobs -> Job \union {None}]
      BY Zenon DEF IInv, Typed, TypeOK
    <3>2. jobs'[j] = v /\ \A i \in Jobs : i # j => jobs'[i] = jobs[i]
      BY <2>5, <3>1, Zenon
    <3> SUFFICES ASSUME NEW i \in Jobs, Signing(i)'
                 PROVE  \/ i # j /\ Signing(i) /\ jobs'[i] = jobs[i]
                        \/ i = j /\ jobs'[i].req = req
      BY Zenon
    <3>3. CASE i = j
      BY <2>4, <3>2, <3>3, Zenon
    <3>4. CASE i # j
      BY <3>2, <3>4, Zenon DEF Signing
    <3> QED BY <3>3, <3>4, Zenon
  <2>10. \A c \in Coordinators : Keeps(c)' = Keeps(c) /\ calls'[c] = calls[c]
    BY <1>2, Zenon DEF Keeps
  <2>11. Drawn'
    BY <1>2, <2>2, <2>3, <2>9, <2>10, Zenon DEF IInv, Drawn, Old
  <2>12. /\ \A s \in shares : s.nonce # req.nonce
         /\ \A i \in Jobs : Signing(i) => jobs[i].req.nonce # req.nonce
         /\ \A c \in Coordinators : Keeps(c) => calls[c].own # req.nonce
    BY <2>1, Zenon DEF IInv, Apart, ApartStored, ApartJobs, ApartCalls
  <2>13. Apart'
    <3>4. shares' = shares /\ \A k \in pending' : k \in pending /\ k.nonce # req.nonce
      BY <1>2, <2>2, Zenon
    <3>1. ApartStored'
      BY <3>4, Zenon DEF IInv, Apart, ApartStored
    <3>2. ApartJobs'
      <4>1. ASSUME NEW i \in Jobs, NEW k \in Jobs, Signing(i)', Signing(k)',
                   jobs'[i].req.nonce = jobs'[k].req.nonce
            PROVE  i = k
        BY <4>1, <2>9, <2>12, Zenon DEF IInv, Apart, ApartJobs
      <4>2. ASSUME NEW i \in Jobs, Signing(i)'
            PROVE  \A x \in pending' : x.nonce # jobs'[i].req.nonce
        BY <4>2, <2>9, <3>4, Zenon DEF IInv, Apart, ApartJobs
      <4>3. ASSUME NEW i \in Jobs, Signing(i)'
            PROVE  \A s \in shares' : s.nonce # jobs'[i].req.nonce
        BY <4>3, <2>9, <2>12, <3>4, Zenon DEF IInv, Apart, ApartJobs
      <4> QED BY <4>1, <4>2, <4>3, Zenon DEF ApartJobs
    <3>3. ApartCalls'
      <4>1. ASSUME NEW c \in Coordinators, Keeps(c)
            PROVE  \A i \in Jobs : Signing(i)' => jobs'[i].req.nonce # calls[c].own
        BY <4>1, <2>9, <2>12, Zenon DEF IInv, Apart, ApartCalls
      <4>2. ASSUME NEW c \in Coordinators, Keeps(c)
            PROVE  /\ \A k \in pending' : k.nonce # calls[c].own
                   /\ \A s \in shares' : s.nonce # calls[c].own
        BY <4>2, <3>4, Zenon DEF IInv, Apart, ApartCalls
      <4>3. \A c, d \in Coordinators : Keeps(c) /\ Keeps(d) /\ calls[c].own = calls[d].own => c = d
        BY Zenon DEF IInv, Apart, ApartCalls
      <4> QED BY <4>1, <4>2, <4>3, <2>10, Zenon DEF ApartCalls
    <3> QED BY <3>1, <3>2, <3>3, Zenon DEF Apart
  <2> QED BY <2>8, <2>11, <2>13, Zenon DEF IInv
<1> QED BY <1>4, <1>5, Zenon DEF ReceiveRound2

\* signRound2 at a peer: the nonce the handler took moves into a share.
LEMMA SignKeeps ==
  ASSUME IInv, NEW j \in Jobs, Sign(j)
  PROVE  IInv'
<1> DEFINE req == jobs[j].req
           share == [nonce |-> req.nonce, msg |-> req.msg, commitments |-> req.commitments]
<1>1. GoodJob(jobs[j]) /\ Signing(j)
  BY Zenon DEF IInv, Typed, Sign, Signing
<1>2. /\ req \in Request /\ req.msg \in Message /\ req.nonce \in Nonce
      /\ req.commitments \subseteq Nonce /\ req.round = 2
  BY <1>1, Zenon DEF GoodJob, Job, Request, Signing
<1>3. share \in Share /\ share.nonce = req.nonce
  BY <1>2, Zenon DEF Share
<1>4. UNCHANGED <<setup, calls, begun, drawn, pending, seen, sent, repeats, endorsed, signatures,
                  granted>>
  BY Zenon DEF Sign, net
<1>5. PICK ok \in BOOLEAN : Respond(j, req, ok, None) /\ shares' \subseteq shares \union {share}
  BY Zenon DEF Sign, runFrostCommand
<1>6. req = jobs[j].req
  BY Zenon
<1> HIDE DEF share, req
<1>7. /\ jobs' = [jobs EXCEPT ![j] = None]
      /\ answers' \subseteq Answer /\ \A a \in answers' : GoodAnswer(a)
  BY <1>2, <1>5, RespondTyped DEF IInv
<1>8. jobs' \in [Jobs -> Job \union {None}] /\ \A i \in Jobs : jobs'[i] # None => GoodJob(jobs'[i])
  BY <1>7, JobsTyped, Zenon DEF IInv
<1>9. Typed'
  BY <1>3, <1>4, <1>5, <1>7, <1>8, Zenon DEF IInv, Typed, TypeOK
<1>10. \A i \in Jobs : Signing(i)' => i # j /\ Signing(i) /\ jobs'[i] = jobs[i]
  <2>1. jobs \in [Jobs -> Job \union {None}]
    BY Zenon DEF IInv, Typed, TypeOK
  <2> QED BY <1>7, <2>1, Zenon DEF Signing
<1>11. \A c \in Coordinators : Keeps(c)' = Keeps(c) /\ calls'[c] = calls[c]
  BY <1>4, Zenon DEF Keeps
<1>12. Drawn'
  BY <1>1, <1>3, <1>4, <1>5, <1>6, <1>10, <1>11, Zenon DEF IInv, Drawn, Old
<1>13. /\ \A s \in shares : s.nonce # req.nonce
       /\ \A e \in pending : e.nonce # req.nonce
       /\ \A i \in Jobs : Signing(i) /\ i # j => jobs[i].req.nonce # req.nonce
       /\ \A c \in Coordinators : Keeps(c) => calls[c].own # req.nonce
  BY <1>1, <1>6, ZenonT(30) DEF IInv, Apart, ApartStored, ApartJobs, ApartCalls
<1>14. Apart'
  <2>4. pending' = pending /\ shares' \subseteq shares \union {share} /\ share.nonce = req.nonce
    BY <1>3, <1>4, <1>5, Zenon
  <2>5. \A s \in shares' : s \in shares \/ s.nonce = req.nonce
    BY <2>4, Zenon
  <2>1. ApartStored'
    BY <1>13, <2>4, Zenon DEF IInv, Apart, ApartStored
  <2>2. ApartJobs'
    <3>1. ASSUME NEW i \in Jobs, NEW k \in Jobs, Signing(i)', Signing(k)',
                 jobs'[i].req.nonce = jobs'[k].req.nonce
          PROVE  i = k
      BY <3>1, <1>10, <1>13, ZenonT(40) DEF IInv, Apart, ApartJobs
    <3>2. ASSUME NEW i \in Jobs, Signing(i)'
          PROVE  \A x \in pending' : x.nonce # jobs'[i].req.nonce
      BY <3>2, <1>10, <2>4 DEF IInv, Apart, ApartJobs
    <3>3. ASSUME NEW i \in Jobs, Signing(i)'
          PROVE  \A s \in shares' : s.nonce # jobs'[i].req.nonce
      <4>1. i # j /\ Signing(i) /\ jobs'[i] = jobs[i]
        BY <1>10, <3>3, Zenon
      <4>2. \A s \in shares : s.nonce # jobs[i].req.nonce
        BY <4>1, Zenon DEF IInv, Apart, ApartJobs
      <4>3. jobs[i].req.nonce # req.nonce
        BY <1>13, <4>1, Zenon
      <4> QED BY <2>5, <4>1, <4>2, <4>3, Zenon
    <3> QED BY <3>1, <3>2, <3>3, Zenon DEF ApartJobs
  <2>3. ApartCalls'
    <3>1. ASSUME NEW c \in Coordinators, Keeps(c)
          PROVE  /\ \A s \in shares : s.nonce # calls[c].own
                 /\ \A e \in pending : e.nonce # calls[c].own
                 /\ \A i \in Jobs : Signing(i) => jobs[i].req.nonce # calls[c].own
                 /\ \A d \in Coordinators : Keeps(d) /\ calls[c].own = calls[d].own => c = d
      BY <3>1, Zenon DEF IInv, Apart, ApartCalls
    <3>2. ASSUME NEW c \in Coordinators, Keeps(c)
          PROVE  /\ \A s \in shares' : s.nonce # calls[c].own
                 /\ \A i \in Jobs : Signing(i)' => jobs'[i].req.nonce # calls[c].own
      <4>1. calls[c].own # req.nonce
        BY <1>13, <3>2, Zenon
      <4> QED BY <1>10, <2>5, <3>1, <3>2, <4>1, Zenon
    <3> QED BY <1>11, <2>4, <3>1, <3>2, ZenonT(40) DEF ApartCalls
  <2> QED BY <2>1, <2>2, <2>3, Zenon DEF Apart
<1> QED BY <1>9, <1>12, <1>14, Zenon DEF IInv

-----------------------------------------------------------------------------
(* The coordinator's steps.                                                *)

\* A call at its first await is well formed and has no nonce yet.
LEMMA CoordinateTyped ==
  ASSUME NEW q \in Queries, NEW i \in Nat
  PROVE  GoodCall(Coordinate(q, i)) /\ Coordinate(q, i).at = "round1"
<1>1. Coordinate(q, i) \in Call /\ Coordinate(q, i).at = "round1"
  BY Zenon DEF Coordinate, Call
<1> QED BY <1>1, Zenon DEF GoodCall

LEMMA RequestSignatureKeeps ==
  ASSUME IInv, NEW c \in Coordinators, NEW q \in Queries, RequestSignature(c, q)
  PROVE  IInv'
<1> USE FrostAssumption
<1>1. FirstMessage \in Nat
  BY Zenon DEF FirstMessage
<1>2. PICK v : /\ calls' = [calls EXCEPT ![c] = v]
               /\ GoodCall(v) /\ v.at = "round1"
  BY <1>1, CoordinateTyped, Zenon DEF RequestSignature, Suspend
<1>3. /\ calls' \in [Coordinators -> Call \union {None}]
      /\ \A d \in Coordinators : calls'[d] # None => GoodCall(calls'[d])
  BY <1>2, CallsTyped, Zenon DEF IInv
<1>4. begun' \in [Coordinators -> 0..MaxCalls]
  <2>1. begun \in [Coordinators -> 0..MaxCalls] /\ begun[c] < MaxCalls
    BY Zenon DEF IInv, Typed, TypeOK, RequestSignature
  <2>2. begun[c] + 1 \in 0..MaxCalls
    BY <2>1
  <2> QED BY <2>1, <2>2, Zenon DEF RequestSignature
<1>5. endorsed' \subseteq Nodes \X Queries
  BY DEF IInv, Typed, TypeOK, RequestSignature
<1>6. UNCHANGED <<setup, jobs, drawn, pending, seen, sent, repeats, answers, shares, signatures,
                  granted>>
  BY Zenon DEF RequestSignature, net
<1>7. Typed'
  BY <1>3, <1>4, <1>5, <1>6, Zenon DEF IInv, Typed, TypeOK
<1>8. Drawn' /\ Apart'
  BY <1>2, <1>6, CallMoves, Zenon
<1> QED BY <1>7, <1>8, Zenon DEF IInv

\* A call goes on with the nonce it has, or without, and the rest keeps its type.
LEMMA CallKeeps ==
  ASSUME IInv, NEW c \in Coordinators, NEW v, calls' = [calls EXCEPT ![c] = v],
         v = None \/ GoodCall(v),
         v # None /\ v.at \in {"peer1", "round2"} => Keeps(c) /\ v.own = calls[c].own,
         sent' \subseteq Request, answers' \subseteq answers,
         signatures' \subseteq Signature, granted' \subseteq Coordinators \X Queries,
         UNCHANGED <<setup, jobs, begun, repeats, drawn, pending, seen, endorsed, shares>>
  PROVE  IInv'
<1>1. /\ calls' \in [Coordinators -> Call \union {None}]
      /\ \A d \in Coordinators : calls'[d] # None => GoodCall(calls'[d])
  BY CallsTyped, Zenon DEF IInv
<1>2. Typed'
  BY <1>1, Zenon DEF IInv, Typed, TypeOK
<1>3. Drawn' /\ Apart'
  BY CallMoves, Zenon
<1> QED BY <1>2, <1>3, Zenon DEF IInv

\* signRound1 at the coordinator: a new nonce is the call's own.
LEMMA LocalRound1Keeps ==
  ASSUME IInv, NEW c \in Coordinators, LocalRound1(c)
  PROVE  IInv'
<1> USE FrostAssumption
<1>1. GoodCall(calls[c]) /\ calls[c] \in Call
  BY Zenon DEF IInv, Typed, LocalRound1, At, GoodCall
<1>2. UNCHANGED <<setup, jobs, begun, repeats, pending, seen, answers, endorsed, shares,
                  signatures, granted>>
  BY Zenon DEF LocalRound1, history
<1>3. signatures' \subseteq Signature /\ granted' \subseteq Coordinators \X Queries
  BY <1>2, Zenon DEF IInv, Typed, TypeOK
<1>4. CASE Return(c) /\ UNCHANGED <<drawn, sent>>
  <2>1. calls' = [calls EXCEPT ![c] = None] /\ sent' \subseteq Request /\ answers' \subseteq answers
    BY <1>2, <1>4, Zenon DEF Return, IInv, Typed, TypeOK
  <2> QED BY <1>2, <1>3, <1>4, <2>1, CallKeeps, Zenon
<1>5. CASE /\ drawn' = [drawn EXCEPT ![c] = @ + 1]
           /\ Round1Loop(c, [calls[c] EXCEPT !.own = FreshNonce(c), !.commitments = {FreshNonce(c)},
                                             !.rest = Nodes \ {c}], FALSE)
  <2>1. PICK new \in Nonce : /\ new = FreshNonce(c) /\ Old(new)'
                             /\ \A k \in Nonce : Old(k) => Old(k)' /\ k # new
    BY <1>5, FreshIsNew, Zenon
  <2>2. drawn' \in [Nodes -> Nat]
    BY <1>5, FreshIsNew, Zenon
  <2>3. PICK call \in Call : call = [calls[c] EXCEPT !.own = new, !.commitments = {new},
                                                    !.rest = Nodes \ {c}]
    <3> DEFINE call == [calls[c] EXCEPT !.own = new, !.commitments = {new}, !.rest = Nodes \ {c}]
    <3>1. call \in Call
      BY <1>1, Zenon DEF Call
    <3> QED BY <3>1, Zenon
  <2>3a. call.own = new
    BY <1>1, <2>3, Zenon DEF Call
  <2>4. PICK looks \in BOOLEAN : Round1Loop(c, call, looks)
    BY <1>5, <2>1, <2>3, Zenon
  <2>5. PICK v : /\ calls' = [calls EXCEPT ![c] = v]
                 /\ v = None \/ (GoodCall(v) /\ v.at \in {"peer1", "round2"} /\ v.own = new)
    <3>1. Typed /\ call.own \in Nonce
      BY <2>3a, Zenon DEF IInv
    <3>2. \E v : /\ calls' = [calls EXCEPT ![c] = v]
                 /\ v = None \/ (GoodCall(v) /\ v.at \in {"peer1", "round2"} /\ v.own = call.own)
      BY <2>4, <3>1, Round1LoopTyped
    <3> QED BY <2>3a, <3>2, Zenon
  <2>6. sent' \subseteq Request
    BY <2>3a, <2>4, Round1LoopTyped, Zenon DEF IInv
  <2>7. /\ calls' \in [Coordinators -> Call \union {None}]
        /\ \A d \in Coordinators : calls'[d] # None => GoodCall(calls'[d])
    BY <2>5, CallsTyped, ZenonT(30) DEF IInv
  <2>8. Typed'
    BY <1>2, <2>2, <2>6, <2>7, Zenon DEF IInv, Typed, TypeOK
  <2>9. \A d \in Coordinators : Keeps(d)' => \/ d # c /\ Keeps(d) /\ calls'[d] = calls[d]
                                             \/ d = c /\ calls'[d].own = new
    <3>1. calls \in [Coordinators -> Call \union {None}]
      BY Zenon DEF IInv, Typed, TypeOK
    <3>2. calls'[c] = v /\ \A d \in Coordinators : d # c => calls'[d] = calls[d]
      BY <2>5, <3>1, Zenon
    <3> SUFFICES ASSUME NEW d \in Coordinators, Keeps(d)'
                 PROVE  \/ d # c /\ Keeps(d) /\ calls'[d] = calls[d]
                        \/ d = c /\ calls'[d].own = new
      BY Zenon
    <3>3. CASE d = c
      BY <2>5, <3>2, <3>3, Zenon DEF Keeps
    <3>4. CASE d # c
      BY <3>2, <3>4, Zenon DEF Keeps
    <3> QED BY <3>3, <3>4, Zenon
  <2>10. \A j \in Jobs : Signing(j)' = Signing(j) /\ jobs'[j] = jobs[j]
    BY <1>2, Zenon DEF Signing
  <2>11. Drawn'
    BY <1>2, <2>1, <2>9, <2>10, PlacesTyped, Zenon DEF IInv, Drawn
  <2>12. /\ \A e \in pending : e.nonce # new
         /\ \A s \in shares : s.nonce # new
         /\ \A i \in Jobs : Signing(i) => jobs[i].req.nonce # new
         /\ \A d \in Coordinators : Keeps(d) => calls[d].own # new
    BY <2>1, PlacesTyped, ZenonT(30) DEF IInv, Drawn
  <2>13. Apart'
    <3>1. ApartStored'
      BY <1>2, <2>9, <2>10, <2>12, Zenon DEF IInv, Apart, ApartStored
    <3>2. ApartJobs'
      BY <1>2, <2>9, <2>10, <2>12, ZenonT(30) DEF IInv, Apart, ApartJobs
    <3>3. ApartCalls'
      <4>1. ASSUME NEW d \in Coordinators, NEW e \in Coordinators, Keeps(d)', Keeps(e)',
                   calls'[d].own = calls'[e].own
            PROVE  d = e
        BY <4>1, <2>9, <2>12, Zenon DEF IInv, Apart, ApartCalls
      <4>2. ASSUME NEW d \in Coordinators, Keeps(d)'
            PROVE  /\ \A k \in pending : k.nonce # calls'[d].own
                   /\ \A j \in Jobs : Signing(j) => jobs[j].req.nonce # calls'[d].own
        BY <4>2, <2>9, <2>12, Zenon DEF IInv, Apart, ApartCalls
      <4>3. ASSUME NEW d \in Coordinators, Keeps(d)'
            PROVE  \A s \in shares' : s.nonce # calls'[d].own
        BY <4>3, <1>2, <2>9, <2>12, Zenon DEF IInv, Apart, ApartCalls
      <4> QED BY <4>1, <4>2, <4>3, <1>2, <2>10, Zenon DEF ApartCalls
    <3> QED BY <3>1, <3>2, <3>3, Zenon DEF Apart
  <2> QED BY <2>8, <2>11, <2>13, Zenon DEF IInv
<1> QED BY <1>4, <1>5, Zenon DEF LocalRound1

\* A peer's round-1 answer or timeout: the call keeps its own nonce.
LEMMA PeerRound1Keeps ==
  ASSUME IInv, NEW c \in Coordinators, PeerRound1(c)
  PROVE  IInv'
<1>1. GoodCall(calls[c]) /\ calls[c] \in Call /\ calls[c].at = "peer1" /\ Keeps(c)
  BY Zenon DEF IInv, Typed, PeerRound1, At, GoodCall, Keeps
<1>2. /\ UNCHANGED <<setup, jobs, begun, repeats, drawn, pending, seen, endorsed, shares,
                     signatures, granted>>
      /\ answers' \subseteq answers
  BY Zenon DEF PeerRound1, history
<1>3. signatures' \subseteq Signature /\ granted' \subseteq Coordinators \X Queries
  BY <1>2, Zenon DEF IInv, Typed, TypeOK
<1>4. PICK call \in Call, looks \in BOOLEAN : Round1Loop(c, call, looks) /\ call.own = calls[c].own
  <2>1. CASE \E a \in AnswersTo(c) :
               a.ok /\ Round1Loop(c, [calls[c] EXCEPT !.commitments = @ \union {a.nonce},
                                                      !.participating = @ \union {a.nonce}], TRUE)
    <3>1. PICK a \in AnswersTo(c) :
               a.ok /\ Round1Loop(c, [calls[c] EXCEPT !.commitments = @ \union {a.nonce},
                                                      !.participating = @ \union {a.nonce}], TRUE)
      BY <2>1, ZenonT(30)
    <3>2. GoodAnswer(a) /\ a.req.round = 1
      BY <1>1, Zenon DEF AnswersTo, IInv, Typed, GoodCall
    <3>3. a.nonce \in Nonce
      BY <3>1, <3>2, Zenon DEF GoodAnswer
    <3> DEFINE next == [calls[c] EXCEPT !.commitments = @ \union {a.nonce},
                                        !.participating = @ \union {a.nonce}]
    <3>4. next \in Call /\ next.own = calls[c].own
      BY <1>1, <3>3, Zenon DEF Call
    <3>5. PICK call \in Call : call = next
      <4> HIDE DEF next
      <4> QED BY <3>4, Zenon
    <3> QED BY <3>1, <3>4, <3>5, Zenon
  <2>2. CASE \E looks \in BOOLEAN : Round1Loop(c, calls[c], looks)
    <3>1. PICK call \in Call : call = calls[c]
      BY <1>1, Zenon
    <3> QED BY <2>2, <3>1, Zenon
  <2> QED BY <2>1, <2>2, Zenon DEF PeerRound1
<1>5. call.own \in Nonce
  BY <1>1, <1>4, Zenon DEF GoodCall
<1>6. sent' \subseteq Request
  BY <1>4, <1>5, Round1LoopTyped, Zenon DEF IInv
<1>7. \E v : /\ calls' = [calls EXCEPT ![c] = v]
             /\ v = None \/ (GoodCall(v) /\ v.at \in {"peer1", "round2"} /\ v.own = call.own)
  BY <1>4, <1>5, Round1LoopTyped DEF IInv
<1>8. PICK v : /\ calls' = [calls EXCEPT ![c] = v]
               /\ v = None \/ (GoodCall(v) /\ v.own = calls[c].own)
  BY <1>4, <1>7, Zenon
<1> QED BY <1>1, <1>2, <1>3, <1>6, <1>8, CallKeeps, Zenon

\* signRound2 at the coordinator: its nonce moves into a share.
LEMMA LocalRound2Keeps ==
  ASSUME IInv, NEW c \in Coordinators, LocalRound2(c)
  PROVE  IInv'
<1>1. GoodCall(calls[c]) /\ calls[c] \in Call /\ calls[c].at = "round2" /\ Keeps(c)
  BY Zenon DEF IInv, Typed, LocalRound2, At, GoodCall, Keeps
<1>2. UNCHANGED <<setup, jobs, begun, repeats, drawn, pending, seen, answers, endorsed,
                  signatures, granted>>
  BY Zenon DEF LocalRound2
<1>3. signatures' \subseteq Signature /\ granted' \subseteq Coordinators \X Queries
  BY <1>2, Zenon DEF IInv, Typed, TypeOK
<1> DEFINE share == [nonce |-> calls[c].own, msg |-> MessageOf(calls[c]),
                     commitments |-> calls[c].commitments]
           next == [calls[c] EXCEPT !.signed = {calls[c].own},
                                    !.rest = NodesOf(calls[c].participating)]
<1>4. CASE Return(c) /\ UNCHANGED <<shares, sent>>
  <2>1. calls' = [calls EXCEPT ![c] = None] /\ sent' \subseteq Request /\ answers' \subseteq answers
    BY <1>2, <1>4, Zenon DEF Return, IInv, Typed, TypeOK
  <2> QED BY <1>2, <1>3, <1>4, <2>1, CallKeeps, Zenon
<1>5. CASE shares' = shares \union {share} /\ Round2Loop(c, next)
  <2>1. PICK own \in Nonce : own = calls[c].own
    BY <1>1, Zenon DEF GoodCall
  <2>2. MessageOf(calls[c]) \in Message /\ calls[c].commitments \subseteq Nonce
    BY <1>1, Zenon DEF Call, MessageOf, Message
  <2>3. share \in Share /\ share.nonce = own
    BY <2>1, <2>2, Zenon DEF Share
  <2>4. NodesOf(calls[c].participating) \subseteq Nodes
    BY <1>1 DEF Call, NodesOf, Nonce
  <2>5. /\ next \in Call /\ next.own = own /\ next.participating = calls[c].participating
        /\ next.rest = NodesOf(calls[c].participating)
    BY <1>1, <2>1, <2>4, Zenon DEF Call
  <2>6. PICK call \in Call : Round2Loop(c, call) /\ call = next
    <3>1. PICK call \in Call : call = next
      <4> HIDE DEF next
      <4> QED BY <2>5, Zenon
    <3> QED BY <1>5, <3>1, Zenon
  <2>7. call.own = own /\ call.rest \subseteq NodesOf(call.participating)
    BY <2>5, <2>6, Zenon
  <2> HIDE DEF share, next
  <2>8. \E v : /\ calls' = [calls EXCEPT ![c] = v]
               /\ v = None \/ (GoodCall(v) /\ v.at \in {"peer2", "aggregate"})
    BY <2>6, <2>7, Round2LoopTyped, Zenon DEF IInv
  <2>9. PICK v : /\ calls' = [calls EXCEPT ![c] = v]
                 /\ v = None \/ (GoodCall(v) /\ v.at \in {"peer2", "aggregate"})
    BY <2>8, Zenon
  <2>10. sent' \subseteq Request
    BY <2>6, <2>7, Round2LoopTyped, Zenon DEF IInv
  <2>11. /\ calls' \in [Coordinators -> Call \union {None}]
         /\ \A d \in Coordinators : calls'[d] # None => GoodCall(calls'[d])
    BY <2>9, CallsTyped, ZenonT(40) DEF IInv
  <2>12. Typed'
    BY <1>2, <1>5, <2>3, <2>10, <2>11, Zenon DEF IInv, Typed, TypeOK
  <2>13. \A d \in Coordinators : Keeps(d)' => d # c /\ Keeps(d) /\ calls'[d] = calls[d]
    <3>1. calls \in [Coordinators -> Call \union {None}]
      BY Zenon DEF IInv, Typed, TypeOK
    <3>2. calls' = [calls EXCEPT ![c] = v]
      BY <2>9, Zenon
    <3>3. calls'[c] = v /\ \A d \in Coordinators : d # c => calls'[d] = calls[d]
      BY <3>1, <3>2, Zenon
    <3> QED BY <2>9, <3>3, Zenon DEF Keeps
  <2>14. \A j \in Jobs : Signing(j)' = Signing(j) /\ jobs'[j] = jobs[j]
    BY <1>2, Zenon DEF Signing
  <2>15. Drawn'
    BY <1>1, <1>2, <1>5, <2>1, <2>3, <2>13, <2>14, ZenonT(30) DEF IInv, Drawn, Old
  <2>16. /\ \A s \in shares : s.nonce # own
         /\ \A e \in pending : e.nonce # own
         /\ \A j \in Jobs : Signing(j) => jobs[j].req.nonce # own
         /\ \A d \in Coordinators : Keeps(d) /\ d # c => calls[d].own # own
    BY <1>1, <2>1, Zenon DEF IInv, Apart, ApartStored, ApartJobs, ApartCalls
  <2>17. Apart'
    <3>1. ApartStored'
      BY <1>2, <1>5, <2>3, <2>13, <2>14, <2>16, ZenonT(30) DEF IInv, Apart, ApartStored
    <3>2. ApartJobs'
      BY <1>2, <1>5, <2>3, <2>13, <2>14, <2>16, ZenonT(30) DEF IInv, Apart, ApartJobs
    <3>3. ApartCalls'
      <4>1. ASSUME NEW d \in Coordinators, NEW e \in Coordinators, Keeps(d)', Keeps(e)',
                   calls'[d].own = calls'[e].own
            PROVE  d = e
        BY <4>1, <2>13, <2>16, ZenonT(40) DEF IInv, Apart, ApartCalls
      <4>2. ASSUME NEW d \in Coordinators, Keeps(d)'
            PROVE  /\ \A k \in pending : k.nonce # calls'[d].own
                   /\ \A j \in Jobs : Signing(j) => jobs[j].req.nonce # calls'[d].own
        BY <4>2, <2>13, <2>16, ZenonT(40) DEF IInv, Apart, ApartCalls
      <4>3. ASSUME NEW d \in Coordinators, Keeps(d)'
            PROVE  \A s \in shares' : s.nonce # calls'[d].own
        BY <4>3, <1>2, <1>5, <2>3, <2>13, <2>16, ZenonT(30) DEF IInv, Apart, ApartCalls
      <4> QED BY <4>1, <4>2, <4>3, <1>2, <1>5, <2>3, <2>14, Zenon DEF ApartCalls
    <3> QED BY <3>1, <3>2, <3>3, Zenon DEF Apart
  <2> QED BY <2>12, <2>15, <2>17, Zenon DEF IInv
<1> QED BY <1>4, <1>5, Zenon DEF LocalRound2

\* A peer's round-2 answer or timeout.
LEMMA PeerRound2Keeps ==
  ASSUME IInv, NEW c \in Coordinators, PeerRound2(c)
  PROVE  IInv'
<1>1. /\ GoodCall(calls[c]) /\ calls[c] \in Call /\ calls[c].own \in Nonce
      /\ calls[c].asked.nonce \in Nonce /\ calls[c].rest \subseteq NodesOf(calls[c].participating)
  BY Zenon DEF IInv, Typed, PeerRound2, At, GoodCall
<1>2. /\ UNCHANGED <<setup, jobs, begun, repeats, drawn, pending, seen, endorsed, shares,
                     signatures, granted>>
      /\ answers' \subseteq answers
  BY Zenon DEF PeerRound2, history
<1>3. signatures' \subseteq Signature /\ granted' \subseteq Coordinators \X Queries
  BY <1>2, Zenon DEF IInv, Typed, TypeOK
<1>4. PICK call \in Call : /\ Round2Loop(c, call) /\ call.own \in Nonce
                           /\ call.rest \subseteq NodesOf(call.participating)
  <2>1. CASE \E a \in AnswersTo(c) : Round2Loop(c, [calls[c] EXCEPT !.signed = @ \union {a.req.nonce}])
    <3>1. PICK a \in AnswersTo(c) : Round2Loop(c, [calls[c] EXCEPT !.signed = @ \union {a.req.nonce}])
      BY <2>1, Zenon
    <3>2. a.req.nonce \in Nonce
      BY <1>1, Zenon DEF AnswersTo
    <3> DEFINE next == [calls[c] EXCEPT !.signed = @ \union {a.req.nonce}]
    <3>3. /\ next \in Call /\ next.own = calls[c].own /\ next.rest = calls[c].rest
          /\ next.participating = calls[c].participating
      BY <1>1, <3>2, Zenon DEF Call
    <3>4. PICK call \in Call : call = next
      <4> HIDE DEF next
      <4> QED BY <3>3, Zenon
    <3>5. Round2Loop(c, call)
      BY <3>1, <3>4, Zenon
    <3> HIDE DEF next
    <3> QED BY <1>1, <3>3, <3>4, <3>5, Zenon
  <2>2. CASE Round2Loop(c, calls[c])
    <3>1. PICK call \in Call : call = calls[c]
      BY <1>1, Zenon
    <3> QED BY <1>1, <2>2, <3>1, Zenon
  <2> QED BY <2>1, <2>2, ZenonT(40) DEF PeerRound2
<1>5. sent' \subseteq Request
  BY <1>4, Round2LoopTyped, Zenon DEF IInv
<1>6. \E v : /\ calls' = [calls EXCEPT ![c] = v]
             /\ v = None \/ (GoodCall(v) /\ v.at \in {"peer2", "aggregate"})
  BY <1>4, Round2LoopTyped, Zenon DEF IInv
<1>7. PICK v : /\ calls' = [calls EXCEPT ![c] = v]
               /\ v = None \/ (GoodCall(v) /\ v.at \in {"peer2", "aggregate"})
  BY <1>6, Zenon
<1> QED BY <1>2, <1>3, <1>5, <1>7, CallKeeps, Zenon

LEMMA AggregateKeeps ==
  ASSUME IInv, NEW c \in Coordinators, Aggregate(c)
  PROVE  IInv'
<1> USE FrostAssumption
<1>1. GoodCall(calls[c]) /\ calls[c] \in Call
  BY Zenon DEF IInv, Typed, Aggregate, At, GoodCall
<1>2. /\ calls[c].q \in Queries /\ calls[c].i + 1 \in Nat /\ MessageOf(calls[c]) \in Message
      /\ calls[c].commitments \subseteq Nonce /\ NodesOf(calls[c].participating) \subseteq Nodes
  BY <1>1 DEF Call, MessageOf, Message, NodesOf, Nonce
<1>3. UNCHANGED <<setup, jobs, begun, drawn, pending, seen, sent, repeats, answers, endorsed, shares>>
  BY Zenon DEF Aggregate, net
<1>4. sent' \subseteq Request /\ answers' \subseteq answers
  BY <1>3, Zenon DEF IInv, Typed, TypeOK
<1> DEFINE signature == [by |-> c, msg |-> MessageOf(calls[c]), commitments |-> calls[c].commitments,
                         participated |-> {c} \union NodesOf(calls[c].participating)]
<1>5. signature \in Signature
  BY <1>2, Zenon DEF Signature
<1>6. signatures' \subseteq signatures \union {signature} /\ granted' \subseteq granted \union {<<c, calls[c].q>>}
  BY Zenon DEF Aggregate
<1> HIDE DEF signature
<1>7. signatures' \subseteq Signature /\ granted' \subseteq Coordinators \X Queries
  <2>1. signatures \subseteq Signature /\ granted \subseteq Coordinators \X Queries
    BY Zenon DEF IInv, Typed, TypeOK
  <2> QED BY <1>2, <1>5, <1>6, <2>1
<1>8. CASE Return(c)
  <2>1. calls' = [calls EXCEPT ![c] = None]
    BY <1>8, Zenon DEF Return
  <2> QED BY <1>3, <1>4, <1>7, <2>1, CallKeeps, Zenon
<1>9. CASE Suspend(c, Coordinate(calls[c].q, calls[c].i + 1))
  <2>1. PICK v : calls' = [calls EXCEPT ![c] = v] /\ GoodCall(v) /\ v.at = "round1"
    BY <1>2, <1>9, CoordinateTyped, Zenon DEF Suspend
  <2> QED BY <1>3, <1>4, <1>7, <2>1, CallKeeps, Zenon
<1> QED BY <1>8, <1>9, Zenon DEF Aggregate

-----------------------------------------------------------------------------
(* The theorems.                                                           *)

LEMMA StepKeeps == IInv /\ [Next]_vars => IInv'
<1> SUFFICES ASSUME IInv, [Next]_vars PROVE IInv'
  BY Zenon
<1>1. CASE UNCHANGED vars
  <2>1. UNCHANGED <<calls, jobs, drawn, pending, shares>>
    BY <1>1, Zenon DEF vars
  <2>2. Typed'
    BY <1>1, Zenon DEF vars, IInv, Typed, TypeOK
  <2>3. Drawn'
    BY <2>1, ZenonT(30) DEF IInv, Drawn, Old, Signing, Keeps
  <2>4. ApartStored' /\ ApartJobs' /\ ApartCalls'
    BY <2>1, SMTT(30) DEF IInv, Apart, ApartStored, ApartJobs, ApartCalls, Signing, Keeps
  <2> QED BY <2>2, <2>3, <2>4, Zenon DEF IInv, Apart
<1>2. ASSUME NEW j \in Jobs, VerifyProof(j) \/ Commit(j) \/ Sign(j)
      PROVE  IInv'
  BY <1>2, VerifyProofKeeps, CommitKeeps, SignKeeps, Zenon
<1>3. ASSUME NEW j \in Jobs, NEW req \in sent, ReceiveRound1(j, req) \/ ReceiveRound2(j, req)
      PROVE  IInv'
  BY <1>3, ReceiveRound1Keeps, ReceiveRound2Takes, Zenon
<1>4. ASSUME NEW c \in Coordinators, NEW q \in Queries, RequestSignature(c, q)
      PROVE  IInv'
  BY <1>4, RequestSignatureKeeps, Zenon
<1>5. ASSUME NEW c \in Coordinators,
             LocalRound1(c) \/ PeerRound1(c) \/ LocalRound2(c) \/ PeerRound2(c) \/ Aggregate(c)
      PROVE  IInv'
  BY <1>5, LocalRound1Keeps, PeerRound1Keeps, LocalRound2Keeps, PeerRound2Keeps, AggregateKeeps, Zenon
<1> QED BY <1>1, <1>2, <1>3, <1>4, <1>5, Zenon DEF Next

\* Every variable of the two signing rounds keeps the shape the code gives it.
THEOREM SigningTyped == Spec => []TypeOK
<1>1. IInv => TypeOK
  BY Zenon DEF IInv, Typed
<1> QED BY <1>1, InitInv, StepKeeps, PTL DEF Spec

\* frost-signer-routes.ts deletes a nonce when it looks it up, and
\* coordinateSigning keeps its own in a local variable: whatever overlaps or is
\* delivered twice, a nonce makes one share at most and is then kept nowhere.
THEOREM NonceSafe == Spec => []NonceUsedOnce
<1>1. IInv => NonceUsedOnce
  BY Zenon DEF IInv, Apart, ApartStored, ApartJobs, ApartCalls, NonceUsedOnce
<1> QED BY <1>1, InitInv, StepKeeps, PTL DEF Spec

(***************************************************************************)
(* Refinement: what stands behind a signature.                             *)
(***************************************************************************)
\* A call's commitments come from different nodes that verified its result (E:
\* who verified what), the coordinator too, and no peer is asked again.
Backed(c, call, E) ==
  /\ <<c, call.q>> \in E
  /\ IsFiniteSet(call.commitments)
  /\ \A k \in call.commitments : <<k[1], call.q>> \in E
  /\ \A k, l \in call.commitments : k[1] = l[1] => k = l
  /\ call.at = "peer1" => /\ call.asked.q = call.q /\ call.asked.to \notin call.rest
                          /\ \A k \in call.commitments : k[1] \notin call.rest \union {call.asked.to}
  /\ call.at = "aggregate" => ~(Cardinality(call.signed) < Threshold)

\* A handler past its verification, and an answer with a nonce, are of a node
\* that verified.
BackedJob(job, E) == job.at = "commit" => <<job.req.to, job.req.q>> \in E
BackedAnswer(a, E) ==
  a.ok /\ a.req.round = 1 => a.nonce[1] = a.req.to /\ <<a.req.to, a.req.q>> \in E

Behind ==
  /\ \A c \in Coordinators : calls[c] # None => Backed(c, calls[c], endorsed)
  /\ \A j \in Jobs : jobs[j] # None => BackedJob(jobs[j], endorsed)
  /\ \A a \in answers : BackedAnswer(a, endorsed)

\* Endorsements are never withdrawn.
LEMMA StaysBacked ==
  ASSUME NEW E, NEW F, E \subseteq F
  PROVE  /\ \A c, call : Backed(c, call, E) => Backed(c, call, F)
         /\ \A job : BackedJob(job, E) => BackedJob(job, F)
         /\ \A a : BackedAnswer(a, E) => BackedAnswer(a, F)
BY Zenon DEF Backed, BackedJob, BackedAnswer

\* A handler ends or goes on: what it leaves is backed.
LEMMA JobBehind ==
  ASSUME IInv, Behind, endorsed \subseteq endorsed', UNCHANGED calls,
         NEW j \in Jobs, NEW v, jobs' = [jobs EXCEPT ![j] = v], v = None \/ BackedJob(v, endorsed'),
         \A a \in answers' : a \in answers \/ BackedAnswer(a, endorsed')
  PROVE  Behind'
<1>1. jobs \in [Jobs -> Job \union {None}]
  BY Zenon DEF IInv, Typed, TypeOK
<1>2. jobs'[j] = v /\ \A i \in Jobs : i # j => jobs'[i] = jobs[i]
  BY <1>1, Zenon
<1>3. \A i \in Jobs : jobs'[i] # None => BackedJob(jobs'[i], endorsed')
  BY <1>2, StaysBacked, Zenon DEF Behind
<1>4. \A a \in answers' : BackedAnswer(a, endorsed')
  BY StaysBacked, Zenon DEF Behind
<1>5. \A c \in Coordinators : calls'[c] # None => Backed(c, calls'[c], endorsed')
  BY StaysBacked, Zenon DEF Behind
<1> QED BY <1>3, <1>4, <1>5, Zenon DEF Behind

\* A call begins, ends or goes on.
LEMMA CallBehind ==
  ASSUME IInv, Behind, endorsed \subseteq endorsed', UNCHANGED jobs,
         NEW c \in Coordinators, NEW v, calls' = [calls EXCEPT ![c] = v],
         v = None \/ Backed(c, v, endorsed'), answers' \subseteq answers
  PROVE  Behind'
<1>1. calls \in [Coordinators -> Call \union {None}]
  BY Zenon DEF IInv, Typed, TypeOK
<1>2. calls'[c] = v /\ \A d \in Coordinators : d # c => calls'[d] = calls[d]
  BY <1>1, Zenon
<1>3. \A d \in Coordinators : calls'[d] # None => Backed(d, calls'[d], endorsed')
  BY <1>2, StaysBacked, Zenon DEF Behind
<1>4. \A a \in answers' : BackedAnswer(a, endorsed')
  BY StaysBacked, Zenon DEF Behind
<1>5. \A j \in Jobs : jobs'[j] # None => BackedJob(jobs'[j], endorsed')
  BY StaysBacked, Zenon DEF Behind
<1> QED BY <1>3, <1>4, <1>5, Zenon DEF Behind

\* Respond: the only new answer is the one that is sent.
LEMMA RespondBehind ==
  ASSUME IInv, Behind, endorsed \subseteq endorsed', UNCHANGED calls,
         NEW j \in Jobs, NEW req \in Request, NEW ok \in BOOLEAN, NEW nonce,
         Respond(j, req, ok, nonce),
         ok /\ req.round = 1 => nonce[1] = req.to /\ <<req.to, req.q>> \in endorsed'
  PROVE  Behind'
<1> DEFINE new == [req |-> req, ok |-> ok, nonce |-> nonce]
<1>1. BackedAnswer(new, endorsed')
  BY Zenon DEF BackedAnswer
<1>2. answers' \subseteq answers \union {new} /\ jobs' = [jobs EXCEPT ![j] = None]
  BY Zenon DEF Respond
<1> HIDE DEF new
<1> QED BY <1>1, <1>2, JobBehind, Zenon

\* coordinateSigning, round 1: a peer that is asked has sent nothing yet.
LEMMA Round1LoopBacked ==
  ASSUME NEW c \in Coordinators, NEW call \in Call, NEW looks \in BOOLEAN, NEW E,
         Round1Loop(c, call, looks),
         <<c, call.q>> \in E, IsFiniteSet(call.commitments),
         \A k \in call.commitments : <<k[1], call.q>> \in E /\ k[1] \notin call.rest,
         \A k, l \in call.commitments : k[1] = l[1] => k = l
  PROVE  \E v : calls' = [calls EXCEPT ![c] = v] /\ (v = None \/ Backed(c, v, E))
<1> DEFINE req == [round |-> 1, id |-> call.own, to |-> Min(call.rest), q |-> call.q,
                   msg |-> MessageOf(call), nonce |-> None, commitments |-> {}]
           asks == [call EXCEPT !.at = "peer1", !.rest = @ \ {req.to}, !.asked = req]
           next == [call EXCEPT !.at = "round2", !.asked = None]
<1>1. CASE AskPeer(c, call, "peer1", req) /\ call.rest # {}
  <2>1. call.rest \in SUBSET Nat
    BY FrostAssumption, Zenon DEF Call
  <2>2. req.to \in call.rest /\ req.q = call.q
    BY <1>1, <2>1, MinIn, Zenon
  <2>3. /\ asks.q = call.q /\ asks.commitments = call.commitments /\ asks.at = "peer1"
        /\ asks.rest = call.rest \ {req.to} /\ asks.asked = req
    BY Zenon DEF Call
  <2>4. calls' = [calls EXCEPT ![c] = asks]
    BY <1>1, Zenon DEF AskPeer, Suspend
  <2> HIDE DEF asks, req
  <2>5. Backed(c, asks, E)
    BY <2>2, <2>3, Zenon DEF Backed
  <2> QED BY <2>4, <2>5, Zenon
<1>2. CASE Return(c)
  BY <1>2, Zenon DEF Return
<1>3. CASE Suspend(c, next)
  <2>1. next.q = call.q /\ next.commitments = call.commitments /\ next.at = "round2"
    BY Zenon DEF Call
  <2>2. calls' = [calls EXCEPT ![c] = next]
    BY <1>3, Zenon DEF Suspend
  <2> HIDE DEF next
  <2>3. Backed(c, next, E)
    BY <2>1, Zenon DEF Backed
  <2> QED BY <2>2, <2>3, Zenon
<1> QED BY <1>1, <1>2, <1>3, Zenon DEF Round1Loop

\* coordinateSigning, round 2: the commitments stay, and only a threshold of
\* shares is aggregated.
LEMMA Round2LoopBacked ==
  ASSUME NEW c \in Coordinators, NEW call \in Call, NEW E, Round2Loop(c, call),
         <<c, call.q>> \in E, IsFiniteSet(call.commitments),
         \A k \in call.commitments : <<k[1], call.q>> \in E,
         \A k, l \in call.commitments : k[1] = l[1] => k = l
  PROVE  \E v : calls' = [calls EXCEPT ![c] = v] /\ (v = None \/ Backed(c, v, E))
<1> DEFINE k == CHOOSE k \in call.participating : k[1] = Min(call.rest)
           req == [round |-> 2, id |-> call.own, to |-> k[1], q |-> call.q,
                   msg |-> MessageOf(call), nonce |-> k, commitments |-> call.commitments]
           asks == [call EXCEPT !.at = "peer2", !.rest = @ \ {req.to}, !.asked = req]
           next == [call EXCEPT !.at = "aggregate", !.asked = None]
<1>1. CASE AskPeer(c, call, "peer2", req)
  <2>1. asks.q = call.q /\ asks.commitments = call.commitments /\ asks.at = "peer2"
    BY Zenon DEF Call
  <2>2. calls' = [calls EXCEPT ![c] = asks]
    BY <1>1, Zenon DEF AskPeer, Suspend
  <2> HIDE DEF asks
  <2>3. Backed(c, asks, E)
    BY <2>1, Zenon DEF Backed
  <2> QED BY <2>2, <2>3, Zenon
<1>2. CASE Return(c)
  BY <1>2, Zenon DEF Return
<1>3. CASE Suspend(c, next) /\ ~(Cardinality(call.signed) < Threshold)
  <2>1. /\ next.q = call.q /\ next.commitments = call.commitments /\ next.at = "aggregate"
        /\ next.signed = call.signed
    BY Zenon DEF Call
  <2>2. calls' = [calls EXCEPT ![c] = next]
    BY <1>3, Zenon DEF Suspend
  <2> HIDE DEF next
  <2>3. Backed(c, next, E)
    BY <1>3, <2>1, Zenon DEF Backed
  <2> QED BY <2>2, <2>3, Zenon
<1> QED BY <1>1, <1>2, <1>3, Zenon DEF Round2Loop

-----------------------------------------------------------------------------
(* Every step leaves what is there backed.                                 *)

LEMMA PeersBehind ==
  ASSUME IInv, Behind, NEW j \in Jobs,
         \/ VerifyProof(j) \/ Commit(j) \/ Sign(j)
         \/ \E req \in sent : ReceiveRound1(j, req) \/ ReceiveRound2(j, req)
  PROVE  Behind' /\ endorsed \subseteq endorsed'
<1>1. ASSUME NEW req \in Request, Refuse(j, req), endorsed \subseteq endorsed', UNCHANGED calls
      PROVE  Behind'
  <2>1. Respond(j, req, FALSE, None)
    BY <1>1, Zenon DEF Refuse
  <2> QED BY <1>1, <2>1, RespondBehind, Zenon
<1>2. ASSUME NEW req \in Request, NEW await, Goto(j, req, await), UNCHANGED <<calls, answers>>,
             endorsed \subseteq endorsed', await = "commit" => <<req.to, req.q>> \in endorsed'
      PROVE  Behind'
  <2> DEFINE v == [req |-> req, at |-> await]
  <2>1. BackedJob(v, endorsed')
    BY <1>2, Zenon DEF BackedJob
  <2>2. jobs' = [jobs EXCEPT ![j] = v]
    BY <1>2, Zenon DEF Goto
  <2> HIDE DEF v
  <2> QED BY <1>2, <2>1, <2>2, JobBehind, Zenon
<1>3. ASSUME VerifyProof(j) PROVE Behind' /\ endorsed \subseteq endorsed'
  <2>1. PICK req \in Request : req = jobs[j].req
    BY <1>3, Zenon DEF VerifyProof, IInv, Typed, GoodJob, Job
  <2>2. UNCHANGED calls /\ endorsed \subseteq endorsed'
    BY <1>3, Zenon DEF VerifyProof
  <2>3. \/ Refuse(j, req)
        \/ Goto(j, req, "commit") /\ UNCHANGED answers /\ <<req.to, req.q>> \in endorsed'
    BY <1>3, <2>1, Zenon DEF VerifyProof
  <2>4. CASE Refuse(j, req)
    BY <1>1, <2>2, <2>4, Zenon
  <2>5. CASE Goto(j, req, "commit") /\ UNCHANGED answers /\ <<req.to, req.q>> \in endorsed'
    BY <1>2, <2>2, <2>5, Zenon
  <2> QED BY <2>2, <2>3, <2>4, <2>5, Zenon
<1>4. ASSUME Commit(j) PROVE Behind' /\ endorsed \subseteq endorsed'
  <2>1. PICK req \in Request : req = jobs[j].req
    BY <1>4, Zenon DEF Commit, IInv, Typed, GoodJob, Job
  <2>2. UNCHANGED <<calls, endorsed>>
    BY <1>4, Zenon DEF Commit, history
  <2>3. <<req.to, req.q>> \in endorsed
    BY <1>4, <2>1, Zenon DEF Commit, Behind, BackedJob
  <2>4. CASE Refuse(j, req)
    BY <1>1, <2>2, <2>4, Zenon
  <2>5. PICK new : new = FreshNonce(req.to)
    BY Zenon
  <2>6. CASE Respond(j, req, TRUE, new)
    <3>1. new[1] = req.to
      BY <2>5, Zenon DEF FreshNonce
    <3> QED BY <2>2, <2>3, <2>6, <3>1, RespondBehind, Zenon
  <2>7. Refuse(j, req) \/ Respond(j, req, TRUE, new)
    BY <1>4, <2>1, <2>5, Zenon DEF Commit
  <2> QED BY <2>4, <2>6, <2>7, ZenonT(40)
<1>5. ASSUME Sign(j) PROVE Behind' /\ endorsed \subseteq endorsed'
  <2>1. PICK req \in Request : req = jobs[j].req /\ req.round = 2
    BY <1>5, Zenon DEF Sign, IInv, Typed, GoodJob, Job
  <2>2. UNCHANGED <<calls, endorsed>>
    BY <1>5, Zenon DEF Sign
  <2>3. PICK ok \in BOOLEAN : Respond(j, req, ok, None)
    BY <1>5, <2>1, ZenonT(40) DEF Sign, runFrostCommand
  <2>4. ok /\ req.round = 1 => None[1] = req.to /\ <<req.to, req.q>> \in endorsed'
    BY <2>1
  <2> QED BY <2>2, <2>3, <2>4, RespondBehind, ZenonT(40)
<1>6. ASSUME NEW req \in sent, ReceiveRound1(j, req) \/ ReceiveRound2(j, req)
      PROVE  Behind' /\ endorsed \subseteq endorsed'
  <2>1. req \in Request
    BY Zenon DEF IInv, Typed, TypeOK
  <2>2. UNCHANGED <<calls, endorsed>>
    BY <1>6, Zenon DEF ReceiveRound1, ReceiveRound2, history
  <2>3. \/ Refuse(j, req)
        \/ \E await \in {"verify", "sign"} : Goto(j, req, await) /\ UNCHANGED answers
    BY <1>6, Zenon DEF ReceiveRound1, ReceiveRound2
  <2> QED BY <1>1, <1>2, <2>1, <2>2, <2>3, Zenon
<1> QED BY <1>3, <1>4, <1>5, <1>6, Zenon

LEMMA RequestSignatureBehind ==
  ASSUME IInv, Behind, NEW c \in Coordinators, NEW q \in Queries, RequestSignature(c, q)
  PROVE  Behind'
<1> DEFINE v == Coordinate(q, FirstMessage)
<1>1. v.q = q /\ v.commitments = {} /\ v.at = "round1"
  BY Zenon DEF Coordinate
<1>2. /\ calls' = [calls EXCEPT ![c] = v] /\ endorsed' = endorsed \union {<<c, q>>}
      /\ UNCHANGED <<jobs, answers>>
  BY Zenon DEF RequestSignature, Suspend
<1> HIDE DEF v
<1>3. Backed(c, v, endorsed')
  BY <1>1, <1>2, FS_EmptySet, Zenon DEF Backed
<1> QED BY <1>2, <1>3, CallBehind, Zenon

LEMMA LocalRound1Behind ==
  ASSUME IInv, Behind, NEW c \in Coordinators, LocalRound1(c)
  PROVE  Behind'
<1>1. calls[c] \in Call /\ <<c, calls[c].q>> \in endorsed
  BY Zenon DEF LocalRound1, At, IInv, Typed, GoodCall, Behind, Backed
<1>2. UNCHANGED <<jobs, answers, endorsed>>
  BY Zenon DEF LocalRound1, history
<1>3. CASE Return(c)
  <2>1. calls' = [calls EXCEPT ![c] = None]
    BY <1>3, Zenon DEF Return
  <2> QED BY <1>2, <2>1, CallBehind, Zenon
<1>4. CASE Round1Loop(c, [calls[c] EXCEPT !.own = FreshNonce(c), !.commitments = {FreshNonce(c)},
                                          !.rest = Nodes \ {c}], FALSE)
  <2>1. FreshNonce(c) \in Nonce /\ FreshNonce(c)[1] = c
    BY FrostAssumption DEF FreshNonce, Nonce, IInv, Typed, TypeOK
  <2> DEFINE next == [calls[c] EXCEPT !.own = FreshNonce(c), !.commitments = {FreshNonce(c)},
                                      !.rest = Nodes \ {c}]
  <2>2. /\ next \in Call /\ next.q = calls[c].q /\ next.commitments = {FreshNonce(c)}
        /\ next.rest = Nodes \ {c}
    BY <1>1, <2>1, Zenon DEF Call
  <2>3. PICK call \in Call : call = next
    <3> HIDE DEF next
    <3> QED BY <2>2, Zenon
  <2>4. PICK looks \in BOOLEAN : Round1Loop(c, call, looks)
    BY <1>4, <2>3, Zenon
  <2> HIDE DEF next
  <2>5. /\ <<c, call.q>> \in endorsed' /\ IsFiniteSet(call.commitments)
        /\ \A k \in call.commitments : <<k[1], call.q>> \in endorsed' /\ k[1] \notin call.rest
        /\ \A k, l \in call.commitments : k[1] = l[1] => k = l
    BY <1>1, <1>2, <2>1, <2>2, <2>3, FS_Singleton, SMTT(30)
  <2>6. PICK E : E = endorsed'
    BY Zenon
  <2>7. PICK v : calls' = [calls EXCEPT ![c] = v] /\ (v = None \/ Backed(c, v, E))
    BY <2>4, <2>5, <2>6, Round1LoopBacked
  <2> QED BY <1>2, <2>6, <2>7, CallBehind, ZenonT(40)
<1> QED BY <1>3, <1>4, Zenon DEF LocalRound1

LEMMA PeerRound1Behind ==
  ASSUME IInv, Behind, NEW c \in Coordinators, PeerRound1(c)
  PROVE  Behind'
<1>1. PICK old \in Call : old = calls[c] /\ GoodCall(old) /\ old.at = "peer1"
  BY Zenon DEF PeerRound1, At, IInv, Typed, GoodCall
<1>2. UNCHANGED <<jobs, endorsed>> /\ answers' \subseteq answers
  BY Zenon DEF PeerRound1, history
<1>3. PICK E : E = endorsed
  BY Zenon
<1>4. Backed(c, old, E)
  BY <1>1, <1>3, Zenon DEF Behind, PeerRound1, At
<1>5. \/ \E looks \in BOOLEAN : Round1Loop(c, old, looks)
      \/ \E a \in AnswersTo(c) :
           a.ok /\ Round1Loop(c, [old EXCEPT !.commitments = @ \union {a.nonce},
                                             !.participating = @ \union {a.nonce}], TRUE)
  BY <1>1, Zenon DEF PeerRound1
<1>6. PICK call \in Call, looks \in BOOLEAN :
        /\ Round1Loop(c, call, looks)
        /\ <<c, call.q>> \in E /\ IsFiniteSet(call.commitments)
        /\ \A k \in call.commitments : <<k[1], call.q>> \in E /\ k[1] \notin call.rest
        /\ \A k, l \in call.commitments : k[1] = l[1] => k = l
  <2>1. CASE \E looks \in BOOLEAN : Round1Loop(c, old, looks)
    BY <1>1, <1>4, <2>1, Zenon DEF Backed
  <2>2. CASE \E a \in AnswersTo(c) :
               a.ok /\ Round1Loop(c, [old EXCEPT !.commitments = @ \union {a.nonce},
                                                 !.participating = @ \union {a.nonce}], TRUE)
    <3>1. PICK a \in AnswersTo(c) :
               a.ok /\ Round1Loop(c, [old EXCEPT !.commitments = @ \union {a.nonce},
                                                 !.participating = @ \union {a.nonce}], TRUE)
      BY <2>2, Zenon
    <3>2. a \in answers /\ a.req = old.asked /\ old.asked.round = 1
      BY <1>1, Zenon DEF AnswersTo, GoodCall
    <3>3. a.nonce \in Nonce
      BY <3>1, <3>2, Zenon DEF IInv, Typed, GoodAnswer
    <3>4. a.nonce[1] = old.asked.to /\ <<old.asked.to, old.asked.q>> \in E
      BY <1>3, <3>1, <3>2, Zenon DEF Behind, BackedAnswer
    <3> DEFINE call == [old EXCEPT !.commitments = @ \union {a.nonce},
                                   !.participating = @ \union {a.nonce}]
    <3>5. /\ call \in Call /\ call.q = old.q /\ call.rest = old.rest
          /\ call.commitments = old.commitments \union {a.nonce}
      BY <3>3, Zenon DEF Call
    <3>6. Round1Loop(c, call, TRUE)
      BY <3>1, Zenon
    <3> HIDE DEF call
    <3>7. IsFiniteSet(call.commitments)
      BY <1>4, <3>5, FS_AddElement, SMTT(30) DEF Backed
    <3>8. /\ old.asked.q = old.q /\ old.asked.to \notin old.rest
          /\ \A k \in old.commitments : k[1] \notin old.rest \union {old.asked.to}
      BY <1>1, <1>4, Zenon DEF Backed
    <3>9. /\ <<c, call.q>> \in E
          /\ \A k \in call.commitments : <<k[1], call.q>> \in E /\ k[1] \notin call.rest
          /\ \A k, l \in call.commitments : k[1] = l[1] => k = l
      BY <1>4, <3>4, <3>5, <3>8, Zenon DEF Backed
    <3> QED BY <3>5, <3>6, <3>7, <3>9, Zenon
  <2> QED BY <1>5, <2>1, <2>2, Zenon
<1>7. PICK v : calls' = [calls EXCEPT ![c] = v] /\ (v = None \/ Backed(c, v, E))
  BY <1>6, Round1LoopBacked
<1> QED BY <1>2, <1>3, <1>7, CallBehind, Zenon

LEMMA Round2Behind ==
  ASSUME IInv, Behind, NEW c \in Coordinators, LocalRound2(c) \/ PeerRound2(c)
  PROVE  Behind'
<1>1. PICK old \in Call : old = calls[c] /\ GoodCall(old) /\ (PeerRound2(c) => old.at = "peer2")
  BY Zenon DEF LocalRound2, PeerRound2, At, IInv, Typed, GoodCall
<1>2. UNCHANGED <<jobs, endorsed>> /\ answers' \subseteq answers
  BY Zenon DEF LocalRound2, PeerRound2, history
<1>3. PICK E : E = endorsed
  BY Zenon
<1>4. Backed(c, old, E)
  BY <1>1, <1>3, Zenon DEF Behind, LocalRound2, PeerRound2, At
<1>5. CASE Return(c)
  <2>1. calls' = [calls EXCEPT ![c] = None]
    BY <1>5, Zenon DEF Return
  <2> QED BY <1>2, <2>1, CallBehind, Zenon
<1>6. ASSUME NEW call \in Call, Round2Loop(c, call), call.q = old.q,
             call.commitments = old.commitments
      PROVE  Behind'
  <2>1. PICK v : calls' = [calls EXCEPT ![c] = v] /\ (v = None \/ Backed(c, v, E))
    <3>1. /\ <<c, call.q>> \in E /\ IsFiniteSet(call.commitments)
          /\ \A k \in call.commitments : <<k[1], call.q>> \in E
          /\ \A k, l \in call.commitments : k[1] = l[1] => k = l
      BY <1>4, <1>6, Zenon DEF Backed
    <3> QED BY <1>6, <3>1, Round2LoopBacked, ZenonT(40)
  <2> QED BY <1>2, <1>3, <2>1, CallBehind, Zenon
<1>7. CASE Round2Loop(c, [old EXCEPT !.signed = {old.own}, !.rest = NodesOf(old.participating)])
           /\ LocalRound2(c)
  <2> DEFINE call == [old EXCEPT !.signed = {old.own}, !.rest = NodesOf(old.participating)]
  <2>1. old.own \in Nonce /\ NodesOf(old.participating) \subseteq Nodes
    BY <1>1, <1>7, ZenonT(40) DEF LocalRound2, At, GoodCall, Call, NodesOf, Nonce
  <2>2. call \in Call /\ call.q = old.q /\ call.commitments = old.commitments
    BY <2>1, Zenon DEF Call
  <2>3. Round2Loop(c, call)
    BY <1>7, Zenon
  <2> HIDE DEF call
  <2> QED BY <1>6, <2>2, <2>3, Zenon
<1>8. CASE PeerRound2(c) /\ \E a \in AnswersTo(c) : Round2Loop(c, [old EXCEPT !.signed = @ \union {a.req.nonce}])
  <2>1. PICK a \in AnswersTo(c) : Round2Loop(c, [old EXCEPT !.signed = @ \union {a.req.nonce}])
    BY <1>8, Zenon
  <2> DEFINE call == [old EXCEPT !.signed = @ \union {a.req.nonce}]
  <2>2. a.req.nonce \in Nonce
    BY <1>1, <1>8, Zenon DEF AnswersTo, GoodCall
  <2>3. call \in Call /\ call.q = old.q /\ call.commitments = old.commitments
    BY <2>2, Zenon DEF Call
  <2>4. Round2Loop(c, call)
    BY <2>1, Zenon
  <2> HIDE DEF call
  <2> QED BY <1>6, <2>3, <2>4, Zenon
<1>9. CASE Round2Loop(c, old)
  BY <1>6, <1>9, Zenon
<1>10. CASE LocalRound2(c)
  BY <1>1, <1>5, <1>7, <1>10, Zenon DEF LocalRound2
<1>11. CASE PeerRound2(c)
  BY <1>1, <1>8, <1>9, <1>11, ZenonT(40) DEF PeerRound2
<1> QED BY <1>10, <1>11, Zenon

LEMMA AggregateBehind ==
  ASSUME IInv, Behind, NEW c \in Coordinators, Aggregate(c)
  PROVE  Behind'
<1>1. calls[c] \in Call /\ <<c, calls[c].q>> \in endorsed
  BY Zenon DEF Aggregate, At, IInv, Typed, GoodCall, Behind, Backed
<1>2. UNCHANGED <<jobs, answers, endorsed>>
  BY DEF Aggregate
<1>3. CASE Return(c)
  <2>1. calls' = [calls EXCEPT ![c] = None]
    BY <1>3, Zenon DEF Return
  <2> QED BY <1>2, <2>1, CallBehind, Zenon
<1>4. CASE Suspend(c, Coordinate(calls[c].q, calls[c].i + 1))
  <2>1. PICK v : calls' = [calls EXCEPT ![c] = v] /\ v = Coordinate(calls[c].q, calls[c].i + 1)
    BY <1>4, Zenon DEF Suspend
  <2>2. v.q = calls[c].q /\ v.commitments = {} /\ v.at = "round1"
    BY <2>1, Zenon DEF Coordinate
  <2>3. Backed(c, v, endorsed')
    BY <1>1, <1>2, <2>2, FS_EmptySet, Zenon DEF Backed
  <2> QED BY <1>2, <2>1, <2>3, CallBehind, Zenon
<1> QED BY <1>3, <1>4, Zenon DEF Aggregate

LEMMA StepBehind == IInv /\ Behind /\ [Next]_vars => Behind'
<1> SUFFICES ASSUME IInv, Behind, [Next]_vars PROVE Behind'
  BY Zenon
<1>1. CASE UNCHANGED vars
  BY <1>1, Zenon DEF vars, Behind
<1>2. ASSUME NEW j \in Jobs,
             \/ VerifyProof(j) \/ Commit(j) \/ Sign(j)
             \/ \E req \in sent : ReceiveRound1(j, req) \/ ReceiveRound2(j, req)
      PROVE  Behind'
  BY <1>2, PeersBehind, Zenon
<1>3. ASSUME NEW c \in Coordinators, NEW q \in Queries, RequestSignature(c, q)
      PROVE  Behind'
  BY <1>3, RequestSignatureBehind, Zenon
<1>4. ASSUME NEW c \in Coordinators,
             LocalRound1(c) \/ PeerRound1(c) \/ LocalRound2(c) \/ PeerRound2(c) \/ Aggregate(c)
      PROVE  Behind'
  BY <1>4, LocalRound1Behind, PeerRound1Behind, Round2Behind, AggregateBehind, Zenon
<1> QED BY <1>1, <1>2, <1>3, <1>4, Zenon DEF Next

-----------------------------------------------------------------------------
(* The refinement.                                                         *)

\* Commitments of different nodes are as many as their nodes.
LEMMA EnoughEndorsers ==
  ASSUME NEW S \in SUBSET Nonce, IsFiniteSet(S), NEW T \in SUBSET Nodes,
         \A k \in S : k[1] \in T, \A k, l \in S : k[1] = l[1] => k = l
  PROVE  /\ Cardinality(S) \in Nat /\ Cardinality(T) \in Nat
         /\ Cardinality(S) <= Cardinality(T)
<1>1. IsFiniteSet(T)
  BY FrostAssumption, FS_Subset, Zenon
<1> DEFINE f == [k \in S |-> k[1]]
<1>2. f \in Injection(S, T)
  BY Zenon DEF Injection, IsInjective
<1>3. Cardinality(S) <= Cardinality(T)
  BY <1>1, <1>2, FS_Injection, Zenon
<1> QED BY <1>1, <1>3, FS_CardinalityType, Zenon

\* A list of signatures is returned only after enough nodes verified.
LEMMA AggregateGrants ==
  ASSUME IInv, Behind, NEW c \in Coordinators, Aggregate(c)
  PROVE  [Promise!Next]_<<endorsed, granted>>
<1>1. PICK call \in Call : call = calls[c] /\ Backed(c, call, endorsed) /\ call.at = "aggregate"
  BY Zenon DEF Aggregate, At, IInv, Typed, GoodCall, Behind
<1>2. UNCHANGED endorsed
  BY Zenon DEF Aggregate
<1>3. CASE UNCHANGED granted
  BY <1>2, <1>3, Zenon
<1>4. CASE granted' = granted \union {<<c, call.q>>} /\ CanAggregate(call, MessageOf(call))
  <2> DEFINE T == {n \in Nodes : <<n, call.q>> \in endorsed}
  <2>1. call.commitments \in SUBSET Nonce /\ call.q \in Queries /\ call.signed = call.commitments
    BY <1>4, Zenon DEF Call, CanAggregate
  <2>2. \A k \in call.commitments : k[1] \in T
    BY <1>1, <2>1, Zenon DEF Backed, Nonce
  <2>3. T \in SUBSET Nodes /\ c \in T /\ c \in Nodes
    BY <1>1, FrostAssumption, Zenon DEF Backed
  <2> HIDE DEF T
  <2>4. /\ Cardinality(call.commitments) \in Nat /\ Cardinality(T) \in Nat
        /\ Cardinality(call.commitments) <= Cardinality(T)
    BY <1>1, <2>1, <2>2, <2>3, EnoughEndorsers, Zenon DEF Backed
  <2>5. ~(Cardinality(call.commitments) < Threshold)
    BY <1>1, <2>1, Zenon DEF Backed
  <2>6. Cardinality(T) >= Threshold
    BY <2>4, <2>5, FrostAssumption
  <2>7. Promise!Grant(c, call.q)
    <3>1. c \in Promise!Endorsers(call.q)
      BY <2>3, Zenon DEF T, Promise!Endorsers
    <3>2. Promise!Cardinality(T) = Cardinality(T)
      BY Zenon DEF Cardinality, Promise!Cardinality
    <3>3. Promise!Cardinality(Promise!Endorsers(call.q)) >= Threshold
      BY <2>6, <3>2, Zenon DEF T, Promise!Endorsers
    <3> QED BY <1>2, <1>4, <3>1, <3>3, Zenon DEF Promise!Grant
  <2> QED BY <2>1, <2>3, <2>7, Zenon DEF Promise!Next
<1>5. UNCHANGED granted \/ (granted' = granted \union {<<c, call.q>>} /\ CanAggregate(call, MessageOf(call)))
  BY <1>1, Zenon DEF Aggregate, runFrostCommand
<1> QED BY <1>3, <1>4, <1>5, Zenon

LEMMA StepRefines == IInv /\ Behind /\ [Next]_vars => [Promise!Next]_<<endorsed, granted>>
<1> SUFFICES ASSUME IInv, Behind, [Next]_vars PROVE [Promise!Next]_<<endorsed, granted>>
  BY Zenon
<1>1. CASE UNCHANGED <<endorsed, granted>>
  BY <1>1, Zenon
<1>2. ASSUME NEW n \in Nodes, NEW q \in Queries, UNCHANGED granted,
             endorsed' = endorsed \union {<<n, q>>}
      PROVE  [Promise!Next]_<<endorsed, granted>>
  <2>1. Promise!Endorse(n, q)
    BY <1>2, Zenon DEF Promise!Endorse
  <2> QED BY <2>1, Zenon DEF Promise!Next
<1>3. ASSUME NEW j \in Jobs, VerifyProof(j) PROVE [Promise!Next]_<<endorsed, granted>>
  <2>1. PICK req \in Request : req = jobs[j].req
    BY <1>3, Zenon DEF VerifyProof, IInv, Typed, GoodJob, Job
  <2>2. req.to \in Nodes /\ req.q \in Queries
    BY Zenon DEF Request
  <2>3. UNCHANGED granted /\ (UNCHANGED endorsed \/ endorsed' = endorsed \union {<<req.to, req.q>>})
    BY <1>3, <2>1, Zenon DEF VerifyProof
  <2> QED BY <1>1, <1>2, <2>2, <2>3, Zenon
<1>4. ASSUME NEW c \in Coordinators, NEW q \in Queries, RequestSignature(c, q)
      PROVE  [Promise!Next]_<<endorsed, granted>>
  BY <1>2, <1>4, FrostAssumption, Zenon DEF RequestSignature
<1>5. ASSUME NEW c \in Coordinators, Aggregate(c) PROVE [Promise!Next]_<<endorsed, granted>>
  BY <1>5, AggregateGrants, Zenon
<1>6. ASSUME NEW j \in Jobs,
             \/ Commit(j) \/ Sign(j)
             \/ \E req \in sent : ReceiveRound1(j, req) \/ ReceiveRound2(j, req)
      PROVE  UNCHANGED <<endorsed, granted>>
  BY <1>6, Zenon DEF Commit, Sign, ReceiveRound1, ReceiveRound2, history
<1>7. ASSUME NEW c \in Coordinators, LocalRound1(c) \/ PeerRound1(c) \/ LocalRound2(c) \/ PeerRound2(c)
      PROVE  UNCHANGED <<endorsed, granted>>
  BY <1>7, Zenon DEF LocalRound1, PeerRound1, LocalRound2, PeerRound2, history
<1>8. CASE UNCHANGED vars
  BY <1>1, <1>8, Zenon DEF vars
<1> QED BY <1>1, <1>3, <1>4, <1>5, <1>6, <1>7, <1>8 DEF Next

\* coordinateSigning and the signer routes keep the promise of a FROST group:
\* requestSignature returns a query's signatures only after Threshold different
\* nodes, the coordinator among them, verified the result each for itself.
THEOREM SigningIsThreshold == Spec => GrantsAreEndorsed
<1>1. Init => Behind /\ Promise!Init
  BY Zenon DEF Init, Behind, Promise!Init
<1> QED BY <1>1, InitInv, StepKeeps, StepBehind, StepRefines, PTL DEF Spec, GrantsAreEndorsed, Promise!Spec


-----------------------------------------------------------------------------
(* Who took part, and which messages were signed.                          *)

\* The commitments of a call are its own and those of participating peers.
Whole(c, call) ==
  IF call.at = "round1" THEN call.participating = {}
  ELSE call.own[1] = c /\ call.commitments = {call.own} \union call.participating

\* requestSignature signs the query's messages in order (S: the signatures).
Counted(c, call, S) ==
  /\ call.i \in FirstMessage..setup.token
  /\ \A n \in FirstMessage..setup.token :
       n < call.i => \E s \in S : s.by = c /\ s.msg = <<call.q, n>>

\* A signature is made of a share for each commitment (U: the shares).
Made(s, U) ==
  /\ s.participated = NodesOf(s.commitments)
  /\ Cardinality(NodesOf(s.commitments)) >= Threshold
  /\ \A k \in s.commitments : [nonce |-> k, msg |-> s.msg, commitments |-> s.commitments] \in U

Accounted ==
  /\ \A c \in Coordinators :
       calls[c] # None => Whole(c, calls[c]) /\ Counted(c, calls[c], signatures)
  /\ \A u \in shares : u.nonce \in u.commitments
  /\ \A s \in signatures : Made(s, shares)
  /\ GrantsAreComplete

\* The loops of coordinateSigning keep the message and the commitments.
Follows(v, call) ==
  /\ v.at # "round1" /\ v.q = call.q /\ v.i = call.i /\ v.own = call.own
  /\ v.commitments = call.commitments /\ v.participating = call.participating

LEMMA LoopFollows ==
  ASSUME NEW c \in Coordinators, NEW call \in Call, NEW looks \in BOOLEAN,
         Round1Loop(c, call, looks) \/ Round2Loop(c, call)
  PROVE  \E v : calls' = [calls EXCEPT ![c] = v] /\ (v = None \/ Follows(v, call))
<1>1. ASSUME NEW await \in {"peer1", "peer2"}, NEW req, AskPeer(c, call, await, req)
      PROVE  \E v : calls' = [calls EXCEPT ![c] = v] /\ (v = None \/ Follows(v, call))
  <2> DEFINE v == [call EXCEPT !.at = await, !.rest = @ \ {req.to}, !.asked = req]
  <2>1. /\ v.at = await /\ v.q = call.q /\ v.i = call.i /\ v.own = call.own
        /\ v.commitments = call.commitments /\ v.participating = call.participating
    BY Zenon DEF Call
  <2>2. calls' = [calls EXCEPT ![c] = v]
    BY <1>1, Zenon DEF AskPeer, Suspend
  <2> HIDE DEF v
  <2>3. Follows(v, call)
    BY <2>1, Zenon DEF Follows
  <2> QED BY <2>2, <2>3, Zenon
<1>2. CASE Return(c)
  BY <1>2, Zenon DEF Return
<1>3. ASSUME NEW await \in {"round2", "aggregate"},
             Suspend(c, [call EXCEPT !.at = await, !.asked = None])
      PROVE  \E v : calls' = [calls EXCEPT ![c] = v] /\ (v = None \/ Follows(v, call))
  <2> DEFINE v == [call EXCEPT !.at = await, !.asked = None]
  <2>1. /\ v.at = await /\ v.q = call.q /\ v.i = call.i /\ v.own = call.own
        /\ v.commitments = call.commitments /\ v.participating = call.participating
    BY Zenon DEF Call
  <2>2. calls' = [calls EXCEPT ![c] = v]
    BY <1>3, Zenon DEF Suspend
  <2> HIDE DEF v
  <2>3. Follows(v, call)
    BY <2>1, Zenon DEF Follows
  <2> QED BY <2>2, <2>3, Zenon
<1> QED BY <1>1, <1>2, <1>3, Zenon DEF Round1Loop, Round2Loop

\* Shares and signatures are never withdrawn, so what they account for stays.
LEMMA CallAccounted ==
  ASSUME IInv, Accounted, NEW c \in Coordinators, NEW v, calls' = [calls EXCEPT ![c] = v],
         v = None \/ (Whole(c, v) /\ Counted(c, v, signatures')), UNCHANGED setup,
         shares \subseteq shares', \A u \in shares' : u \in shares \/ u.nonce \in u.commitments,
         signatures \subseteq signatures',
         \A s \in signatures' : s \in signatures \/ Made(s, shares'),
         GrantsAreComplete'
  PROVE  Accounted'
<1>1. calls \in [Coordinators -> Call \union {None}]
  BY Zenon DEF IInv, Typed, TypeOK
<1>2. \A d \in Coordinators : calls'[d] = IF d = c THEN v ELSE calls[d]
  BY <1>1, Zenon
<1>3. FirstMessage' = FirstMessage
  BY Zenon DEF FirstMessage
<1>4. PICK S : S = signatures'
  BY Zenon
<1>5. \A d, call : Counted(d, call, signatures) => Counted(d, call, S)
  BY <1>4, Zenon DEF Counted
<1>6. \A d, call : Counted(d, call, S) => Counted(d, call, S)'
  BY <1>3, Zenon DEF Counted
<1>7. ASSUME NEW d \in Coordinators, calls'[d] # None
      PROVE  (Whole(d, calls[d]) /\ Counted(d, calls[d], signatures))'
  <2>1. PICK w : w = calls'[d]
    BY Zenon
  <2>2. Whole(d, w) /\ Counted(d, w, S)
    BY <1>2, <1>4, <1>5, <1>7, <2>1, Zenon DEF Accounted
  <2>3. Counted(d, w, S)'
    BY <1>6, <2>2, Zenon
  <2> QED BY <1>4, <2>1, <2>2, <2>3, Zenon DEF Counted, Whole
<1>8. \A s \in signatures' : Made(s, shares')
  BY Zenon DEF Accounted, Made
<1>9. \A u \in shares' : u.nonce \in u.commitments
  BY Zenon DEF Accounted
<1> QED BY <1>7, <1>8, <1>9, Zenon DEF Accounted


\* A call goes on along the loops: what it had in order stays in order.
LEMMA LoopAccounted ==
  ASSUME IInv, Accounted, NEW c \in Coordinators, NEW call \in Call, NEW looks \in BOOLEAN,
         Round1Loop(c, call, looks) \/ Round2Loop(c, call),
         call.own[1] = c, call.commitments = {call.own} \union call.participating,
         Counted(c, call, signatures), UNCHANGED <<setup, signatures, granted>>,
         shares \subseteq shares', \A u \in shares' : u \in shares \/ u.nonce \in u.commitments
  PROVE  Accounted'
<1>1. PICK v : calls' = [calls EXCEPT ![c] = v] /\ (v = None \/ Follows(v, call))
  BY LoopFollows, Zenon
<1>2. v = None \/ (Whole(c, v) /\ Counted(c, v, signatures'))
  BY <1>1, Zenon DEF Follows, Whole, Counted
<1>3. GrantsAreComplete'
  BY Zenon DEF Accounted, GrantsAreComplete, Messages
<1> QED BY <1>1, <1>2, <1>3, CallAccounted, Zenon

\* A call that ends without a signature.
LEMMA EndAccounted ==
  ASSUME IInv, Accounted, NEW c \in Coordinators, Return(c),
         UNCHANGED <<setup, shares, signatures, granted>>
  PROVE  Accounted'
<1>1. calls' = [calls EXCEPT ![c] = None]
  BY Zenon DEF Return
<1>2. GrantsAreComplete'
  BY Zenon DEF Accounted, GrantsAreComplete, Messages
<1> QED BY <1>1, <1>2, CallAccounted, Zenon

\* Peers only add shares that hold their own commitment.
LEMMA PeersAccounted ==
  ASSUME IInv, Accounted, NEW j \in Jobs,
         \/ VerifyProof(j) \/ Commit(j) \/ Sign(j)
         \/ \E req \in sent : ReceiveRound1(j, req) \/ ReceiveRound2(j, req)
  PROVE  Accounted'
<1>1. UNCHANGED <<setup, calls, signatures, granted>>
  BY Zenon DEF VerifyProof, Commit, Sign, ReceiveRound1, ReceiveRound2, history
<1>2. shares \subseteq shares' /\ \A u \in shares' : u \in shares \/ u.nonce \in u.commitments
  <2>1. CASE Sign(j)
    <3>1. PICK req : req = jobs[j].req
      BY Zenon
    <3> DEFINE u == [nonce |-> req.nonce, msg |-> req.msg, commitments |-> req.commitments]
    <3>2. \/ UNCHANGED shares
          \/ CanSign(req.nonce, req.commitments) /\ shares' = shares \union {u}
      BY <2>1, <3>1, Zenon DEF Sign, runFrostCommand
    <3>3. CanSign(req.nonce, req.commitments) => u.nonce \in u.commitments
      BY Zenon DEF CanSign
    <3> HIDE DEF u
    <3> QED BY <3>2, <3>3, Zenon
  <2>2. CASE ~Sign(j)
    <3>1. UNCHANGED shares
      BY <2>2, Zenon DEF VerifyProof, Commit, ReceiveRound1, ReceiveRound2, history
    <3> QED BY <3>1, Zenon
  <2> QED BY <2>1, <2>2, Zenon
<1>3. \A c \in Coordinators :
        calls'[c] # None => (Whole(c, calls[c]) /\ Counted(c, calls[c], signatures))'
  <2>1. FirstMessage' = FirstMessage
    BY <1>1, Zenon DEF FirstMessage
  <2> SUFFICES ASSUME NEW c \in Coordinators, calls[c] # None
               PROVE  (Whole(c, calls[c]) /\ Counted(c, calls[c], signatures))'
    BY <1>1, Zenon
  <2>2. Whole(c, calls[c])'
    BY <1>1, Zenon DEF Accounted, Whole
  <2>3. Counted(c, calls[c], signatures)'
    <3>1. Counted(c, calls[c], signatures)
      BY Zenon DEF Accounted
    <3>2. setup' = setup /\ calls' = calls /\ signatures' = signatures
      BY <1>1, Zenon
    <3> QED BY <2>1, <3>1, <3>2, Zenon DEF Counted
  <2> QED BY <2>2, <2>3, Zenon
<1>4. \A s \in signatures' : Made(s, shares')
  BY <1>1, <1>2, Zenon DEF Accounted, Made
<1>5. \A u \in shares' : u.nonce \in u.commitments
  BY <1>2, Zenon DEF Accounted
<1>6. GrantsAreComplete'
  BY <1>1, Zenon DEF Accounted, GrantsAreComplete, Messages
<1> QED BY <1>3, <1>4, <1>5, <1>6, Zenon DEF Accounted

\* requestSignature begins with the first message.
LEMMA RequestAccounted ==
  ASSUME IInv, Accounted, NEW c \in Coordinators, NEW q \in Queries, RequestSignature(c, q)
  PROVE  Accounted'
<1> DEFINE v == Coordinate(q, FirstMessage)
<1>1. v.at = "round1" /\ v.participating = {} /\ v.i = FirstMessage
  BY Zenon DEF Coordinate
<1>2. calls' = [calls EXCEPT ![c] = v] /\ UNCHANGED <<setup, shares, signatures, granted>>
  BY Zenon DEF RequestSignature, Suspend
<1>3. FirstMessage \in FirstMessage..setup.token /\ \A n \in FirstMessage..setup.token : ~(n < FirstMessage)
  <2>1. setup.token \in Nat
    BY FrostAssumption, Zenon DEF IInv, Typed, TypeOK, Setup
  <2> QED BY <2>1, SMT DEF FirstMessage
<1> HIDE DEF v
<1>4. Whole(c, v)
  BY <1>1, Zenon DEF Whole
<1>5. Counted(c, v, signatures')
  BY <1>1, <1>3, Zenon DEF Counted
<1>6. GrantsAreComplete'
  BY <1>2, Zenon DEF Accounted, GrantsAreComplete, Messages
<1> QED BY <1>2, <1>4, <1>5, <1>6, CallAccounted, Zenon

\* This node's own round 1.
LEMMA LocalRound1Accounted ==
  ASSUME IInv, Accounted, NEW c \in Coordinators, LocalRound1(c)
  PROVE  Accounted'
<1>1. PICK old \in Call : old = calls[c] /\ old.at = "round1" /\ calls[c] # None
  BY Zenon DEF LocalRound1, At, IInv, Typed, GoodCall
<1>2. UNCHANGED <<setup, shares, signatures, granted>>
  BY Zenon DEF LocalRound1, history
<1>3. old.participating = {} /\ Counted(c, old, signatures)
  BY <1>1, Zenon DEF Accounted, Whole
<1>4. CASE Return(c)
  BY <1>2, <1>4, EndAccounted, Zenon
<1>5. PICK new : new = FreshNonce(c)
  BY Zenon
<1>6. CASE Round1Loop(c, [old EXCEPT !.own = new, !.commitments = {new}, !.rest = Nodes \ {c}],
                      FALSE)
  <2> DEFINE call == [old EXCEPT !.own = new, !.commitments = {new}, !.rest = Nodes \ {c}]
  <2>1. c \in Nodes /\ drawn[c] \in Nat
    BY FrostAssumption, Zenon DEF IInv, Typed, TypeOK
  <2>2. new \in Nonce /\ new[1] = c
    BY <1>5, <2>1 DEF FreshNonce, Nonce
  <2>3. /\ call \in Call /\ call.q = old.q /\ call.i = old.i /\ call.own = new
        /\ call.commitments = {new} /\ call.participating = old.participating
    BY <2>2, Zenon DEF Call
  <2>4. Round1Loop(c, call, FALSE)
    BY <1>6, Zenon
  <2> HIDE DEF call
  <2>5. call.own[1] = c /\ call.commitments = {call.own} \union call.participating
    BY <1>3, <2>2, <2>3, Zenon
  <2>6. Counted(c, call, signatures)
    BY <1>3, <2>3, Zenon DEF Counted
  <2> QED BY <1>2, <2>3, <2>4, <2>5, <2>6, LoopAccounted, Zenon
<1> QED BY <1>1, <1>4, <1>5, <1>6, Zenon DEF LocalRound1


\* A round-1 response, or the peer's timeout.
LEMMA PeerRound1Accounted ==
  ASSUME IInv, Accounted, NEW c \in Coordinators, PeerRound1(c)
  PROVE  Accounted'
<1>1. PICK old \in Call : old = calls[c] /\ old.at = "peer1" /\ calls[c] # None /\ GoodCall(old)
  BY Zenon DEF PeerRound1, At, IInv, Typed, GoodCall
<1>2. UNCHANGED <<setup, shares, signatures, granted>>
  BY Zenon DEF PeerRound1, history
<1>3. /\ old.own[1] = c /\ old.commitments = {old.own} \union old.participating
      /\ Counted(c, old, signatures)
  <2>1. Whole(c, old) /\ Counted(c, old, signatures)
    BY <1>1, Zenon DEF Accounted
  <2>2. old.at # "round1"
    BY <1>1, Zenon
  <2> QED BY <2>1, <2>2, Zenon DEF Whole
<1>4. ASSUME NEW looks \in BOOLEAN, Round1Loop(c, old, looks) PROVE Accounted'
  BY <1>2, <1>3, <1>4, LoopAccounted, Zenon
<1>5. ASSUME NEW a \in AnswersTo(c), a.ok,
             Round1Loop(c, [old EXCEPT !.commitments = @ \union {a.nonce},
                                       !.participating = @ \union {a.nonce}], TRUE)
      PROVE  Accounted'
  <2>1. a \in answers /\ a.req = old.asked /\ old.asked.round = 1
    BY <1>1, Zenon DEF AnswersTo, GoodCall
  <2>2. a.nonce \in Nonce
    BY <1>5, <2>1, Zenon DEF IInv, Typed, GoodAnswer
  <2> DEFINE call == [old EXCEPT !.commitments = @ \union {a.nonce},
                                 !.participating = @ \union {a.nonce}]
  <2>3. /\ call \in Call /\ call.q = old.q /\ call.i = old.i /\ call.own = old.own
        /\ call.commitments = old.commitments \union {a.nonce}
        /\ call.participating = old.participating \union {a.nonce}
    BY <2>2, Zenon DEF Call
  <2>4. Round1Loop(c, call, TRUE)
    BY <1>5, Zenon
  <2> HIDE DEF call
  <2>5. call.commitments = {call.own} \union call.participating /\ call.own[1] = c
    BY <1>3, <2>3, Zenon
  <2>6. Counted(c, call, signatures)
    BY <1>3, <2>3, Zenon DEF Counted
  <2> QED BY <1>2, <2>3, <2>4, <2>5, <2>6, LoopAccounted, Zenon
<1> QED BY <1>1, <1>4, <1>5, Zenon DEF PeerRound1

\* Round 2: the own share holds its own commitment; peers' answers only count.
LEMMA Round2Accounted ==
  ASSUME IInv, Accounted, NEW c \in Coordinators, LocalRound2(c) \/ PeerRound2(c)
  PROVE  Accounted'
<1>1. PICK old \in Call : /\ old = calls[c] /\ calls[c] # None /\ GoodCall(old)
                          /\ (LocalRound2(c) => old.at = "round2")
                          /\ (PeerRound2(c) => old.at = "peer2")
  BY Zenon DEF LocalRound2, PeerRound2, At, IInv, Typed, GoodCall
<1>2. UNCHANGED <<setup, signatures, granted>>
  BY Zenon DEF LocalRound2, PeerRound2, history
<1>3. /\ old.own[1] = c /\ old.commitments = {old.own} \union old.participating
      /\ Counted(c, old, signatures)
  <2>1. Whole(c, old) /\ Counted(c, old, signatures)
    BY <1>1, Zenon DEF Accounted
  <2>2. old.at # "round1"
    BY <1>1, Zenon
  <2> QED BY <2>1, <2>2, Zenon DEF Whole
<1>4. ASSUME NEW call \in Call, Round2Loop(c, call), call.q = old.q, call.i = old.i,
             call.own = old.own, call.commitments = old.commitments,
             call.participating = old.participating,
             shares \subseteq shares', \A u \in shares' : u \in shares \/ u.nonce \in u.commitments
      PROVE  Accounted'
  <2>1. Counted(c, call, signatures)
    BY <1>3, <1>4, Zenon DEF Counted
  <2>2. call.own[1] = c /\ call.commitments = {call.own} \union call.participating
    BY <1>3, <1>4, Zenon
  <2> QED BY <1>2, <1>4, <2>1, <2>2, LoopAccounted, Zenon
<1>5. CASE LocalRound2(c)
  <2> DEFINE u == [nonce |-> old.own, msg |-> MessageOf(old), commitments |-> old.commitments]
             call == [old EXCEPT !.signed = {old.own}, !.rest = NodesOf(old.participating)]
  <2>1. \/ Return(c) /\ UNCHANGED shares
        \/ /\ CanSign(old.own, old.commitments) /\ shares' = shares \union {u}
           /\ Round2Loop(c, call)
    BY <1>1, <1>5, Zenon DEF LocalRound2, runFrostCommand
  <2>2. CASE Return(c) /\ UNCHANGED shares
    BY <1>2, <2>2, EndAccounted, Zenon
  <2>3. CASE CanSign(old.own, old.commitments) /\ shares' = shares \union {u} /\ Round2Loop(c, call)
    <3>1. u.nonce \in u.commitments
      BY <2>3, Zenon DEF CanSign
    <3>2. old.own \in Nonce
      BY <1>1, <1>5, Zenon DEF GoodCall
    <3>3. NodesOf(old.participating) \subseteq Nodes
      BY DEF Call, NodesOf, Nonce
    <3>4. /\ call \in Call /\ call.q = old.q /\ call.i = old.i /\ call.own = old.own
          /\ call.commitments = old.commitments /\ call.participating = old.participating
      BY <3>2, <3>3, Zenon DEF Call
    <3> HIDE DEF call, u
    <3>5. shares \subseteq shares' /\ \A x \in shares' : x \in shares \/ x.nonce \in x.commitments
      BY <2>3, <3>1, Zenon
    <3> QED BY <1>4, <2>3, <3>4, <3>5, Zenon
  <2> QED BY <2>1, <2>2, <2>3, Zenon
<1>6. CASE PeerRound2(c)
  <2>1. UNCHANGED shares
    BY <1>6, Zenon DEF PeerRound2, history
  <2>2. CASE Round2Loop(c, old)
    BY <1>4, <2>1, <2>2, Zenon
  <2>3. ASSUME NEW a \in AnswersTo(c), Round2Loop(c, [old EXCEPT !.signed = @ \union {a.req.nonce}])
        PROVE  Accounted'
    <3> DEFINE call == [old EXCEPT !.signed = @ \union {a.req.nonce}]
    <3>1. a.req.nonce \in Nonce
      BY <1>1, <1>6, Zenon DEF AnswersTo, GoodCall
    <3>2. /\ call \in Call /\ call.q = old.q /\ call.i = old.i /\ call.own = old.own
          /\ call.commitments = old.commitments /\ call.participating = old.participating
      BY <3>1, Zenon DEF Call
    <3>3. Round2Loop(c, call)
      BY <2>3, Zenon
    <3> HIDE DEF call
    <3> QED BY <1>4, <2>1, <3>2, <3>3, Zenon
  <2> QED BY <1>1, <1>6, <2>2, <2>3, Zenon DEF PeerRound2
<1> QED BY <1>5, <1>6, Zenon


\* A signature is made of as many shares, of different nodes, as it reports.
LEMMA AggregateMade ==
  ASSUME IInv, Behind, Accounted, NEW c \in Coordinators, calls[c] # None,
         NEW call \in Call, call = calls[c], call.at = "aggregate",
         CanAggregate(call, MessageOf(call)),
         NEW s, s = [by |-> c, msg |-> MessageOf(call), commitments |-> call.commitments,
                     participated |-> {c} \union NodesOf(call.participating)]
  PROVE  Made(s, shares) /\ s.by = c /\ s.msg = MessageOf(call)
<1>1. /\ s.by = c /\ s.msg = MessageOf(call) /\ s.commitments = call.commitments
      /\ s.participated = {c} \union NodesOf(call.participating)
  BY Zenon
<1>2. call.own[1] = c /\ call.commitments = {call.own} \union call.participating
  <2>1. Whole(c, call)
    BY Zenon DEF Accounted
  <2>2. call.at # "round1"
    BY Zenon
  <2> QED BY <2>1, <2>2, Zenon DEF Whole
<1>3. s.participated = NodesOf(s.commitments)
  BY <1>1, <1>2 DEF NodesOf
<1>4. Backed(c, call, endorsed)
  BY Zenon DEF Behind
<1>5. call.commitments \in SUBSET Nonce /\ call.signed = call.commitments
  BY Zenon DEF Call, CanAggregate
<1>6. PICK T : T = NodesOf(call.commitments)
  BY Zenon
<1>7. T \in SUBSET Nodes /\ \A k \in call.commitments : k[1] \in T
  BY <1>5, <1>6, Zenon DEF NodesOf, Nonce
<1>8. /\ Cardinality(call.commitments) \in Nat /\ Cardinality(T) \in Nat
      /\ Cardinality(call.commitments) <= Cardinality(T)
  BY <1>4, <1>5, <1>7, EnoughEndorsers, Zenon DEF Backed
<1>9. ~(Cardinality(call.commitments) < Threshold)
  BY <1>4, <1>5, Zenon DEF Backed
<1>10. Cardinality(T) >= Threshold
  BY <1>8, <1>9, FrostAssumption, SMT
<1>11. \A k \in s.commitments : [nonce |-> k, msg |-> s.msg, commitments |-> s.commitments] \in shares
  BY <1>1, <1>5, Zenon DEF CanAggregate
<1> QED BY <1>1, <1>3, <1>6, <1>10, <1>11, Zenon DEF Made

\* aggregateSignatures: the signature is whole, and the next message follows or
\* the last one was signed.
LEMMA AggregateAccounted ==
  ASSUME IInv, Behind, Accounted, NEW c \in Coordinators, Aggregate(c)
  PROVE  Accounted'
<1>1. PICK call \in Call : call = calls[c] /\ call.at = "aggregate" /\ calls[c] # None
  BY Zenon DEF Aggregate, At, IInv, Typed, GoodCall
<1>2. UNCHANGED <<setup, shares>>
  BY Zenon DEF Aggregate
<1>3. CASE Return(c) /\ UNCHANGED <<signatures, granted>>
  BY <1>2, <1>3, EndAccounted, Zenon
<1>4. PICK s : s = [by |-> c, msg |-> MessageOf(call), commitments |-> call.commitments,
                    participated |-> {c} \union NodesOf(call.participating)]
  BY Zenon
<1>5. CASE /\ CanAggregate(call, MessageOf(call)) /\ signatures' = signatures \union {s}
           /\ \/ /\ call.i < setup.token /\ UNCHANGED granted
                 /\ Suspend(c, Coordinate(call.q, call.i + 1))
              \/ /\ ~(call.i < setup.token) /\ Return(c)
                 /\ granted' = granted \union {<<c, call.q>>}
  <2>1. Made(s, shares) /\ s.by = c /\ s.msg = <<call.q, call.i>>
    BY <1>1, <1>4, <1>5, AggregateMade, Zenon DEF MessageOf
  <2>2. Counted(c, call, signatures)
    BY <1>1, Zenon DEF Accounted
  <2>3. setup.token \in Nat /\ FirstMessage \in Nat /\ call.i \in Nat
    BY FrostAssumption, Zenon DEF IInv, Typed, TypeOK, Setup, FirstMessage, Call
  <2>4. \A n \in FirstMessage..setup.token : ~(n > call.i) =>
          \E t \in signatures' : t.by = c /\ t.msg = <<call.q, n>>
    <3> SUFFICES ASSUME NEW n \in FirstMessage..setup.token, ~(n > call.i)
                 PROVE  \E t \in signatures' : t.by = c /\ t.msg = <<call.q, n>>
      BY Zenon
    <3>1. n = call.i \/ n < call.i
      BY <2>3, SMT
    <3>2. CASE n = call.i
      BY <1>5, <2>1, <3>2, Zenon
    <3>3. CASE n < call.i
      BY <1>5, <2>2, <3>3, Zenon DEF Counted
    <3> QED BY <3>1, <3>2, <3>3, Zenon
  <2>5. signatures \subseteq signatures' /\ \A t \in signatures' : t \in signatures \/ Made(t, shares')
    BY <1>2, <1>5, <2>1, Zenon DEF Made
  <2>6. \A q : Messages(q)' = Messages(q)
    BY <1>2, Zenon DEF Messages
  <2>7. \A g \in granted : \A m \in Messages(g[2]) :
          \E t \in signatures' : t.by = g[1] /\ t.msg = m
    BY <2>5, Zenon DEF Accounted, GrantsAreComplete
  <2>8. CASE /\ call.i < setup.token /\ UNCHANGED granted
             /\ Suspend(c, Coordinate(call.q, call.i + 1))
    <3>1. PICK v : v = Coordinate(call.q, call.i + 1) /\ calls' = [calls EXCEPT ![c] = v]
      BY <2>8, Zenon DEF Suspend
    <3>2. v.at = "round1" /\ v.participating = {} /\ v.i = call.i + 1 /\ v.q = call.q
      BY <3>1, Zenon DEF Coordinate
    <3>3. Whole(c, v)
      BY <3>2, Zenon DEF Whole
    <3>4. call.i + 1 \in FirstMessage..setup.token
          /\ \A n \in FirstMessage..setup.token : n < call.i + 1 => ~(n > call.i)
      <4>1. call.i \in FirstMessage..setup.token
        BY <2>2, Zenon DEF Counted
      <4> QED BY <2>3, <2>8, <4>1, SMT
    <3>5. Counted(c, v, signatures')
      BY <2>4, <3>2, <3>4, Zenon DEF Counted
    <3>6. GrantsAreComplete'
      BY <2>6, <2>7, <2>8, Zenon DEF GrantsAreComplete
    <3> QED BY <1>2, <2>5, <3>1, <3>3, <3>5, <3>6, CallAccounted, Zenon
  <2>9. CASE /\ ~(call.i < setup.token) /\ Return(c)
             /\ granted' = granted \union {<<c, call.q>>}
    <3>1. \A n \in FirstMessage..setup.token : ~(n > call.i)
      BY <2>3, <2>9, SMT
    <3>2. ASSUME NEW m \in Messages(call.q)
          PROVE  \E n \in FirstMessage..setup.token : m = <<call.q, n>>
      BY <2>3, <3>2 DEF Messages, FirstMessage
    <3>3. \A m \in Messages(call.q) : \E t \in signatures' : t.by = c /\ t.msg = m
      <4> SUFFICES ASSUME NEW m \in Messages(call.q)
                   PROVE  \E t \in signatures' : t.by = c /\ t.msg = m
        BY Zenon
      <4>1. PICK n \in FirstMessage..setup.token : m = <<call.q, n>>
        BY <3>2, Zenon
      <4>2. \E t \in signatures' : t.by = c /\ t.msg = <<call.q, n>>
        BY <2>4, <3>1, Zenon
      <4> QED BY <4>1, <4>2, Zenon
    <3>4. <<c, call.q>>[1] = c /\ <<c, call.q>>[2] = call.q
      BY Zenon
    <3>5. GrantsAreComplete'
      BY <2>6, <2>7, <2>9, <3>3, <3>4, Zenon DEF GrantsAreComplete
    <3>6. calls' = [calls EXCEPT ![c] = None]
      BY <2>9, Zenon DEF Return
    <3> QED BY <1>2, <2>5, <3>5, <3>6, CallAccounted, Zenon
  <2> QED BY <1>5, <2>8, <2>9, Zenon
<1> QED BY <1>1, <1>3, <1>4, <1>5, Zenon DEF Aggregate, runFrostCommand

LEMMA StepAccounted == IInv /\ Behind /\ Accounted /\ [Next]_vars => Accounted'
<1> SUFFICES ASSUME IInv, Behind, Accounted, [Next]_vars PROVE Accounted'
  BY Zenon
<1>1. CASE UNCHANGED vars
  <2>1. UNCHANGED <<setup, calls, shares, signatures, granted>>
    BY <1>1, Zenon DEF vars
  <2> QED BY <2>1 DEF Accounted, Whole, Counted, FirstMessage, Made, GrantsAreComplete, Messages
<1>2. CASE Next
  BY <1>2, PeersAccounted, RequestAccounted, LocalRound1Accounted, PeerRound1Accounted,
     Round2Accounted, AggregateAccounted, Zenon DEF Next
<1> QED BY <1>1, <1>2, Zenon

LEMMA AccountedAlways == Spec => []Accounted
<1>1. Init => Behind /\ Accounted
  BY Zenon DEF Init, Behind, Accounted, GrantsAreComplete
<1> QED BY <1>1, InitInv, StepKeeps, StepBehind, StepAccounted, PTL DEF Spec

\* requestSignature returns a signature for every proof of the token.
THEOREM GrantsComplete == Spec => []GrantsAreComplete
<1>1. Accounted => GrantsAreComplete
  BY Zenon DEF Accounted
<1> QED BY <1>1, AccountedAlways, PTL

\* signers_participated names exactly the nodes whose shares make up the
\* signature, and they reach the threshold.
THEOREM ParticipantsSafe == Spec => []ParticipantsSigned
<1>1. Accounted => ParticipantsSigned
  <2> SUFFICES ASSUME Accounted, NEW s \in signatures
               PROVE  /\ s.participated = NodesOf({t.nonce : t \in {u \in shares :
                                   u.msg = s.msg /\ u.commitments = s.commitments}})
                      /\ Cardinality(s.participated) >= Threshold
    BY Zenon DEF ParticipantsSigned
  <2>1. Made(s, shares)
    BY Zenon DEF Accounted
  <2> DEFINE made == {u \in shares : u.msg = s.msg /\ u.commitments = s.commitments}
  <2>2. ASSUME NEW k \in s.commitments PROVE k \in {t.nonce : t \in made}
    <3>1. PICK u : u = [nonce |-> k, msg |-> s.msg, commitments |-> s.commitments]
      BY Zenon
    <3>2. u \in shares
      BY <2>1, <2>2, <3>1, Zenon DEF Made
    <3>3. u.nonce = k /\ u.msg = s.msg /\ u.commitments = s.commitments
      BY <3>1, Zenon
    <3> QED BY <3>2, <3>3, Zenon
  <2>3. \A t \in made : t.nonce \in s.commitments
    BY Zenon DEF Accounted
  <2>4. {t.nonce : t \in made} = s.commitments
    BY <2>2, <2>3, Zenon
  <2> QED BY <2>1, <2>4, Zenon DEF Made
<1> QED BY <1>1, AccountedAlways, PTL
=============================================================================
