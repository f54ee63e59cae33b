---------------------------- MODULE FrostSigning ----------------------------
(***************************************************************************)
(* Two-round FROST signing between Oracle nodes.  A coordinator            *)
(* (frost-signature-adapter.ts, frost-signing-coordinator.ts) signs the    *)
(* messages of a query one after the other, asking its peers over HTTP; a  *)
(* peer (frost-signer-routes.ts) verifies the result for itself, draws a   *)
(* nonce, keeps it under a random id and spends it on one share.  A        *)
(* request in `sent` may be delivered late, twice or never; the answer to  *)
(* one that nobody awaits any more is dropped.                             *)
(***************************************************************************)
EXTENDS Naturals, FiniteSets, FiniteSetsExt

CONSTANTS
  Nodes,         \* signer indices, in the order of every node's peer list
  Threshold,
  Queries,
  Coordinators,  \* nodes that ask for signatures, one call at a time
  Setups,        \* what the nodes and the query's evidence are like (Setup)
  Jobs,          \* requests peers work on at once (a bound)
  MaxRepeats,    \* deliveries of a request that is delivered again (a bound)
  MaxCalls,      \* times a coordinator asks for signatures (a bound)
  None

VARIABLES
  setup,
  calls,       \* requestSignature of each coordinator
  jobs,        \* peers' handlers suspended at an await
  begun,       \* calls each coordinator has begun
  drawn,       \* nonces each node has drawn so far
  pending,     \* pendingNonces: [nonce, msg] kept for round 2
  seen,        \* each node's replay guard: queries whose presentation it took
  sent,        \* HTTP requests under way
  repeats,     \* requests delivered that will be delivered again
  answers,     \* responses to requests some coordinator awaits
  endorsed,    \* history: <<node, query>> the node verified
  shares,      \* history: every signature share made
  signatures,  \* history: every signature coordinateSigning returned
  granted      \* history: <<coordinator, query>> requestSignature succeeded for

vars == <<setup, calls, jobs, begun, drawn, pending, seen, sent, repeats, answers,
          endorsed, shares, signatures, granted>>

\* equipped: nodes with a frost-signer binary; configured: nodes whose server
\* has a FROST config; able: nodes whose verification of the evidence passes;
\* tlsn: is the evidence a TLSNotary presentation?; token: proofs in the
\* query's p2pk_frost token (0: it has none); locked: are all of them locked
\* to this group?; asking: coordinators that are asked for signatures
Setup == [equipped : SUBSET Nodes, configured : SUBSET Nodes, able : SUBSET Nodes,
          tlsn : BOOLEAN, token : Nat, locked : BOOLEAN, asking : SUBSET Coordinators]

ASSUME FrostAssumption ==
  /\ Nodes \subseteq Nat /\ IsFiniteSet(Nodes) /\ Coordinators \subseteq Nodes
  /\ Threshold \in Nat \ {0} /\ MaxRepeats \in Nat /\ MaxCalls \in Nat
  /\ Setups \subseteq Setup
  /\ None \notin Queries

\* A nonce, its commitment and the random id it is kept under are one value;
\* the commitments sent in round 2 are a set of them.
Nonce == Nodes \X Nat
Message == Queries \X Nat

\* id: the exchange, so that an answer belongs to its request.
Request == [round : {1, 2}, id : Nonce, to : Nodes, q : Queries,
            msg : Message, nonce : Nonce \union {None}, commitments : SUBSET Nonce]

\* A refusal is any status that is not ok.
Answer == [req : Request, ok : BOOLEAN, nonce : Nonce \union {None}]

\* rest: peers still to be asked in this round; asked: the request awaited.
Call == [at : {"round1", "peer1", "round2", "peer2", "aggregate"}, q : Queries, i : Nat,
         own : Nonce \union {None}, commitments : SUBSET Nonce,
         participating : SUBSET Nonce, signed : SUBSET Nonce,
         rest : SUBSET Nodes, asked : Request \union {None}]

Job == [req : Request, at : {"verify", "commit", "sign"}]

Share == [nonce : Nonce, msg : Message, commitments : SUBSET Nonce]

Signature == [by : Coordinators, msg : Message, commitments : SUBSET Nonce,
              participated : SUBSET Nodes]

TypeOK ==
  /\ setup \in Setups
  /\ calls \in [Coordinators -> Call \union {None}]
  /\ jobs \in [Jobs -> Job \union {None}]
  /\ begun \in [Coordinators -> 0..MaxCalls]
  /\ drawn \in [Nodes -> Nat]
  /\ pending \subseteq [nonce : Nonce, msg : Message]
  /\ seen \subseteq Nodes \X Queries
  /\ sent \subseteq Request /\ answers \subseteq Answer /\ repeats \in 0..MaxRepeats
  /\ endorsed \subseteq Nodes \X Queries
  /\ shares \subseteq Share /\ signatures \subseteq Signature
  /\ granted \subseteq Coordinators \X Queries

Init ==
  /\ setup \in Setups
  /\ calls = [c \in Coordinators |-> None] /\ jobs = [j \in Jobs |-> None]
  /\ begun = [c \in Coordinators |-> 0]
  /\ drawn = [n \in Nodes |-> 0] /\ pending = {} /\ seen = {}
  /\ sent = {} /\ answers = {} /\ repeats = 0
  /\ endorsed = {} /\ shares = {} /\ signatures = {} /\ granted = {}

history == <<endorsed, shares, signatures, granted>>
net == <<sent, repeats>>

-----------------------------------------------------------------------------
(* Messages and the frost-signer process.                                  *)

\* requestSignature: one message per proof of the token, else the query's own,
\* number 0.
Messages(q) == IF setup.token > 0 THEN {<<q, i>> : i \in 1..setup.token} ELSE {<<q, 0>>}

FirstMessage == IF setup.token > 0 THEN 1 ELSE 0

\* The p2pk_frost lock every proof must carry.
tokenMatchesFrostP2pkLock == setup.token > 0 /\ setup.locked

\* The message must be one the signer can derive from what it verified.
isAllowedSigningMessage(msg, q) ==
  \/ msg = <<q, 0>>
  \/ tokenMatchesFrostP2pkLock /\ msg \in Messages(q)

\* findFrostSigner: is there a binary to run?
findFrostSigner(n) == n \in setup.equipped

\* Outcomes of a frost-signer command: it may time out, exit with an error or
\* print something unreadable even when its arguments are good.
runFrostCommand(n, good) == IF findFrostSigner(n) /\ good THEN BOOLEAN ELSE {FALSE}

\* round1::commit: a nonce never drawn before.
FreshNonce(n) == <<n, drawn[n] + 1>>

\* round2::sign refuses a package without the signer's own commitment or with
\* fewer commitments than the key's minimum.
CanSign(nonce, commitments) ==
  nonce \in commitments /\ Cardinality(commitments) >= Threshold

\* frost::aggregate verifies the result: a share for each commitment and each
\* made over this message with these commitments.
CanAggregate(call, msg) ==
  /\ call.signed = call.commitments
  /\ \A k \in call.signed : [nonce |-> k, msg |-> msg, commitments |-> call.commitments] \in shares

NodesOf(nonces) == {k[1] : k \in nonces}

-----------------------------------------------------------------------------
(* A peer's routes.                                                        *)

Goto(j, req, await) == jobs' = [jobs EXCEPT ![j] = [req |-> req, at |-> await]]

\* A request reaches its peer, which is free to take it.
Deliver(j, req, round) ==
  /\ jobs[j] = None /\ req \in sent /\ req.round = round
  /\ \/ sent' = sent \ {req} /\ UNCHANGED repeats
     \/ repeats < MaxRepeats /\ repeats' = repeats + 1 /\ UNCHANGED sent

Awaited(req) == \E c \in Coordinators : calls[c] # None /\ calls[c].asked = req

\* The response is sent; the handler is done.
Respond(j, req, ok, nonce) ==
  /\ answers' = IF Awaited(req)
                THEN answers \union {[req |-> req, ok |-> ok, nonce |-> nonce]}
                ELSE answers
  /\ jobs' = [jobs EXCEPT ![j] = None]

Refuse(j, req) == Respond(j, req, FALSE, None)

\* POST /frost/signer/round1 up to the await of verifyProof: a node without a
\* config answers 503; validateTlsn consults the replay guard at once.
ReceiveRound1(j, req) ==
  /\ Deliver(j, req, 1)
  /\ IF \/ req.to \notin setup.configured
        \/ setup.tlsn /\ <<req.to, req.q>> \in seen
     THEN Refuse(j, req)
     ELSE Goto(j, req, "verify") /\ UNCHANGED answers
  /\ UNCHANGED <<setup, calls, begun, drawn, pending, seen, history>>

\* Mutant of VerifyProof: the verdict is not looked at.
VerifyProofUnread(j) ==
  /\ jobs[j] # None /\ jobs[j].at = "verify"
  /\ Goto(j, jobs[j].req, "commit")
  /\ UNCHANGED <<setup, calls, begun, drawn, pending, seen, net, answers, history>>

\* verifyProof resolved; a presentation it accepts is marked as used.
VerifyProof(j) ==
  /\ jobs[j] # None /\ jobs[j].at = "verify"
  /\ LET req == jobs[j].req IN
       \/ /\ req.to \in setup.able
          /\ seen' = IF setup.tlsn THEN seen \union {<<req.to, req.q>>} ELSE seen
          /\ endorsed' = endorsed \union {<<req.to, req.q>>}
          /\ IF isAllowedSigningMessage(req.msg, req.q)
             THEN Goto(j, req, "commit") /\ UNCHANGED answers
             ELSE Refuse(j, req)
       \/ Refuse(j, req) /\ UNCHANGED <<seen, endorsed>>
  /\ UNCHANGED <<setup, calls, begun, drawn, pending, net, shares, signatures, granted>>

\* signRound1 resolved: the nonce is kept for round 2.
Commit(j) ==
  /\ jobs[j] # None /\ jobs[j].at = "commit"
  /\ LET req == jobs[j].req
         nonce == FreshNonce(req.to) IN
       \E ok \in runFrostCommand(req.to, TRUE) :
         IF ok
         THEN /\ drawn' = [drawn EXCEPT ![req.to] = @ + 1]
              /\ pending' = pending \union {[nonce |-> nonce, msg |-> req.msg]}
              /\ Respond(j, req, TRUE, nonce)
         ELSE Refuse(j, req) /\ UNCHANGED <<drawn, pending>>
  /\ UNCHANGED <<setup, calls, begun, seen, net, history>>

\* Mutant of ReceiveRound2: the nonces are deleted only when the message is
\* wrong.
ReceiveRound2Keeps(j, req) ==
  /\ Deliver(j, req, 2)
  /\ LET kept == {e \in pending : e.nonce = req.nonce} IN
       IF \A e \in kept : e.msg # req.msg
       THEN Refuse(j, req) /\ pending' = pending \ kept
       ELSE Goto(j, req, "sign") /\ UNCHANGED <<answers, pending>>
  /\ UNCHANGED <<setup, calls, begun, drawn, seen, history>>

\* POST /frost/signer/round2 up to the await of signRound2: the nonces are
\* gone as soon as they are looked up, even if the message then differs.
ReceiveRound2(j, req) ==
  /\ Deliver(j, req, 2)
  /\ LET kept == {e \in pending : e.nonce = req.nonce} IN
       /\ pending' = IF req.to \in setup.configured THEN pending \ kept ELSE pending
       /\ IF req.to \notin setup.configured \/ \A e \in kept : e.msg # req.msg
          THEN Refuse(j, req)
          ELSE Goto(j, req, "sign") /\ UNCHANGED answers
  /\ UNCHANGED <<setup, calls, begun, drawn, seen, history>>

\* signRound2 resolved.
Sign(j) ==
  /\ jobs[j] # None /\ jobs[j].at = "sign"
  /\ LET req == jobs[j].req IN
       \E ok \in runFrostCommand(req.to, CanSign(req.nonce, req.commitments)) :
         /\ Respond(j, req, ok, None)
         /\ shares' = IF ok
                      THEN shares \union {[nonce |-> req.nonce, msg |-> req.msg,
                                           commitments |-> req.commitments]}
                      ELSE shares
  /\ UNCHANGED <<setup, calls, begun, drawn, pending, seen, net, endorsed, signatures,
                 granted>>

-----------------------------------------------------------------------------
(* The coordinator.                                                        *)

Suspend(c, call) == calls' = [calls EXCEPT ![c] = call]
Return(c) == calls' = [calls EXCEPT ![c] = None]
At(c, await) == calls[c] # None /\ calls[c].at = await

MessageOf(call) == <<call.q, call.i>>

\* coordinateSigning for message i up to its first await.
Coordinate(q, i) ==
  [at |-> "round1", q |-> q, i |-> i, own |-> None, commitments |-> {},
   participating |-> {}, signed |-> {}, rest |-> {}, asked |-> None]

\* A POST to the next peer; fetchWithTimeout awaits its response.
AskPeer(c, call, await, req) ==
  /\ Suspend(c, [call EXCEPT !.at = await, !.rest = @ \ {req.to}, !.asked = req])
  /\ sent' = sent \union {req}

\* The round-1 loop: it ends at the threshold, but only iterations that reach
\* their end look at it.
Round1Loop(c, call, looks) ==
  IF call.rest # {} /\ ~(looks /\ Cardinality(call.commitments) >= Threshold)
  THEN AskPeer(c, call, "peer1",
         [round |-> 1, id |-> call.own, to |-> Min(call.rest), q |-> call.q,
          msg |-> MessageOf(call), nonce |-> None, commitments |-> {}])
  ELSE /\ IF Cardinality(call.commitments) < Threshold
          THEN Return(c)
          ELSE Suspend(c, [call EXCEPT !.at = "round2", !.asked = None])
       /\ UNCHANGED sent

\* The round-2 loop over participatingPeers; nobody replaces a peer that fails.
Round2Loop(c, call) ==
  IF call.rest # {}
  THEN LET k == CHOOSE k \in call.participating : k[1] = Min(call.rest) IN
         AskPeer(c, call, "peer2",
           [round |-> 2, id |-> call.own, to |-> k[1], q |-> call.q,
            msg |-> MessageOf(call), nonce |-> k, commitments |-> call.commitments])
  ELSE /\ IF Cardinality(call.signed) < Threshold
          THEN Return(c)
          ELSE Suspend(c, [call EXCEPT !.at = "aggregate", !.asked = None])
       /\ UNCHANGED sent

\* requestSignature; its caller has verified the result.
RequestSignature(c, q) ==
  /\ c \in setup.asking /\ calls[c] = None /\ begun[c] < MaxCalls
  /\ begun' = [begun EXCEPT ![c] = @ + 1]
  /\ endorsed' = endorsed \union {<<c, q>>}
  /\ Suspend(c, Coordinate(q, FirstMessage))
  /\ UNCHANGED <<setup, jobs, drawn, pending, seen, net, answers, shares, signatures,
                 granted>>

\* This node's own round 1, then the first peer.
LocalRound1(c) ==
  /\ At(c, "round1")
  /\ \E ok \in runFrostCommand(c, TRUE) :
       IF ok
       THEN LET nonce == FreshNonce(c) IN
            /\ drawn' = [drawn EXCEPT ![c] = @ + 1]
            /\ Round1Loop(c, [calls[c] EXCEPT !.own = nonce, !.commitments = {nonce},
                                              !.rest = Nodes \ {c}], FALSE)
       ELSE Return(c) /\ UNCHANGED <<drawn, sent>>
  /\ UNCHANGED <<setup, jobs, begun, repeats, pending, seen, answers, history>>

AnswersTo(c) == {a \in answers : a.req = calls[c].asked}

\* Mutant of PeerRound1: the peer takes part before its status is looked at.
PeerRound1Early(c) ==
  /\ At(c, "peer1")
  /\ LET call == calls[c]
         with(k) == [call EXCEPT !.participating = @ \union {k}] IN
       \/ \E a \in AnswersTo(c) :
            IF a.ok
            THEN Round1Loop(c, [with(a.nonce) EXCEPT !.commitments = @ \union {a.nonce}], TRUE)
            ELSE Round1Loop(c, with(<<call.asked.to, 0>>), FALSE)
       \/ Round1Loop(c, call, TRUE)
  /\ answers' = answers \ AnswersTo(c)
  /\ UNCHANGED <<setup, jobs, begun, repeats, drawn, pending, seen, history>>

\* A round-1 response, or the peer's timeout.
PeerRound1(c) ==
  /\ At(c, "peer1")
  /\ LET call == calls[c] IN
       \/ \E a \in AnswersTo(c) :
            IF a.ok
            THEN Round1Loop(c, [call EXCEPT !.commitments = @ \union {a.nonce},
                                            !.participating = @ \union {a.nonce}], TRUE)
            ELSE Round1Loop(c, call, FALSE)
       \/ Round1Loop(c, call, TRUE)
  /\ answers' = answers \ AnswersTo(c)
  /\ UNCHANGED <<setup, jobs, begun, repeats, drawn, pending, seen, history>>

\* This node's own share, then the first participating peer.
LocalRound2(c) ==
  /\ At(c, "round2")
  /\ LET call == calls[c] IN
       \E ok \in runFrostCommand(c, CanSign(call.own, call.commitments)) :
         IF ok
         THEN /\ shares' = shares \union {[nonce |-> call.own, msg |-> MessageOf(call),
                                           commitments |-> call.commitments]}
              /\ Round2Loop(c, [call EXCEPT !.signed = {call.own},
                                            !.rest = NodesOf(call.participating)])
         ELSE Return(c) /\ UNCHANGED <<shares, sent>>
  /\ UNCHANGED <<setup, jobs, begun, repeats, drawn, pending, seen, answers, endorsed, signatures,
                 granted>>

\* Mutant of PeerRound2: the request has no timeout.
PeerRound2Waits(c) ==
  /\ At(c, "peer2")
  /\ \E a \in AnswersTo(c) :
       Round2Loop(c, IF a.ok THEN [calls[c] EXCEPT !.signed = @ \union {a.req.nonce}]
                     ELSE calls[c])
  /\ answers' = answers \ AnswersTo(c)
  /\ UNCHANGED <<setup, jobs, begun, repeats, drawn, pending, seen, history>>

\* A round-2 response, or the peer's timeout.
PeerRound2(c) ==
  /\ At(c, "peer2")
  /\ \/ \E a \in AnswersTo(c) :
          Round2Loop(c, IF a.ok THEN [calls[c] EXCEPT !.signed = @ \union {a.req.nonce}]
                        ELSE calls[c])
     \/ Round2Loop(c, calls[c])
  /\ answers' = answers \ AnswersTo(c)
  /\ UNCHANGED <<setup, jobs, begun, repeats, drawn, pending, seen, history>>

\* Mutant of Aggregate: the last proof of a token is left out.
AggregateShort(c) ==
  /\ At(c, "aggregate")
  /\ LET call == calls[c] IN
       \E ok \in runFrostCommand(c, CanAggregate(call, MessageOf(call))) :
         IF ok
         THEN /\ signatures' = signatures \union
                   {[by |-> c, msg |-> MessageOf(call), commitments |-> call.commitments,
                     participated |-> {c} \union NodesOf(call.participating)]}
              /\ IF call.i + 1 < setup.token
                 THEN Suspend(c, Coordinate(call.q, call.i + 1)) /\ UNCHANGED granted
                 ELSE Return(c) /\ granted' = granted \union {<<c, call.q>>}
         ELSE Return(c) /\ UNCHANGED <<signatures, granted>>
  /\ UNCHANGED <<setup, jobs, begun, drawn, pending, seen, net, answers, endorsed, shares>>

\* aggregateSignatures resolved; then the next message, or all signatures are
\* returned.
Aggregate(c) ==
  /\ At(c, "aggregate")
  /\ LET call == calls[c] IN
       \E ok \in runFrostCommand(c, CanAggregate(call, MessageOf(call))) :
         IF ok
         THEN /\ signatures' = signatures \union
                   {[by |-> c, msg |-> MessageOf(call), commitments |-> call.commitments,
                     participated |-> {c} \union NodesOf(call.participating)]}
              /\ IF call.i < setup.token
                 THEN Suspend(c, Coordinate(call.q, call.i + 1)) /\ UNCHANGED granted
                 ELSE Return(c) /\ granted' = granted \union {<<c, call.q>>}
         ELSE Return(c) /\ UNCHANGED <<signatures, granted>>
  /\ UNCHANGED <<setup, jobs, begun, drawn, pending, seen, net, answers, endorsed, shares>>

-----------------------------------------------------------------------------

Next ==
  \/ \E j \in Jobs : VerifyProof(j) \/ Commit(j) \/ Sign(j)
  \/ \E j \in Jobs, req \in sent : ReceiveRound1(j, req) \/ ReceiveRound2(j, req)
  \/ \E c \in Coordinators, q \in Queries : RequestSignature(c, q)
  \/ \E c \in Coordinators : LocalRound1(c) \/ PeerRound1(c) \/ LocalRound2(c)
                             \/ PeerRound2(c) \/ Aggregate(c)

Spec == Init /\ [][Next]_vars

\* A coordinator's awaits end: its own commands and its requests time out.
\* Nothing is assumed of peers.
FairSpec ==
  /\ Spec
  /\ \A c \in Coordinators :
       /\ WF_vars(LocalRound1(c)) /\ WF_vars(PeerRound1(c)) /\ WF_vars(LocalRound2(c))
       /\ WF_vars(PeerRound2(c)) /\ WF_vars(Aggregate(c))

-----------------------------------------------------------------------------
(* Properties.                                                             *)

\* frost-signer-routes.ts and frost-signing-coordinator.ts: a nonce makes at
\* most one share, whatever is repeated or overlaps, and no nonce that made one
\* is still kept for round 2.
NonceUsedOnce ==
  /\ \A s, t \in shares : s.nonce = t.nonce => s = t
  /\ \A s \in shares, e \in pending : s.nonce # e.nonce

\* coordinateSigning: the nodes reported in signers_participated are those
\* whose shares make up the signature, and they reach the threshold.
ParticipantsSigned ==
  \A s \in signatures :
    /\ s.participated = NodesOf({t.nonce : t \in {u \in shares :
                                   u.msg = s.msg /\ u.commitments = s.commitments}})
    /\ Cardinality(s.participated) >= Threshold

\* requestSignature: a list of signatures has one for every proof of the token
\* it was asked to unlock.
GrantsAreComplete ==
  \A g \in granted : \A m \in Messages(g[2]) :
    \E s \in signatures : s.by = g[1] /\ s.msg = m

\* The nodes together keep the promise of ThresholdSigning: signatures are
\* returned only for results that Threshold nodes verified each for itself.
Promise == INSTANCE ThresholdSigning
GrantsAreEndorsed == Promise!Spec

\* requestSignature returns, though peers may never answer.
SigningEnds == \A c \in Coordinators : calls[c] # None ~> calls[c] = None
=============================================================================
