------------------------ MODULE OracleServiceProofs -------------------------
(***************************************************************************)
(* The Oracle daemon releases only what was earned and keeps a preimage    *)
(* until it is delivered, for every number of queries, Providers, hashes   *)
(* and overlapping handlers, with crashes and failing saves; and keeps its *)
(* commitments as long as handlers do not overlap and nothing crashes.     *)
(***************************************************************************)
EXTENDS OracleService, TLAPS

-----------------------------------------------------------------------------
(* The inductive invariant.  What a suspended call has established stays   *)
(* true while it is suspended: the selection it was let in by is history,  *)
(* the evidence that passed is its own, the configuration never changes.   *)

CallGood(call) ==
  /\ call.at = "create" => call.hash \in Hashes
  /\ call.op = "relay" => <<call.q, call.p>> \in recorded
  /\ call.at = "verify" => (UsesFrost(call.op, call.q) => setup.frost)
  /\ call.at \in {"publish", "delay"} =>
       call.proof \in ValidProofs /\ call.q \notin setup.quorum
  /\ call.at \in {"sign", "signed"} => call.proof \in ValidProofs /\ setup.frost

CallsGood == \A c \in Slots : calls[c] # None => CallGood(calls[c])

\* A selection in the watched map was recorded.
Selections ==
  \A q \in Queries : watched[q] # None /\ watched[q].selected # None
                     => <<q, watched[q].selected>> \in recorded

\* A process that is down has nothing in memory.
Down == ~process.up => entries = {}

IInv == TypeOK /\ CallsGood /\ Selections /\ Down /\ ReleaseIsEarned

-----------------------------------------------------------------------------
(* A host that lets every call return before it begins the next one.       *)

Serialized == \A c, d \in Slots : c = d
NeverCrashes == "crash" \notin Faults

Opened(h) == \E r \in Preimages : r.hash = h

Kept(q, h) == (hashOf[q] = h /\ h \in entries) \/ Opened(h)

\* What a suspended call knows of its query's hash.
CallKeeps(call) ==
  /\ call.at = "create" => hashOf[call.q] = None /\ call.hash \in entries
  /\ call.at \in {"publish", "delay", "delete"} => hashOf[call.q] = call.hash /\ call.hash # None
  /\ call.at = "delete" => Opened(call.hash)

CallsKeep == \A c \in Slots : calls[c] # None => CallKeeps(calls[c])

Promises ==
  /\ \A q \in Queries : hashOf[q] # None => Kept(q, hashOf[q])
  /\ \A q \in Queries : answers[q] # None => Kept(q, answers[q])
  /\ \A dm \in sent : dm.type = "hash" => Kept(dm.q, dm.hash)

KInv == TypeOK /\ process.up /\ CallsKeep /\ Promises

-----------------------------------------------------------------------------
(* Building blocks.                                                        *)

\* A call that moves on to a good call, or returns, leaves all calls good.
LEMMA GotoKeeps ==
  ASSUME TypeOK, CallsGood, NEW c \in Slots, NEW v \in Call \union {None}, Goto(c, v),
         UNCHANGED <<setup, recorded>>, v # None => CallGood(v)
  PROVE  calls' \in [Slots -> Call \union {None}] /\ CallsGood'
<1>1. calls' = [calls EXCEPT ![c] = v]
  BY Zenon DEF Goto
<1>2. calls' \in [Slots -> Call \union {None}]
  BY <1>1, Zenon DEF TypeOK
<1>3. ASSUME NEW d \in Slots, calls'[d] # None PROVE CallGood(calls[d])'
  <2>1. calls'[d] = IF d = c THEN v ELSE calls[d]
    BY <1>1, Zenon DEF TypeOK
  <2> QED BY <1>3, <2>1, Zenon DEF CallsGood, CallGood, UsesFrost
<1> QED BY <1>2, <1>3, Zenon DEF CallsGood

\* When nothing about the calls changes they stay good; more may be recorded.
LEMMA CallsStay ==
  ASSUME CallsGood, UNCHANGED <<setup, calls>>, recorded \subseteq recorded'
  PROVE  CallsGood'
BY Zenon DEF CallsGood, CallGood, UsesFrost

\* A message that is no release, or an earned one, keeps releases earned.
LEMMA SentKeeps ==
  ASSUME ReleaseIsEarned, NEW dm, sent' \subseteq sent \union {dm},
         UNCHANGED setup, recorded \subseteq recorded',
         dm.type # "hash" =>
           /\ dm.proof \in ValidProofs
           /\ dm.op = "relay" => <<dm.q, dm.to>> \in recorded
           /\ dm.type = "preimage" => dm.q \notin setup.quorum
           /\ dm.type = "signature" => setup.frost
  PROVE  ReleaseIsEarned'
<1> SUFFICES ASSUME NEW e \in sent', e.type \in {"preimage", "signature"}
             PROVE  /\ e.proof \in ValidProofs
                    /\ e.op = "relay" => <<e.q, e.to>> \in recorded'
                    /\ e.type = "preimage" => e.q \notin setup'.quorum
                    /\ e.type = "signature" => setup'.frost
  BY Zenon DEF ReleaseIsEarned, Preimages, Signatures
<1>1. CASE e \in sent
  BY <1>1, Zenon DEF ReleaseIsEarned, Preimages, Signatures
<1>2. CASE e = dm
  BY <1>2, Zenon
<1> QED BY <1>1, <1>2, Zenon

\* Nothing is sent: releases stay earned.
LEMMA UnsentKeeps ==
  ASSUME ReleaseIsEarned, UNCHANGED <<setup, sent>>, recorded \subseteq recorded'
  PROVE  ReleaseIsEarned'
BY Zenon DEF ReleaseIsEarned, Preimages, Signatures

\* A commitment is a message of its own type.
LEMMA HashAnswerTyped ==
  ASSUME NEW op \in Ops, NEW q \in Queries, NEW h \in Hashes \union {None}
  PROVE  HashAnswer(op, q, h) \in DM /\ HashAnswer(op, q, h).type = "hash"
BY Zenon DEF HashAnswer, DM

\* Published adds its message or nothing.
LEMMA PublishedAdds ==
  ASSUME NEW dm \in DM, NEW ok, Published(dm, ok), sent \subseteq DM
  PROVE  sent' \subseteq sent \union {dm} /\ sent' \subseteq DM
BY Zenon DEF Published


-----------------------------------------------------------------------------
(* One lemma per group of actions.                                         *)

\* A daemon that has just started has done nothing.
LEMMA InitIInv == Init => IInv
<1> SUFFICES ASSUME Init PROVE IInv
  BY Zenon
<1>1. TypeOK
  BY Zenon DEF Init, TypeOK, Nothing, NoCalls
<1>2. CallsGood /\ Selections
  BY Zenon DEF Init, CallsGood, Selections, Nothing, NoCalls
<1>3. Down /\ ReleaseIsEarned
  BY Zenon DEF Init, Down, ReleaseIsEarned, Preimages, Signatures
<1> QED BY <1>1, <1>2, <1>3, Zenon DEF IInv

\* Drawing a preimage suspends a call that has established nothing.
LEMMA CreateStarts ==
  ASSUME TypeOK, CallsGood, NEW c \in Slots, NEW op \in {"respond", "generate"},
         NEW q \in Queries, CreatePreimage(c, op, q), UNCHANGED <<setup, recorded>>
  PROVE  /\ calls' \in [Slots -> Call \union {None}] /\ CallsGood'
         /\ entries' \subseteq Hashes /\ drawn' \subseteq Hashes /\ entries \subseteq entries'
<1>1. PICK h \in Hashes \ drawn :
        /\ drawn' = drawn \union {h} /\ entries' = entries \union {h}
        /\ Goto(c, [op |-> op, at |-> "create", q |-> q, p |-> None, proof |-> None,
                    hash |-> h, n |-> 0, why |-> None])
  BY Zenon DEF CreatePreimage
<1> DEFINE v == [op |-> op, at |-> "create", q |-> q, p |-> None, proof |-> None,
                 hash |-> h, n |-> 0, why |-> None]
<1>2. v \in Call
  BY Zenon DEF Call, Ops, Awaits
<1>3. CallGood(v)
  BY Zenon DEF CallGood
<1> HIDE DEF v
<1>4. calls' \in [Slots -> Call \union {None}] /\ CallsGood'
  BY <1>1, <1>2, <1>3, GotoKeeps, Zenon DEF v
<1> QED BY <1>1, <1>4, Zenon DEF TypeOK

\* Hash requests, from relays and from the host, keep the invariant.
LEMMA HashKeeps ==
  ASSUME IInv, NEW c \in Slots, NEW q \in Queries,
         HashRequest(c, q) \/ GenerateRequestHash(c, q)
  PROVE  IInv'
<1> USE DEF IInv
<1>1. UNCHANGED <<setup, process, hashOf, disk, watched, seen, recorded>> /\ process.up
  BY Zenon DEF HashRequest, GenerateRequestHash, Free, maps
<1>2. Selections'
  BY <1>1, Zenon DEF Selections
<1>3. CASE HashRequest(c, q)
  <2> DEFINE known == IF answers[q] # None THEN answers[q] ELSE Existing(q)
  <2>0. known \in Hashes \union {None}
    BY Zenon DEF Existing, TypeOK
  <2>1. CASE known # None
    <3>1. /\ answers' = [answers EXCEPT ![q] = known]
          /\ UNCHANGED <<entries, drawn, calls>>
          /\ \E ok \in BOOLEAN : Published(HashAnswer("respond", q, known), ok)
      BY <1>3, <2>1, Zenon DEF HashRequest
    <3> HIDE DEF known
    <3>2. HashAnswer("respond", q, known) \in DM /\ HashAnswer("respond", q, known).type = "hash"
      BY <2>0, HashAnswerTyped, Zenon DEF Ops
    <3>3. /\ sent' \subseteq DM
          /\ sent' \subseteq sent \union {HashAnswer("respond", q, known)}
      BY <3>1, <3>2, PublishedAdds, Zenon DEF TypeOK
    <3>4. answers' \in [Queries -> Hashes \union {None}]
      BY <2>0, <3>1, Zenon DEF TypeOK
    <3>5. TypeOK'
      BY <1>1, <3>1, <3>3, <3>4, Zenon DEF TypeOK
    <3>6. ReleaseIsEarned'
      BY <1>1, <3>2, <3>3, SentKeeps, Zenon
    <3>7. CallsGood' /\ Down'
      BY <1>1, <3>1, CallsStay, Zenon DEF Down
    <3> QED BY <1>2, <3>5, <3>6, <3>7, Zenon
  <2>2. CASE known = None
    <3>1. CreatePreimage(c, "respond", q) /\ UNCHANGED <<answers, sent>>
      BY <1>3, <2>2, Zenon DEF HashRequest
    <3>2. /\ calls' \in [Slots -> Call \union {None}] /\ CallsGood'
          /\ entries' \subseteq Hashes /\ drawn' \subseteq Hashes
      BY <1>1, <3>1, CreateStarts, Zenon
    <3>3. TypeOK'
      BY <1>1, <3>1, <3>2, Zenon DEF TypeOK
    <3> QED BY <1>1, <1>2, <3>1, <3>2, <3>3, UnsentKeeps, Zenon DEF Down
  <2> QED BY <2>1, <2>2, Zenon
<1>4. CASE GenerateRequestHash(c, q)
  <2>0. Existing(q) \in Hashes \union {None} /\ UNCHANGED answers
    BY <1>4, Zenon DEF Existing, TypeOK, GenerateRequestHash, maps
  <2>1. CASE Existing(q) # None
    <3>1. sent' = sent \union {HashAnswer("generate", q, Existing(q))}
      BY <1>4, <2>1, Zenon DEF GenerateRequestHash
    <3>2. UNCHANGED <<entries, drawn, calls>>
      BY <1>4, <2>1, Zenon DEF GenerateRequestHash
    <3>3. /\ HashAnswer("generate", q, Existing(q)) \in DM
          /\ HashAnswer("generate", q, Existing(q)).type = "hash"
      BY <2>0, HashAnswerTyped, Zenon DEF Ops
    <3>4. sent' \subseteq DM
      BY <3>1, <3>3, Zenon DEF TypeOK
    <3>5. TypeOK'
      BY <1>1, <2>0, <3>2, <3>4, Zenon DEF TypeOK
    <3>6. ReleaseIsEarned'
      BY <1>1, <3>1, <3>3, SentKeeps, Zenon
    <3>7. CallsGood' /\ Down'
      BY <1>1, <3>2, CallsStay, Zenon DEF Down
    <3> QED BY <1>2, <3>5, <3>6, <3>7, Zenon
  <2>2. CASE Existing(q) = None
    <3>1. CreatePreimage(c, "generate", q) /\ UNCHANGED sent
      BY <1>4, <2>2, Zenon DEF GenerateRequestHash
    <3>2. /\ calls' \in [Slots -> Call \union {None}] /\ CallsGood'
          /\ entries' \subseteq Hashes /\ drawn' \subseteq Hashes
      BY <1>1, <3>1, CreateStarts, Zenon
    <3>3. TypeOK'
      BY <1>1, <2>0, <3>1, <3>2, Zenon DEF TypeOK
    <3> QED BY <1>1, <1>2, <3>1, <3>2, <3>3, UnsentKeeps, Zenon DEF Down
  <2> QED BY <2>1, <2>2, Zenon
<1> QED BY <1>3, <1>4, Zenon

\* Watching a request, offers and selections keep the invariant: a selection is
\* recorded when it is made.
LEMMA WatchKeeps ==
  ASSUME IInv, NEW q \in Queries, NEW p,
         \/ WatchRequest(q)
         \/ p \in Providers /\ (FeedbackEvent(q, p) \/ RecordSelectedProvider(q, p))
  PROVE  IInv'
<1> USE DEF IInv
<1>1. /\ UNCHANGED <<setup, process, hashOf, answers, entries, disk, drawn, seen, calls, sent>>
      /\ recorded \subseteq recorded' /\ recorded' \subseteq Queries \X Providers
  BY DEF WatchRequest, FeedbackEvent, RecordSelectedProvider, maps, preimages, TypeOK
<1>2. PICK w \in Watch :
        /\ watched' = [watched EXCEPT ![q] = w]
        /\ w.selected # None => <<q, w.selected>> \in recorded'
  <2>1. CASE WatchRequest(q)
    <3> DEFINE w == [selected |-> None, offered |-> {}]
    <3>1. w \in Watch /\ w.selected = None
      BY Zenon DEF Watch
    <3>2. watched' = [watched EXCEPT ![q] = w]
      BY <2>1, Zenon DEF WatchRequest
    <3> HIDE DEF w
    <3> QED BY <3>1, <3>2, Zenon
  <2>2. CASE p \in Providers /\ FeedbackEvent(q, p)
    <3>1. watched[q] \in Watch /\ recorded' = recorded
      BY <2>2, Zenon DEF FeedbackEvent, TypeOK
    <3> DEFINE w == [watched[q] EXCEPT !.offered = @ \union {p}]
    <3>2. w \in Watch /\ w.selected = watched[q].selected
      BY <2>2, <3>1, Zenon DEF Watch
    <3>3. watched' = [watched EXCEPT ![q] = w]
      BY <2>2, <3>1, Zenon DEF FeedbackEvent, TypeOK
    <3> HIDE DEF w
    <3>4. w.selected # None => <<q, w.selected>> \in recorded'
      BY <2>2, <3>1, <3>2, Zenon DEF FeedbackEvent, Selections
    <3> QED BY <3>2, <3>3, <3>4, Zenon
  <2>3. CASE p \in Providers /\ RecordSelectedProvider(q, p)
    <3>1. watched[q] \in Watch /\ <<q, p>> \in recorded'
      BY <2>3, Zenon DEF RecordSelectedProvider, TypeOK
    <3> DEFINE w == [watched[q] EXCEPT !.selected = p]
    <3>2. w \in Watch /\ w.selected = p
      BY <2>3, <3>1, Zenon DEF Watch
    <3>3. watched' = [watched EXCEPT ![q] = w]
      BY <2>3, <3>1, Zenon DEF RecordSelectedProvider, TypeOK
    <3> HIDE DEF w
    <3> QED BY <3>1, <3>2, <3>3, Zenon
  <2> QED BY <2>1, <2>2, <2>3, Zenon
<1>3. watched' \in [Queries -> Watch \union {None}]
  BY <1>2, Zenon DEF TypeOK
<1>4. TypeOK'
  BY <1>1, <1>3, Zenon DEF TypeOK
<1>5. Selections'
  BY <1>1, <1>2, Zenon DEF Selections, TypeOK
<1>6. CallsGood' /\ ReleaseIsEarned' /\ Down'
  BY <1>1, CallsStay, UnsentKeeps, Zenon DEF Down
<1> QED BY <1>4, <1>5, <1>6, Zenon


\* A result that is let in suspends a good call: on the relay path the sender is
\* the recorded selection; without FROST a quorum query is not verified.
LEMMA ResultKeeps ==
  ASSUME IInv, NEW c \in Slots, NEW q \in Queries, NEW p \in Providers, NEW proof \in Proofs,
         \/ ResponseEvent(c, q, p, proof)
         \/ \E op \in HostCalls : VerifyAndDeliver(c, op, q, p, proof)
  PROVE  IInv'
<1> USE DEF IInv
<1>1. UNCHANGED <<setup, process, hashOf, answers, entries, disk, drawn, watched, seen, sent,
                  recorded>>
  BY Zenon DEF ResponseEvent, VerifyAndDeliver, maps, preimages
<1>2. PICK op \in Ops :
        Dispatch(c, op, q, p, proof) /\ (op = "relay" => MayRelease(q, p))
  BY OracleAssumption, Zenon DEF ResponseEvent, VerifyAndDeliver, Ops
<1> DEFINE noFrost == UsesFrost(op, q) /\ ~setup.frost
           v == [op |-> op, at |-> IF noFrost THEN "reject" ELSE "verify", q |-> q,
                 p |-> p, proof |-> proof, hash |-> None, n |-> 0,
                 why |-> IF noFrost THEN "noFrost"
                         ELSE IF Replayed(q, proof) THEN "replayed" ELSE None]
<1>3. Goto(c, v)
  BY <1>2, Zenon DEF Dispatch
<1>4. /\ v.op = op /\ v.q = q /\ v.p = p
      /\ v.at = IF noFrost THEN "reject" ELSE "verify"
  BY Zenon
<1>5. v \in Call
  BY Zenon DEF Call, Awaits, Reasons
<1> HIDE DEF v
<1>6. op = "relay" => <<q, p>> \in recorded
  BY <1>2, OracleAssumption, Zenon DEF MayRelease, Selections
<1>7. CallGood(v)
  BY <1>4, <1>6, Zenon DEF CallGood
<1>8. calls' \in [Slots -> Call \union {None}] /\ CallsGood'
  BY <1>1, <1>3, <1>5, <1>7, GotoKeeps, Zenon
<1>9. TypeOK'
  BY <1>1, <1>8, Zenon DEF TypeOK
<1>10. Selections' /\ Down' /\ ReleaseIsEarned'
  BY <1>1, UnsentKeeps, Zenon DEF Selections, Down
<1> QED BY <1>8, <1>9, <1>10, Zenon

\* create resolved: only a commitment is sent.
LEMMA CreatedKeeps ==
  ASSUME IInv, NEW c \in Slots, PreimageCreated(c)
  PROVE  IInv'
<1> USE DEF IInv
<1> DEFINE call == calls[c]
           dm == HashAnswer(call.op, call.q, call.hash)
<1>1. call \in Call
  BY Zenon DEF PreimageCreated, At, TypeOK
<1>2. UNCHANGED <<setup, process, entries, drawn, watched, seen, recorded>> /\ Goto(c, None)
  BY Zenon DEF PreimageCreated, Return
<1>3. call.op \in Ops /\ call.q \in Queries /\ call.hash \in Hashes \union {None}
  BY <1>1, Zenon DEF Call
<1>4. dm \in DM /\ dm.type = "hash"
  BY <1>3, HashAnswerTyped, Zenon
<1>5. sent' \subseteq sent \union {dm}
  BY Zenon DEF PreimageCreated, Published
<1> HIDE DEF dm
<1>6. sent' \subseteq DM
  BY <1>4, <1>5, Zenon DEF TypeOK
<1>7. /\ hashOf' \in [Queries -> Hashes \union {None}]
      /\ answers' \in [Queries -> Hashes \union {None}]
  BY <1>3, Zenon DEF PreimageCreated, TypeOK
<1>8. disk' \subseteq Hashes
  <2>1. At(c, "create") /\ disk' = IF Persistent THEN disk \union {call.hash} ELSE disk
    BY Zenon DEF PreimageCreated
  <2>2. call.hash \in Hashes
    BY <2>1, Zenon DEF At, CallsGood, CallGood
  <2> QED BY <2>1, <2>2, Zenon DEF TypeOK
<1>9. calls' \in [Slots -> Call \union {None}] /\ CallsGood'
  BY <1>2, GotoKeeps, Zenon
<1>10. TypeOK'
  BY <1>2, <1>6, <1>7, <1>8, <1>9, Zenon DEF TypeOK
<1>11. ReleaseIsEarned'
  BY <1>2, <1>4, <1>5, SentKeeps, Zenon
<1>12. Selections' /\ Down'
  BY <1>2, Zenon DEF Selections, Down
<1> QED BY <1>9, <1>10, <1>11, <1>12, Zenon


\* verifyFn resolved: a call goes on to deliver only with valid evidence, bare
\* preimages only for queries without a quorum.
LEMMA VerifiedKeeps ==
  ASSUME IInv, NEW c \in Slots, Verified(c)
  PROVE  IInv'
<1> USE DEF IInv
<1> DEFINE call == calls[c]
<1>1. call \in Call /\ call.at = "verify" /\ CallGood(call)
  BY Zenon DEF Verified, At, TypeOK, CallsGood
<1>2. UNCHANGED <<setup, process, hashOf, answers, entries, disk, drawn, watched, sent, recorded>>
  BY Zenon DEF Verified, maps, preimages
<1>3. PICK passed \in BOOLEAN :
        /\ passed => call.proof \in ValidProofs /\ call.why # "replayed"
        /\ Goto(c, AfterVerdict(call, passed))
        /\ seen' = Remembered(call)
  BY Zenon DEF Verified
<1>4. seen' \subseteq Proofs
  BY <1>3, OracleAssumption, Zenon DEF Remembered, TypeOK
<1> DEFINE v == AfterVerdict(call, passed)
<1>5. v \in Call /\ CallGood(v)
  <2> DEFINE hash == hashOf[call.q]
             rejected(why) == [call EXCEPT !.at = "reject", !.why = why]
  <2>1. ASSUME NEW why \in Reasons PROVE rejected(why) \in Call /\ CallGood(rejected(why))
    <3>1. /\ rejected(why) \in Call /\ rejected(why).at = "reject"
          /\ rejected(why).op = call.op /\ rejected(why).q = call.q /\ rejected(why).p = call.p
      BY <1>1, Zenon DEF Call, Awaits
    <3> HIDE DEF rejected
    <3> QED BY <1>1, <3>1, Zenon DEF CallGood
  <2>2. CASE ~passed
    <3>1. v = rejected(IF call.why = "replayed" THEN "replayed" ELSE "invalid")
      BY <2>2, Zenon DEF AfterVerdict
    <3> QED BY <2>1, <3>1, Zenon DEF Reasons
  <2>3. CASE passed /\ UsesFrost(call.op, call.q)
    <3> DEFINE w == [call EXCEPT !.at = "sign", !.n = 1]
    <3>1. v = w
      BY <2>3, Zenon DEF AfterVerdict
    <3> HIDE DEF v
    <3>2. /\ w \in Call /\ w.at = "sign" /\ w.op = call.op /\ w.q = call.q /\ w.p = call.p
          /\ w.proof = call.proof
      BY <1>1, Zenon DEF Call, Awaits
    <3> HIDE DEF w
    <3> QED BY <1>1, <1>3, <2>3, <3>1, <3>2, Zenon DEF CallGood
  <2>4. CASE passed /\ ~UsesFrost(call.op, call.q) /\ hash \in entries
    <3> DEFINE w == [call EXCEPT !.at = "publish", !.n = 1, !.hash = hash]
    <3>1. v = w
      BY <2>4, Zenon DEF AfterVerdict
    <3> HIDE DEF v
    <3>2. hash \in Hashes /\ call.q \notin setup.quorum
      BY <2>4, Zenon DEF TypeOK, UsesFrost
    <3> HIDE DEF hash
    <3>3. /\ w \in Call /\ w.at = "publish" /\ w.op = call.op /\ w.q = call.q /\ w.p = call.p
          /\ w.proof = call.proof
      BY <1>1, <3>2, Zenon DEF Call, Awaits
    <3> HIDE DEF w
    <3> QED BY <1>1, <1>3, <2>4, <3>1, <3>2, <3>3, Zenon DEF CallGood
  <2>5. CASE passed /\ ~UsesFrost(call.op, call.q) /\ hash \notin entries
    <3>1. v = rejected("noPreimage")
      BY <2>5, Zenon DEF AfterVerdict
    <3> QED BY <2>1, <3>1, Zenon DEF Reasons
  <2> QED BY <2>2, <2>3, <2>4, <2>5, Zenon
<1> HIDE DEF v
<1>6. calls' \in [Slots -> Call \union {None}] /\ CallsGood'
  BY <1>2, <1>3, <1>5, GotoKeeps, Zenon DEF v
<1>7. TypeOK'
  BY <1>2, <1>4, <1>6, Zenon DEF TypeOK
<1>8. Selections' /\ Down' /\ ReleaseIsEarned'
  BY <1>2, UnsentKeeps, Zenon DEF Selections, Down
<1> QED BY <1>6, <1>7, <1>8, Zenon

\* A release carries what its call has.
LEMMA ReleaseTyped ==
  ASSUME NEW type \in {"preimage", "signature"}, NEW call \in Call
  PROVE  LET dm == Release(type, call) IN
           /\ dm \in DM /\ dm.type = type /\ dm.op = call.op /\ dm.q = call.q
           /\ dm.to = call.p /\ dm.hash = call.hash /\ dm.proof = call.proof
BY Zenon DEF Release, DM, Call

\* A preimage is published and the call waits, deletes or gives up.
LEMMA PublishedKeeps ==
  ASSUME IInv, NEW c \in Slots, PreimagePublished(c)
  PROVE  IInv'
<1> USE DEF IInv
<1> DEFINE call == calls[c]
           dm == Release("preimage", call)
<1>1. call \in Call /\ call.at = "publish" /\ CallGood(call)
  BY Zenon DEF PreimagePublished, At, TypeOK, CallsGood
<1>2. UNCHANGED <<setup, process, hashOf, answers, disk, drawn, watched, seen, recorded>>
  BY Zenon DEF PreimagePublished, maps
<1>3. PICK ok \in BOOLEAN : Published(dm, ok) /\ AfterDelivery(c, ok)
  BY Zenon DEF PreimagePublished
<1>4. /\ dm \in DM /\ dm.type = "preimage" /\ dm.op = call.op /\ dm.q = call.q
      /\ dm.to = call.p /\ dm.proof = call.proof
  BY <1>1, ReleaseTyped, Zenon
<1> HIDE DEF dm
<1>5. sent' \subseteq sent \union {dm} /\ sent' \subseteq DM
  BY <1>3, <1>4, PublishedAdds, Zenon DEF TypeOK
<1>6. ReleaseIsEarned'
  BY <1>1, <1>2, <1>4, <1>5, SentKeeps, Zenon DEF CallGood
<1>7. entries' \subseteq entries
  BY <1>3, Zenon DEF AfterDelivery
<1>8. \E v \in Call \union {None} : Goto(c, v) /\ (v # None => CallGood(v))
  <2>1. ASSUME NEW at \in {"delete", "delay"}
        PROVE  [call EXCEPT !.at = at] \in Call /\ CallGood([call EXCEPT !.at = at])
    <3> DEFINE v == [call EXCEPT !.at = at]
    <3>1. /\ v \in Call /\ v.at = at /\ v.op = call.op /\ v.q = call.q /\ v.p = call.p
          /\ v.proof = call.proof
      BY <1>1, Zenon DEF Call, Awaits
    <3> HIDE DEF v
    <3>2. CallGood(v)
      BY <1>1, <3>1, Zenon DEF CallGood
    <3> QED BY <3>1, <3>2, Zenon DEF v
  <2> QED BY <1>3, <2>1, Zenon DEF AfterDelivery, Return
<1>9. calls' \in [Slots -> Call \union {None}] /\ CallsGood'
  BY <1>2, <1>8, GotoKeeps, Zenon
<1>10. TypeOK'
  BY <1>2, <1>5, <1>7, <1>9, Zenon DEF TypeOK
<1>11. Selections' /\ Down'
  BY <1>2, <1>7, Zenon DEF Selections, Down
<1> QED BY <1>6, <1>9, <1>10, <1>11, Zenon


\* A call that moves on without sending or storing anything: the retry delay, a
\* signed message, and a failure.
LEMMA MovesKeep ==
  ASSUME IInv, NEW c \in Slots, DelayPassed(c) \/ MessageSigned(c) \/ CallFails(c)
  PROVE  IInv'
<1> USE DEF IInv
<1> DEFINE call == calls[c]
<1>1. call \in Call /\ CallGood(call)
  BY Zenon DEF DelayPassed, MessageSigned, CallFails, At, TypeOK, CallsGood
<1>2. UNCHANGED <<setup, process, hashOf, answers, entries, disk, drawn, watched, seen, sent,
                  recorded>>
  BY Zenon DEF DelayPassed, MessageSigned, CallFails, maps, preimages
<1>3. ASSUME NEW v \in Call, v.op = call.op, v.q = call.q, v.p = call.p, v.proof = call.proof,
             \/ v.at = "publish" /\ call.at = "delay"
             \/ v.at \in {"sign", "signed"} /\ call.at = "sign"
             \/ v.at = "reject"
      PROVE  CallGood(v)
  BY <1>1, <1>3, Zenon DEF CallGood
<1>4. \E v \in Call \union {None} : Goto(c, v) /\ (v # None => CallGood(v))
  <2>1. CASE DelayPassed(c)
    <3> DEFINE v == [call EXCEPT !.at = "publish", !.n = @ + 1]
    <3>1. /\ v \in Call /\ v.op = call.op /\ v.q = call.q /\ v.p = call.p
          /\ v.proof = call.proof /\ v.at = "publish"
      <4>1. call.n + 1 \in Nat
        BY <1>1 DEF Call
      <4> QED BY <1>1, <4>1, Zenon DEF Call, Awaits
    <3>2. Goto(c, v) /\ call.at = "delay"
      BY <2>1, Zenon DEF DelayPassed, At
    <3> HIDE DEF v
    <3> QED BY <1>3, <3>1, <3>2, Zenon
  <2>2. CASE MessageSigned(c)
    <3>1. call.at = "sign"
      BY <2>2, Zenon DEF MessageSigned, At
    <3> DEFINE v1 == [call EXCEPT !.at = "reject", !.why = "threshold"]
               v2 == [call EXCEPT !.n = @ + 1]
               v3 == [call EXCEPT !.at = "signed"]
    <3>2. /\ v1 \in Call /\ v1.op = call.op /\ v1.q = call.q /\ v1.p = call.p
          /\ v1.proof = call.proof /\ v1.at = "reject"
      BY <1>1, Zenon DEF Call, Awaits, Reasons
    <3>3. /\ v2 \in Call /\ v2.op = call.op /\ v2.q = call.q /\ v2.p = call.p
          /\ v2.proof = call.proof /\ v2.at = call.at
      BY <1>1 DEF Call
    <3>4. /\ v3 \in Call /\ v3.op = call.op /\ v3.q = call.q /\ v3.p = call.p
          /\ v3.proof = call.proof /\ v3.at = "signed"
      BY <1>1, Zenon DEF Call, Awaits
    <3>5. Goto(c, v1) \/ Goto(c, v2) \/ Goto(c, v3)
      BY <2>2, Zenon DEF MessageSigned
    <3> HIDE DEF v1, v2, v3
    <3>6. CallGood(v1) /\ CallGood(v2) /\ CallGood(v3)
      BY <1>3, <3>1, <3>2, <3>3, <3>4, Zenon
    <3> QED BY <3>2, <3>3, <3>4, <3>5, <3>6, Zenon
  <2>3. CASE CallFails(c)
    BY <2>3, Zenon DEF CallFails, Return
  <2> QED BY <2>1, <2>2, <2>3, Zenon
<1>5. calls' \in [Slots -> Call \union {None}] /\ CallsGood'
  BY <1>2, <1>4, GotoKeeps, Zenon
<1>6. TypeOK'
  BY <1>2, <1>5, Zenon DEF TypeOK
<1>7. Selections' /\ Down' /\ ReleaseIsEarned'
  BY <1>2, UnsentKeeps, Zenon DEF Selections, Down
<1> QED BY <1>5, <1>6, <1>7, Zenon

\* A call that ends by forgetting its query: delivered, signed or rejected.
LEMMA EndsKeep ==
  ASSUME IInv, NEW c \in Slots,
         PreimageDeleted(c) \/ SignaturePublished(c) \/ RejectionPublished(c)
  PROVE  IInv'
<1> USE DEF IInv
<1> DEFINE call == calls[c]
<1>1. call \in Call /\ CallGood(call)
  BY Zenon DEF PreimageDeleted, SignaturePublished, RejectionPublished, At, TypeOK, CallsGood
<1>2. call.q \in Queries
  BY <1>1, Zenon DEF Call
<1>3. UNCHANGED <<setup, process, answers, entries, drawn, seen, recorded>> /\ Goto(c, None)
  BY Zenon DEF PreimageDeleted, SignaturePublished, RejectionPublished, maps, preimages, Return
<1>4. watched' = watched \/ watched' = [watched EXCEPT ![call.q] = None]
  BY Zenon DEF PreimageDeleted, SignaturePublished, RejectionPublished, Unwatch
<1>5. watched' \in [Queries -> Watch \union {None}] /\ Selections'
  BY <1>2, <1>3, <1>4, Zenon DEF TypeOK, Selections
<1>6. hashOf' \in [Queries -> Hashes \union {None}] /\ disk' \subseteq Hashes
  <2>1. CASE PreimageDeleted(c)
    <3>1. hashOf' = [hashOf EXCEPT ![call.q] = None] /\ disk' = disk \ {call.hash}
      BY <2>1, Zenon DEF PreimageDeleted
    <3> QED BY <1>2, <3>1, Zenon DEF TypeOK
  <2>2. CASE SignaturePublished(c) \/ RejectionPublished(c)
    BY <2>2, Zenon DEF SignaturePublished, RejectionPublished, maps, preimages, TypeOK
  <2> QED BY <2>1, <2>2, Zenon
<1>7. calls' \in [Slots -> Call \union {None}] /\ CallsGood'
  BY <1>3, GotoKeeps, Zenon
<1>8. sent' \subseteq DM /\ ReleaseIsEarned'
  <2>1. CASE PreimageDeleted(c) \/ RejectionPublished(c)
    BY <2>1, <1>3, UnsentKeeps, Zenon DEF PreimageDeleted, RejectionPublished, TypeOK
  <2>2. CASE SignaturePublished(c)
    <3> DEFINE dm == Release("signature", call)
    <3>1. /\ dm \in DM /\ dm.type = "signature" /\ dm.op = call.op /\ dm.q = call.q
          /\ dm.to = call.p /\ dm.proof = call.proof
      BY <1>1, ReleaseTyped, Zenon
    <3>2. \E ok \in BOOLEAN : Published(dm, ok)
      BY <2>2, Zenon DEF SignaturePublished
    <3>3. call.at = "signed"
      BY <2>2, Zenon DEF SignaturePublished, At
    <3> HIDE DEF dm
    <3>4. sent' \subseteq sent \union {dm} /\ sent' \subseteq DM
      BY <3>1, <3>2, PublishedAdds, Zenon DEF TypeOK
    <3>5. ReleaseIsEarned'
      BY <1>1, <1>3, <3>1, <3>3, <3>4, SentKeeps, Zenon DEF CallGood
    <3> QED BY <3>4, <3>5, Zenon
  <2> QED BY <2>1, <2>2, Zenon
<1>9. TypeOK'
  BY <1>3, <1>5, <1>6, <1>7, <1>8, Zenon DEF TypeOK
<1>10. Down'
  BY <1>3, Zenon DEF Down
<1> QED BY <1>5, <1>7, <1>8, <1>9, <1>10, Zenon

\* Stopping, crashing and restarting keep the invariant.
LEMMA ProcessKeeps ==
  ASSUME IInv, Stop \/ Crash \/ Restart
  PROVE  IInv'
<1> USE DEF IInv
<1>1. UNCHANGED <<setup, disk, drawn, sent, recorded>>
  BY Zenon DEF Stop, Crash, Restart, preimages
<1>2. (calls' = calls \/ calls' = NoCalls) /\ (watched' = watched \/ watched' = Nothing)
  BY Zenon DEF Stop, Crash, Restart
<1>3. CallsGood' /\ calls' \in [Slots -> Call \union {None}]
  <2>1. CASE calls' = calls
    BY <1>1, <2>1, CallsStay, Zenon DEF TypeOK
  <2>2. CASE calls' = NoCalls
    BY <2>2, Zenon DEF NoCalls, CallsGood
  <2> QED BY <1>2, <2>1, <2>2, Zenon
<1>4. Selections' /\ watched' \in [Queries -> Watch \union {None}]
  BY <1>1, <1>2, Zenon DEF Selections, Nothing, TypeOK
<1>5. /\ process' \in [up : BOOLEAN, listening : BOOLEAN] /\ Down'
      /\ entries' \subseteq Hashes /\ seen' \subseteq Proofs
  <2>1. CASE Stop
    BY <2>1, Zenon DEF Stop, TypeOK, Down, preimages
  <2>2. CASE Crash
    BY <2>2, Zenon DEF Crash, Down
  <2>3. CASE Restart
    BY <2>3, Zenon DEF Restart, Down, TypeOK
  <2> QED BY <2>1, <2>2, <2>3, Zenon
<1>6. /\ hashOf' \in [Queries -> Hashes \union {None}]
      /\ answers' \in [Queries -> Hashes \union {None}]
  BY Zenon DEF Stop, Crash, Restart, maps, Nothing, TypeOK
<1>7. TypeOK'
  BY <1>1, <1>3, <1>4, <1>5, <1>6, Zenon DEF TypeOK
<1>8. ReleaseIsEarned'
  BY <1>1, UnsentKeeps, Zenon
<1> QED BY <1>3, <1>4, <1>5, <1>7, <1>8, Zenon

\* One step, and no step, keeps the invariant.
LEMMA StepKeeps == IInv /\ [Next]_vars => IInv'
<1> SUFFICES ASSUME IInv, [Next]_vars PROVE IInv'
  BY Zenon
<1>1. CASE UNCHANGED vars
  <2>1. UNCHANGED <<setup, process, hashOf, answers, entries, disk, drawn, watched, seen, calls,
                    sent, recorded>>
    BY <1>1, Zenon DEF vars
  <2>2. TypeOK'
    BY <2>1, Zenon DEF IInv, TypeOK
  <2>3. CallsGood' /\ ReleaseIsEarned'
    BY <2>1, CallsStay, UnsentKeeps, Zenon DEF IInv
  <2> QED BY <2>1, <2>2, <2>3, Zenon DEF IInv, Selections, Down
<1>2. CASE Requests
  <2>1. PICK q \in Queries :
          \/ WatchRequest(q)
          \/ \E p \in Providers : FeedbackEvent(q, p) \/ RecordSelectedProvider(q, p)
          \/ \E c \in Slots :
               \/ HashRequest(c, q) \/ GenerateRequestHash(c, q)
               \/ \E p \in Providers, proof \in Proofs :
                    \/ ResponseEvent(c, q, p, proof)
                    \/ \E op \in HostCalls : VerifyAndDeliver(c, op, q, p, proof)
    BY <1>2, Zenon DEF Requests
  <2>2. CASE WatchRequest(q)
    BY <2>2, WatchKeeps, Zenon
  <2>3. CASE \E p \in Providers : FeedbackEvent(q, p) \/ RecordSelectedProvider(q, p)
    BY <2>3, WatchKeeps, Zenon
  <2>4. CASE \E c \in Slots : HashRequest(c, q) \/ GenerateRequestHash(c, q)
    BY <2>4, HashKeeps, Zenon
  <2>5. CASE \E c \in Slots, p \in Providers, proof \in Proofs :
               \/ ResponseEvent(c, q, p, proof)
               \/ \E op \in HostCalls : VerifyAndDeliver(c, op, q, p, proof)
    BY <2>5, ResultKeeps, Zenon
  <2> QED BY <2>1, <2>2, <2>3, <2>4, <2>5, Zenon
<1>3. ASSUME NEW c \in Slots, Resolves(c) PROVE IInv'
  BY <1>3, CreatedKeeps, VerifiedKeeps, PublishedKeeps, MovesKeep, EndsKeep, Zenon DEF Resolves
<1> QED BY <1>1, <1>2, <1>3, ProcessKeeps, Zenon DEF Next


-----------------------------------------------------------------------------
(* Release material is earned.                                             *)

\* Whatever is released, in every behaviour and for every number of queries,
\* Providers, proofs and overlapping calls, was earned: it passed verification,
\* went to the recorded selection on the relay path, and was no bare preimage
\* for a query that demanded a quorum.
THEOREM ReleaseSafe == Spec => []ReleaseIsEarned
<1>1. IInv => ReleaseIsEarned
  BY Zenon DEF IInv
<1> QED BY <1>1, InitIInv, StepKeeps, PTL DEF Spec

\* Only a delivery, a crash or a restart takes a preimage out of the store.
LEMMA EntriesGrow ==
  ASSUME [Next]_vars, ~Crash, ~Restart, \A c \in Slots : ~PreimagePublished(c)
  PROVE  entries \subseteq entries'
<1>1. CASE UNCHANGED vars
  BY <1>1, Zenon DEF vars
<1>2. ASSUME NEW c \in Slots, NEW q \in Queries, HashRequest(c, q) \/ GenerateRequestHash(c, q)
      PROVE  entries \subseteq entries'
  BY <1>2, Zenon DEF HashRequest, GenerateRequestHash, CreatePreimage
<1>3. CASE Requests
  BY <1>2, <1>3 DEF Requests, WatchRequest, FeedbackEvent, RecordSelectedProvider,
     ResponseEvent, VerifyAndDeliver, preimages
<1>4. ASSUME NEW c \in Slots, Resolves(c) PROVE entries' = entries
  BY <1>4, Zenon DEF Resolves, PreimageCreated, Verified, DelayPassed, PreimageDeleted, MessageSigned,
     SignaturePublished, RejectionPublished, CallFails, preimages
<1>5. CASE Stop
  BY <1>5, Zenon DEF Stop, preimages
<1> QED BY <1>1, <1>3, <1>4, <1>5, Zenon DEF Next

\* A delivery takes out only the preimage of a DM that reached a relay.
LEMMA DeliveryTakes ==
  ASSUME TypeOK, NEW c \in Slots, PreimagePublished(c), NEW h \in entries, h \notin entries'
  PROVE  \E dm \in Preimages' : dm.hash = h
<1> DEFINE call == calls[c]
           dm == Release("preimage", call)
<1>1. call \in Call
  BY Zenon DEF PreimagePublished, At, TypeOK
<1>2. PICK ok \in BOOLEAN : Published(dm, ok) /\ AfterDelivery(c, ok)
  BY Zenon DEF PreimagePublished
<1>3. ok /\ entries' = entries \ {call.hash}
  BY <1>2, Zenon DEF AfterDelivery
<1>4. dm.type = "preimage" /\ dm.hash = call.hash
  BY <1>1, ReleaseTyped, Zenon
<1> HIDE DEF dm
<1>5. dm \in sent'
  BY <1>2, <1>3, Zenon DEF Published
<1> QED BY <1>3, <1>4, <1>5, Zenon DEF Preimages

\* While the process lives, a preimage leaves the store only once a DM that
\* carries it reached a relay, whatever else is under way.
THEOREM RetainedSafe == Spec => RetainedUntilDelivered
<1> DEFINE Taken == \A h \in entries \ entries' :
                      process'.up => \E dm \in Preimages' : dm.hash = h
<1>1. IInv /\ [Next]_vars => [Taken]_vars
  <2> SUFFICES ASSUME IInv, [Next]_vars PROVE Taken
    BY Zenon
  <2>1. CASE Crash
    BY <2>1, Zenon DEF Crash
  <2>2. CASE Restart
    BY <2>2, Zenon DEF Restart, IInv, Down
  <2>3. CASE \E c \in Slots : PreimagePublished(c)
    BY <2>3, DeliveryTakes, Zenon DEF IInv
  <2>4. CASE ~Crash /\ ~Restart /\ \A c \in Slots : ~PreimagePublished(c)
    BY <2>4, EntriesGrow, Zenon
  <2> QED BY <2>1, <2>2, <2>3, <2>4, Zenon
<1> QED BY <1>1, InitIInv, StepKeeps, PTL DEF Spec, RetainedUntilDelivered


-----------------------------------------------------------------------------
(* Commitments are kept while calls do not overlap.                        *)

\* What is kept stays kept while the maps stay and the store grows.
LEMMA KeptGrows ==
  ASSUME UNCHANGED hashOf, entries \subseteq entries', sent \subseteq sent',
         NEW q \in Queries, NEW h, Kept(q, h)
  PROVE  Kept(q, h)'
BY Zenon DEF Kept, Opened, Preimages

\* A step that leaves the maps, adds to the store, and publishes no hash.
LEMMA QuietKeeps ==
  ASSUME KInv, TypeOK', process'.up, UNCHANGED <<hashOf, answers>>, entries \subseteq entries',
         sent \subseteq sent', \A m \in sent' : m \in sent \/ m.type # "hash",
         NEW v, \A d \in Slots : calls'[d] = calls[d] \/ calls'[d] = v,
         v # None /\ v.at = "create" => hashOf[v.q] = None /\ v.hash \in entries',
         v # None /\ v.at \in {"publish", "delay", "delete"} =>
           hashOf[v.q] = v.hash /\ v.hash # None,
         v # None /\ v.at = "delete" => Opened(v.hash)'
  PROVE  KInv'
<1> USE DEF KInv
<1>1. Promises'
  <2>1. ASSUME NEW q \in Queries, NEW h, Kept(q, h) PROVE Kept(q, h)'
    BY <2>1, KeptGrows, Zenon
  <2>2. \A q \in Queries : hashOf'[q] # None => Kept(q, hashOf[q])'
    BY <2>1, Zenon DEF Promises
  <2>3. \A q \in Queries : answers'[q] # None => Kept(q, answers[q])'
    BY <2>1, Zenon DEF Promises
  <2>4. ASSUME NEW m \in sent', m.type = "hash" PROVE Kept(m.q, m.hash)'
    <3>1. m \in sent /\ m.q \in Queries
      BY <2>4, Zenon DEF TypeOK, DM
    <3> QED BY <2>1, <2>4, <3>1, Zenon DEF Promises
  <2> QED BY <2>2, <2>3, <2>4, Zenon DEF Promises
<1>2. CallsKeep'
  <2> SUFFICES ASSUME NEW d \in Slots, NEW w, w = calls'[d], w # None PROVE CallKeeps(w)'
    BY Zenon DEF CallsKeep, CallKeeps
  <2>1. CASE w = v
    BY <2>1, Zenon DEF CallKeeps
  <2>2. CASE w = calls[d]
    <3>1. CallKeeps(w)
      BY <2>2, Zenon DEF CallsKeep
    <3>2. Opened(w.hash) => Opened(w.hash)'
      BY Zenon DEF Opened, Preimages
    <3> QED BY <2>2, <3>1, <3>2, Zenon DEF CallKeeps
  <2> QED BY <2>1, <2>2, Zenon
<1> QED BY <1>1, <1>2, Zenon


\* Steps that touch no map and no preimage, and suspend no delivery.
LEMMA IdleKeeps ==
  ASSUME KInv, TypeOK',
         \/ UNCHANGED vars \/ Stop
         \/ \E q \in Queries :
              \/ WatchRequest(q)
              \/ \E p \in Providers : FeedbackEvent(q, p) \/ RecordSelectedProvider(q, p)
  PROVE  KInv'
<1>1. UNCHANGED <<hashOf, answers, entries, calls, sent>> /\ process'.up
  BY Zenon DEF vars, Stop, WatchRequest, FeedbackEvent, RecordSelectedProvider, maps, preimages, KInv,
     TypeOK
<1>2. \A d \in Slots : calls'[d] = calls[d] \/ calls'[d] = None
  BY <1>1, Zenon
<1> QED BY <1>1, <1>2, QuietKeeps, Zenon

\* A call that returns or goes on without a preimage in hand.
LEMMA TurnsKeep ==
  ASSUME KInv, TypeOK', NEW c \in Slots, NEW v, Goto(c, v),
         v # None => v.at \in {"verify", "sign", "signed", "reject"},
         UNCHANGED <<process, hashOf, answers, entries, sent>>
  PROVE  KInv'
<1>1. \A d \in Slots : calls'[d] = calls[d] \/ calls'[d] = v
  BY Zenon DEF Goto, KInv, TypeOK
<1>2. process'.up
  BY Zenon DEF KInv
<1> QED BY <1>1, <1>2, QuietKeeps, Zenon

\* A result that comes in.
LEMMA ResultQuiet ==
  ASSUME KInv, TypeOK', NEW c \in Slots, NEW q \in Queries, NEW p \in Providers,
         NEW proof \in Proofs,
         \/ ResponseEvent(c, q, p, proof)
         \/ \E op \in HostCalls : VerifyAndDeliver(c, op, q, p, proof)
  PROVE  KInv'
<1>1. PICK op : Dispatch(c, op, q, p, proof)
  BY Zenon DEF ResponseEvent, VerifyAndDeliver
<1>2. UNCHANGED <<process, hashOf, answers, entries, sent>>
  BY Zenon DEF ResponseEvent, VerifyAndDeliver, maps, preimages
<1>3. PICK v : Goto(c, v) /\ v.at \in {"verify", "reject"}
  BY <1>1 DEF Dispatch
<1> QED BY <1>2, <1>3, TurnsKeep, Zenon

\* The verdict: a delivery that begins has the hash the query has.
LEMMA VerdictKeeps ==
  ASSUME KInv, TypeOK', NEW c \in Slots, Verified(c)
  PROVE  KInv'
<1> DEFINE call == calls[c]
           hash == hashOf[call.q]
<1>1. call \in Call
  BY Zenon DEF Verified, At, KInv, TypeOK
<1>2. UNCHANGED <<process, hashOf, answers, entries, sent>>
  BY Zenon DEF Verified, maps, preimages
<1>3. PICK passed \in BOOLEAN : Goto(c, AfterVerdict(call, passed))
  BY Zenon DEF Verified
<1> DEFINE v == AfterVerdict(call, passed)
<1>4. CASE passed /\ ~UsesFrost(call.op, call.q) /\ hash \in entries
  <2> DEFINE w == [call EXCEPT !.at = "publish", !.n = 1, !.hash = hash]
  <2>1. v = w
    BY <1>4, Zenon DEF AfterVerdict
  <2> HIDE DEF v
  <2>2. hash # None
    BY <1>4, OracleAssumption DEF KInv, TypeOK
  <2>3. w.at = "publish" /\ w.q = call.q /\ w.hash = hash
    BY <1>1, Zenon DEF Call
  <2> HIDE DEF w
  <2>4. \A d \in Slots : calls'[d] = calls[d] \/ calls'[d] = w
    BY <1>3, <2>1, Zenon DEF Goto, KInv, TypeOK, v
  <2>5. process'.up
    BY <1>2, Zenon DEF KInv
  <2> QED BY <1>2, <2>2, <2>3, <2>4, <2>5, QuietKeeps, Zenon
<1>5. CASE ~(passed /\ ~UsesFrost(call.op, call.q) /\ hash \in entries)
  <2>1. v.at \in {"sign", "reject"}
    <3> DEFINE rejected(why) == [call EXCEPT !.at = "reject", !.why = why]
               w == [call EXCEPT !.at = "sign", !.n = 1]
    <3>1. \A why : rejected(why).at = "reject"
      BY <1>1, Zenon DEF Call
    <3>2. w.at = "sign"
      BY <1>1, Zenon DEF Call
    <3>3. \/ v = rejected(IF call.why = "replayed" THEN "replayed" ELSE "invalid")
          \/ v = w \/ v = rejected("noPreimage")
      BY <1>5, Zenon DEF AfterVerdict
    <3> HIDE DEF v, w, rejected
    <3> QED BY <3>1, <3>2, <3>3, Zenon
  <2> HIDE DEF v
  <2> QED BY <1>2, <1>3, <2>1, TurnsKeep, Zenon DEF v
<1> QED BY <1>4, <1>5, Zenon


\* A request for a hash is answered with one that is kept, or draws a new one.
LEMMA AnswerKeeps ==
  ASSUME KInv, TypeOK', NEW c \in Slots, NEW q \in Queries,
         HashRequest(c, q) \/ GenerateRequestHash(c, q)
  PROVE  KInv'
<1> USE DEF KInv
<1> DEFINE Answered(op, h) == /\ h # None /\ Kept(q, h)
                              /\ sent' \subseteq sent \union {HashAnswer(op, q, h)}
                              /\ sent \subseteq sent'
                              /\ answers' = answers \/ answers' = [answers EXCEPT ![q] = h]
                              /\ UNCHANGED <<entries, calls>>
           Drawn == /\ hashOf[q] = None /\ UNCHANGED <<answers, sent>>
                    /\ \E op : CreatePreimage(c, op, q)
<1>1. UNCHANGED hashOf /\ process'.up
  BY Zenon DEF HashRequest, GenerateRequestHash, maps
<1>2. Drawn \/ \E op, h : Answered(op, h)
  <2>1. CASE HashRequest(c, q)
    <3> DEFINE known == IF answers[q] # None THEN answers[q] ELSE Existing(q)
    <3>1. CASE known # None
      <4>1. Kept(q, known)
        BY <3>1, Zenon DEF Promises, Existing
      <4>2. /\ answers' = [answers EXCEPT ![q] = known] /\ UNCHANGED <<entries, calls>>
            /\ \E ok \in BOOLEAN : Published(HashAnswer("respond", q, known), ok)
        BY <2>1, <3>1, Zenon DEF HashRequest
      <4> HIDE DEF known
      <4>3. Answered("respond", known)
        BY <3>1, <4>1, <4>2, Zenon DEF Published
      <4> QED BY <4>3, Zenon
    <3>2. CASE known = None
      BY <2>1, <3>2, Zenon DEF HashRequest, Existing
    <3> QED BY <3>1, <3>2, Zenon
  <2>2. CASE GenerateRequestHash(c, q)
    <3>1. CASE Existing(q) # None
      <4>1. Kept(q, hashOf[q])
        BY <3>1, Zenon DEF Promises, Existing
      <4>2. Answered("generate", hashOf[q])
        BY <2>2, <3>1, <4>1, Zenon DEF GenerateRequestHash, Existing, maps
      <4> QED BY <4>2, Zenon
    <3>2. CASE Existing(q) = None
      BY <2>2, <3>2, Zenon DEF GenerateRequestHash, Existing, maps
    <3> QED BY <3>1, <3>2, Zenon
  <2> QED BY <2>1, <2>2, Zenon
<1>3. ASSUME NEW op, NEW h, Answered(op, h) PROVE KInv'
  <2>1. ASSUME NEW r \in Queries, NEW g, Kept(r, g) PROVE Kept(r, g)'
    BY <1>1, <1>3, <2>1, KeptGrows, Zenon
  <2>2. \A r \in Queries : hashOf'[r] # None => Kept(r, hashOf[r])'
    BY <1>1, <2>1, Zenon DEF Promises
  <2>3. \A r \in Queries : answers'[r] # None => Kept(r, answers[r])'
    <3> SUFFICES ASSUME NEW r \in Queries, NEW g, g = answers'[r], g # None PROVE Kept(r, g)'
      BY Zenon DEF Kept
    <3>1. g = answers[r] \/ (r = q /\ g = h)
      BY <1>3, Zenon DEF TypeOK
    <3> QED BY <1>3, <2>1, <3>1, Zenon DEF Promises
  <2>4. ASSUME NEW m \in sent', m.type = "hash" PROVE Kept(m.q, m.hash)'
    <3>1. m \in sent \/ (m.q = q /\ m.hash = h)
      BY <1>3 DEF HashAnswer
    <3>2. m.q \in Queries
      BY Zenon DEF TypeOK, DM
    <3>3. Kept(m.q, m.hash)
      BY <1>3, <2>4, <3>1, Zenon DEF Promises
    <3> QED BY <2>1, <3>2, <3>3, Zenon
  <2>5. Promises'
    BY <2>2, <2>3, <2>4, Zenon DEF Promises
  <2>6. CallsKeep'
    BY <1>1, <1>3, Zenon DEF CallsKeep, CallKeeps, Opened, Preimages
  <2> QED BY <1>1, <2>5, <2>6, Zenon
<1>4. CASE Drawn
  <2>1. PICK op : CreatePreimage(c, op, q)
    BY <1>4, Zenon
  <2>2. PICK h, v : /\ entries' = entries \union {h} /\ Goto(c, v)
                    /\ v.at = "create" /\ v.q = q /\ v.hash = h
    BY <2>1, Zenon DEF CreatePreimage
  <2>3. \A d \in Slots : calls'[d] = calls[d] \/ calls'[d] = v
    BY <2>2, Zenon DEF Goto, TypeOK
  <2> QED BY <1>1, <1>4, <2>1, <2>2, <2>3, QuietKeeps, Zenon
<1> QED BY <1>2, <1>3, <1>4, Zenon


\* In a host that serializes its calls, the call at hand is the only one.
LEMMA OnlyCall ==
  ASSUME KInv, Serialized, NEW c \in Slots, NEW v, Goto(c, v)
  PROVE  \A d \in Slots : d = c /\ calls'[d] = v
BY Zenon DEF KInv, TypeOK, Goto, Serialized

\* A step that leaves the answers, and after which each kept hash is kept.
LEMMA PromisesStay ==
  ASSUME KInv, TypeOK',
         \A q \in Queries, h \in Hashes \union {None} : Kept(q, h) => Kept(q, h)',
         \A q \in Queries : hashOf'[q] # None => Kept(q, hashOf[q])',
         \A q \in Queries : answers'[q] # None =>
           answers'[q] = answers[q] \/ Kept(q, answers[q])',
         \A m \in sent' : m.type = "hash" => m \in sent \/ Kept(m.q, m.hash)'
  PROVE  Promises'
<1>1. ASSUME NEW q \in Queries, NEW h, h = answers'[q], h # None PROVE Kept(q, h)'
  <2>1. CASE h = answers[q]
    <3>1. h \in Hashes /\ Kept(q, h)
      BY <1>1, <2>1, Zenon DEF KInv, TypeOK, Promises
    <3> QED BY <3>1, Zenon
  <2>2. CASE h # answers[q]
    BY <1>1, <2>2, Zenon DEF Kept
  <2> QED BY <2>1, <2>2, Zenon
<1>2. \A q \in Queries : answers'[q] # None => Kept(q, answers[q])'
  BY <1>1, Zenon DEF Kept
<1>3. ASSUME NEW m \in sent', m.type = "hash" PROVE Kept(m.q, m.hash)'
  <2>1. CASE m \in sent
    <3>1. Kept(m.q, m.hash) /\ m.q \in Queries /\ m.hash \in Hashes \union {None}
      BY <1>3, <2>1, Zenon DEF KInv, TypeOK, DM, Promises
    <3> QED BY <3>1, Zenon
  <2> QED BY <1>3, <2>1, Zenon
<1> QED BY <1>2, <1>3, Zenon DEF Promises


\* A hash whose preimage was stored becomes the query's, and nobody else's was.
LEMMA CreatedKept ==
  ASSUME KInv, Serialized, TypeOK', NEW c \in Slots, PreimageCreated(c)
  PROVE  KInv'
<1> PICK call : call = calls[c]
  BY Zenon
<1>1. call \in Call /\ call.at = "create" /\ CallKeeps(call)
  BY Zenon DEF PreimageCreated, At, KInv, TypeOK, CallsKeep
<1>2. call.q \in Queries /\ hashOf[call.q] = None /\ call.hash \in entries
  BY <1>1, Zenon DEF CallKeeps, Call
<1>3. /\ hashOf' = [hashOf EXCEPT ![call.q] = call.hash] /\ UNCHANGED <<entries, process>>
      /\ answers' = answers \/ answers' = [answers EXCEPT ![call.q] = call.hash]
      /\ Goto(c, None)
  BY Zenon DEF PreimageCreated, Return
<1>4. sent \subseteq sent' /\ sent' \subseteq sent \union {HashAnswer(call.op, call.q, call.hash)}
  BY Zenon DEF PreimageCreated, Published
<1>5. ASSUME NEW q \in Queries, NEW h, Kept(q, h) PROVE Kept(q, h)'
  <2>1. Opened(h) => Opened(h)'
    BY <1>4, Zenon DEF Opened, Preimages
  <2>2. hashOf[q] = h /\ h \in entries => q # call.q
    BY <1>2, OracleAssumption DEF KInv, TypeOK
  <2>3. q # call.q => hashOf'[q] = hashOf[q]
    BY <1>3, Zenon DEF KInv, TypeOK
  <2> QED BY <1>3, <1>5, <2>1, <2>2, <2>3, Zenon DEF Kept
<1>6. Kept(call.q, call.hash)'
  BY <1>2, <1>3, Zenon DEF Kept, KInv, TypeOK
<1>7. \A q \in Queries : hashOf'[q] # None => Kept(q, hashOf[q])'
  <2> SUFFICES ASSUME NEW q \in Queries, NEW h, h = hashOf'[q], h # None PROVE Kept(q, h)'
    BY Zenon DEF Kept
  <2>1. CASE q = call.q
    BY <1>3, <1>6, <2>1, Zenon DEF KInv, TypeOK
  <2>2. CASE q # call.q
    <3>1. h = hashOf[q] /\ Kept(q, h)
      BY <1>3, <2>2, Zenon DEF KInv, TypeOK, Promises
    <3> QED BY <1>5, <3>1, Zenon
  <2> QED BY <2>1, <2>2, Zenon
<1>8. \A q \in Queries : answers'[q] # None =>
        answers'[q] = answers[q] \/ Kept(q, answers[q])'
  <2> SUFFICES ASSUME NEW q \in Queries, NEW h, h = answers'[q], h # answers[q]
               PROVE  Kept(q, h)'
    BY Zenon DEF Kept
  <2>1. q = call.q /\ h = call.hash
    BY <1>3, Zenon DEF KInv, TypeOK
  <2> QED BY <1>6, <2>1, Zenon
<1>9. \A m \in sent' : m.type = "hash" => m \in sent \/ Kept(m.q, m.hash)'
  <2> SUFFICES ASSUME NEW m \in sent', m \notin sent PROVE Kept(m.q, m.hash)'
    BY Zenon
  <2>1. m.q = call.q /\ m.hash = call.hash
    BY <1>4 DEF HashAnswer
  <2> QED BY <1>6, <2>1, Zenon
<1>10. Promises'
  BY <1>5, <1>7, <1>8, <1>9, PromisesStay, Zenon
<1>11. CallsKeep'
  BY <1>3, OnlyCall, Zenon DEF CallsKeep
<1> QED BY <1>3, <1>10, <1>11, Zenon DEF KInv


\* A delivery attempt: a preimage that leaves the store has been opened.
LEMMA PublishedKept ==
  ASSUME KInv, Serialized, TypeOK', NEW c \in Slots, PreimagePublished(c)
  PROVE  KInv'
<1> PICK call : call = calls[c]
  BY Zenon
<1>1. call \in Call /\ call.at = "publish" /\ CallKeeps(call)
  BY Zenon DEF PreimagePublished, At, KInv, TypeOK, CallsKeep
<1>2. hashOf[call.q] = call.hash /\ call.hash # None
  BY <1>1, Zenon DEF CallKeeps
<1>3. UNCHANGED <<hashOf, answers, process>>
  BY Zenon DEF PreimagePublished, maps
<1> PICK dm : dm = Release("preimage", call)
  BY Zenon
<1>4. dm.type = "preimage" /\ dm.hash = call.hash
  BY <1>1, ReleaseTyped, Zenon
<1>5. PICK ok \in BOOLEAN : Published(dm, ok) /\ AfterDelivery(c, ok)
  BY Zenon DEF PreimagePublished
<1>6. sent \subseteq sent' /\ sent' \subseteq sent \union {dm}
  BY <1>5, Zenon DEF Published
<1>7. entries' = entries \/ (entries' = entries \ {call.hash} /\ dm \in sent')
  BY <1>5, Zenon DEF Published, AfterDelivery
<1>8. ASSUME NEW q \in Queries, NEW h, Kept(q, h) PROVE Kept(q, h)'
  <2>1. Opened(h) => Opened(h)'
    BY <1>6, Zenon DEF Opened, Preimages
  <2>2. h \in entries /\ h \notin entries' => Opened(h)'
    BY <1>4, <1>7, Zenon DEF Opened, Preimages
  <2> QED BY <1>3, <1>8, <2>1, <2>2, Zenon DEF Kept
<1>9. Promises'
  <2>1. \A q \in Queries : hashOf'[q] # None => Kept(q, hashOf[q])'
    BY <1>3, <1>8, Zenon DEF KInv, Promises
  <2>2. \A m \in sent' : m.type = "hash" => m \in sent
    BY <1>4, <1>6, Zenon
  <2> QED BY <1>3, <1>8, <2>1, <2>2, PromisesStay, Zenon
<1>10. PICK v : /\ Goto(c, v)
                /\ v # None => v.q = call.q /\ v.hash = call.hash
                /\ v # None => \/ v.at = "delay"
                               \/ v.at = "delete" /\ dm \in sent'
  <2> DEFINE v1 == [call EXCEPT !.at = "delete"]
             v2 == [call EXCEPT !.at = "delay"]
  <2>1. v1.q = call.q /\ v1.hash = call.hash /\ v1.at = "delete"
    BY <1>1, Zenon DEF Call
  <2>2. v2.q = call.q /\ v2.hash = call.hash /\ v2.at = "delay"
    BY <1>1, Zenon DEF Call
  <2>3. (ok /\ Goto(c, v1)) \/ Goto(c, v2) \/ Goto(c, None)
    BY <1>5, Zenon DEF AfterDelivery, Return
  <2>4. ok => dm \in sent'
    BY <1>5, Zenon DEF Published
  <2> HIDE DEF v1, v2
  <2> QED BY <2>1, <2>2, <2>3, <2>4, Zenon
<1>11. CallsKeep'
  <2> SUFFICES ASSUME NEW d \in Slots, NEW w, w = calls'[d], w # None PROVE CallKeeps(w)'
    BY Zenon DEF CallsKeep, CallKeeps
  <2>1. w = v
    BY <1>10, OnlyCall, Zenon
  <2>2. v.at = "delete" => Opened(v.hash)'
    BY <1>4, <1>10, <2>1, Zenon DEF Opened, Preimages
  <2> QED BY <1>2, <1>3, <1>10, <2>1, <2>2, Zenon DEF CallKeeps
<1> QED BY <1>3, <1>9, <1>11, Zenon DEF KInv

\* The next attempt begins; the hash in hand is still the query's.
LEMMA DelayKept ==
  ASSUME KInv, TypeOK', NEW c \in Slots, DelayPassed(c)
  PROVE  KInv'
<1> DEFINE call == calls[c]
           v == [call EXCEPT !.at = "publish", !.n = @ + 1]
<1>1. call \in Call /\ call.at = "delay" /\ CallKeeps(call)
  BY Zenon DEF DelayPassed, At, KInv, TypeOK, CallsKeep
<1>2. v.at = "publish" /\ v.q = call.q /\ v.hash = call.hash
  BY <1>1, Zenon DEF Call
<1>3. UNCHANGED <<process, hashOf, answers, entries, sent>> /\ Goto(c, v)
  BY Zenon DEF DelayPassed, maps, preimages
<1> HIDE DEF v
<1>4. \A d \in Slots : calls'[d] = calls[d] \/ calls'[d] = v
  BY <1>3, Zenon DEF Goto, KInv, TypeOK
<1>5. process'.up /\ hashOf[v.q] = v.hash /\ v.hash # None
  BY <1>1, <1>2, <1>3, Zenon DEF KInv, CallKeeps
<1> QED BY <1>2, <1>3, <1>4, <1>5, QuietKeeps, Zenon

\* The query is forgotten once its preimage was opened.
LEMMA DeletedKept ==
  ASSUME KInv, Serialized, TypeOK', NEW c \in Slots, PreimageDeleted(c)
  PROVE  KInv'
<1> PICK call : call = calls[c]
  BY Zenon
<1>1. call \in Call /\ call.at = "delete" /\ CallKeeps(call)
  BY Zenon DEF PreimageDeleted, At, KInv, TypeOK, CallsKeep
<1>2. call.q \in Queries /\ hashOf[call.q] = call.hash /\ Opened(call.hash)
  BY <1>1, Zenon DEF CallKeeps, Call
<1>3. /\ hashOf' = [hashOf EXCEPT ![call.q] = None] /\ Goto(c, None)
      /\ UNCHANGED <<answers, entries, sent, process>>
  BY Zenon DEF PreimageDeleted, Return
<1>4. ASSUME NEW q \in Queries, NEW h, Kept(q, h) PROVE Kept(q, h)'
  <2>1. Opened(h) => Opened(h)'
    BY <1>3, Zenon DEF Opened, Preimages
  <2>2. q = call.q => Opened(h)
    BY <1>2, <1>4, Zenon DEF Kept
  <2>3. q # call.q => hashOf'[q] = hashOf[q]
    BY <1>3, Zenon DEF KInv, TypeOK
  <2> QED BY <1>3, <1>4, <2>1, <2>2, <2>3, Zenon DEF Kept
<1>5. \A q \in Queries : hashOf'[q] # None => Kept(q, hashOf[q])'
  <2> SUFFICES ASSUME NEW q \in Queries, NEW h, h = hashOf'[q], h # None PROVE Kept(q, h)'
    BY Zenon DEF Kept
  <2>1. h = hashOf[q] /\ Kept(q, h)
    BY <1>3, Zenon DEF KInv, TypeOK, Promises
  <2> QED BY <1>4, <2>1, Zenon
<1>6. Promises'
  BY <1>3, <1>4, <1>5, PromisesStay, Zenon
<1>7. CallsKeep'
  BY <1>3, OnlyCall, Zenon DEF CallsKeep
<1> QED BY <1>3, <1>6, <1>7, Zenon DEF KInv

\* What ends a call, or moves it on, without a preimage in hand.
LEMMA EndsKept ==
  ASSUME KInv, TypeOK', NEW c \in Slots,
         MessageSigned(c) \/ SignaturePublished(c) \/ RejectionPublished(c) \/ CallFails(c)
  PROVE  KInv'
<1> DEFINE call == calls[c]
<1>1. call \in Call
  BY Zenon DEF MessageSigned, SignaturePublished, RejectionPublished, CallFails, At, KInv, TypeOK
<1>2. UNCHANGED <<process, hashOf, answers, entries>>
  BY Zenon DEF MessageSigned, SignaturePublished, RejectionPublished, CallFails, maps, preimages
<1>3. CASE SignaturePublished(c)
  <2> DEFINE dm == Release("signature", call)
  <2>1. dm.type = "signature"
    BY <1>1, ReleaseTyped, Zenon
  <2>2. (\E ok \in BOOLEAN : Published(dm, ok)) /\ Goto(c, None)
    BY <1>3, Zenon DEF SignaturePublished, Return
  <2> HIDE DEF dm
  <2>3. sent \subseteq sent' /\ sent' \subseteq sent \union {dm}
    BY <2>2, Zenon DEF Published
  <2>4. \A d \in Slots : calls'[d] = calls[d] \/ calls'[d] = None
    BY <2>2, Zenon DEF Goto, KInv, TypeOK
  <2>5. \A m \in sent' : m \in sent \/ m.type # "hash"
    BY <2>1, <2>3, Zenon
  <2>6. process'.up
    BY <1>2, Zenon DEF KInv
  <2> QED BY <1>2, <2>3, <2>4, <2>5, <2>6, QuietKeeps, Zenon
<1>4. CASE MessageSigned(c)
  <2> DEFINE v1 == [call EXCEPT !.at = "reject", !.why = "threshold"]
             v2 == [call EXCEPT !.n = @ + 1]
             v3 == [call EXCEPT !.at = "signed"]
  <2>1. v1.at = "reject" /\ v2.at = call.at /\ v3.at = "signed"
    BY <1>1, Zenon DEF Call
  <2>2. (Goto(c, v1) \/ Goto(c, v2) \/ Goto(c, v3)) /\ call.at = "sign" /\ sent' = sent
    BY <1>4, Zenon DEF MessageSigned, At
  <2> HIDE DEF v1, v2, v3
  <2> QED BY <1>2, <2>1, <2>2, TurnsKeep, Zenon
<1>5. CASE RejectionPublished(c) \/ CallFails(c)
  <2>1. Goto(c, None) /\ sent' = sent
    BY <1>5, Zenon DEF RejectionPublished, CallFails, Return
  <2> QED BY <1>2, <2>1, TurnsKeep, Zenon
<1> QED BY <1>3, <1>4, <1>5, Zenon

\* The Oracle can open every commitment it gave out, for every number of
\* queries and hashes, when the host lets each call return before the next one
\* begins and the process stays up.
THEOREM CommitmentSafe == Serialized /\ NeverCrashes /\ Spec => []CommitmentIsKept
<1> SUFFICES ASSUME Serialized, NeverCrashes PROVE Spec => []CommitmentIsKept
  BY Zenon
<1>1. Init => KInv
  <2> SUFFICES ASSUME Init PROVE KInv
    BY Zenon
  <2>1. TypeOK
    BY InitIInv, Zenon DEF IInv
  <2> QED BY <2>1, Zenon DEF Init, KInv, CallsKeep, Promises, NoCalls, Nothing
<1>2. IInv /\ IInv' /\ KInv /\ [Next]_vars => KInv'
  <2> SUFFICES ASSUME KInv, TypeOK', [Next]_vars PROVE KInv'
    BY Zenon DEF IInv
  <2>1. CASE Requests
    <3>1. PICK q \in Queries :
            \/ WatchRequest(q)
            \/ \E p \in Providers : FeedbackEvent(q, p) \/ RecordSelectedProvider(q, p)
            \/ \E c \in Slots : HashRequest(c, q) \/ GenerateRequestHash(c, q)
            \/ \E c \in Slots, p \in Providers, proof \in Proofs :
                 \/ ResponseEvent(c, q, p, proof)
                 \/ \E op \in HostCalls : VerifyAndDeliver(c, op, q, p, proof)
      BY <2>1, Zenon DEF Requests
    <3> QED BY <3>1, IdleKeeps, AnswerKeeps, ResultQuiet, Zenon
  <2>2. ASSUME NEW c \in Slots, Resolves(c) PROVE KInv'
    BY <2>2, CreatedKept, VerdictKeeps, PublishedKept, DelayKept, DeletedKept, EndsKept, Zenon
       DEF Resolves
  <2>3. ~Crash /\ ~Restart
    BY Zenon DEF Crash, Restart, KInv, NeverCrashes
  <2> QED BY <2>1, <2>2, <2>3, IdleKeeps, Zenon DEF Next
<1>3. KInv => CommitmentIsKept
  BY Zenon DEF KInv, Promises, Kept, Opened, CommitmentIsKept
<1> QED BY <1>1, <1>2, <1>3, InitIInv, StepKeeps, PTL DEF Spec
=============================================================================
