---------------------------- MODULE OracleService ----------------------------
(***************************************************************************)
(* The Oracle daemon of adapters/nostr/oracle-service.ts: it commits to a  *)
(* hash per query (hash-responder.ts, preimage-store.ts), watches requests *)
(* for results, verifies them, and delivers the preimage, a FROST group    *)
(* signature or a rejection.  Every await is a point where other events    *)
(* run: a call holds only what its local variables hold.  Events that the  *)
(* handlers ignore (unknown query, unreadable payload, wrong sender)       *)
(* change nothing and are left out.                                        *)
(***************************************************************************)
EXTENDS Naturals

CONSTANTS
  Queries, Providers,
  Hashes,        \* what createPreimage may draw; never drawn twice
  Proofs,        \* distinct TLSN presentations or other evidence
  SignedProofs,  \* evidence whose signature verifies
  ValidProofs,   \* ... and that meets the requirement as well
  TlsnQueries,   \* queries whose verification consults the replay guard
  Setups,        \* [quorum: queries with a quorum, frost: is FROST configured?]
  Messages,      \* proof messages a FROST release has to sign
  MaxAttempts,   \* deliveryRetryDelaysMs.length + 1
  Persistent,    \* is the preimage store the file-backed one?
  Faults,        \* which of "crash", "save" (a failing save) happen
  HostCalls,     \* "deliver", "frost": the methods a host calls by itself
  Slots,         \* calls in flight at once (a bound)
  None

VARIABLES
  setup,     \* the one of Setups this Oracle runs in
  process,   \* alive? hash responder subscribed?
  hashOf,    \* queryHashMap
  answers,   \* the responder's own cache, `issued`
  entries,   \* hashes whose preimage the store holds in memory
  disk,      \* hashes whose preimage is in the store's file
  drawn,     \* hashes drawn so far
  watched,   \* the watched map: selection and offers of each entry
  seen,      \* the replay guard's presentations
  calls,     \* handlers and methods suspended at an await
  sent,      \* history: every commitment and release DM some relay took
  recorded   \* history: selections recorded per query

vars == <<setup, process, hashOf, answers, entries, disk, drawn, watched, seen, calls,
          sent, recorded>>

ASSUME OracleAssumption ==
  /\ None \notin Queries \union Providers \union Hashes \union Proofs
  /\ ValidProofs \subseteq SignedProofs /\ SignedProofs \subseteq Proofs
  /\ TlsnQueries \subseteq Queries
  /\ Setups \subseteq [quorum : SUBSET Queries, frost : BOOLEAN]
  /\ Persistent \in BOOLEAN
  /\ Messages \in Nat \ {0} /\ MaxAttempts \in Nat \ {0}
  /\ Faults \subseteq {"crash", "save"} /\ HostCalls \subseteq {"deliver", "frost"}

\* Who called: the hash responder, generateRequestHash, a relay result,
\* verifyAndDeliver, verifyAndDeliverWithFrost.
Ops == {"respond", "generate", "relay", "deliver", "frost"}

Awaits == {"create", "verify", "publish", "delay", "delete", "sign", "signed", "reject"}

Reasons == {"invalid", "replayed", "noPreimage", "noFrost", "threshold"}

\* at: the await; p and proof: the submission; hash: the local `hash`;
\* n: the attempt or the message number; why: a rejection's reason.
Call == [op : Ops, at : Awaits, q : Queries, p : Providers \union {None},
         proof : Proofs \union {None}, hash : Hashes \union {None},
         n : Nat, why : Reasons \union {None}]

DM == [type : {"hash", "preimage", "signature"}, op : Ops, q : Queries,
       to : Providers \union {None}, hash : Hashes \union {None},
       proof : Proofs \union {None}]

Watch == [selected : Providers \union {None}, offered : SUBSET Providers]

TypeOK ==
  /\ setup \in Setups
  /\ process \in [up : BOOLEAN, listening : BOOLEAN]
  /\ hashOf \in [Queries -> Hashes \union {None}]
  /\ answers \in [Queries -> Hashes \union {None}]
  /\ entries \subseteq Hashes /\ disk \subseteq Hashes /\ drawn \subseteq Hashes
  /\ watched \in [Queries -> Watch \union {None}]
  /\ seen \subseteq Proofs
  /\ calls \in [Slots -> Call \union {None}]
  /\ sent \subseteq DM
  /\ recorded \subseteq Queries \X Providers

Nothing == [q \in Queries |-> None]
NoCalls == [c \in Slots |-> None]

Init ==
  /\ setup \in Setups
  /\ process = [up |-> TRUE, listening |-> TRUE]
  /\ hashOf = Nothing /\ answers = Nothing /\ watched = Nothing
  /\ entries = {} /\ disk = {} /\ drawn = {} /\ seen = {}
  /\ calls = NoCalls
  /\ sent = {} /\ recorded = {}

maps == <<hashOf, answers>>
preimages == <<entries, disk, drawn>>

-----------------------------------------------------------------------------
(* Calls and messages.                                                     *)

Free(c) == process.up /\ calls[c] = None
At(c, await) == calls[c] # None /\ calls[c].at = await
Goto(c, call) == calls' = [calls EXCEPT ![c] = call]
Return(c) == Goto(c, None)

\* relayClient.publish resolved: ok iff some relay acknowledged.  A relay may
\* have taken the event although its acknowledgement was lost.
Published(dm, ok) ==
  \/ sent' = sent \union {dm}
  \/ ~ok /\ UNCHANGED sent

HashAnswer(op, q, h) ==
  [type |-> "hash", op |-> op, q |-> q, to |-> None, hash |-> h, proof |-> None]

\* buildPreimageDM, buildFrostSignatureDM.
Release(type, call) ==
  [type |-> type, op |-> call.op, q |-> call.q, to |-> call.p, hash |-> call.hash,
   proof |-> call.proof]

-----------------------------------------------------------------------------
(* Hash commitments.                                                       *)

\* Mutant of Existing: the map is not consulted.
ExistingNever(q) == None

\* issueQueryHash: the commitment the query already has.
Existing(q) == hashOf[q]

\* preimageStore.create up to its await: the entry is in memory at once.
CreatePreimage(c, op, q) ==
  \E h \in Hashes \ drawn :
    /\ drawn' = drawn \union {h} /\ entries' = entries \union {h}
    /\ Goto(c, [op |-> op, at |-> "create", q |-> q, p |-> None, proof |-> None,
                hash |-> h, n |-> 0, why |-> None])

\* serveHashRequests' handler; the response is published without waiting.
HashRequest(c, q) ==
  /\ Free(c) /\ process.listening
  /\ LET known == IF answers[q] # None THEN answers[q] ELSE Existing(q)
     IN  \/ /\ known # None
            /\ answers' = [answers EXCEPT ![q] = known]
            /\ \E ok \in BOOLEAN : Published(HashAnswer("respond", q, known), ok)
            /\ UNCHANGED <<entries, drawn, calls>>
         \/ /\ known = None /\ CreatePreimage(c, "respond", q)
            /\ UNCHANGED <<answers, sent>>
  /\ UNCHANGED <<setup, process, hashOf, disk, watched, seen, recorded>>

GenerateRequestHash(c, q) ==
  /\ Free(c)
  /\ \/ /\ Existing(q) # None
        /\ sent' = sent \union {HashAnswer("generate", q, Existing(q))}
        /\ UNCHANGED <<entries, drawn, calls>>
     \/ /\ Existing(q) = None /\ CreatePreimage(c, "generate", q)
        /\ UNCHANGED sent
  /\ UNCHANGED <<setup, process, maps, disk, watched, seen, recorded>>

\* create resolved: both maps are written without another look at them.
PreimageCreated(c) ==
  /\ At(c, "create")
  /\ LET call == calls[c]
         dm == HashAnswer(call.op, call.q, call.hash)
     IN  /\ hashOf' = [hashOf EXCEPT ![call.q] = call.hash]
         /\ disk' = IF Persistent THEN disk \union {call.hash} ELSE disk
         /\ IF call.op = "respond"
            THEN /\ answers' = [answers EXCEPT ![call.q] = call.hash]
                 /\ \E ok \in BOOLEAN : Published(dm, ok)
            ELSE sent' = sent \union {dm} /\ UNCHANGED answers
  /\ Return(c)
  /\ UNCHANGED <<setup, process, entries, drawn, watched, seen, recorded>>

-----------------------------------------------------------------------------
(* Watching.                                                               *)

\* watchRequest replaces an entry the query may already have.
WatchRequest(q) ==
  /\ process.up
  /\ watched' = [watched EXCEPT ![q] = [selected |-> None, offered |-> {}]]
  /\ UNCHANGED <<setup, process, maps, preimages, seen, calls, sent, recorded>>

RecordSelectedProvider(q, p) ==
  /\ process.up /\ watched[q] # None
  /\ watched' = [watched EXCEPT ![q].selected = p]
  /\ recorded' = recorded \union {<<q, p>>}
  /\ UNCHANGED <<setup, process, maps, preimages, seen, calls, sent>>

\* handleFeedbackEvent.
FeedbackEvent(q, p) ==
  /\ process.up /\ watched[q] # None
  /\ watched' = [watched EXCEPT ![q].offered = @ \union {p}]
  /\ UNCHANGED <<setup, process, maps, preimages, seen, calls, sent, recorded>>

Unwatch(q) == watched' = [watched EXCEPT ![q] = None]

-----------------------------------------------------------------------------
(* Results.                                                                *)

UsesFrost(op, q) == op = "frost" \/ q \in setup.quorum

Replayed(q, proof) == q \in TlsnQueries /\ proof \in seen

\* dispatchVerifyAndDeliver, verifyAndDeliverWithFrost: a quorum query is
\* rejected when FROST is not configured; otherwise verification begins, and
\* validateTlsn looks the presentation up before its first await.
Dispatch(c, op, q, p, proof) ==
  LET noFrost == UsesFrost(op, q) /\ ~setup.frost
  IN  Goto(c, [op |-> op, at |-> IF noFrost THEN "reject" ELSE "verify", q |-> q,
               p |-> p, proof |-> proof, hash |-> None, n |-> 0,
               why |-> IF noFrost THEN "noFrost"
                       ELSE IF Replayed(q, proof) THEN "replayed" ELSE None])

\* Mutant of MayRelease: the sender is not compared with the selection.
MayReleaseAnybody(q, p) == watched[q] # None

\* handleResponseEvent's guard: only the recorded selection is listened to.
MayRelease(q, p) == watched[q] # None /\ watched[q].selected = p

ResponseEvent(c, q, p, proof) ==
  /\ Free(c) /\ MayRelease(q, p)
  /\ Dispatch(c, "relay", q, p, proof)
  /\ UNCHANGED <<setup, process, maps, preimages, watched, seen, sent, recorded>>

\* The host hands a result over itself.
VerifyAndDeliver(c, op, q, p, proof) ==
  /\ Free(c)
  /\ Dispatch(c, op, q, p, proof)
  /\ UNCHANGED <<setup, process, maps, preimages, watched, seen, sent, recorded>>

\* Where a call goes when the verdict is in: the hash is looked up only now.
AfterVerdict(call, passed) ==
  LET hash == hashOf[call.q]
      rejected(why) == [call EXCEPT !.at = "reject", !.why = why]
  IN  CASE ~passed -> rejected(IF call.why = "replayed" THEN "replayed" ELSE "invalid")
        [] passed /\ UsesFrost(call.op, call.q) -> [call EXCEPT !.at = "sign", !.n = 1]
        [] passed /\ ~UsesFrost(call.op, call.q) /\ hash \in entries ->
             [call EXCEPT !.at = "publish", !.n = 1, !.hash = hash]
        [] OTHER -> rejected("noPreimage")

\* validateTlsn past its early returns: a presentation whose signature
\* verified is remembered, whatever the conditions said.
Remembered(call) ==
  IF call.q \in TlsnQueries /\ call.why # "replayed" /\ call.proof \in SignedProofs
  THEN seen \union {call.proof} ELSE seen

\* verifyFn resolved.
Verified(c) ==
  /\ At(c, "verify")
  /\ \E passed \in BOOLEAN :
       LET call == calls[c] IN
       /\ passed => call.proof \in ValidProofs /\ call.why # "replayed"
       /\ Goto(c, AfterVerdict(call, passed))
       /\ seen' = Remembered(call)
  /\ UNCHANGED <<setup, process, maps, preimages, watched, sent, recorded>>

-----------------------------------------------------------------------------
(* Delivery.                                                               *)

\* Mutant of AfterDelivery: the preimage is dropped with the last attempt.
AfterDeliveryDropped(c, ok) ==
  LET call == calls[c] IN
  \/ /\ ok \/ call.n = MaxAttempts
     /\ Goto(c, [call EXCEPT !.at = "delete"])
     /\ entries' = entries \ {call.hash}
  \/ /\ ~ok /\ call.n < MaxAttempts
     /\ Goto(c, [call EXCEPT !.at = "delay"]) /\ UNCHANGED entries

\* Once a relay acknowledged, the preimage leaves memory before
\* preimageStore.delete is awaited; a failure is retried, then given up with
\* the preimage retained.
AfterDelivery(c, ok) ==
  LET call == calls[c] IN
  \/ /\ ok /\ Goto(c, [call EXCEPT !.at = "delete"])
     /\ entries' = entries \ {call.hash}
  \/ /\ ~ok /\ call.n < MaxAttempts
     /\ Goto(c, [call EXCEPT !.at = "delay"]) /\ UNCHANGED entries
  \/ ~ok /\ call.n = MaxAttempts /\ Return(c) /\ UNCHANGED entries

PreimagePublished(c) ==
  /\ At(c, "publish")
  /\ \E ok \in BOOLEAN : /\ Published(Release("preimage", calls[c]), ok)
                         /\ AfterDelivery(c, ok)
  /\ UNCHANGED <<setup, process, maps, disk, drawn, watched, seen, recorded>>

\* Mutant of DelayPassed: the attempt is not counted.
DelayPassedUncounted(c) ==
  /\ At(c, "delay")
  /\ Goto(c, [calls[c] EXCEPT !.at = "publish"])
  /\ UNCHANGED <<setup, process, maps, preimages, watched, seen, sent, recorded>>

DelayPassed(c) ==
  /\ At(c, "delay")
  /\ Goto(c, [calls[c] EXCEPT !.at = "publish", !.n = @ + 1])
  /\ UNCHANGED <<setup, process, maps, preimages, watched, seen, sent, recorded>>

\* delete resolved: whatever hash the query has by now is forgotten.
PreimageDeleted(c) ==
  /\ At(c, "delete")
  /\ hashOf' = [hashOf EXCEPT ![calls[c].q] = None]
  /\ disk' = disk \ {calls[c].hash}
  /\ Unwatch(calls[c].q) /\ Return(c)
  /\ UNCHANGED <<setup, process, answers, entries, drawn, seen, sent, recorded>>

\* coordinateSigning resolved, once per proof message; null ends in rejection.
MessageSigned(c) ==
  /\ At(c, "sign")
  /\ LET call == calls[c] IN
     \/ Goto(c, [call EXCEPT !.at = "reject", !.why = "threshold"])
     \/ call.n < Messages /\ Goto(c, [call EXCEPT !.n = @ + 1])
     \/ call.n = Messages /\ Goto(c, [call EXCEPT !.at = "signed"])
  /\ UNCHANGED <<setup, process, maps, preimages, watched, seen, sent, recorded>>

SignaturePublished(c) ==
  /\ At(c, "signed")
  /\ \E ok \in BOOLEAN :
       /\ Published(Release("signature", calls[c]), ok)
       /\ IF ok THEN Unwatch(calls[c].q) ELSE UNCHANGED watched
  /\ Return(c)
  /\ UNCHANGED <<setup, process, maps, preimages, seen, recorded>>

\* A rejection is terminal whether or not a relay took the DM.
RejectionPublished(c) ==
  /\ At(c, "reject")
  /\ Unwatch(calls[c].q) /\ Return(c)
  /\ UNCHANGED <<setup, process, maps, preimages, seen, sent, recorded>>

\* The awaited verifier or signing throws, or the store's save rejects: the
\* handler logs and stops where it stands (a method rejects towards the host).
CallFails(c) ==
  /\ \/ At(c, "verify") \/ At(c, "sign")
     \/ "save" \in Faults /\ Persistent /\ (At(c, "create") \/ At(c, "delete"))
  /\ Return(c)
  /\ UNCHANGED <<setup, process, maps, preimages, watched, seen, sent, recorded>>

-----------------------------------------------------------------------------
(* The process.                                                            *)

\* stop() closes the subscriptions; calls in flight run on.
Stop ==
  /\ process.up
  /\ process' = [process EXCEPT !.listening = FALSE]
  /\ watched' = Nothing
  /\ UNCHANGED <<setup, maps, preimages, seen, calls, sent, recorded>>

\* Everything but the store's file is gone.
Crash ==
  /\ "crash" \in Faults /\ process.up
  /\ process' = [up |-> FALSE, listening |-> FALSE]
  /\ hashOf' = Nothing /\ answers' = Nothing /\ watched' = Nothing
  /\ entries' = {} /\ seen' = {} /\ calls' = NoCalls
  /\ UNCHANGED <<setup, disk, drawn, sent, recorded>>

\* createPersistencePreimageStore reads the file back; nothing else is read.
Restart ==
  /\ ~process.up
  /\ process' = [up |-> TRUE, listening |-> TRUE]
  /\ entries' = disk
  /\ UNCHANGED <<setup, maps, disk, drawn, watched, seen, calls, sent, recorded>>

-----------------------------------------------------------------------------
Requests ==
  \E q \in Queries :
    \/ WatchRequest(q)
    \/ \E p \in Providers : FeedbackEvent(q, p) \/ RecordSelectedProvider(q, p)
    \/ \E c \in Slots :
         \/ HashRequest(c, q) \/ GenerateRequestHash(c, q)
         \/ \E p \in Providers, proof \in Proofs :
              \/ ResponseEvent(c, q, p, proof)
              \/ \E op \in HostCalls : VerifyAndDeliver(c, op, q, p, proof)

Resolves(c) ==
  \/ PreimageCreated(c) \/ Verified(c) \/ PreimagePublished(c) \/ DelayPassed(c)
  \/ PreimageDeleted(c) \/ MessageSigned(c) \/ SignaturePublished(c)
  \/ RejectionPublished(c) \/ CallFails(c)

Next == Requests \/ Stop \/ Crash \/ Restart \/ \E c \in Slots : Resolves(c)

Spec == Init /\ [][Next]_vars

\* Every awaited promise resolves: the relay pool, the verifier process, the
\* signer requests and the retry delays all run under timeouts.
FairSpec == Spec /\ \A c \in Slots : WF_vars(Resolves(c))

-----------------------------------------------------------------------------
(* Properties.                                                             *)

Preimages == {dm \in sent : dm.type = "preimage"}
Signatures == {dm \in sent : dm.type = "signature"}

\* Release material leaves the Oracle only for evidence that passed; on the
\* relay path only towards a Provider recorded as selected for that query;
\* and never a bare preimage for a query that demanded a quorum, however
\* selections, results, retries and restarts interleave.
ReleaseIsEarned ==
  \A dm \in Preimages \union Signatures :
    /\ dm.proof \in ValidProofs
    /\ dm.op = "relay" => <<dm.q, dm.to>> \in recorded
    /\ dm.type = "preimage" => dm.q \notin setup.quorum
    /\ dm.type = "signature" => setup.frost

\* oracle-service.ts logs "preimage retained for Nostr retry": while the
\* process lives, a preimage leaves the store only after a DM that carries it
\* reached a relay.
RetainedUntilDelivered ==
  [][\A h \in entries \ entries' :
       process'.up => \E dm \in Preimages' : dm.hash = h]_vars

\* The Oracle can open every commitment it gave out and has not opened yet:
\* the hash is still the query's, and its preimage is still there.
CommitmentIsKept ==
  \A dm \in sent :
    dm.type = "hash" /\ process.up
    => \/ hashOf[dm.q] = dm.hash /\ dm.hash \in entries
       \/ \E r \in Preimages : r.hash = dm.hash

\* Every handler comes to its end: no result leaves a delivery loop running.
EveryCallReturns == \A c \in Slots : calls[c] # None ~> calls[c] = None

\* specs/messaging.md: the Oracle "MUST be idempotent per `query_id` (a
\* retried request returns the same `hash`)".
HashIsIdempotent ==
  \A d, e \in {dm \in sent : dm.type = "hash" /\ dm.op = "respond"} :
    d.q = e.q => d.hash = e.hash
=============================================================================
