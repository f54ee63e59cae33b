--------------------------- MODULE FrostSessions ----------------------------
(***************************************************************************)
(* The session keeping of a FROST group: createFrostCoordinator            *)
(* (frost-coordinator.ts) with its signing and key generation sessions,    *)
(* their eviction and their HTTP routes, and createFrostSigner             *)
(* (frost-signer.ts), which verifies, commits and signs for one node.      *)
(* Hosts call the operations in any order, and a submission may arrive     *)
(* late or again; tryAggregate and verifyAndSign are split at their awaits.*)
(***************************************************************************)
EXTENDS Naturals, FiniteSets, Functions

CONSTANTS
  Signers,       \* signer indices
  Threshold,
  Queries,
  Messages,
  MaxSessions,   \* sessions of each sort ever started (a bound)
  Scenes,        \* what the hosts do, and for how long (Scene)
  Aggregators,   \* overlapping calls of tryAggregate (a bound)
  Slots,         \* overlapping calls of verifyAndSign (a bound)
  MaxAttempts,   \* times a signer starts key generation over (a bound)
  TTL,           \* FROST_SESSION_TTL_MS
  Retention,     \* FROST_FINALIZED_RETENTION_MS
  None

VARIABLES
  scene,
  now,
  started,       \* sessions of each sort started so far; the next id
  signing,       \* signingSessions, by session id
  querySession,  \* querySessionMap
  aggregating,   \* tryAggregate suspended at the frost-signer process
  signer,        \* verifyAndSign suspended at an await
  drawn,         \* nonces each signer has drawn
  pending,       \* pendingSessions of all signers: [nonce, msg]
  seen,          \* signers whose replay guard has the TLSNotary presentation
  dkg,           \* dkgSessions, by session id
  local,         \* what each signer holds during key generation
  posted,        \* key generation packages sent, delivered any number of times
  newest,        \* history: the session last started for each query
  shares         \* history: every signature share made

vars == <<scene, now, started, signing, querySession, aggregating, signer, drawn,
          pending, seen, dkg, local, posted, newest, shares>>

\* hosts: "sign", "dkg"; tlsn: is the evidence a TLSNotary presentation?;
\* queries, messages: what may be signed.  Bounds: sessions started, nonces a
\* signer draws, do calls of verifyAndSign overlap?, the end of the clock.
Scene == [hosts : SUBSET {"sign", "dkg"}, tlsn : BOOLEAN, queries : SUBSET Queries,
          messages : SUBSET Messages, sessions : 0..MaxSessions,
          nonces : [Signers -> Nat], overlap : BOOLEAN, until : Nat]

ASSUME SessionsAssumption ==
  /\ IsFiniteSet(Signers) /\ Threshold \in Nat \ {0}
  /\ MaxSessions \in Nat /\ MaxAttempts \in Nat /\ TTL \in Nat /\ Retention \in Nat
  /\ Scenes \subseteq Scene

Ids == 1..MaxSessions
Nonce == Signers \X Nat

\* A share is made over a message and the commitments of all who take part.
Share == [nonce : Nonce, msg : Messages, commitments : SUBSET Nonce]
Signature == [msg : Messages, commitments : SUBSET Nonce]

\* commitments, shares: by signer; signature: None until finalized.
Session == [query : Queries, message : Messages,
            commitments : [Signers -> Nonce \union {None}],
            shares : [Signers -> Share \union {None}],
            signature : Signature \union {None}, created : Nat]

\* The absent value is neither a session nor a signature.
ASSUME AbsentAssumption == None \notin Session /\ None \notin Signature

\* round1, round2: the attempt whose packages each signer submitted (0: none);
\* a group key is fixed by the attempt of every signer that went into it.
Key == [Signers -> Nat]
DkgSession == [round : 0..3, round1 : [Signers -> Nat], round2 : [Signers -> Nat],
               keys : [Signers -> Key \union {None}], group : Key \union {None},
               created : Nat]

Package == [id : Ids, round : 1..3, from : Signers, attempt : Nat, key : Key \union {None}]

TypeOK ==
  /\ scene \in Scenes /\ now \in 0..scene.until
  /\ started \in [{"sign", "dkg"} -> 0..MaxSessions]
  /\ signing \in [Ids -> Session \union {None}]
  /\ querySession \in [Queries -> Ids \union {None}]
  /\ newest \in [Queries -> Ids \union {None}]
  /\ aggregating \in [Aggregators -> {None} \union
       [id : Ids, msg : Messages, commitments : SUBSET Nonce, shares : SUBSET Share]]
  /\ signer \in [Slots -> {None} \union
       [at : {"verify", "commit", "sign"}, by : Signers, msg : Messages,
        commitments : SUBSET Nonce, nonce : Nonce \union {None}]]
  /\ drawn \in [Signers -> Nat]
  /\ pending \subseteq [nonce : Nonce, msg : Messages]
  /\ seen \subseteq Signers
  /\ dkg \in [Ids -> DkgSession \union {None}]
  /\ local \in [Signers -> [id : Ids \union {None}, attempt : 0..MaxAttempts, done : 0..3]]
  /\ posted \subseteq Package
  /\ shares \subseteq Share

Init ==
  /\ scene \in Scenes /\ now = 0 /\ started = [t \in {"sign", "dkg"} |-> 0]
  /\ signing = [i \in Ids |-> None] /\ dkg = [i \in Ids |-> None]
  /\ querySession = [q \in Queries |-> None] /\ newest = [q \in Queries |-> None]
  /\ aggregating = [a \in Aggregators |-> None] /\ signer = [j \in Slots |-> None]
  /\ drawn = [s \in Signers |-> 0] /\ pending = {} /\ seen = {}
  /\ local = [s \in Signers |-> [id |-> None, attempt |-> 0, done |-> 0]]
  /\ posted = {} /\ shares = {}

sessionVars == <<signing, querySession, newest, aggregating>>
signerVars == <<signer, drawn, pending, seen, shares>>
dkgVars == <<dkg, local, posted>>

Host(what) == what \in scene.hosts

-----------------------------------------------------------------------------
(* The frost-signer process: it may fail on good arguments too.            *)

runFrostCommand(good) == IF good THEN BOOLEAN ELSE {FALSE}

CanSign(nonce, commitments) ==
  nonce \in commitments /\ Cardinality(commitments) >= Threshold

\* Mutant of CanAggregate: what the shares were made for is not verified.
CanAggregateAny(call) == {s.nonce[1] : s \in call.shares} = {k[1] : k \in call.commitments}

\* aggregate needs a share for each commitment, every one over this message and
\* these commitments.
CanAggregate(call) ==
  /\ {s.nonce : s \in call.shares} = call.commitments
  /\ \A s \in call.shares : s.msg = call.msg /\ s.commitments = call.commitments

\* dkg_round1 draws a new secret polynomial.
FreshSecret(s) == local[s].attempt + 1

\* dkg_round2 needs the round-1 packages of all others.
CanShare(session, s) == \A t \in Signers \ {s} : session.round1[t] # 0

\* Mutant of CanFinish: the secret shares are taken as they come.
CanFinishAny(session, s) == TRUE

\* dkg_round3 checks each peer's secret share against its round-1 commitment.
CanFinish(session, s) == \A t \in Signers \ {s} : session.round1[t] = session.round2[t]

\* The key that results: fixed by the polynomials it was given and its own.
GroupKey(session, s) ==
  [t \in Signers |-> IF t = s THEN local[s].attempt ELSE session.round1[t]]

-----------------------------------------------------------------------------
(* The coordinator's signing sessions.                                     *)

Present(f) == Range(f) \ {None}

\* evictStaleSessions, run when a session of either sort is started: signing
\* sessions that are abandoned, or finalized and past their retention.
Stale == {i \in Ids :
  /\ signing[i] # None
  /\ \/ signing[i].created + TTL < now
     \/ signing[i].signature # None /\ signing[i].created + Retention < now}

KeptSessions == [i \in Ids |-> IF i \in Stale THEN None ELSE signing[i]]

KeptDkg ==
  [i \in Ids |-> IF dkg[i] # None /\ dkg[i].created + TTL < now THEN None ELSE dkg[i]]

\* Mutant of KeptQueries: the query's entry goes whichever session it names.
KeptQueriesAny ==
  [q \in Queries |-> IF \E i \in Stale : signing[i].query = q THEN None ELSE querySession[q]]

KeptQueries ==
  [q \in Queries |-> IF querySession[q] \in Stale THEN None ELSE querySession[q]]

\* startSigning, after the eviction.
StartSigning(id, q, m) ==
  /\ signing' = [KeptSessions EXCEPT ![id] =
       [query |-> q, message |-> m, commitments |-> [s \in Signers |-> None],
        shares |-> [s \in Signers |-> None], signature |-> None, created |-> now]]
  /\ querySession' = [KeptQueries EXCEPT ![q] = id]
  /\ dkg' = KeptDkg

\* POST /frost/sign/:queryId, on a node with a FROST config.
PostSign(q, m) ==
  LET id == started["sign"] + 1 IN
  /\ Host("sign") /\ id <= scene.sessions
  /\ started' = [started EXCEPT !["sign"] = id]
  /\ StartSigning(id, q, m)
  /\ newest' = [newest EXCEPT ![q] = id]
  /\ UNCHANGED <<scene, now, aggregating, signerVars, local, posted>>

Open(id) == signing[id] # None /\ signing[id].signature = None

SubmitNonceCommitment(id, nonce) ==
  Open(id) /\ signing' = [signing EXCEPT ![id].commitments[nonce[1]] = nonce]

\* POST /frost/sign/:queryId/commitments, with a nonce the signer drew.
PostCommitment(id, nonce) ==
  /\ nonce[2] \in 1..drawn[nonce[1]]
  /\ SubmitNonceCommitment(id, nonce)
  /\ UNCHANGED <<scene, now, started, querySession, newest, aggregating, signerVars,
                 dkgVars>>

\* Mutant of SubmitSignatureShare: a share is stored in a finalized session too.
SubmitSignatureShareLate(id, share) ==
  signing[id] # None /\ signing' = [signing EXCEPT ![id].shares[share.nonce[1]] = share]

SubmitSignatureShare(id, share) ==
  Open(id) /\ signing' = [signing EXCEPT ![id].shares[share.nonce[1]] = share]

\* POST /frost/sign/:queryId/shares.  At the threshold the route also calls
\* tryAggregate, but without a public key package: aggregate cannot parse the
\* empty string it is given instead, and nothing changes.
PostShare(id, share) ==
  /\ share \in shares
  /\ SubmitSignatureShare(id, share)
  /\ UNCHANGED <<scene, now, started, querySession, newest, aggregating, signerVars, dkgVars>>

\* tryAggregate up to its await, called by a host that has the public key
\* package.
TryAggregate(a, id) ==
  /\ aggregating[a] = None /\ Open(id)
  /\ Cardinality(Present(signing[id].shares)) >= Threshold
  /\ aggregating' = [aggregating EXCEPT ![a] =
       [id |-> id, msg |-> signing[id].message,
        commitments |-> Present(signing[id].commitments), shares |-> Present(signing[id].shares)]]
  /\ UNCHANGED <<scene, now, started, signing, querySession, newest, signerVars,
                 dkgVars>>

\* aggregateSignatures resolved.  The session object is finalized even if the
\* map has lost it or another call has finalized it meanwhile.
Aggregated(a) ==
  /\ aggregating[a] # None
  /\ LET call == aggregating[a]
         signature == [msg |-> call.msg, commitments |-> call.commitments] IN
       \E ok \in runFrostCommand(CanAggregate(call)) :
         signing' = IF ok /\ signing[call.id] # None
                    THEN [signing EXCEPT ![call.id].signature = signature]
                    ELSE signing
  /\ aggregating' = [aggregating EXCEPT ![a] = None]
  /\ UNCHANGED <<scene, now, started, querySession, newest, signerVars, dkgVars>>

-----------------------------------------------------------------------------
(* A node's FrostSigner.                                                   *)

\* verifyAndSign up to the await of verifyProof.  Round 2 brings the
\* commitments some session has and the id (here the nonce) of round 1.
VerifyAndSign(j, s, m, commitments, nonce) ==
  /\ Host("sign") /\ signer[j] = None
  /\ scene.overlap \/ Present(signer) = {}
  /\ scene.tlsn => s \notin seen
  /\ signer' = [signer EXCEPT ![j] = [at |-> "verify", by |-> s, msg |-> m,
                                      commitments |-> commitments, nonce |-> nonce]]
  /\ UNCHANGED <<scene, now, started, sessionVars, drawn, pending, seen, shares, dkgVars>>

Ended(j) == signer' = [signer EXCEPT ![j] = None]

\* Mutant of Verified: round 2 deletes the nonces once the share is made.
VerifiedKeeps(j) ==
  /\ signer[j] # None /\ signer[j].at = "verify"
  /\ LET call == signer[j]
         kept == {e \in pending : e.nonce = call.nonce} IN
       IF call.commitments = {}
       THEN signer' = [signer EXCEPT ![j].at = "commit"]
       ELSE IF \A e \in kept : e.msg # call.msg THEN Ended(j)
            ELSE signer' = [signer EXCEPT ![j].at = "sign"]
  /\ UNCHANGED <<scene, now, started, sessionVars, drawn, pending, seen, shares, dkgVars>>

\* verifyProof resolved: a failed verification ends the call; round 1 goes on to
\* draw a nonce; round 2 takes its nonces out before it compares the message.
Verified(j) ==
  /\ signer[j] # None /\ signer[j].at = "verify"
  /\ LET call == signer[j]
         kept == {e \in pending : e.nonce = call.nonce} IN
       \/ Ended(j) /\ UNCHANGED <<pending, seen>>
       \/ /\ seen' = IF scene.tlsn THEN seen \union {call.by} ELSE seen
          /\ IF call.commitments = {}
             THEN signer' = [signer EXCEPT ![j].at = "commit"] /\ UNCHANGED pending
             ELSE /\ pending' = pending \ kept
                  /\ IF \A e \in kept : e.msg # call.msg THEN Ended(j)
                     ELSE signer' = [signer EXCEPT ![j].at = "sign"]
  /\ UNCHANGED <<scene, now, started, sessionVars, drawn, shares, dkgVars>>

\* signRound1 resolved.
Committed(j) ==
  /\ signer[j] # None /\ signer[j].at = "commit"
  /\ LET s == signer[j].by
         nonce == <<s, drawn[s] + 1>> IN
       \E ok \in runFrostCommand(drawn[s] < scene.nonces[s]) :
         IF ok THEN /\ drawn' = [drawn EXCEPT ![s] = @ + 1]
                    /\ pending' = pending \union {[nonce |-> nonce, msg |-> signer[j].msg]}
         ELSE UNCHANGED <<drawn, pending>>
  /\ Ended(j)
  /\ UNCHANGED <<scene, now, started, sessionVars, seen, shares, dkgVars>>

\* signRound2 resolved.
Signed(j) ==
  /\ signer[j] # None /\ signer[j].at = "sign"
  /\ LET call == signer[j] IN
       \E ok \in runFrostCommand(CanSign(call.nonce, call.commitments)) :
         shares' = IF ok
                   THEN shares \union {[nonce |-> call.nonce, msg |-> call.msg,
                                        commitments |-> call.commitments]}
                   ELSE shares
  /\ Ended(j)
  /\ UNCHANGED <<scene, now, started, sessionVars, drawn, pending, seen, dkgVars>>

-----------------------------------------------------------------------------
(* Key generation.                                                         *)

\* initDkg, after the eviction.
InitDkg(id) ==
  /\ dkg' = [KeptDkg EXCEPT ![id] =
       [round |-> 0, round1 |-> [s \in Signers |-> 0], round2 |-> [s \in Signers |-> 0],
        keys |-> [s \in Signers |-> None], group |-> None, created |-> now]]
  /\ signing' = KeptSessions /\ querySession' = KeptQueries

\* POST /frost/dkg/init
PostDkgInit ==
  LET id == started["dkg"] + 1 IN
  /\ Host("dkg") /\ id <= scene.sessions
  /\ started' = [started EXCEPT !["dkg"] = id]
  /\ InitDkg(id)
  /\ UNCHANGED <<scene, now, newest, aggregating, signerVars, local, posted>>

Post(id, round, s, attempt, key) ==
  posted' = posted \union {[id |-> id, round |-> round, from |-> s, attempt |-> attempt,
                            key |-> key]}

\* dkgRound(1): a new secret polynomial.  A signer that lost its secret before it
\* sent its shares of this session begins again, or goes on to another session.
DkgRound1(s, id) ==
  /\ dkg[id] # None /\ local[s].attempt < MaxAttempts
  /\ ~\E p \in posted : p.id = id /\ p.from = s /\ p.round = 2
  /\ TRUE \in runFrostCommand(TRUE)
  /\ local' = [local EXCEPT ![s] = [id |-> id, attempt |-> FreshSecret(s), done |-> 1]]
  /\ Post(id, 1, s, FreshSecret(s), None)
  /\ UNCHANGED <<scene, now, started, sessionVars, signerVars, dkg>>

\* dkgRound(2): needs the packages of all others, makes one for each.
DkgRound2(s) ==
  /\ local[s].done = 1 /\ dkg[local[s].id] # None
  /\ TRUE \in runFrostCommand(CanShare(dkg[local[s].id], s))
  /\ local' = [local EXCEPT ![s].done = 2]
  /\ Post(local[s].id, 2, s, local[s].attempt, None)
  /\ UNCHANGED <<scene, now, started, sessionVars, signerVars, dkg>>

\* dkgRound(3): the key this signer derives from what it was given.
DkgRound3(s) ==
  /\ local[s].done = 2 /\ dkg[local[s].id] # None
  /\ LET session == dkg[local[s].id] IN
       /\ \A t \in Signers \ {s} : session.round1[t] # 0 /\ session.round2[t] # 0
       /\ TRUE \in runFrostCommand(CanFinish(session, s))
       /\ Post(local[s].id, 3, s, local[s].attempt, GroupKey(session, s))
  /\ local' = [local EXCEPT ![s].done = 3]
  /\ UNCHANGED <<scene, now, started, sessionVars, signerVars, dkg>>

AllIn(f, missing) == \A s \in Signers : f[s] # missing

\* submitDkgPackage: a session with one more package.
Accept(session, p) ==
  LET with == CASE p.round = 1 -> [session EXCEPT !.round1[p.from] = p.attempt]
                [] p.round = 2 -> [session EXCEPT !.round2[p.from] = p.attempt]
                [] p.round = 3 -> [session EXCEPT !.keys[p.from] = p.key,
                                     !.group = IF @ = None THEN p.key ELSE @]
      full == CASE p.round = 1 -> AllIn(with.round1, 0)
                [] p.round = 2 -> AllIn(with.round2, 0)
                [] p.round = 3 -> AllIn(with.keys, None)
  IN IF full THEN [with EXCEPT !.round = p.round] ELSE with

\* POST /frost/dkg/:sessionId/round/:n
SubmitDkgPackage(p) ==
  /\ p \in posted /\ dkg[p.id] # None
  /\ dkg' = [dkg EXCEPT ![p.id] = Accept(@, p)]
  /\ UNCHANGED <<scene, now, started, sessionVars, signerVars, local, posted>>

-----------------------------------------------------------------------------

Tick ==
  /\ now < scene.until /\ now' = now + 1
  /\ UNCHANGED <<scene, started, sessionVars, signerVars, dkgVars>>

KnownCommitments == {Present(signing[i].commitments) : i \in {k \in Ids : signing[k] # None}}

Next ==
  \/ Tick
  \/ \E q \in scene.queries, m \in scene.messages : PostSign(q, m)
  \/ \E i \in Ids, s \in Signers : \E k \in 1..drawn[s] : PostCommitment(i, <<s, k>>)
  \/ \E a \in Aggregators, i \in Ids : TryAggregate(a, i)
  \/ \E i \in Ids, share \in shares : PostShare(i, share)
  \/ \E a \in Aggregators : Aggregated(a)
  \/ \E j \in Slots, s \in Signers, m \in scene.messages :
       \/ VerifyAndSign(j, s, m, {}, None)
       \/ \E commitments \in KnownCommitments \ {{}} : \E k \in 1..drawn[s] :
            VerifyAndSign(j, s, m, commitments, <<s, k>>)
  \/ \E j \in Slots : Verified(j) \/ Committed(j) \/ Signed(j)
  \/ PostDkgInit
  \/ \E s \in Signers : DkgRound2(s) \/ DkgRound3(s) \/ \E i \in Ids : DkgRound1(s, i)
  \/ \E p \in posted : SubmitDkgPackage(p)

Spec == Init /\ [][Next]_vars

-----------------------------------------------------------------------------
(* Properties.                                                             *)

\* evictStaleSessions and startSigning: a query's entry always names a session
\* of that query that is still there, and names the newest one as long as that
\* is there, whatever older session of the query is evicted.
NewestSessionIsNamed ==
  \A q \in Queries :
    /\ querySession[q] # None =>
         signing[querySession[q]] # None /\ signing[querySession[q]].query = q
    /\ newest[q] # None /\ signing[newest[q]] # None => querySession[q] = newest[q]

\* tryAggregate: a finalized session has a signature over its own message, made
\* of shares of Threshold signers that were all made for this message and these
\* commitments, even if shares were replaced while the process ran.
SignatureIsEarned ==
  \A i \in Ids : signing[i] # None /\ signing[i].signature # None =>
    LET sig == signing[i].signature IN
      /\ sig.msg = signing[i].message
      /\ Cardinality({k[1] : k \in sig.commitments}) >= Threshold
      /\ \A k \in sig.commitments :
           [nonce |-> k, msg |-> sig.msg, commitments |-> sig.commitments] \in shares

\* submitNonceCommitment and submitSignatureShare: a finalized session is not
\* written any more, though calls that began before go on.
FinalizedIsFrozen ==
  [][\A i \in Ids : signing[i] # None /\ signing[i].signature # None /\ signing'[i] # None =>
       /\ signing'[i].commitments = signing[i].commitments
       /\ signing'[i].shares = signing[i].shares
       /\ signing'[i].signature # None]_vars

\* createFrostSigner: "each session's nonces are consumed exactly once", with
\* overlapping and repeated calls of round 2.
SignerNonceUsedOnce == \A s, t \in shares : s.nonce = t.nonce => s = t

\* dkgRound, submitDkgPackage: once every signer of a session has its key, all
\* have the same one and the session reports it, though packages arrive late or
\* again and a signer may begin again before it sent its round-2 packages.
KeysAgree ==
  \A i \in Ids : dkg[i] # None /\ AllIn(dkg[i].keys, None) =>
    \A s \in Signers : dkg[i].keys[s] = dkg[i].group
=============================================================================
